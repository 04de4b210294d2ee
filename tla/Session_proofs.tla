---------------------------- MODULE Session_proofs ----------------------------
(***************************************************************************)
(* What holds of every session of the dispatcher, for any list of packages *)
(* and any number of sessions and interruptions.                           *)
(***************************************************************************)
EXTENDS Session, TLAPS

Statuses == {"absent", "fresh", "torn", "ported"}

\* Before the loop: nothing has run, and nothing is agreed to before the
\* first reply.
BeforeLoop ==
  /\ pc \in {"arguments", "confirm", "download"} =>
       ran = {} /\ fetched = "none" /\ next = 1 /\ ported = <<>>
  /\ pc \in {"arguments", "confirm"} => ~confirmed
  /\ pc \in {"download", "loop", "porter"} => confirmed

\* The porter at work has a package, and what it failed at is noted.
Current ==
  pc = "porter" => /\ status[Package] # "absent" /\ Package \in ran
                   /\ hitch => Package \in broken

\* The packages that the loop has passed.
Healed(p) ==
  p \in Present /\ p \notin broken /\ (fetched = "done" \/ p \in Repairable \cap Idempotent) =>
    status[p] = "ported"

Passed ==
  (pc \in {"loop", "porter"} \/ Summarised) /\ arg = "module" =>
    \A k \in 1..Len(Pkgs) : k < next => Healed(Pkgs[k])

\* The packages that it has not, after a download: no porter has been there.
Ahead ==
  pc \in {"loop", "porter"} /\ arg = "module" /\ fetched = "done" =>
    \A k \in 1..Len(Pkgs) :
      /\ k >= next => Pkgs[k] \in sound \cup broken
      /\ k > next \/ (k = next /\ pc = "loop") => status[Pkgs[k]] \in {"absent", "fresh"}

\* The packages listed so far are those passed that were there, and no
\* porter makes a package appear or disappear.
Listing ==
  (pc \in {"loop", "porter"} \/ Summarised) /\ arg = "module" =>
    /\ \A k \in 1..Len(Pkgs) : began[Pkgs[k]] = "absent" <=> status[Pkgs[k]] = "absent"
    /\ \A k \in 1..Len(Pkgs) :
         k < next /\ began[Pkgs[k]] # "absent" => \E i \in 1..Len(ported) : ported[i] = Pkgs[k]
    /\ \A i \in 1..Len(ported) :
         \E k \in 1..Len(Pkgs) : k < next /\ ported[i] = Pkgs[k] /\ began[Pkgs[k]] # "absent"
    /\ \A i, j \in 1..Len(ported) : i < j => Before(ported[i], ported[j])

IInv ==
  /\ TypeOK /\ BeforeLoop /\ FailedDownloadStops
  /\ Current /\ Passed /\ Ahead /\ Listing

-----------------------------------------------------------------------------
(* The list of packages.                                                   *)

LEMMA PackageList ==
  /\ Len(Pkgs) \in Nat
  /\ \A k \in 1..Len(Pkgs) : Pkgs[k] \in PkgSet
  /\ \A p \in PkgSet : \E k \in 1..Len(Pkgs) : Pkgs[k] = p
  /\ \A j, k \in 1..Len(Pkgs) : Pkgs[j] = Pkgs[k] => j = k
  /\ MaxSessions \in Nat /\ Arguments \subseteq ArgumentKinds
BY SessionAssumption DEF SessionAssumption, PkgSet

\* The package of the loop is none of those it has passed or has ahead.
LEMMA OtherPackages ==
  ASSUME TypeOK, next <= Len(Pkgs)
  PROVE  /\ next \in 1..Len(Pkgs) /\ Package \in PkgSet
         /\ \A k \in 1..Len(Pkgs) : k # next => Pkgs[k] # Package
<1>1. next \in 1..Len(Pkgs)
  BY PackageList DEF TypeOK
<1>2. Package = Pkgs[next]
  BY DEF Package
<1> QED
  BY <1>1, <1>2, PackageList

LEMMA VendoredStatuses ==
  ASSUME NEW f \in [PkgSet -> {"absent", "fresh"}]
  PROVE  f \in [PkgSet -> Statuses]
BY DEF Statuses

-----------------------------------------------------------------------------
(* Types.                                                                  *)

LEMMA InitInv == Init => IInv
<1> SUFFICES ASSUME Init PROVE IInv
  OBVIOUS
<1>1. status \in [PkgSet -> Statuses]
  BY VendoredStatuses DEF Init
<1>2. TypeOK
  <2>1. next \in 1..(Len(Pkgs) + 1) /\ sessions \in 0..MaxSessions
    <3>1. next = 1 /\ sessions = 0
      BY DEF Init
    <3> QED
      BY <3>1, PackageList
  <2>2. ported \in Seq(PkgSet) /\ arg \in ArgumentKinds
    BY DEF Init, ArgumentKinds
  <2>3. /\ pc = "shell" /\ caller = "untouched" /\ rc = 0 /\ fetched = "none" /\ began = status
        /\ sound = PkgSet /\ ran = {} /\ broken = {} /\ hitch = FALSE /\ confirmed = FALSE
    BY DEF Init
  <2> QED
    BY <1>1, <2>1, <2>2, <2>3 DEF TypeOK, Statuses
<1> QED
  BY <1>2 DEF Init, IInv, BeforeLoop, FailedDownloadStops, Current, Passed, Ahead, Listing,
                   Summarised

\* What an interrupted download leaves is vendored, or as it was.
LEMMA CutShortType ==
  ASSUME TypeOK, CutShort
  PROVE  /\ status' \in [PkgSet -> Statuses]
         /\ caller' \in {"untouched", "rewritten"} /\ sound' \subseteq PkgSet
         /\ \/ UNCHANGED <<status, sound>>
            \/ status' \in [PkgSet -> {"absent", "fresh"}] /\ sound' = PkgSet
<1>1. \/ UNCHANGED <<status, sound>>
      \/ status' \in [PkgSet -> {"absent", "fresh"}] /\ sound' = PkgSet
  BY DEF CutShort
<1>2. caller' \in {caller, "rewritten"}
  BY DEF CutShort
<1> QED
  BY <1>1, <1>2, VendoredStatuses DEF TypeOK, Statuses

\* One package changes its status.
LEMMA StatusType ==
  ASSUME TypeOK, NEW s \in {"torn", "ported"} \cup P!Disturbed,
         next <= Len(Pkgs), status' = [status EXCEPT ![Package] = s]
  PROVE  /\ status' \in [PkgSet -> Statuses]
         /\ status'[Package] = s
         /\ s # "absent"
         /\ \A k \in 1..Len(Pkgs) : k # next => status'[Pkgs[k]] = status[Pkgs[k]]
<1>1. Package \in PkgSet /\ status \in [PkgSet -> Statuses]
  BY OtherPackages DEF TypeOK, Statuses
<1>2. s \in Statuses /\ s # "absent"
  BY <1>1 DEF P!Disturbed, Statuses
<1>3. status' \in [PkgSet -> Statuses] /\ status'[Package] = s
  BY <1>1, <1>2
<1>4. \A k \in 1..Len(Pkgs) : k # next => status'[Pkgs[k]] = status[Pkgs[k]]
  BY <1>1, OtherPackages, PackageList
<1> QED
  BY <1>2, <1>3, <1>4

\* What happens to a package while its porter runs.
LEMMA PorterChanges ==
  ASSUME TypeOK, PorterWorks \/ PorterStumbles \/ PorterBreaks
  PROVE  /\ pc = "porter" /\ next <= Len(Pkgs)
         /\ status' \in [PkgSet -> Statuses]
         /\ status'[Package] # "absent"
         /\ \A k \in 1..Len(Pkgs) : k # next => status'[Pkgs[k]] = status[Pkgs[k]]
<1>1. pc = "porter" /\ next <= Len(Pkgs)
  BY DEF PorterWorks, PorterStumbles, PorterBreaks, TypeOK
<1>2. PICK s \in {"torn", "ported"} \cup P!Disturbed :
        status' = [status EXCEPT ![Package] = s]
  BY DEF PorterWorks, PorterStumbles, PorterBreaks
<1> QED
  BY <1>1, <1>2, StatusType

LEMMA NextType == TypeOK /\ Current /\ [Next]_vars => TypeOK'
<1> SUFFICES ASSUME TypeOK, Current, [Next]_vars PROVE TypeOK'
  OBVIOUS
<1> USE DEF TypeOK
<1>0. Len(Pkgs) \in Nat /\ MaxSessions \in Nat /\ Arguments \subseteq ArgumentKinds
  BY PackageList
<1>1. CASE Start
  <2>0. sessions < MaxSessions /\ sessions' = sessions + 1 /\ arg' \in Arguments
    BY <1>1 DEF Start
  <2>1. sessions' \in 0..MaxSessions /\ arg' \in ArgumentKinds
    <3>1. sessions' \in 0..MaxSessions
      BY <1>0, <2>0
    <3> QED
      BY <1>0, <2>0, <3>1
  <2>2. next' = 1 /\ ported' = <<>> /\ pc' = "arguments"
    BY <1>1 DEF Start
  <2>3. next' \in 1..(Len(Pkgs) + 1) /\ ported' \in Seq(PkgSet)
    BY <1>0, <2>2
  <2>4. /\ UNCHANGED <<status, caller, rc, sound, hitch, began>>
        /\ confirmed' = FALSE /\ fetched' = "none" /\ ran' = {} /\ broken' = {}
    BY <1>1 DEF Start, vendor
  <2> QED
    BY <2>1, <2>2, <2>3, <2>4
<1>2. CASE ReadArgument
  BY <1>2 DEF ReadArgument, Exit, vendor, history
<1>3. CASE Confirm
  BY <1>3 DEF Confirm, Exit, vendor
<1>4. CASE SkipDownload
  BY <1>4 DEF SkipDownload, vendor
<1>5. CASE Download \/ DownloadFails
  <2>1. status' \in [PkgSet -> Statuses]
    BY <1>5, CutShortType, VendoredStatuses DEF Download, DownloadFails, Statuses
  <2>2. caller' \in {"untouched", "rewritten"} /\ sound' \subseteq PkgSet
    BY <1>5, CutShortType DEF Download, DownloadFails
  <2>3. /\ pc' \in {"loop", "shell"} /\ rc' \in {0, 1, 130} /\ fetched' \in {"done", "failed"}
        /\ began' \in {began, status'}
        /\ UNCHANGED <<arg, next, ported, sessions, hitch, confirmed, ran, broken>>
    BY <1>5 DEF Download, DownloadFails, Exit
  <2> QED
    BY <2>1, <2>2, <2>3 DEF Statuses
<1>6. CASE PassPackage
  BY <1>0, <1>6 DEF PassPackage, vendor, history
<1>7. CASE RunPorter
  <2>1. Package \in PkgSet
    BY <1>7, OtherPackages DEF RunPorter
  <2> QED
    BY <1>0, <1>7, <2>1 DEF RunPorter, vendor
<1>8. CASE PorterWorks
  <2>1. status' \in [PkgSet -> Statuses]
    BY <1>8, PorterChanges
  <2> QED
    BY <1>8, <2>1 DEF PorterWorks, control, history, Statuses
<1>9. CASE PorterStumbles \/ PorterBreaks
  <2>1. status' \in [PkgSet -> Statuses] /\ Package \in PkgSet /\ next <= Len(Pkgs) /\ pc = "porter"
    BY <1>9, PorterChanges, OtherPackages
  <2>2. Package \in ran
    BY <2>1 DEF Current
  <2>3. sound' \subseteq PkgSet /\ broken' \subseteq ran' /\ ran' = ran
    BY <1>9, <2>2 DEF PorterStumbles, PorterBreaks
  <2>4. CASE PorterStumbles
    BY <2>1, <2>3, <2>4 DEF PorterStumbles, control, Statuses
  <2>5. CASE PorterBreaks
    <3>1. next' = next + 1 /\ pc' = "loop" /\ ported' \in Seq(PkgSet)
      BY <2>1, <2>5 DEF PorterBreaks, NextPackage
    <3> QED
      BY <1>0, <2>1, <2>3, <2>5, <3>1 DEF PorterBreaks, Statuses
  <2> QED
    BY <1>9, <2>4, <2>5
<1>10. CASE PorterEnds
  <2>1. Package \in PkgSet /\ next <= Len(Pkgs)
    BY <1>10, OtherPackages DEF PorterEnds
  <2>2. next' = next + 1 /\ pc' = "loop" /\ ported' \in Seq(PkgSet)
    BY <1>10, <2>1 DEF PorterEnds, NextPackage
  <2> QED
    BY <1>0, <1>10, <2>1, <2>2 DEF PorterEnds, vendor, history
<1>11. CASE Summary
  BY <1>11 DEF Summary, Exit, vendor, history
<1>12. CASE Interrupt
  <2>1. pc = "porter" => Package \in ran
    BY DEF Current
  <2>2. status' \in [PkgSet -> Statuses] /\ caller' \in {"untouched", "rewritten"}
        /\ sound' \subseteq PkgSet
    <3>1. CASE pc = "download"
      BY <1>12, <3>1, CutShortType DEF Interrupt
    <3>2. CASE pc # "download"
      BY <1>12, <3>2 DEF Interrupt, vendor, Statuses
    <3> QED
      BY <3>1, <3>2
  <2>3. broken' \subseteq ran' /\ ran' = ran
    BY <1>12, <2>1 DEF Interrupt
  <2> QED
    BY <1>12, <2>2, <2>3 DEF Interrupt, Exit, Statuses
<1>13. CASE UNCHANGED vars
  BY <1>13 DEF vars, vendor, control, history
<1> QED
  BY <1>1, <1>2, <1>3, <1>4, <1>5, <1>6, <1>7, <1>8, <1>9, <1>10, <1>11, <1>12, <1>13
     DEF Next, Dispatcher, Porter

-----------------------------------------------------------------------------
(* The stages of a session.                                                *)

\* A step that leaves a session where the stages say nothing of packages.
LEMMA NextStages ==
  ASSUME TypeOK, BeforeLoop, FailedDownloadStops, Current, [Next]_vars
  PROVE  BeforeLoop' /\ FailedDownloadStops' /\ Current'
<1> USE DEF BeforeLoop, FailedDownloadStops, Current
<1>1. CASE Start
  BY <1>1 DEF Start
<1>2. CASE ReadArgument
  BY <1>2 DEF ReadArgument, Exit, history
<1>3. CASE Confirm
  BY <1>3 DEF Confirm, Exit
<1>4. CASE SkipDownload
  BY <1>4 DEF SkipDownload
<1>5. CASE Download
  BY <1>5 DEF Download
<1>6. CASE DownloadFails
  BY <1>6 DEF DownloadFails, Exit
<1>7. CASE PassPackage
  BY <1>7 DEF PassPackage, history
<1>8. CASE RunPorter
  <2>1. status[Package] # "absent" /\ UNCHANGED <<status, next>>
    BY <1>8 DEF RunPorter, Found, Present, vendor
  <2>2. Package' = Package
    BY <2>1 DEF Package
  <2> QED
    BY <1>8, <2>1, <2>2 DEF RunPorter
<1>9. CASE PorterWorks \/ PorterStumbles
  <2>1. status'[Package] # "absent"
    BY <1>9, PorterChanges
  <2>2. UNCHANGED <<control, fetched, ran, confirmed>> /\ (hitch' => Package \in broken')
    BY <1>9 DEF PorterWorks, PorterStumbles, history
  <2>3. UNCHANGED <<pc, next, rc>>
    BY <2>2 DEF control
  <2>4. Package' = Package /\ status'[Package'] = status'[Package]
    BY <2>3 DEF Package
  <2> QED
    BY <1>9, <2>1, <2>2, <2>3, <2>4, PorterChanges
<1>10. CASE PorterEnds \/ PorterBreaks
  <2>1. pc = "porter" /\ pc' = "loop" /\ UNCHANGED <<fetched, confirmed>>
    BY <1>10 DEF PorterEnds, PorterBreaks, NextPackage, history
  <2> QED
    BY <2>1
<1>11. CASE Summary
  BY <1>11 DEF Summary, Exit, history
<1>12. CASE Interrupt
  BY <1>12 DEF Interrupt, Exit
<1>13. CASE UNCHANGED vars
  <2>1. UNCHANGED <<vendor, control, history>> /\ Package' = Package
    BY <1>13 DEF vars, control, Package
  <2> QED
    BY <2>1 DEF vendor, control, history
<1> QED
  BY <1>1, <1>2, <1>3, <1>4, <1>5, <1>6, <1>7, <1>8, <1>9, <1>10, <1>11, <1>12, <1>13
     DEF Next, Dispatcher, Porter

-----------------------------------------------------------------------------
(* The packages that the loop has passed and those it has ahead.           *)

\* A package that nothing is done to stays as the loop left it.
LEMMA HealedStays ==
  ASSUME NEW p, Healed(p), status'[p] = status[p], broken \subseteq broken', fetched' = fetched
  PROVE  Healed(p)'
BY DEF Healed, Present

\* A step within the loop leaves the package at work healed, if it is passed.
LEMMA NextPassed ==
  ASSUME IInv, [Next]_vars
  PROVE  Passed'
<1> USE DEF Passed
<1>0. TypeOK /\ BeforeLoop /\ Current /\ Passed /\ Ahead
  BY DEF IInv
<1>1. CASE Start
  BY <1>1 DEF Start, Summarised
<1>2. CASE ReadArgument
  BY <1>0, <1>2 DEF ReadArgument, Exit, Summarised, BeforeLoop, history
<1>3. CASE Confirm
  BY <1>0, <1>3 DEF Confirm, Exit, Summarised, BeforeLoop
<1>4. CASE SkipDownload \/ Download
  <2>1. next' = 1
    BY <1>0, <1>4 DEF SkipDownload, Download, BeforeLoop
  <2> QED
    BY <2>1, PackageList
<1>5. CASE DownloadFails
  BY <1>5 DEF DownloadFails, Exit, Summarised
<1>6. CASE PassPackage
  <2>1. /\ pc = "loop" /\ pc' = "loop" /\ next' = next + 1 /\ ~Found(Package)
        /\ UNCHANGED <<status, arg, broken, fetched>>
    BY <1>6 DEF PassPackage, vendor, history
  <2> SUFFICES ASSUME arg = "module", NEW k \in 1..Len(Pkgs), k < next' PROVE Healed(Pkgs[k])'
    BY <2>1
  <2>2. CASE k < next
    BY <1>0, <2>1, <2>2, HealedStays
  <2>3. CASE k = next
    <3>1. Pkgs[k] \notin Present
      BY <2>1, <2>3 DEF Found, Package
    <3>2. Healed(Pkgs[k])
      BY <3>1 DEF Healed
    <3> QED
      BY <2>1, <3>2, HealedStays
  <2> QED
    BY <1>0, <2>1, <2>2, <2>3 DEF TypeOK
<1>7. CASE RunPorter
  <2>1. pc = "loop" /\ pc' = "porter" /\ UNCHANGED <<status, arg, next, broken, fetched>>
    BY <1>7 DEF RunPorter, vendor
  <2> SUFFICES ASSUME arg = "module", NEW k \in 1..Len(Pkgs), k < next PROVE Healed(Pkgs[k])'
    BY <2>1
  <2> QED
    BY <1>0, <2>1, HealedStays
<1>8. CASE PorterWorks \/ PorterStumbles
  <2>1. /\ pc = "porter" /\ UNCHANGED <<pc, arg, next, fetched>> /\ broken \subseteq broken'
        /\ \A k \in 1..Len(Pkgs) : k # next => status'[Pkgs[k]] = status[Pkgs[k]]
    BY <1>0, <1>8, PorterChanges DEF PorterWorks, PorterStumbles, control, history
  <2> SUFFICES ASSUME arg = "module", NEW k \in 1..Len(Pkgs), k < next PROVE Healed(Pkgs[k])'
    BY <2>1 DEF Summarised
  <2>2. k # next
    BY <1>0 DEF TypeOK
  <2> QED
    BY <1>0, <2>1, <2>2, HealedStays
<1>9. CASE PorterEnds
  <2>1. /\ pc = "porter" /\ pc' = "loop" /\ next' = next + 1
        /\ UNCHANGED <<status, arg, broken, fetched>>
    BY <1>9 DEF PorterEnds, NextPackage, vendor, history
  <2> SUFFICES ASSUME arg = "module", NEW k \in 1..Len(Pkgs), k < next' PROVE Healed(Pkgs[k])'
    BY <2>1
  <2>2. CASE k < next
    BY <1>0, <2>1, <2>2, HealedStays
  <2>3. CASE k = next
    <3>1. Pkgs[k] = Package
      BY <2>3 DEF Package
    <3>2. Pkgs[k] \notin broken => ~hitch
      BY <1>0, <2>1, <3>1 DEF Current
    <3>3. fetched = "done" => Pkgs[k] \in sound \cup broken
      BY <1>0, <2>1, <2>3 DEF Ahead
    <3>4. Pkgs[k] \in sound \/ (Pkgs[k] \in Repairable \cap Idempotent /\ ~hitch)
             => status[Pkgs[k]] = "ported"
      BY <1>9, <3>1 DEF PorterEnds, P!Ends
    <3>5. Healed(Pkgs[k])
      BY <3>2, <3>3, <3>4 DEF Healed
    <3> QED
      BY <2>1, <3>5, HealedStays
  <2> QED
    BY <1>0, <2>1, <2>2, <2>3 DEF TypeOK
<1>10. CASE PorterBreaks
  <2>1. /\ pc = "porter" /\ pc' = "loop" /\ next' = next + 1
        /\ broken' = broken \cup {Package} /\ UNCHANGED <<arg, fetched>>
        /\ \A k \in 1..Len(Pkgs) : k # next => status'[Pkgs[k]] = status[Pkgs[k]]
    BY <1>0, <1>10, PorterChanges DEF PorterBreaks, NextPackage
  <2> SUFFICES ASSUME arg = "module", NEW k \in 1..Len(Pkgs), k < next' PROVE Healed(Pkgs[k])'
    BY <2>1
  <2>2. CASE k < next
    <3>1. k # next
      BY <1>0, <2>2 DEF TypeOK
    <3> QED
      BY <1>0, <2>1, <2>2, <3>1, HealedStays
  <2>3. CASE k = next
    <3>1. Pkgs[k] \in broken'
      BY <2>1, <2>3 DEF Package
    <3> QED
      BY <3>1 DEF Healed
  <2> QED
    BY <1>0, <2>1, <2>2, <2>3 DEF TypeOK
<1>11. CASE Summary
  <2>1. pc = "loop" /\ UNCHANGED <<status, arg, next, broken, fetched>>
    BY <1>11 DEF Summary, vendor, history
  <2> SUFFICES ASSUME arg = "module", NEW k \in 1..Len(Pkgs), k < next PROVE Healed(Pkgs[k])'
    BY <2>1
  <2> QED
    BY <1>0, <2>1, HealedStays
<1>12. CASE Interrupt
  BY <1>12 DEF Interrupt, Exit, Summarised
<1>13. CASE UNCHANGED vars
  <2>1. UNCHANGED <<vendor, control, history>>
    BY <1>13 DEF vars
  <2>2. UNCHANGED <<status, pc, arg, next, rc, confirmed, broken, fetched>>
    BY <2>1 DEF vendor, control, history
  <2> SUFFICES ASSUME pc \in {"loop", "porter"} \/ Summarised, arg = "module",
                      NEW k \in 1..Len(Pkgs), k < next
               PROVE  Healed(Pkgs[k])'
    BY <2>2 DEF Summarised
  <2> QED
    BY <1>0, <2>2, HealedStays
<1> QED
  BY <1>1, <1>2, <1>3, <1>4, <1>5, <1>6, <1>7, <1>8, <1>9, <1>10, <1>11, <1>12, <1>13
     DEF Next, Dispatcher, Porter

\* What the loop has ahead after a download stays as it was downloaded.
LEMMA NextAhead ==
  ASSUME IInv, [Next]_vars
  PROVE  Ahead'
<1> USE DEF Ahead
<1>0. TypeOK /\ BeforeLoop /\ FailedDownloadStops /\ Ahead
  BY DEF IInv
<1>1. CASE Start \/ ReadArgument \/ Confirm \/ DownloadFails \/ Summary \/ Interrupt
  BY <1>1 DEF Start, ReadArgument, Confirm, DownloadFails, Summary, Interrupt, Exit
<1>2. CASE SkipDownload
  BY <1>0, <1>2 DEF SkipDownload, BeforeLoop
<1>3. CASE Download
  <2> SUFFICES ASSUME arg = "module", NEW k \in 1..Len(Pkgs)
               PROVE  Pkgs[k] \in sound' /\ status'[Pkgs[k]] \in {"absent", "fresh"}
    BY <1>3 DEF Download
  <2>1. sound' = PkgSet /\ status' \in [PkgSet -> {"absent", "fresh"}]
    BY <1>3 DEF Download
  <2>2. Pkgs[k] \in PkgSet
    BY PackageList
  <2> QED
    BY <2>1, <2>2
<1>4. CASE PassPackage \/ PorterEnds
  <2>1. /\ pc \in {"loop", "porter"} /\ next' = next + 1 /\ next \in Nat
        /\ UNCHANGED <<status, arg, fetched, sound, broken>>
    BY <1>0, <1>4 DEF PassPackage, PorterEnds, NextPackage, vendor, history, TypeOK
  <2> SUFFICES ASSUME arg = "module", fetched = "done", NEW k \in 1..Len(Pkgs)
               PROVE  /\ k >= next + 1 => Pkgs[k] \in sound \cup broken
                      /\ k >= next + 1 => status[Pkgs[k]] \in {"absent", "fresh"}
    BY <2>1
  <2>2. k >= next + 1 => k >= next /\ k > next
    BY <2>1
  <2> QED
    BY <1>0, <2>1, <2>2
<1>5. CASE RunPorter
  <2>1. /\ pc = "loop" /\ UNCHANGED <<status, arg, next, fetched, broken>>
        /\ next <= Len(Pkgs) /\ Package \in Present
    BY <1>5 DEF RunPorter, vendor, Found
  <2> SUFFICES ASSUME arg = "module", fetched = "done", NEW k \in 1..Len(Pkgs)
               PROVE  /\ k >= next => Pkgs[k] \in sound' \cup broken
                      /\ k > next => status[Pkgs[k]] \in {"absent", "fresh"}
    BY <1>5, <2>1 DEF RunPorter
  <2>2. status[Package] = "fresh"
    <3>1. next \in 1..Len(Pkgs) /\ Package = Pkgs[next]
      BY <1>0, <2>1, OtherPackages DEF Package
    <3>2. status[Pkgs[next]] \in {"absent", "fresh"}
      BY <1>0, <2>1, <3>1
    <3> QED
      BY <2>1, <3>1, <3>2 DEF Present
  <2>3. sound' = sound
    BY <1>5, <2>2 DEF RunPorter
  <2> QED
    BY <1>0, <2>1, <2>3
<1>6. CASE PorterWorks \/ PorterStumbles \/ PorterBreaks
  <2>1. /\ pc = "porter" /\ next \in Nat
        /\ \A k \in 1..Len(Pkgs) : k # next => status'[Pkgs[k]] = status[Pkgs[k]]
    BY <1>0, <1>6, PorterChanges DEF TypeOK
  <2>2. /\ UNCHANGED <<arg, fetched>> /\ sound \cup broken \subseteq sound' \cup broken'
        /\ (pc' = "porter" /\ next' = next) \/ (pc' = "loop" /\ next' = next + 1)
    BY <1>6, <2>1 DEF PorterWorks, PorterStumbles, PorterBreaks, NextPackage, control, history
  <2> SUFFICES ASSUME arg = "module", fetched = "done", NEW k \in 1..Len(Pkgs)
               PROVE  /\ k >= next => Pkgs[k] \in sound \cup broken
                      /\ k > next => status'[Pkgs[k]] \in {"absent", "fresh"}
    BY <2>1, <2>2
  <2> QED
    BY <1>0, <2>1
<1>7. CASE UNCHANGED vars
  BY <1>0, <1>7 DEF vars, vendor, control, history
<1> QED
  BY <1>1, <1>2, <1>3, <1>4, <1>5, <1>6, <1>7 DEF Next, Dispatcher, Porter

-----------------------------------------------------------------------------
(* The list that the summary prints.                                       *)

\* A step that lists nothing, passes no package and leaves each there or not.
LEMMA ListingStays ==
  ASSUME TypeOK, Listing, pc \in {"loop", "porter"},
         UNCHANGED <<arg, next, ported, began>>,
         \A k \in 1..Len(Pkgs) : status'[Pkgs[k]] = "absent" <=> status[Pkgs[k]] = "absent"
  PROVE  Listing'
<1>1. CASE arg # "module"
  BY <1>1 DEF Listing
<1>2. CASE arg = "module"
  <2>1. /\ \A k \in 1..Len(Pkgs) : began[Pkgs[k]] = "absent" <=> status'[Pkgs[k]] = "absent"
        /\ \A k \in 1..Len(Pkgs) :
             k < next /\ began[Pkgs[k]] # "absent" => \E i \in 1..Len(ported) : ported[i] = Pkgs[k]
        /\ \A i \in 1..Len(ported) :
             \E k \in 1..Len(Pkgs) : k < next /\ ported[i] = Pkgs[k] /\ began[Pkgs[k]] # "absent"
        /\ \A i, j \in 1..Len(ported) : i < j => Before(ported[i], ported[j])
    BY <1>2 DEF Listing
  <2>2. next' = next /\ ported' = ported /\ began' = began
    OBVIOUS
  <2>3. \A k \in 1..Len(Pkgs) : began'[Pkgs[k]] = "absent" <=> status'[Pkgs[k]] = "absent"
    BY <2>1, <2>2
  <2>4. \A k \in 1..Len(Pkgs) :
          k < next' /\ began'[Pkgs[k]] # "absent" =>
            \E i \in 1..Len(ported') : ported'[i] = Pkgs[k]
    BY <2>1, <2>2
  <2>5. \A i \in 1..Len(ported') :
          \E k \in 1..Len(Pkgs) :
            k < next' /\ ported'[i] = Pkgs[k] /\ began'[Pkgs[k]] # "absent"
    BY <2>1, <2>2
  <2>6. \A i, j \in 1..Len(ported') : i < j => Before(ported'[i], ported'[j])
    BY <2>1, <2>2
  <2> QED
    BY <2>3, <2>4, <2>5, <2>6, Zenon DEF Listing, Before
<1> QED
  BY <1>1, <1>2

\* A package that was there and is listed behind those before it.
LEMMA ListingGrows ==
  ASSUME TypeOK, Listing, pc = "porter", next <= Len(Pkgs), status[Package] # "absent",
         next' = next + 1, ported' = Append(ported, Package), UNCHANGED <<arg, began>>,
         \A k \in 1..Len(Pkgs) : status'[Pkgs[k]] = "absent" <=> status[Pkgs[k]] = "absent"
  PROVE  Listing'
<1> SUFFICES ASSUME arg = "module", arg' = arg, began' = began
             PROVE  /\ \A k \in 1..Len(Pkgs) : began'[Pkgs[k]] = "absent" <=> status'[Pkgs[k]] = "absent"
                    /\ \A k \in 1..Len(Pkgs) :
                         k < next' /\ began'[Pkgs[k]] # "absent" =>
                           \E i \in 1..Len(ported') : ported'[i] = Pkgs[k]
                    /\ \A i \in 1..Len(ported') :
                         \E k \in 1..Len(Pkgs) :
                           k < next' /\ ported'[i] = Pkgs[k] /\ began'[Pkgs[k]] # "absent"
                    /\ \A i, j \in 1..Len(ported') : i < j => Before(ported'[i], ported'[j])
  <2>1. arg' = arg /\ began' = began
    OBVIOUS
  <2> QED
    BY <2>1 DEF Listing, Before
<1>1. /\ \A k \in 1..Len(Pkgs) : began[Pkgs[k]] = "absent" <=> status[Pkgs[k]] = "absent"
      /\ \A k \in 1..Len(Pkgs) :
           k < next /\ began[Pkgs[k]] # "absent" => \E i \in 1..Len(ported) : ported[i] = Pkgs[k]
      /\ \A i \in 1..Len(ported) :
           \E k \in 1..Len(Pkgs) : k < next /\ ported[i] = Pkgs[k] /\ began[Pkgs[k]] # "absent"
      /\ \A i, j \in 1..Len(ported) : i < j => Before(ported[i], ported[j])
  BY DEF Listing
<1>2. next \in 1..Len(Pkgs) /\ Package = Pkgs[next] /\ began[Pkgs[next]] # "absent" /\ next \in Nat
  BY <1>1, OtherPackages DEF Package
<1>3. ported \in Seq(PkgSet) /\ Package \in PkgSet /\ Len(ported) \in Nat
  BY OtherPackages DEF TypeOK
<1>4. /\ Len(ported') = Len(ported) + 1 /\ ported'[Len(ported) + 1] = Pkgs[next]
      /\ \A i \in 1..Len(ported) : ported'[i] = ported[i]
  BY <1>2, <1>3
<1> HIDE DEF Package
<1>5. ASSUME NEW k \in 1..Len(Pkgs), k < next', began'[Pkgs[k]] # "absent"
      PROVE  \E i \in 1..Len(ported') : ported'[i] = Pkgs[k]
  <2>1. CASE k = next
    <3>1. Len(ported) + 1 \in 1..Len(ported')
      BY <1>3, <1>4
    <3> QED
      BY <1>4, <2>1, <3>1
  <2>2. CASE k < next
    <3>1. PICK i \in 1..Len(ported) : ported[i] = Pkgs[k]
      BY <1>1, <1>5, <2>2
    <3>2. i \in 1..Len(ported')
      BY <1>3, <1>4
    <3> QED
      BY <1>4, <3>1, <3>2
  <2> QED
    BY <1>2, <1>5, <2>1, <2>2
<1>6. ASSUME NEW i \in 1..Len(ported')
      PROVE  \E k \in 1..Len(Pkgs) :
               k < next' /\ ported'[i] = Pkgs[k] /\ began'[Pkgs[k]] # "absent"
  <2>1. CASE i = Len(ported) + 1
    BY <1>2, <1>4, <2>1
  <2>2. CASE i \in 1..Len(ported)
    <3>1. PICK k \in 1..Len(Pkgs) :
            k < next /\ ported[i] = Pkgs[k] /\ began[Pkgs[k]] # "absent"
      BY <1>1, <2>2
    <3>2. k < next' /\ ported'[i] = ported[i]
      BY <1>2, <1>4, <2>2, <3>1, PackageList
    <3> QED
      BY <3>1, <3>2
  <2> QED
    BY <1>3, <1>4, <2>1, <2>2
<1>7. ASSUME NEW i \in 1..Len(ported'), NEW j \in 1..Len(ported'), i < j
      PROVE  Before(ported'[i], ported'[j])
  <2>1. i \in 1..Len(ported)
    BY <1>3, <1>4, <1>7
  <2>2. CASE j \in 1..Len(ported)
    BY <1>1, <1>4, <1>7, <2>1, <2>2
  <2>3. CASE j = Len(ported) + 1
    <3>1. PICK k \in 1..Len(Pkgs) : k < next /\ ported[i] = Pkgs[k]
      BY <1>1, <2>1
    <3> QED
      BY <1>2, <1>4, <2>1, <2>3, <3>1 DEF Before
  <2> QED
    BY <1>3, <1>4, <2>2, <2>3
<1>8. \A k \in 1..Len(Pkgs) : began'[Pkgs[k]] = "absent" <=> status'[Pkgs[k]] = "absent"
  BY <1>1
<1> QED
  BY <1>5, <1>6, <1>7, <1>8

LEMMA NextListing ==
  ASSUME IInv, [Next]_vars
  PROVE  Listing'
<1>0. TypeOK /\ BeforeLoop /\ Current /\ Listing
  BY DEF IInv
<1>1. CASE Start \/ DownloadFails \/ Interrupt
  BY <1>1 DEF Start, DownloadFails, Interrupt, Exit, Summarised, Listing
<1>2. CASE ReadArgument \/ Confirm
  BY <1>0, <1>2 DEF ReadArgument, Confirm, Exit, Summarised, BeforeLoop, Listing, history
<1>3. CASE SkipDownload \/ Download
  <2>1. began' = status' /\ next' = 1 /\ ported' = <<>>
    BY <1>0, <1>3 DEF SkipDownload, Download, BeforeLoop, vendor
  <2> QED
    BY <2>1, PackageList DEF Listing
<1>4. CASE PassPackage
  <2>1. /\ pc = "loop" /\ pc' = "loop" /\ next \in Nat /\ next' = next + 1 /\ ~Found(Package)
        /\ UNCHANGED <<status, arg, ported, began>>
    BY <1>0, <1>4 DEF PassPackage, vendor, history, TypeOK
  <2>2. arg = "module" => status[Package] = "absent"
    BY <1>0, <1>4, <2>1, OtherPackages DEF Found, Present, PassPackage
  <2>3. ASSUME arg = "module", NEW k \in 1..Len(Pkgs), k < next', began[Pkgs[k]] # "absent"
        PROVE  k < next
    <3>1. k # next
      BY <1>0, <2>1, <2>2, <2>3 DEF Listing, Package
    <3> QED
      BY <2>1, <2>3, <3>1
  <2>4. \A k \in 1..Len(Pkgs) : k < next => k < next'
    BY <2>1
  <2> QED
    BY <1>0, <2>1, <2>3, <2>4 DEF Listing, Before
<1>5. CASE RunPorter
  <2>1. pc = "loop" /\ UNCHANGED <<status, arg, next, ported, began>>
    BY <1>5 DEF RunPorter, vendor
  <2> QED
    BY <1>0, <2>1, ListingStays
<1>6. CASE PorterWorks \/ PorterStumbles \/ PorterBreaks
  <2>1. /\ pc = "porter" /\ next <= Len(Pkgs) /\ status[Package] # "absent"
        /\ status'[Package] # "absent"
        /\ \A k \in 1..Len(Pkgs) : k # next => status'[Pkgs[k]] = status[Pkgs[k]]
    BY <1>0, <1>6, PorterChanges DEF Current
  <2>2. \A k \in 1..Len(Pkgs) : status'[Pkgs[k]] = "absent" <=> status[Pkgs[k]] = "absent"
    BY <2>1 DEF Package
  <2>3. CASE PorterWorks \/ PorterStumbles
    <3>1. UNCHANGED <<arg, next, ported, began>>
      BY <2>3 DEF PorterWorks, PorterStumbles, control, history
    <3> QED
      BY <1>0, <2>1, <2>2, <3>1, ListingStays
  <2>4. CASE PorterBreaks
    <3>1. next' = next + 1 /\ ported' = Append(ported, Package) /\ UNCHANGED <<arg, began>>
      BY <2>4 DEF PorterBreaks, NextPackage
    <3> QED
      BY <1>0, <2>1, <2>2, <3>1, ListingGrows
  <2> QED
    BY <1>6, <2>3, <2>4
<1>7. CASE PorterEnds
  <2>1. /\ pc = "porter" /\ next <= Len(Pkgs) /\ status[Package] # "absent"
        /\ next' = next + 1 /\ ported' = Append(ported, Package)
        /\ UNCHANGED <<status, arg, began>>
    BY <1>0, <1>7 DEF PorterEnds, NextPackage, vendor, history, Current, TypeOK
  <2> QED
    BY <1>0, <2>1, ListingGrows
<1>8. CASE Summary
  <2>1. pc = "loop" /\ UNCHANGED <<status, arg, next, ported, began>>
    BY <1>8 DEF Summary, vendor, history
  <2> QED
    BY <1>0, <2>1, ListingStays
<1>9. CASE UNCHANGED vars
  <2>1. UNCHANGED <<status, pc, arg, next, ported, rc, confirmed, began>>
    BY <1>9 DEF vars, vendor, control, history
  <2> QED
    BY <1>0, <2>1 DEF Listing, Before, Summarised
<1> QED
  BY <1>1, <1>2, <1>3, <1>4, <1>5, <1>6, <1>7, <1>8, <1>9 DEF Next, Dispatcher, Porter

LEMMA NextInv == IInv /\ [Next]_vars => IInv'
<1> SUFFICES ASSUME IInv, [Next]_vars PROVE IInv'
  OBVIOUS
<1>1. TypeOK /\ BeforeLoop /\ FailedDownloadStops /\ Current
  BY DEF IInv
<1>2. TypeOK'
  BY <1>1, NextType
<1>3. BeforeLoop' /\ FailedDownloadStops' /\ Current'
  BY <1>1, NextStages
<1>4. Passed'
  BY NextPassed
<1>5. Ahead'
  BY NextAhead
<1>6. Listing'
  BY NextListing
<1> QED
  BY <1>2, <1>3, <1>4, <1>5, <1>6 DEF IInv

\* Behind the last package the list is that of the packages that were there.
LEMMA InvLists == IInv => ListsThePresent
<1> SUFFICES ASSUME IInv, Summarised, arg = "module"
             PROVE  /\ {ported[i] : i \in 1..Len(ported)} = {p \in PkgSet : began[p] # "absent"}
                    /\ \A i, j \in 1..Len(ported) : i < j => Before(ported[i], ported[j])
  BY DEF ListsThePresent
<1>1. next \in Nat /\ next > Len(Pkgs) /\ Listing
  BY PackageList DEF IInv, TypeOK, Summarised
<1>2. \A k \in 1..Len(Pkgs) : k < next
  BY <1>1, PackageList
<1>3. ASSUME NEW p \in PkgSet, began[p] # "absent"
      PROVE  p \in {ported[i] : i \in 1..Len(ported)}
  <2>1. PICK k \in 1..Len(Pkgs) : Pkgs[k] = p
    BY PackageList
  <2> QED
    BY <1>1, <1>2, <1>3, <2>1 DEF Listing
<1>4. ASSUME NEW i \in 1..Len(ported)
      PROVE  ported[i] \in PkgSet /\ began[ported[i]] # "absent"
  BY <1>1, PackageList DEF Listing
<1>5. {ported[i] : i \in 1..Len(ported)} = {p \in PkgSet : began[p] # "absent"}
  BY <1>3, <1>4
<1> QED
  BY <1>1, <1>5 DEF Listing

\* A summary is printed behind the last package.
LEMMA InvHeals == IInv => Heals
<1> SUFFICES ASSUME IInv, Summarised, arg = "module", broken = {}, NEW p \in Present,
                    fetched = "done" \/ p \in Repairable \cap Idempotent
             PROVE  status[p] = "ported"
  BY DEF Heals
<1>1. TypeOK /\ Passed
  BY DEF IInv
<1>2. PICK k \in 1..Len(Pkgs) : Pkgs[k] = p
  BY PackageList DEF Present
<1>3. k < next
  BY <1>1, PackageList DEF Summarised, TypeOK
<1>4. Healed(Pkgs[k])
  BY <1>1, <1>3 DEF Passed
<1> QED
  BY <1>2, <1>4 DEF Healed

-----------------------------------------------------------------------------
(* The dispatcher, seen at one package.                                    *)

\* A porter that a command has failed in is disturbed from then on.
Noted == pc = "porter" /\ hitch => Package \notin sound

LEMMA NextNoted ==
  ASSUME Noted, [Next]_vars
  PROVE  Noted'
<1> USE DEF Noted
<1>1. CASE Start \/ ReadArgument \/ Confirm
  BY <1>1 DEF Start, ReadArgument, Confirm, Exit
<1>2. CASE SkipDownload \/ Download \/ DownloadFails
  BY <1>2 DEF SkipDownload, Download, DownloadFails, Exit
<1>3. CASE PassPackage \/ Summary \/ Interrupt
  BY <1>3 DEF PassPackage, Summary, Interrupt, Exit
<1>4. CASE RunPorter
  BY <1>4 DEF RunPorter
<1>5. CASE PorterWorks
  BY <1>5 DEF PorterWorks, control, history, Package
<1>6. CASE PorterStumbles
  BY <1>6 DEF PorterStumbles, control, Package
<1>7. CASE PorterEnds \/ PorterBreaks
  BY <1>7 DEF PorterEnds, PorterBreaks, NextPackage
<1>8. CASE UNCHANGED vars
  BY <1>8 DEF vars, control, history, Package
<1> QED
  BY <1>1, <1>2, <1>3, <1>4, <1>5, <1>6, <1>7, <1>8 DEF Next, Dispatcher, Porter

LEMMA InitPromises ==
  ASSUME Init, NEW p \in PkgSet
  PROVE  V(p)!Init
<1>1. status[p] \in {"absent", "fresh"} /\ p \in sound /\ pc = "shell" /\ hitch = FALSE
  BY DEF Init
<1> QED
  BY <1>1 DEF V!Init, AtWorkOn

\* A step at another package, or at none, leaves p as it is.
LEMMA FarFromPackage ==
  ASSUME NEW p, ~AtWorkOn(p), ~AtWorkOn(p)', status'[p] = status[p], p \in sound' <=> p \in sound
  PROVE  UNCHANGED V(p)!vars
<1>1. (p \in sound') = (p \in sound)
  OBVIOUS
<1> QED
  BY <1>1 DEF V!vars

LEMMA NextPromises ==
  ASSUME TypeOK, Current, Noted, [Next]_vars, NEW p \in Idempotent
  PROVE  [V(p)!Next]_(V(p)!vars)
<1>0. p \in PkgSet /\ status[p] \in Statuses /\ hitch \in BOOLEAN
  BY SessionAssumption DEF SessionAssumption, TypeOK, Statuses
<1>1. CASE Start \/ ReadArgument \/ Confirm \/ SkipDownload \/ PassPackage \/ Summary
  <2>1. ~AtWorkOn(p) /\ ~AtWorkOn(p)' /\ status' = status /\ sound' = sound
    BY <1>1 DEF Start, ReadArgument, Confirm, SkipDownload, PassPackage, Summary, Exit, AtWorkOn,
                vendor, history
  <2> QED
    BY <2>1, FarFromPackage
<1>2. CASE Download \/ DownloadFails \/ (Interrupt /\ pc = "download")
  <2>1. pc = "download" /\ pc' # "porter"
    BY <1>2 DEF Download, DownloadFails, Interrupt, Exit
  <2>2. ~AtWorkOn(p) /\ ~AtWorkOn(p)'
    BY <2>1 DEF AtWorkOn
  <2>3. \/ status' = status /\ sound' = sound
        \/ status' \in [PkgSet -> {"absent", "fresh"}] /\ sound' = PkgSet
    BY <1>2, CutShortType DEF Download, DownloadFails, Interrupt
  <2>4. CASE status' = status /\ sound' = sound
    BY <2>2, <2>4, FarFromPackage
  <2>5. CASE status' \in [PkgSet -> {"absent", "fresh"}] /\ sound' = PkgSet
    <3>1. status'[p] \in {"absent", "fresh"} /\ p \in sound'
      BY <1>0, <2>5
    <3>2. V(p)!Fetch
      BY <2>2, <3>1 DEF V!Fetch
    <3> QED
      BY <3>2 DEF V!Next
  <2> QED
    BY <2>3, <2>4, <2>5
<1>3. CASE RunPorter
  <2>1. /\ pc = "loop" /\ pc' = "porter" /\ hitch' = FALSE
        /\ UNCHANGED <<status, next>> /\ Package' = Package
        /\ p \in sound' <=> p \in sound
    BY <1>3 DEF RunPorter, vendor, Package
  <2>2. CASE Package = p
    <3>1. ~AtWorkOn(p) /\ AtWorkOn(p)'
      BY <2>1, <2>2 DEF AtWorkOn
    <3>2. (p \in sound') = (p \in sound)
      BY <2>1
    <3>3. V(p)!Begin
      BY <2>1, <3>1, <3>2 DEF V!Begin
    <3> QED
      BY <3>3 DEF V!Next
  <2>3. CASE Package # p
    <3>1. ~AtWorkOn(p) /\ ~AtWorkOn(p)'
      BY <2>1, <2>3 DEF AtWorkOn
    <3> QED
      BY <2>1, <3>1, FarFromPackage
  <2> QED
    BY <2>2, <2>3
<1>4. CASE UNCHANGED vars
  <2>1. UNCHANGED <<status, pc, next, sound, hitch>> /\ Package' = Package
    BY <1>4 DEF vars, vendor, control, history, Package
  <2> QED
    BY <2>1 DEF V!vars, AtWorkOn
<1>5. ASSUME pc = "porter", Package # p, Porter \/ Interrupt
      PROVE  UNCHANGED V(p)!vars
  <2>1. ~AtWorkOn(p)
    BY <1>5 DEF AtWorkOn
  <2>2. p \in sound' <=> p \in sound
    BY <1>5 DEF Porter, PorterWorks, PorterStumbles, PorterEnds, PorterBreaks, Interrupt, history
  <2>3. PICK k \in 1..Len(Pkgs) : Pkgs[k] = p
    BY <1>0, PackageList
  <2>4. k # next
    BY <1>5, <2>3 DEF Package
  <2>5. status'[p] = status[p]
    <3>1. CASE PorterWorks \/ PorterStumbles \/ PorterBreaks
      BY <2>3, <2>4, <3>1, PorterChanges
    <3>2. CASE PorterEnds \/ Interrupt
      BY <1>5, <3>2 DEF PorterEnds, Interrupt, vendor
    <3> QED
      BY <1>5, <3>1, <3>2 DEF Porter
  <2>6. ~AtWorkOn(p)'
    <3>1. CASE PorterWorks \/ PorterStumbles
      BY <1>5, <3>1 DEF PorterWorks, PorterStumbles, control, Package, AtWorkOn
    <3>2. CASE PorterEnds \/ PorterBreaks \/ Interrupt
      BY <3>2 DEF PorterEnds, PorterBreaks, NextPackage, Interrupt, Exit, AtWorkOn
    <3> QED
      BY <1>5, <3>1, <3>2 DEF Porter
  <2> QED
    BY <2>1, <2>2, <2>5, <2>6, FarFromPackage
<1>6. ASSUME pc = "porter", Package = p, Porter \/ Interrupt
      PROVE  V(p)!Next
  <2>1. AtWorkOn(p) /\ status[p] \in P!Disturbed
    BY <1>0, <1>6 DEF AtWorkOn, Current, Statuses, P!Disturbed
  <2>2. CASE PorterWorks
    <3>1. AtWorkOn(p)' /\ UNCHANGED <<sound, hitch>>
      BY <1>6, <2>2 DEF PorterWorks, control, history, Package, AtWorkOn
    <3>2. status'[p] \in {"torn", "ported"}
      BY <1>0, <1>6, <2>2 DEF PorterWorks, TypeOK
    <3>3. V(p)!Work
      BY <2>1, <3>1, <3>2 DEF V!Work
    <3> QED
      BY <3>3 DEF V!Next
  <2>3. CASE PorterStumbles
    <3>1. AtWorkOn(p)' /\ hitch' = TRUE /\ p \notin sound'
      BY <1>6, <2>3 DEF PorterStumbles, control, Package, AtWorkOn
    <3>2. status'[p] \in P!Disturbed
      BY <1>0, <1>6, <2>3 DEF PorterStumbles, TypeOK
    <3>3. V(p)!Stumble
      BY <2>1, <3>1, <3>2 DEF V!Stumble, V!Disturbed, P!Disturbed
    <3> QED
      BY <3>3 DEF V!Next
  <2>4. CASE PorterBreaks \/ Interrupt
    <3>1. ~AtWorkOn(p)' /\ p \notin sound'
      BY <1>6, <2>4 DEF PorterBreaks, NextPackage, Interrupt, Exit, AtWorkOn
    <3>2. status'[p] \in P!Disturbed
      BY <1>0, <1>6, <2>1, <2>4 DEF PorterBreaks, Interrupt, vendor, TypeOK
    <3>3. V(p)!Break
      BY <2>1, <3>1, <3>2 DEF V!Break, V!Disturbed, P!Disturbed
    <3> QED
      BY <3>3 DEF V!Next
  <2>5. CASE PorterEnds
    <3>1. ~AtWorkOn(p)' /\ UNCHANGED <<status, sound, hitch>>
      BY <2>5 DEF PorterEnds, NextPackage, vendor, history, AtWorkOn
    <3>2. p \in sound \/ (p \in Repairable /\ ~hitch) => status[p] = "ported"
      BY <1>6, <2>5 DEF PorterEnds, P!Ends
    <3>3. CASE hitch
      <4>1. p \notin sound'
        BY <1>6, <3>1, <3>3 DEF Noted
      <4>2. V(p)!Break
        BY <2>1, <3>1, <4>1 DEF V!Break, V!Disturbed, P!Disturbed
      <4> QED
        BY <4>2 DEF V!Next
    <3>4. CASE ~hitch
      <4>1. V(p)!End
        BY <2>1, <3>1, <3>2, <3>4 DEF V!End, V!Ends
      <4> QED
        BY <4>1 DEF V!Next
    <3> QED
      BY <3>3, <3>4
  <2> QED
    BY <1>6, <2>2, <2>3, <2>4, <2>5 DEF Porter
<1>7. CASE Interrupt /\ pc \notin {"download", "porter"}
  <2>1. ~AtWorkOn(p) /\ ~AtWorkOn(p)' /\ status' = status /\ sound' = sound
    BY <1>7 DEF Interrupt, Exit, AtWorkOn, vendor
  <2> QED
    BY <2>1, FarFromPackage
<1>8. Porter => pc = "porter"
  BY DEF Porter, PorterWorks, PorterStumbles, PorterEnds, PorterBreaks
<1> QED
  BY <1>1, <1>2, <1>3, <1>4, <1>5, <1>6, <1>7, <1>8 DEF Next, Dispatcher

-----------------------------------------------------------------------------
(* The theorems.                                                           *)

\* Whatever the packages, the arguments and the replies are, the dispatcher
\* stays in its control flow.
THEOREM SessionTypeCorrect == Spec => []TypeOK
<1>1. IInv => TypeOK
  BY DEF IInv
<1> QED
  BY InitInv, NextInv, <1>1, PTL DEF Spec

\* After a failed go mod vendor (port.sh:51) no porter has run, and the
\* dispatcher has ended with status 1.
THEOREM SessionStops == Spec => []FailedDownloadStops
<1>1. IInv => FailedDownloadStops
  BY DEF IInv
<1> QED
  BY InitInv, NextInv, <1>1, PTL DEF Spec

\* Nothing changes under vendor/ before a yes to the first question
\* (port.sh:38-42), in any session.
THEOREM SessionConfirmed == Spec => OnlyWhenConfirmed
<1>1. IInv /\ [Next]_vars => [status' # status \/ caller' # caller => confirmed]_vars
  <2> SUFFICES ASSUME IInv, Next, ~confirmed PROVE UNCHANGED <<status, caller>>
    BY DEF vars
  <2>1. pc \notin {"download", "loop", "porter"}
    BY DEF IInv, BeforeLoop
  <2>2. Start \/ ReadArgument \/ Confirm \/ Interrupt
    BY <2>1 DEF Next, Dispatcher, Porter, SkipDownload, Download, DownloadFails, PassPackage,
                RunPorter, Summary, PorterWorks, PorterStumbles, PorterEnds, PorterBreaks
  <2> QED
    BY <2>1, <2>2 DEF Start, ReadArgument, Confirm, Interrupt, vendor
<1> QED
  BY InitInv, NextInv, <1>1, PTL DEF Spec, OnlyWhenConfirmed

\* A session that ends without a failing porter has left every package ported
\* that it has downloaded, and every other one whose porter repairs, whatever
\* the sessions before it have left.
THEOREM SessionHeals == Spec => []Heals
BY InitInv, NextInv, InvHeals, PTL DEF Spec

\* "Packages ported:" lists what the loop found under vendor/, in the order
\* of pkg/ and each package once, however its porter ended (port.sh:56-70).
THEOREM SessionLists == Spec => []ListsThePresent
BY InitInv, NextInv, InvLists, PTL DEF Spec

\* Where the dispatcher is tells what has run, what is agreed to, what the
\* passed packages are and what is listed: the invariant that the theorems
\* above rest on.
THEOREM SessionInvariant == Spec => []IInv
BY InitInv, NextInv, PTL DEF Spec
\* Every package whose porter may be run again goes through what
\* VendoredPackage says and nothing else, whatever the dispatcher does
\* (port.sh:45-70): with PromiseKept of the porters, both sides of the
\* promise that the two rely on.
THEOREM SessionKeepsPromises == Spec => KeepsPromises
<1>1. Init => Noted /\ \A p \in Idempotent : V(p)!Init
  BY InitPromises, SessionAssumption DEF Init, Noted, SessionAssumption
<1>2. IInv /\ Noted /\ [Next]_vars =>
        [\A p \in Idempotent : [V(p)!Next]_(V(p)!vars)]_vars
  BY NextPromises DEF IInv
<1> QED
  BY InitInv, NextInv, NextNoted, <1>1, <1>2, PTL DEF Spec, KeepsPromises
=============================================================================
