------------------------------- MODULE Session -------------------------------
(***************************************************************************)
(* The dispatcher port.sh: it reads its argument, asks two questions,      *)
(* downloads vendor/ with "go mod vendor" and runs the porter of every     *)
(* package it finds there.  A user may interrupt it and start it again.    *)
(* What a porter does to its package is what VendoredPackage promises.     *)
(***************************************************************************)
EXTENDS Naturals, Sequences, FiniteSets

CONSTANTS
  Pkgs,         \* the packages of pkg/, in the order of ls
  Repairable,   \* those whose rerun finishes an interrupted run
  Idempotent,   \* those that a second run leaves as they are
  Arguments,    \* the arguments to start it with: see ArgumentKinds
  MaxSessions   \* bound on the sessions, for model checking

PkgSet == {Pkgs[i] : i \in 1..Len(Pkgs)}

\* "spaced" is a directory whose path holds a space: [ -d "$1" ] accepts it,
\* and what the unquoted uses of it split off names no directory.  (A space at
\* either end, or in front of it a path that is there, is not covered.)
ArgumentKinds == {"empty", "version", "help", "option", "no directory", "module", "spaced"}

ASSUME SessionAssumption ==
  /\ Pkgs \in Seq(PkgSet) /\ \A i, j \in 1..Len(Pkgs) : Pkgs[i] = Pkgs[j] => i = j
  /\ Repairable \subseteq PkgSet /\ Idempotent \subseteq PkgSet
  /\ Arguments \subseteq ArgumentKinds
  /\ MaxSessions \in Nat

VARIABLES
  status,     \* each package under vendor/: absent, fresh (not run since the
              \* download), torn or ported
  caller,     \* vendor/ of the directory the shell is in: untouched or rewritten
  pc,         \* where the dispatcher is: see TypeOK
  arg,        \* its argument
  next,       \* the position in Pkgs of the loop
  ported,     \* PORTED
  rc,         \* the exit status of the last session
  (* History. *)
  sessions,   \* sessions so far
  sound,      \* the packages no run of which was disturbed since the download
  hitch,      \* a command of the current porter has failed
  confirmed,  \* the first question was answered with yes
  fetched,    \* this session's download: none, done or failed
  began,      \* what the packages were when the loop started
  ran,        \* the porters this session has started
  broken      \* those of them that did not reach their end undisturbed

vendor  == <<status, caller>>
control == <<pc, arg, next, ported, rc>>
history == <<sessions, sound, hitch, confirmed, fetched, began, ran, broken>>
vars == <<vendor, control, history>>

Package == Pkgs[next]
Present == {p \in PkgSet : status[p] # "absent"}

\* Mutant: only packages that no session has touched are ported.
FoundFresh(p) == status[p] = "fresh" /\ arg # "spaced"

\* [ -d ${PKG_PATH_REAL} ]: of a spaced path it is given more than one word, or
\* one that names no directory.
Found(p) == p \in Present /\ arg # "spaced"

P == INSTANCE VendoredPackage WITH
  repairs <- Package \in Repairable \cap Idempotent, status <- status[Package],
  phase <- IF pc = "porter" THEN "running" ELSE "idle",
  sound <- Package \in sound, hitch <- hitch

Init ==
  /\ status \in [PkgSet -> {"absent", "fresh"}]
  /\ caller = "untouched"
  /\ pc = "shell" /\ arg = "empty" /\ next = 1 /\ ported = <<>> /\ rc = 0
  /\ sessions = 0 /\ sound = PkgSet /\ hitch = FALSE
  /\ confirmed = FALSE /\ fetched = "none" /\ began = status /\ ran = {} /\ broken = {}

-----------------------------------------------------------------------------

Start ==
  /\ pc = "shell" /\ sessions < MaxSessions
  /\ sessions' = sessions + 1
  /\ arg' \in Arguments
  /\ pc' = "arguments" /\ next' = 1 /\ ported' = <<>>
  /\ confirmed' = FALSE /\ fetched' = "none" /\ ran' = {} /\ broken' = {}
  /\ UNCHANGED <<vendor, rc, sound, hitch, began>>

Exit(code) == pc' = "shell" /\ rc' = code

\* The usage, the version and an unknown option all exit with 0.
ReadArgument ==
  /\ pc = "arguments"
  /\ IF arg \in {"module", "spaced"}
     THEN pc' = "confirm" /\ UNCHANGED rc
     ELSE Exit(0)
  /\ UNCHANGED <<vendor, arg, next, ported, history>>

\* Mutant: the reply no prints its message and does not exit.
ConfirmAnyway ==
  /\ pc = "confirm"
  /\ pc' = "download"
  /\ confirmed' \in BOOLEAN
  /\ UNCHANGED <<vendor, arg, next, ported, rc, sessions, sound, hitch, fetched, began, ran, broken>>

\* "Continue? [Y/n]": an empty reply, and the end of the input, mean yes.
Confirm ==
  /\ pc = "confirm"
  /\ \/ /\ pc' = "download" /\ confirmed' = TRUE
        /\ UNCHANGED rc
     \/ /\ Exit(0)
        /\ UNCHANGED confirmed
  /\ UNCHANGED <<vendor, arg, next, ported, sessions, sound, hitch, fetched, began, ran, broken>>

\* "Download vendor? [Y/n]" answered with no.
SkipDownload ==
  /\ pc = "download"
  /\ pc' = "loop" /\ began' = status
  /\ UNCHANGED <<vendor, arg, next, ported, rc, sessions, sound, hitch, confirmed, fetched, ran, broken>>

\* cd ${WORK_DIR}; go mod vendor.  It removes vendor/ and writes it anew.
Download ==
  /\ pc = "download"
  /\ fetched' = "done" /\ pc' = "loop"
  /\ IF arg = "spaced"   \* cd fails, and go runs where the shell is
     THEN caller' = "rewritten" /\ UNCHANGED <<status, sound>>
     ELSE /\ status' \in [PkgSet -> {"absent", "fresh"}]
          /\ sound' = PkgSet
          /\ UNCHANGED caller
  /\ began' = status'
  /\ UNCHANGED <<arg, next, ported, rc, sessions, hitch, confirmed, ran, broken>>

\* What go mod vendor leaves that does not come to its end: vendor/ as it was,
\* or removed, with some of the packages written.
CutShort ==
  IF arg = "spaced"
  THEN caller' \in {caller, "rewritten"} /\ UNCHANGED <<status, sound>>
  ELSE /\ \/ UNCHANGED <<status, sound>>
          \/ status' \in [PkgSet -> {"absent", "fresh"}] /\ sound' = PkgSet
       /\ UNCHANGED caller

\* Mutant: the exit status of go mod vendor is not looked at.
DownloadFailsUnnoticed ==
  /\ pc = "download"
  /\ fetched' = "failed" /\ pc' = "loop"
  /\ CutShort
  /\ began' = status'
  /\ UNCHANGED <<arg, next, ported, rc, sessions, hitch, confirmed, ran, broken>>

DownloadFails ==
  /\ pc = "download"
  /\ fetched' = "failed"
  /\ Exit(1)
  /\ CutShort
  /\ UNCHANGED <<arg, next, ported, sessions, hitch, confirmed, began, ran, broken>>

-----------------------------------------------------------------------------
(* The loop over pkg/.                                                     *)

\* Mutant: the package is listed whether it is there or not.
PassPackageListed ==
  /\ pc = "loop" /\ next <= Len(Pkgs)
  /\ ~Found(Package)
  /\ next' = next + 1 /\ ported' = Append(ported, Package)
  /\ UNCHANGED <<vendor, pc, arg, rc, history>>

\* Mutant: a package that is not there is waited for.
PassPackageNever ==
  /\ pc = "loop" /\ next <= Len(Pkgs)
  /\ ~Found(Package)
  /\ UNCHANGED vars

PassPackage ==
  /\ pc = "loop" /\ next <= Len(Pkgs)
  /\ ~Found(Package)
  /\ next' = next + 1
  /\ UNCHANGED <<vendor, pc, arg, ported, rc, history>>

\* A second run of a porter that is not idempotent disturbs its package.
RunPorter ==
  /\ pc = "loop" /\ next <= Len(Pkgs)
  /\ Found(Package)
  /\ pc' = "porter" /\ hitch' = FALSE
  /\ ran' = ran \cup {Package}
  /\ sound' = IF Package \in Idempotent \/ status[Package] = "fresh"
              THEN sound ELSE sound \ {Package}
  /\ UNCHANGED <<vendor, arg, next, ported, rc, sessions, confirmed, fetched, began, broken>>

PorterWorks ==
  /\ pc = "porter"
  /\ \E s \in {"torn", "ported"} : status' = [status EXCEPT ![Package] = s]
  /\ UNCHANGED <<caller, control, history>>

PorterStumbles ==
  /\ pc = "porter"
  /\ hitch' = TRUE /\ sound' = sound \ {Package} /\ broken' = broken \cup {Package}
  /\ \E s \in P!Disturbed : status' = [status EXCEPT ![Package] = s]
  /\ UNCHANGED <<caller, control, sessions, confirmed, fetched, began, ran>>

\* Mutant: the loop counts a package that it ports twice.
NextPackageTwice ==
  /\ pc' = "loop" /\ next' = next + 2
  /\ ported' = Append(ported, Package)

\* The loop goes on whatever the porter's exit status is.
NextPackage ==
  /\ pc' = "loop" /\ next' = next + 1
  /\ ported' = Append(ported, Package)

\* Mutant: the loop starts a porter and does not wait for it.
PorterUnawaited ==
  /\ pc = "porter"
  /\ NextPackage
  /\ UNCHANGED <<vendor, arg, rc, history>>

PorterEnds ==
  /\ pc = "porter"
  /\ P!Ends(Package \in Repairable \cap Idempotent, status[Package], Package \in sound, hitch)
  /\ NextPackage
  /\ UNCHANGED <<vendor, arg, rc, history>>

PorterBreaks ==
  /\ pc = "porter"
  /\ \E s \in P!Disturbed : status' = [status EXCEPT ![Package] = s]
  /\ sound' = sound \ {Package} /\ broken' = broken \cup {Package}
  /\ NextPackage
  /\ UNCHANGED <<caller, arg, rc, sessions, hitch, confirmed, fetched, began, ran>>

Summary ==
  /\ pc = "loop" /\ next > Len(Pkgs)
  /\ Exit(0)
  /\ UNCHANGED <<vendor, arg, next, ported, history>>

\* Ctrl-C reaches the dispatcher and the go command or the porter it runs.
Interrupt ==
  /\ pc \notin {"shell", "arguments"}
  /\ Exit(130)
  /\ \/ pc \in {"confirm", "loop"} /\ UNCHANGED <<vendor, sound, broken>>
     \/ pc = "download" /\ CutShort /\ UNCHANGED broken
     \/ /\ pc = "porter"
        /\ sound' = sound \ {Package} /\ broken' = broken \cup {Package}
        /\ UNCHANGED vendor
  /\ UNCHANGED <<arg, next, ported, sessions, hitch, confirmed, fetched, began, ran>>

-----------------------------------------------------------------------------

Porter == PorterWorks \/ PorterStumbles \/ PorterEnds \/ PorterBreaks

Dispatcher == ReadArgument \/ Confirm \/ SkipDownload \/ Download \/ DownloadFails
                \/ PassPackage \/ RunPorter \/ Summary

Next == Start \/ Dispatcher \/ Porter \/ Interrupt

Spec == Init /\ [][Next]_vars

\* The dispatcher's steps, a reply to each question, and the end of every
\* porter (Terminates of PackagePort).
FairSpec == Spec /\ WF_vars(Dispatcher) /\ WF_vars(PorterEnds \/ PorterBreaks)

-----------------------------------------------------------------------------
(* Properties.                                                             *)

\* Types: the dispatcher is not running (shell), reads its argument, waits
\* for one of two replies, is between two packages, or waits for a porter.
TypeOK ==
  /\ status \in [PkgSet -> {"absent", "fresh", "torn", "ported"}]
  /\ caller \in {"untouched", "rewritten"}
  /\ pc \in {"shell", "arguments", "confirm", "download", "loop", "porter"}
  /\ arg \in ArgumentKinds
  /\ next \in 1..(Len(Pkgs) + 1) /\ (pc = "porter" => next <= Len(Pkgs))
  /\ ported \in Seq(PkgSet)
  /\ rc \in {0, 1, 130}
  /\ sessions \in 0..MaxSessions
  /\ sound \subseteq PkgSet /\ ran \subseteq PkgSet /\ broken \subseteq ran
  /\ hitch \in BOOLEAN /\ confirmed \in BOOLEAN
  /\ fetched \in {"none", "done", "failed"}
  /\ began \in [PkgSet -> {"absent", "fresh", "torn", "ported"}]

\* The session has printed its summary.
Summarised == pc = "shell" /\ rc = 0 /\ confirmed /\ next > Len(Pkgs)

\* A session in which no porter failed leaves every package ported that it
\* has just downloaded, and of the others those whose porter repairs what an
\* earlier, interrupted session left half done.
Heals ==
  Summarised /\ arg = "module" /\ broken = {} =>
    \A p \in Present :
      fetched = "done" \/ p \in Repairable \cap Idempotent => status[p] = "ported"

\* The package p is listed before the package q in pkg/.
Before(p, q) ==
  \E a, b \in 1..Len(Pkgs) : a < b /\ Pkgs[a] = p /\ Pkgs[b] = q

\* The summary lists, in the order of pkg/, exactly the packages that vendor/
\* held when the loop started, and each of them once.
ListsThePresent ==
  Summarised /\ arg = "module" =>
    /\ {ported[i] : i \in 1..Len(ported)} = {p \in PkgSet : began[p] # "absent"}
    /\ \A i, j \in 1..Len(ported) : i < j => Before(ported[i], ported[j])

\* No porter runs on what a failed download left behind, and the exit status
\* tells of the failure.
FailedDownloadStops == fetched = "failed" => ran = {} /\ pc = "shell" /\ rc = 1

\* Nothing changes under vendor/ in a session the user did not agree to.
OnlyWhenConfirmed == [][status' # status \/ caller' # caller => confirmed]_vars

\* The package p as VendoredPackage sees it.  What is not under vendor/ is
\* like a package that no porter has seen, and a failure is noted until the
\* porter ends.
AtWorkOn(p) == pc = "porter" /\ Package = p

V(p) == INSTANCE VendoredPackage WITH
  repairs <- p \in Repairable,
  status <- IF status[p] = "absent" THEN "fresh" ELSE status[p],
  phase <- IF AtWorkOn(p) THEN "running" ELSE "idle",
  sound <- p \in sound, hitch <- AtWorkOn(p) /\ hitch

\* Through all sessions, downloads and interruptions, the dispatcher treats
\* every package as VendoredPackage says: one porter at a time works on it,
\* begins on what the last one left and is waited for, and what happens to
\* the packages before and after it in the loop does not reach it.
KeepsPromises ==
  /\ \A p \in Idempotent : V(p)!Init
  /\ [][\A p \in Idempotent : [V(p)!Next]_(V(p)!vars)]_vars

\* A session that has begun ends once its questions are answered.
SessionEnds == pc # "shell" ~> pc = "shell"

\* "downloads the dependencies to the vendor directory of the given path".
OnlyTheGivenModule == caller = "untouched"

\* "Packages ported:" lists packages that have been ported.
SummaryTruthful ==
  Summarised => \A i \in 1..Len(ported) : status[ported[i]] = "ported"
=============================================================================
