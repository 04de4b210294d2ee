------------------------ MODULE SeccompSyscalls_proofs ------------------------
(***************************************************************************)
(* For every profile, every set of headers and all lists of names: the new *)
(* case allows what SW64 has and nothing withholds, no more and no less.   *)
(***************************************************************************)
EXTENDS SeccompSyscalls, TLAPS

\* What holds at each command of the chain.
ListedKeepsUpstream ==
  /\ upstream \subseteq listed
  /\ \A x \in listed \ upstream : x[2] \in Inserted

AddedOnce ==
  pc \in {"write", "done"} => added = (SYSCALLS_SW_64 \ (SYSCALLS_DEFAULT \cup DISABLED \cup NIMPD))

AllowedIsAdded == allowed = IF pc = "done" THEN added ELSE {}

IInv == TypeOK /\ ListedKeepsUpstream /\ AddedOnce /\ AllowedIsAdded

\* uniq -u keeps the names that the headers have and no list excludes: an
\* excluded name is in the sorted list at least twice.
LEMMA UniqueNames ==
  ASSUME NEW n
  PROVE  Occurrences(n) = 1 <=>
           n \in SYSCALLS_SW_64 /\ n \notin SYSCALLS_DEFAULT \cup DISABLED \cup NIMPD
BY DEF Occurrences, Times

LEMMA InitInv == Init => IInv
<1> SUFFICES ASSUME Init PROVE IInv
  OBVIOUS
<1>1. TypeOK
  BY SeccompAssumption DEF Init, TypeOK, SeccompAssumption
<1> QED
  BY <1>1 DEF Init, IInv, ListedKeepsUpstream, AddedOnce, AllowedIsAdded

\* A name put beside another keeps the rest of the profile as it is.
LEMMA BesideKeeps ==
  ASSUME TypeOK, ListedKeepsUpstream, NEW name, NEW new \in Inserted, InsertBeside(name, new)
  PROVE  listed' \subseteq Places \X Names /\ ListedKeepsUpstream'
<1>1. new \in Names
  BY SeccompAssumption DEF SeccompAssumption
<1>2. listed' = listed \cup ({p \in Places : <<p, name>> \in listed} \X {new}) /\ upstream' = upstream
  BY DEF InsertBeside
<1> QED
  BY <1>1, <1>2 DEF TypeOK, ListedKeepsUpstream

LEMMA NextInv == IInv /\ [Next]_vars => IInv'
<1> SUFFICES ASSUME IInv, [Next]_vars PROVE IInv'
  OBVIOUS
<1> USE DEF IInv
<1>1. CASE InsertOsfMount \/ InsertOsfSettimeofday
  <2>1. /\ pc' \in {"osf_settimeofday", "collect"} /\ pc \in {"osf_mount", "osf_settimeofday"}
        /\ UNCHANGED <<header, upstream, added, allowed>>
        /\ \E name : \E new \in Inserted : InsertBeside(name, new)
    BY <1>1 DEF InsertOsfMount, InsertOsfSettimeofday, InsertBeside, Inserted
  <2>2. listed' \subseteq Places \X Names /\ ListedKeepsUpstream'
    BY <2>1, BesideKeeps
  <2> QED
    BY <2>1, <2>2 DEF TypeOK, AddedOnce, AllowedIsAdded
<1>2. CASE Collect
  <2>1. /\ pc = "collect" /\ pc' = "write" /\ UNCHANGED <<header, upstream, listed, allowed>>
        /\ added' = {n \in Names : Occurrences(n) = 1}
    BY <1>2 DEF Collect
  <2>2. SYSCALLS_SW_64 \subseteq Names
    BY DEF SYSCALLS_SW_64
  <2>3. added' = (SYSCALLS_SW_64 \ (SYSCALLS_DEFAULT \cup DISABLED \cup NIMPD))
    BY <2>1, <2>2, UniqueNames
  <2>4. SYSCALLS_SW_64' = SYSCALLS_SW_64 /\ SYSCALLS_DEFAULT' = SYSCALLS_DEFAULT
    BY <2>1 DEF SYSCALLS_SW_64, SYSCALLS_DEFAULT
  <2> QED
    BY <2>1, <2>2, <2>3, <2>4 DEF TypeOK, ListedKeepsUpstream, AddedOnce, AllowedIsAdded
<1>3. CASE Write
  BY <1>3 DEF Write, TypeOK, ListedKeepsUpstream, AddedOnce, AllowedIsAdded, SYSCALLS_SW_64,
              SYSCALLS_DEFAULT
<1>4. CASE UNCHANGED vars
  BY <1>4 DEF vars, TypeOK, ListedKeepsUpstream, AddedOnce, AllowedIsAdded, SYSCALLS_SW_64,
              SYSCALLS_DEFAULT
<1> QED
  BY <1>1, <1>2, <1>3, <1>4 DEF Next

\* The headers' names, said in two ways.
LEMMA AvailableNames ==
  ASSUME TypeOK
  PROVE  Available = SYSCALLS_SW_64
<1>1. \A y \in header : y = <<y[1], y[2]>> /\ y[1] \in Names /\ y[2] \in BOOLEAN
  BY DEF TypeOK
<1>2. ASSUME NEW n \in Available PROVE n \in SYSCALLS_SW_64
  <2>1. PICK y \in header : y[2] /\ n = y[1]
    BY DEF Available
  <2>2. y[2] = TRUE
    BY <1>1, <2>1
  <2> QED
    BY <1>1, <2>1, <2>2 DEF SYSCALLS_SW_64
<1>3. ASSUME NEW n \in SYSCALLS_SW_64 PROVE n \in Available
  <2>1. <<n, TRUE>> \in header /\ <<n, TRUE>>[1] = n /\ <<n, TRUE>>[2]
    BY DEF SYSCALLS_SW_64
  <2> QED
    BY <2>1 DEF Available
<1> QED
  BY <1>2, <1>3

\* What upstream withholds is among the names that are excluded.
LEMMA WithheldExcluded ==
  ASSUME ListedKeepsUpstream
  PROVE  Withheld \subseteq SYSCALLS_DEFAULT \cup DISABLED \cup NIMPD
BY DEF ListedKeepsUpstream, Withheld, SYSCALLS_DEFAULT

LEMMA InvSafe == IInv => NothingWithheld
<1> SUFFICES ASSUME IInv PROVE NothingWithheld
  OBVIOUS
<1>1. allowed \subseteq (SYSCALLS_SW_64 \ (SYSCALLS_DEFAULT \cup DISABLED \cup NIMPD))
  BY DEF IInv, AddedOnce, AllowedIsAdded
<1> QED
  BY <1>1, AvailableNames, WithheldExcluded DEF IInv, NothingWithheld

LEMMA InvComplete == IInv => NothingForgotten
<1> SUFFICES ASSUME IInv, pc = "done", NEW n \in Available \ Withheld, n \notin allowed
             PROVE  <<"always", n>> \in listed
  BY DEF NothingForgotten
<1>1. n \in SYSCALLS_SW_64 /\ n \notin DISABLED \cup NIMPD
  BY AvailableNames DEF IInv, Withheld
<1>2. n \in SYSCALLS_DEFAULT
  BY <1>1 DEF IInv, AddedOnce, AllowedIsAdded
<1>3. PICK x \in listed : x[2] = n
  BY <1>2 DEF SYSCALLS_DEFAULT
<1>4. n \notin Inserted
  BY <1>1, SeccompAssumption DEF SeccompAssumption
<1>5. x \in upstream
  BY <1>3, <1>4 DEF IInv, ListedKeepsUpstream
<1>6. x[1] = "always"
  BY <1>3, <1>5 DEF Withheld
<1>7. x = <<x[1], x[2]>>
  BY <1>3 DEF IInv, TypeOK
<1> QED
  BY <1>3, <1>6, <1>7

\* Nothing that the profile or the script withholds, and nothing that SW64
\* does not have, is allowed by the new case.
THEOREM SeccompSafe == Spec => []NothingWithheld
BY InitInv, NextInv, InvSafe, PTL DEF Spec

\* Every call of SW64 that nothing withholds is allowed when the porter is
\* through.
THEOREM SeccompComplete == Spec => []NothingForgotten
BY InitInv, NextInv, InvComplete, PTL DEF Spec
=============================================================================
