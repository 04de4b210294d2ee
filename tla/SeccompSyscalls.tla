--------------------------- MODULE SeccompSyscalls ---------------------------
(***************************************************************************)
(* Which system calls the porter of containerd's seccomp profile allows on *)
(* SW64: the names it inserts in seccomp_default.go and the list that      *)
(* generate.sh computes for the new case "sw64".  The profile lists names  *)
(* in three places: what it allows always, what it allows on one           *)
(* architecture, and what it allows to a process with a capability.        *)
(***************************************************************************)
EXTENDS Naturals

CONSTANTS
  Names,      \* names of system calls
  DISABLED,   \* SYSCALLS_DISABLED: withheld whatever the profile says
  NIMPD,      \* SYSCALLS_NIMPD
  Headers,    \* what the unistd*.h files may say: sets of <<name, implemented>>
  Profiles    \* what upstream may list: sets of <<place, name>>

Places == {"always", "by arch", "by capability"}

Inserted == {"osf_mount", "osf_settimeofday"}

\* The script's own list has the names that port.sh inserts.
ASSUME SeccompAssumption ==
  /\ Inserted \subseteq DISABLED /\ DISABLED \cup NIMPD \subseteq Names
  /\ \A h \in Headers : h \subseteq Names \X BOOLEAN
  /\ \A f \in Profiles : f \subseteq Places \X Names

VARIABLES
  header,    \* the lines "#define __NR_name" of all headers together
  upstream,  \* what the profile lists as it was vendored
  listed,    \* what it lists now, outside of the case "sw64"
  pc,        \* the command the chain is at, or "done"
  added,     \* SYSCALLS_ADD
  allowed    \* the names of the new case

vars == <<header, upstream, listed, pc, added, allowed>>

Init ==
  /\ header \in Headers
  /\ upstream \in Profiles /\ listed = upstream
  /\ pc = "osf_mount" /\ added = {} /\ allowed = {}

-----------------------------------------------------------------------------
(* port.sh, behind its marker: the names of Alpha's calls beside the calls *)
(* they stand for, wherever those are listed.                              *)

InsertBeside(name, new) ==
  /\ listed' = listed \cup ({p \in Places : <<p, name>> \in listed} \X {new})
  /\ UNCHANGED <<header, upstream, added, allowed>>

InsertOsfMount ==
  /\ pc = "osf_mount" /\ pc' = "osf_settimeofday"
  /\ InsertBeside("mount", "osf_mount")

InsertOsfSettimeofday ==
  /\ pc = "osf_settimeofday" /\ pc' = "collect"
  /\ InsertBeside("settimeofday", "osf_settimeofday")

-----------------------------------------------------------------------------
(* generate.sh.                                                            *)

\* Mutant: a name is dropped when some header has it as not implemented.
ImplementedEverywhere == {n \in Names : <<n, TRUE>> \in header /\ <<n, FALSE>> \notin header}

\* grep -v "not implemented", line by line.
SYSCALLS_SW_64 == {n \in Names : <<n, TRUE>> \in header}

\* Every name of the file, whatever it is listed for.
SYSCALLS_DEFAULT == {x[2] : x \in listed}

Times(n, names) == IF n \in names THEN 1 ELSE 0

\* Mutant: the calls to exclude are in the list once.
OccurrencesOnce(n) ==
  Times(n, SYSCALLS_SW_64) + Times(n, SYSCALLS_DEFAULT) + Times(n, DISABLED) + Times(n, NIMPD)

\* How often a name is in the list that is sorted: SYSCALLS_SW_64 comes from
\* sort | uniq, and SYSCALLS_EXCLUDE, three lists joined, is in it twice.
Occurrences(n) ==
  Times(n, SYSCALLS_SW_64)
    + 2 * (Times(n, SYSCALLS_DEFAULT) + Times(n, DISABLED) + Times(n, NIMPD))

\* sort | uniq -u.
Collect ==
  /\ pc = "collect" /\ pc' = "write"
  /\ added' = {n \in Names : Occurrences(n) = 1}
  /\ UNCHANGED <<header, upstream, listed, allowed>>

\* The case goes behind the line after "include by arch", which every
\* profile has that the porter was written for.
Write ==
  /\ pc = "write" /\ pc' = "done"
  /\ allowed' = added
  /\ UNCHANGED <<header, upstream, listed, added>>

Next == InsertOsfMount \/ InsertOsfSettimeofday \/ Collect \/ Write

Spec == Init /\ [][Next]_vars

-----------------------------------------------------------------------------
(* Properties.                                                             *)

TypeOK ==
  /\ header \subseteq Names \X BOOLEAN
  /\ upstream \subseteq Places \X Names /\ listed \subseteq Places \X Names
  /\ pc \in {"osf_mount", "osf_settimeofday", "collect", "write", "done"}
  /\ added \subseteq Names /\ allowed \subseteq Names

\* The calls that some header has.
Available == {x[1] : x \in {y \in header : y[2]}}

Withheld == {x[2] : x \in {y \in upstream : y[1] # "always"}} \cup DISABLED \cup NIMPD

\* The new case allows nothing that the vendored profile or the script's own
\* list withholds, and nothing that SW64 does not have: no name that needs a
\* capability, or belongs to another architecture, slips in with the rest.
NothingWithheld == allowed \cap Withheld = {} /\ allowed \subseteq Available

\* The port allows every call that some header has, that nothing withholds.
NothingForgotten ==
  pc = "done" =>
    \A n \in Available \ Withheld : n \in allowed \/ <<"always", n>> \in listed
=============================================================================
