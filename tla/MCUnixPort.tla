----------------------------- MODULE MCUnixPort -----------------------------
(***************************************************************************)
(* Both porters of golang.org/x/sys/unix on the versions of that package   *)
(* that are wholly before or wholly after the changes in its history that  *)
(* the porters react to, but for one.                                      *)
(***************************************************************************)
EXTENDS UnixPort_proofs

InFile(file, words) == {file} \X words

S  == Common("syscall")
G  == Common("zsyscall")
T  == Common("ztypes")
SA == Other("syscall")
A  == Other("zsyscall")
TA == Other("ztypes")

\* Changes that both porters know: the symbols before and after each.
ChangesOfBoth ==
  <<<<{}, InFile(S, {"fileHandle"}) \cup InFile(G, {"nameToHandleAt", "openByHandleAt"})>>,
    <<{}, InFile(S, {"RemoteIovec"}) \cup InFile(G, {"ProcessVMReadv", "ProcessVMWritev"})>>,
    <<InFile(A, {"dup2"}), {}>>,
    <<InFile(A, {"fcntl"}), InFile(G, {"fcntl"})>>,
    <<InFile(G, {"Prlimit"}) \cup InFile(A, {"Setrlimit"}), InFile(S, {"Prlimit", "Setrlimit"})>>,
    <<InFile(G, {"Pselect"}),
      InFile(S, {"Pselect"}) \cup InFile(G, {"pselect6"}) \cup InFile(T, {"sigset_argpack"})>>,
    <<{}, InFile(G, {"ptracePtr"})>>,
    <<{}, InFile(G, {"getresuid", "getresgid"})>>,
    <<{}, InFile(G, {"mremap"})>>,
    <<{}, InFile(G, {"schedSetattr", "schedGetattr"}) \cup InFile(T, {"SchedAttr"})>>,
    <<{}, InFile(G, {"fchmodat2"})>>,
    <<{}, InFile(G, {"fsconfig"})>>,
    <<InFile(SA, {"Pipe2"}), InFile(S, {"Pipe2"})>>,
    <<InFile(TA, {"SizeofPtr", "SizeofShort", "SizeofInt", "SizeofLong"}),
      InFile(TA, {"sizeofPtr", "sizeofShort", "sizeofInt", "sizeofLong"})>>,
    <<{}, InFile(T, {"FileDedupeRange"})>>,
    <<{}, InFile(T, {"LoopConfig"})>>,
    <<{}, InFile(G, {"PidfdSendSignal"})>>,
    <<InFile(A, SetIds), InFile(S, SetIds)>>,
    <<InFile(A, {"Pread", "Pwrite"}), InFile(A, {"pread", "pwrite"}) \cup InFile(S, {"Pread", "Pwrite"})>>,
    <<{}, InFile(G, {"rtSigprocmask"})>>,
    <<{}, InFile(G, {"Waitid"})>>,
    <<{}, InFile(G, {"MoveMount"})>>,
    <<{}, InFile(G, {"OpenTree"})>>,
    <<{}, InFile(G, {"Fsmount", "Fsopen", "Fspick"})>>,
    <<{}, InFile(SA, {"SetIovlen"})>>>>

\* Changes that only one of them has an answer to.
ChangesOf == [
  UnixV1 |-> ChangesOfBoth,
  UnixV2 |-> ChangesOfBoth \o
    <<<<InFile(G, {"Getrandom"}), InFile(S, {"Getrandom"})>>,
      <<InFile(A, {"Faccessat"}), InFile(S, {"Faccessat"})>>,
      <<InFile(A, {OldFutimesat}), {}>>,
      <<{}, InFile(A, {"NoError"})>>,
      <<InFile(SA, {"Pipe"}), InFile(S, {"Pipe"})>>,
      <<InFile(SA, {"InotifyInit"}), InFile(S, {"InotifyInit"})>>>>]

\* What every version has that a porter is used for.
Always == [UnixV1 |-> InFile(A, {"futimesat", "NoError"}) \cup InFile(G, {"Getrandom"}),
           UnixV2 |-> InFile(A, {"futimesat"})]

GoLine(f)   == IF f = Endian THEN <<f, "//go:build 386">> ELSE <<f, "//go:build linux">>
PlusLine(f) == IF f = Endian THEN <<f, "// +build 386">> ELSE <<f, "// +build linux">>

Headed == {Endian} \cup {Common(k) : k \in Kinds \ {"syscall"}}

\* Versions before Go 1.17 have // +build, after it both, after 1.21 //go:build.
PlusOnly == {PlusLine(f) : f \in Headed}
GoOnly   == {GoLine(f) : f \in Headed}
Both     == PlusOnly \cup GoOnly

MCHeaders == {PlusOnly, Both, GoOnly}

\* All versions in whose making one change at most was out of step; with
\* the build lines of its time, of the versions wholly before or after.
Upstreams(p) ==
  {Mixture(p, pick, Both) : pick \in NearPicks(p)}
    \cup {Mixture(p, [i \in DOMAIN ChangesOf[p] |-> 1], PlusOnly),
          Mixture(p, [i \in DOMAIN ChangesOf[p] |-> 2], GoOnly)}

\* Before 2019 each architecture had its own copy of what is common now.
PerArchitecture(d) ==
  LET split == {Common(k) : k \in Kinds \ {"syscall"}}
      home(f) == IF f = G THEN A ELSE IF f = T THEN TA ELSE f
  IN  [there |-> d.there \ split,
       has   |-> {<<home(x[1]), x[2]>> : x \in d.has \ {PlusLine(f) : f \in split}},
       twice |-> {}]

Oldest == [p \in Packages |->
             {PerArchitecture(Mixture(p, [i \in DOMAIN ChangesOf[p] |-> 1], PlusOnly))}]

TwoRuns == [p \in Packages |-> 2]

MCScript   == [p \in Packages |-> CASE p = "UnixV1" -> UnixV1 [] p = "UnixV2" -> UnixV2]
MCUpstream == [p \in Packages |-> Upstreams(p) \cup Oldest[p]]

\* The run is about some of the samples.
ASSUME UnixSampled == \A p \in Packages : Upstream[p] \subseteq Samples(p)

\* Both may be run again; only a new download repairs a half-made exclusion.
ASSUME UnixStatus == Idempotent = Packages /\ Repairable = {}
=============================================================================
