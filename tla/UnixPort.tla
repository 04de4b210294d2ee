------------------------------ MODULE UnixPort ------------------------------
(***************************************************************************)
(* The porters of golang.org/x/sys/unix at work, and what the SW64 build   *)
(* makes of the directory they leave: which files it compiles, and which   *)
(* of the symbols the porters deal with those files declare and use.       *)
(* The files that grep -r also finds, of other systems, declare none of    *)
(* these symbols.                                                          *)
(***************************************************************************)
EXTENDS PackagePort, UnixScripts

\* Every architecture: the four kinds of files that concern Linux on it.
CommonFiles == {Common(k) : k \in Kinds}
OtherFiles  == {Other(k) : k \in Kinds}
Sw64Files   == {Sw64(k) : k \in Kinds}

Holding(d, w)    == {f \in d.there : <<f, w>> \in d.has}
Contains(d, f, w) == <<f, w>> \in d.has

\* A line //go:build, where there is one, overrules the lines // +build.
GoLineExcludes(d, f)   == Contains(d, f, "//go:build linux && !sw64")
PlusLineExcludes(d, f) == Contains(d, f, "// +build !sw64")

Excluded(d, f) ==
  \/ GoLineExcludes(d, f)
  \/ PlusLineExcludes(d, f) /\ ~Contains(d, f, "//go:build linux")

EndianBuilt(d) ==
  \/ Contains(d, Endian, "//go:build sw64 || 386")
  \/ Contains(d, Endian, "// +build sw64 386") /\ ~Contains(d, Endian, "//go:build 386")

\* The files of the SW64 build, and of the build that upstream declares the
\* package by, for another architecture.
Sw64Build(d)  == {f \in CommonFiles \cap d.there : ~Excluded(d, f)} \cup (Sw64Files \cap d.there)
OtherBuild(d) == (CommonFiles \cup OtherFiles) \cap d.there

NotDeclarations ==
  {"", "import (", "errors", "NoError", RawSyscallPair, SyscallPair, OldFutimesat,
   "sw64", "// +build linux",
   "//go:build linux", "// +build 386", "//go:build 386"}

SymbolsOf(script) == WordsOf(script) \ (TextsOf(script) \cup NotDeclarations)

\* Runs on one vendored package: a new download starts another behaviour.
SpecOfOneDownload == Init /\ [][Launch \/ Porter \/ Kill]_vars

-----------------------------------------------------------------------------

\* Of d, made of the vendored o: the SW64 build declares w once at most, and
\* does if another architecture's does.
DeclaresOnce(w, o, d) ==
  LET sites == Holding(d, w) \cap Sw64Build(d)
  IN  /\ Cardinality(sites) <= 1
      /\ Holding(o, w) \cap OtherBuild(o) # {} => sites # {}

DeclaresAllOnce(p, o, d) == \A w \in SymbolsOf(Script[p]) : DeclaresOnce(w, o, d)

\* Whichever version was vendored, the SW64 build declares no symbol twice
\* and each symbol that the package has on another architecture: what the
\* script removes, adds and excludes fits together.
DeclaredOnce ==
  pc = "done" /\ smooth => DeclaresAllOnce(pkg, origin, dir)

\* What a function of zsyscall_linux_sw64.go mentions, of the types that a
\* version may lack.  (Siginfo, of PidfdSendSignal and Waitid, is in the
\* shipped ztypes_linux_sw64.go of both releases.)
TypeOfFunction ==
  {<<"nameToHandleAt", "fileHandle">>, <<"openByHandleAt", "fileHandle">>,
   <<"ProcessVMReadv", "RemoteIovec">>, <<"ProcessVMWritev", "RemoteIovec">>,
   <<"pselect6", "sigset_argpack">>, <<"schedSetattr", "SchedAttr">>,
   <<"schedGetattr", "SchedAttr">>}

HasTypes(d) ==
  \A u \in TypeOfFunction : Contains(d, Z, u[1]) => Holding(d, u[2]) \cap Sw64Build(d) # {}

ImportsErrors(d) == Contains(d, Z, "errors") <=> Contains(d, Z, "fchmodat2")

\* Its calls have an error result or not, as the version's functions do, and
\* as many results are taken.
CallsNoError(o, d) ==
  /\ Contains(d, Z, "NoError") => Contains(o, Other("zsyscall"), "NoError")
  /\ \A w \in {RawSyscallPair, SyscallPair} : Contains(d, Z, w) <=> Contains(d, Z, "NoError")

PassesFutimesat(o, d) ==
  Contains(d, Z, OldFutimesat) <=> Contains(o, Other("zsyscall"), OldFutimesat)

BuildsEndian(d) == Endian \in d.there => EndianBuilt(d)

FindsWhatItUses(o, d) ==
  /\ HasTypes(d) /\ ImportsErrors(d) /\ BuildsEndian(d)
  /\ CallsNoError(o, d) /\ PassesFutimesat(o, d)

\* The functions left in zsyscall_linux_sw64.go use what the vendored
\* version has: their types are declared, the import of errors is there
\* exactly when the one function that needs it is, the calls without an
\* error result exist, and futimesat takes what its caller passes.
UsesDeclared == pc = "done" /\ smooth => FindsWhatItUses(origin, dir)

\* Whatever the porter has been through, the function whose lines it is
\* about to remove is in the file: no version makes grep find nothing and
\* sed fail, which would end the porter half way, and every rerun too.
RemovalsFindTheirFunction ==
  pc = "editing" /\ pos <= Len(Commands) /\ Cmd.op = "delete" /\ AllHold(Cmd.when, dir) =>
    CanRun(Cmd, dir)

\* After an interruption anywhere, a run without failure leaves what an
\* undisturbed one would, except in a file that was interrupted between the
\* two edits of its build lines: that one counts as edited and stays in the
\* build.
HalfExcluded(d) ==
  {f \in CommonFiles : PlusLineExcludes(d, f) /\ Contains(d, f, "//go:build linux")
                         /\ ~GoLineExcludes(d, f)}

RerunRepairs ==
  pc = "done" /\ clean =>
    /\ dir.there = goal.there
    /\ \A x \in (dir.has \ goal.has) \cup (goal.has \ dir.has) : x[1] \in HalfExcluded(dir)

-----------------------------------------------------------------------------
(* What the shape of the two scripts shows.                                *)

Plain(c) == c.op \in {"ship", "after", "append", "subst", "delete"}

\* Command i of the compound command ships what command k removes, and none
\* between them takes it away.
Supplies(q, i, k) ==
  /\ q[i].op = "ship" /\ q[i].file = q[k].file /\ q[i].when = {}
  /\ q[k].at \in q[i].new
  /\ \A j \in (i + 1)..(k - 1) :
       q[j].file = q[k].file =>
         \/ q[j].op \in {"after", "append"}
         \/ q[j].op \in {"subst", "delete"} /\ q[j].at # q[k].at

\* Every function that is removed has been shipped in the same run.
Supplied(script) ==
  \A b \in 1..Len(script) :
    LET q == script[b].commands
    IN  \A k \in 1..Len(q) :
          q[k].op = "delete" =>
            /\ \A i \in 1..Len(q) : Plain(q[i]) /\ ~q[i].soft
            /\ \E i \in 1..(k - 1) : Supplies(q, i, k)

\* The commands first ship their files and then fit them, by what the files
\* of the directory contain.
ShipsThenFits(q) ==
  \A k \in 1..Len(q) :
    /\ Plain(q[k]) /\ ~q[k].soft
    /\ \E i \in 1..k : q[i].op = "ship" /\ q[i].file = q[k].file
    /\ q[k].op = "ship" =>
         /\ q[k].when = {}
         /\ \A i \in 1..(k - 1) : q[i].op = "ship" /\ q[i].file # q[k].file
    /\ \A t \in q[k].when : t.kind \in {"has", "lacks"}

BuildLines ==
  {"sw64", "// +build linux", "// +build !sw64", "//go:build linux",
   "//go:build linux && !sw64", "// +build 386", "// +build sw64 386", "//go:build 386",
   "//go:build sw64 || 386"}

ShippedFiles(script) == {script[1].commands[k].file : k \in 1..Len(script[1].commands)}

\* One compound command ships and fits the SW64 files; each other one edits
\* the build lines of one further file, which nothing else looks at.
Fitted(script) ==
  /\ Len(script) > 0 /\ script[1].guard = {}
  /\ ShipsThenFits(script[1].commands)
  /\ \A k \in 1..Len(script[1].commands) :
       \A t \in script[1].commands[k].when : t.word \notin BuildLines
  /\ \A b \in 2..Len(script) :
       /\ script[b] = EndianLittle \/ \E kind \in Kinds : script[b] = Exclude(kind)
       /\ FileOf(script[b]) \notin ShippedFiles(script)
       /\ \A i \in 2..(b - 1) : FileOf(script[i]) # FileOf(script[b])
=============================================================================
