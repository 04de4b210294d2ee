------------------------------ MODULE UnixScripts ------------------------------
(***************************************************************************)
(* The two porters of golang.org/x/sys/unix.  Each ships a complete set of *)
(* per-architecture files and then fits them to the version that has been  *)
(* vendored: it removes, adds and renames declarations by what the other   *)
(* files declare.  A word is the symbol whose declaration is looked for    *)
(* ("func Pselect" and "type SchedAttr" are "Pselect" and "SchedAttr").    *)
(***************************************************************************)
EXTENDS EditScript

\* The files of one kind: for every architecture, for another architecture
\* (one stands for all of them), and for SW64.
Common(kind) == kind \o "_linux.go"
Other(kind)  == kind \o "_linux_amd64.go"
Sw64(kind)   == kind \o "_linux_sw64.go"

Z        == Sw64("zsyscall")
Endian   == "endian_little.go"
Kinds    == {"syscall", "zsyscall", "ztypes", "zerrors"}
AllFiles == {Common(k) : k \in Kinds} \cup {Other(k) : k \in Kinds} \cup {Sw64(k) : k \in Kinds}
              \cup {Endian}

\* grep -r, zsyscall_linux*, syscall_linux_*.go and zsyscall_linux_*.
Declared(files, w)   == Test("has", files, w)
Undeclared(files, w) == Test("lacks", files, w)

Anywhere       == AllFiles
AnyZsyscall    == {Common("zsyscall"), Other("zsyscall"), Z}
PerArchSyscall == {Other("syscall"), Sw64("syscall")}

\* LINE, START and END around the function that grep finds: from the comment
\* before it to its closing brace.
Remove(tests, w) == If(tests, Delete(Z, w, "no " \o w))

Add(tests, kind, file, symbols) == If(tests, AppendTo(Sw64(kind), file, symbols))

\* A file of one function, added when some file declares the function.
AddAs(files, w) == Add({Declared(files, w)}, "zsyscall", w \o ".go", {w})

\* sed s@from@to@.
Rename(tests, f, from, to) == If(tests, Subst(f, from, from \o " renamed", {to}))

\* The [ -f ] before a test of a file is part of it: no file, no word.
InSyscall(w) == {Declared({Common("syscall")}, w)}
InTypes(w)   == {Declared({Common("ztypes")}, w)}

-----------------------------------------------------------------------------
(* What the shipped files declare, of what the porters look for.           *)

\* A call of the two functions without an error result, its results named.
RawSyscallPair == "r0, _ := RawSyscallNoError"
SyscallPair    == "r0, _ := SyscallNoError"

Shipped(release, functions, methods) ==
  <<Ship("asm_linux_sw64.s", "asm of " \o release, {}),
    Ship(Sw64("syscall"), "syscall of " \o release, methods),
    Ship(Sw64("zerrors"), "zerrors of " \o release, {}),
    Ship(Z, "zsyscall of " \o release, functions),
    Ship("zsysnum_linux_sw64.go", "zsysnum of " \o release, {}),
    Ship(Sw64("ztypes"), "ztypes of " \o release,
         {"SizeofPtr", "SizeofShort", "SizeofInt", "SizeofLong"})>>

ShippedInBoth ==
  {"import (", "nameToHandleAt", "openByHandleAt", "ProcessVMReadv", "ProcessVMWritev",
   "Prlimit", "Setrlimit", "Pselect", "Getrandom", "futimesat", "NoError",
   RawSyscallPair, SyscallPair}

SetIds == {"Setregid", "Setresgid", "Setresuid", "Setreuid"}
Mounts == {"MoveMount", "OpenTree", "Fsmount", "Fsopen", "Fspick"}

ShippedV1 == Shipped("1.18.7", ShippedInBoth \cup SetIds \cup {"Pread", "Pwrite"}, {})

ShippedV2 ==
  Shipped("1.20.10",
          ShippedInBoth \cup Mounts \cup {"pread", "pwrite", "PidfdSendSignal", "rtSigprocmask",
                                          "Waitid"},
          {"SetIovlen"})

-----------------------------------------------------------------------------
(* The parts the two scripts share.                                        *)

\* Mutant: the second function of a type is forgotten.
RemoveFirstUntyped ==
  <<Remove({Undeclared(Anywhere, "fileHandle")}, "nameToHandleAt"),
    Remove({Undeclared(Anywhere, "RemoteIovec")}, "ProcessVMReadv")>>

\* Functions whose types this version does not have yet.
RemoveUntyped ==
  <<Remove({Undeclared(Anywhere, "fileHandle")}, "nameToHandleAt"),
    Remove({Undeclared(Anywhere, "fileHandle")}, "openByHandleAt"),
    Remove({Undeclared(Anywhere, "RemoteIovec")}, "ProcessVMReadv"),
    Remove({Undeclared(Anywhere, "RemoteIovec")}, "ProcessVMWritev")>>

\* Mutant: a line copied and not changed.
RemovePrlimitTwice ==
  <<Remove(InSyscall("Prlimit"), "Prlimit"),
    Remove(InSyscall("Prlimit"), "Prlimit"),
    Remove(InSyscall("Pselect"), "Pselect")>>

\* Functions that syscall_linux.go has come to declare itself.
RemoveLimits ==
  <<Remove(InSyscall("Prlimit"), "Prlimit"),
    Remove(InSyscall("Prlimit"), "Setrlimit"),
    Remove(InSyscall("Pselect"), "Pselect")>>

\* Wrappers of calls newer than the shipped files.  fchmodat2.go needs an
\* import, which is put behind the word import.
AddResids == Add({Declared(Anywhere, "getresuid")}, "zsyscall", "getres*id.go",
                 {"getresuid", "getresgid", "NoError"})

AddSched == Add({Declared(Anywhere, "schedSetattr")}, "zsyscall", "sched*etattr.go",
                {"schedSetattr", "schedGetattr"})

AddFchmodat2 ==
  <<AddAs(Anywhere, "fchmodat2"),
    If({Declared(Anywhere, "fchmodat2")}, AfterLine(Z, "import (", "import errors", {"errors"}))>>

\* The loop over Ptr, Short, Int, Long and LongLong: the sed for Long renames
\* SizeofLongLong too, which SizeofLong stands for, and the fifth finds nothing.
UnexportSizes ==
  LET unexport(from, to) ==
        Rename({Declared({Other("ztypes")}, "sizeofPtr")}, Sw64("ztypes"), from, to)
  IN  <<unexport("SizeofPtr", "sizeofPtr"), unexport("SizeofShort", "sizeofShort"),
        unexport("SizeofInt", "sizeofInt"), unexport("SizeofLong", "sizeofLong")>>

AddTypes ==
  UnexportSizes \o
  <<Add(InTypes("FileDedupeRange"), "ztypes", "FileDedupeRange.go", {"FileDedupeRange"}),
    Add(InTypes("sigset_argpack"), "ztypes", "sigset_argpack.go", {"sigset_argpack"}),
    Add({Declared(Anywhere, "SchedAttr")}, "ztypes", "SchedAttr.go", {"SchedAttr"}),
    Add({Declared(Anywhere, "LoopConfig")}, "ztypes", "LoopConfig.go", {"LoopConfig"})>>

AddPipe2 == Add({Declared(PerArchSyscall, "Pipe2")}, "syscall", "Pipe2.go", {"Pipe2"})

\* Keep a file of all architectures out of the SW64 build: the shipped one
\* takes its place.
Exclude(kind) ==
  LET f == Common(kind)
  IN  On({Exists(f), Lacks(f, "sw64")},
         <<AndThen(AfterLine(f, "// +build linux", "// +build !sw64", {"sw64"})),
           Subst(f, "//go:build linux", "//go:build linux && !sw64", {"//go:build linux", "sw64"})>>)

\* Mutant: zsyscall is left out of the list of the loop.
ExcludeTwo == <<Exclude("ztypes"), Exclude("zerrors")>>

ExcludeAll == <<Exclude("ztypes"), Exclude("zerrors"), Exclude("zsyscall")>>

\* Mutant: a marker guards both edits, and the first of them writes it.
EndianLittleMarked ==
  On({Exists(Endian), Lacks(Endian, "sw64")},
     <<Subst(Endian, "// +build 386", "// +build sw64 386", {"sw64"}),
       Subst(Endian, "//go:build 386", "//go:build sw64 || 386", {"sw64"})>>)

EndianLittle ==
  On({Exists(Endian)},
     <<Subst(Endian, "// +build 386", "// +build sw64 386", {}),
       Subst(Endian, "//go:build 386", "//go:build sw64 || 386", {})>>)

-----------------------------------------------------------------------------

FitV1 ==
  RemoveUntyped
  \o <<AddAs(AnyZsyscall, "dup2"),
       AddAs(AnyZsyscall, "fcntl"),
       Rename({Declared(AnyZsyscall, "pread")}, Z, "Pread", "pread"),
       Rename({Declared(AnyZsyscall, "pread")}, Z, "Pwrite", "pwrite"),
       Remove(InSyscall("Setregid"), "Setregid"),
       Remove(InSyscall("Setregid"), "Setresgid"),
       Remove(InSyscall("Setregid"), "Setresuid"),
       Remove(InSyscall("Setregid"), "Setreuid")>>
  \o RemoveLimits
  \o <<AddAs(Anywhere, "rtSigprocmask"),
       AddAs(Anywhere, "ptracePtr"),
       AddResids,
       AddAs(Anywhere, "mremap"),
       AddAs(Anywhere, "pselect6"),
       AddSched,
       AddAs(Anywhere, "PidfdSendSignal"),
       AddAs(Anywhere, "Waitid")>>
  \o AddFchmodat2
  \o <<AddAs(Anywhere, "MoveMount"),
       AddAs(Anywhere, "OpenTree"),
       Add({Declared(Anywhere, "Fsmount")}, "zsyscall", "Fsmount.go", {"Fsmount"}),
       Add({Declared(Anywhere, "Fsmount")}, "zsyscall", "Fsopen.go", {"Fsopen"}),
       Add({Declared(Anywhere, "Fsmount")}, "zsyscall", "Fspick.go", {"Fspick"}),
       AddAs(Anywhere, "fsconfig"),
       Add({Declared(Anywhere, "SetIovlen")}, "syscall", "SetIovlen.go", {"SetIovlen"}),
       AddPipe2>>
  \o AddTypes

UnixV1 == <<On({}, ShippedV1 \o FitV1)>> \o ExcludeAll \o <<EndianLittle>>

\* grep --exclude=*sw64*: what the shipped files declare does not count.
AnywhereElse == AllFiles \ {Sw64(k) : k \in Kinds}

OldFutimesat == "futimesat of *byte"

\* A third result for the calls that will have one, then the other function.
ReturnErrors ==
  LET edit(at, text) == If({Undeclared({Other("zsyscall")}, "NoError")}, Subst(Z, at, text, {}))
  IN  <<edit(RawSyscallPair, "third result of RawSyscall"),
        edit(SyscallPair, "third result of Syscall"),
        edit("NoError", "without NoError")>>

FitV2 ==
  RemoveUntyped
  \o RemoveLimits
  \o <<Remove(InSyscall("Getrandom"), "Getrandom"),
       Remove({Undeclared(AnywhereElse, "PidfdSendSignal")}, "PidfdSendSignal"),
       AddAs(AnyZsyscall, "dup2"),
       AddAs(AnyZsyscall, "fcntl"),
       Add({Declared({Other("zsyscall"), Z}, "Setregid")}, "zsyscall", "Setre*id.go", SetIds),
       AddAs(Anywhere, "ptracePtr"),
       AddResids,
       AddAs(Anywhere, "mremap"),
       AddAs(Anywhere, "pselect6"),
       AddSched>>
  \o AddFchmodat2
  \o <<AddAs(Anywhere, "fsconfig"),
       Add({Undeclared({Common("syscall")}, "Faccessat")}, "zsyscall", "Faccessat.go", {"Faccessat"}),
       Rename({Declared(AnyZsyscall, "Pread")}, Z, "pread", "Pread"),
       Rename({Declared(AnyZsyscall, "Pread")}, Z, "pwrite", "Pwrite"),
       Remove({Declared({Other("zsyscall"), Z}, OldFutimesat)}, "futimesat"),
       Add({Declared({Other("zsyscall"), Z}, OldFutimesat)}, "zsyscall", "futimesat_old.go",
           {"futimesat", OldFutimesat})>>
  \o ReturnErrors
  \o <<Add({Declared(PerArchSyscall, "Pipe")}, "syscall", "Pipe.go", {"Pipe"}),
       AddPipe2,
       Add({Undeclared({Common("syscall")}, "InotifyInit")}, "syscall", "InotifyInit.go",
           {"InotifyInit"})>>
  \o AddTypes

UnixV2 == <<On({}, ShippedV2 \o FitV2)>> \o ExcludeAll \o <<EndianLittle>>
=============================================================================
