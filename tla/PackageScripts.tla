--------------------------- MODULE PackageScripts ---------------------------
(***************************************************************************)
(* The porters of pkg/, one definition per directory: a sequence of        *)
(* compound commands in the order of its port.sh.  Words name patterns and *)
(* texts of the script; "sw64", "SW64" and "SW_64" are the markers by which *)
(* a script recognises a file it has edited, and a text lists a marker     *)
(* exactly when grep finds the marker in it.                               *)
(***************************************************************************)
EXTENDS EditScript

-----------------------------------------------------------------------------
(* Build constraints.  The pattern starts at the first architecture of the *)
(* constraint and the replacement puts sw64 before it, so that the pattern *)
(* no longer matches: the command is its own guard.                        *)

GoBuild   == ":build"
PlusBuild == "+build"

Tag(f, line) == Subst(f, line, line \o " sw64", {})

Retag(f, first, second) == On({Exists(f)}, <<Tag(f, first), Tag(f, second)>>)

\* A file shipped beside the script and copied whatever the package holds.
Create(f, tests) == On(tests, <<Ship(f, "shipped " \o f, {})>>)

-----------------------------------------------------------------------------
(* Porters that only edit build constraints and the like.                  *)

RoaringBitmap ==
  <<Retag("serialization_littleendian.go", GoBuild, PlusBuild),
    Retag("serialization_generic.go", GoBuild, PlusBuild)>>

CiliumEbpfInternal == <<Retag("endian_le.go", PlusBuild, GoBuild)>>

PebbleManual == <<Retag("manual_64bit.go", GoBuild, PlusBuild)>>

PebbleRawalloc == <<Retag("rawalloc_64bit.go", GoBuild, PlusBuild)>>

RistrettoZ == <<Retag("calloc_64bit.go", GoBuild, PlusBuild)>>

JosharianNative ==
  <<Retag("endian_generic.go", GoBuild, PlusBuild),
    Retag("endian_little.go", GoBuild, PlusBuild)>>

MadminKernel   == <<Retag("kernel_utsname_int8.go", GoBuild, PlusBuild)>>
MadminKernelV2 == <<Retag("kernel_utsname_int8.go", GoBuild, PlusBuild)>>
MadminKernelV3 == <<Retag("kernel_utsname_int8.go", GoBuild, PlusBuild)>>

URootUbinary == <<Retag("little_endian.go", GoBuild, PlusBuild)>>
UioUbinary   == <<Retag("little_endian.go", GoBuild, PlusBuild)>>

Starlark ==
  <<Retag("int_generic.go", GoBuild, PlusBuild),
    Retag("int_posix64.go", GoBuild, PlusBuild)>>

ModerncMemory ==
  <<Retag("memory64.go", GoBuild, PlusBuild),
    Retag("mmap_linux_64.go", GoBuild, PlusBuild)>>

FasthttpFiles ==
  <<"bytesconv_32.go", "bytesconv_32_test.go", "round2_32.go", "round2_32_test.go",
    "bytesconv_64.go", "bytesconv_64_test.go", "round2_64.go", "round2_64_test.go">>

Fasthttp == [i \in 1..Len(FasthttpFiles) |-> Retag(FasthttpFiles[i], GoBuild, PlusBuild)]

KlauspostCrc32   == <<On({Exists("crc32_generic.go")}, <<Tag("crc32_generic.go", PlusBuild)>>)>>
GoConcertAtomic  == <<On({Exists("atomic64.go")}, <<Tag("atomic64.go", "s390x$")>>)>>

ContainerdPlatforms == <<On({Exists("database.go")}, <<Tag("database.go", "case 386")>>)>>
Platforms           == <<On({Exists("database.go")}, <<Tag("database.go", "case 386")>>)>>

-----------------------------------------------------------------------------
(* Porters that only add files.                                            *)

GomonkeyV2   == <<Create("jmp_sw64.go", {})>>
BoltdbBolt   == <<Create("bolt_sw64.go", {})>>
CreackPty    == <<Create("ztypes_sw64.go", {})>>
GoOle        == <<Create("vaiant_sw64.go", {})>>
GopsutilHost   == <<Create("host_linux_sw64.go", {})>>
GopsutilV3Host == <<Create("host_linux_sw64.go", {})>>
GoSysconf    == <<Create("zsysconf_values_linux_sw64.go", {})>>
KrPty        == <<Create("ztypes_sw64.go", {Exists("ztypes_amd64.go")})>>

ContinuitySysx ==
  <<Create("copy_linux_sw64.go",   {Exists("copy_linux_386.go")}),
    Create("sysnum_linux_sw64.go", {Exists("sysnum_linux_386.go")}),
    Create("xattr_linux_sw64.go",  {Exists("xattr_linux_386.go")})>>

RootlesskitSignal ==
  <<Retag("signal_linux.go", GoBuild, PlusBuild),
    Create("signal_linux_sw64.go", {})>>

\* Which of three generations of the file fits is read off the amd64 one.
TcpOf(amd64, sw64) ==
  <<On({Exists(amd64)},
       <<If({Has(amd64, "sysGetsockopt")}, Ship(sw64, "v1", {})),
         If({Has(amd64, "sysGETSOCKOPT")}, Ship(sw64, "v2", {})),
         If({Has(amd64, "sysSIOCINQ")},    Ship(sw64, "v3", {}))>>)>>

MikiohTcp == TcpOf("sys_linux_amd64.go", "sys_linux_sw64.go")
MartenTcp == TcpOf("sys_linux_amd64.go", "sys_linux_sw64.go")

-----------------------------------------------------------------------------
(* Porters that insert lines behind an anchor, once: the marker they look  *)
(* for comes with the line they insert.                                    *)

InsertOnce(f, marker, at, text) ==
  On({Exists(f), Lacks(f, marker)}, <<AfterLine(f, at, text, {marker})>>)

Ocicrypt == <<InsertOnce("utils.go", "sw64", "ht = s390x", "case sw64")>>

DockerApiTypes == <<InsertOnce("seccomp.go", "ArchSW_64", "ArchS390X", "ArchSW_64 Arch")>>

DroneCompiler == <<InsertOnce("clone.go", "sw64", "git:linux-arm64", "case src.Platform")>>

GoSwagger == <<InsertOnce("language.go", "sw64", "sparc64", "sw64: true")>>

RuncSeccomp == <<InsertOnce("config.go", "sw64", "AARCH64", "SCMP_ARCH_SW_64")>>

RuntimeSpec == <<InsertOnce("config.go", "SW_64", "ArchX32", "ArchSW_64 Arch")>>

DroneLinter ==
  LET f == "linter.go"
  IN  <<On({Exists(f), Lacks(f, "sw64")},
           <<If({Lacks(f, "s390x")}, AfterLine(f, "amd64", "sw64 after amd64", {"sw64"})),
             If({Has(f, "s390x")},   AfterLine(f, "s390x", "sw64 after s390x", {"sw64"}))>>)>>

BuildkitLlb ==
  LET f == "state.go"
  IN  <<On({Exists(f), Lacks(f, "sw64")},
           <<If({Lacks(f, "ocispecs")}, AfterLine(f, "ppc64le", "specs.Platform", {"sw64"})),
             If({Has(f, "ocispecs")},   AfterLine(f, "ppc64le", "ocispecs.Platform", {"sw64"}))>>)>>

\* resource.go of each version of the conventions, v1.4.0 to v1.24.0.
SemconvVersions ==
  <<"v1.4.0", "v1.5.0", "v1.6.0", "v1.7.0", "v1.8.0", "v1.9.0", "v1.10.0",
    "v1.11.0", "v1.12.0", "v1.13.0", "v1.14.0", "v1.15.0", "v1.16.0", "v1.17.0",
    "v1.18.0", "v1.19.0", "v1.20.0", "v1.21.0", "v1.22.0", "v1.23.0", "v1.24.0">>

OtelSemconv ==
  [i \in 1..Len(SemconvVersions) |->
     InsertOnce(SemconvVersions[i], "sw64", "HostArchX86", "HostArchSW64")]

RuncSystem ==
  LET f == "syscall_linux_64.go"
  IN  <<On({Exists(f)}, <<Tag(f, "+build linux,arm64"), Tag(f, "(arm64"), Tag(f, "+build arm64")>>),
        InsertOnce("setns_linux.go", "sw64", "s390x", "linux/sw64: 501")>>

VishvanandaNetns ==
  <<InsertOnce("netns_linux.go", "sw64", "s390x", "sw64: 501"),
    Create("netns_linux_sw64.go", {Exists("netns_linux_386.go")})>>

Crc64nvme ==
  LET f == "crc64_other.go"
  IN  <<On({Exists(f), Lacks(f, "func updateAsm(")},
           <<AppendTo(f, "updateAsm panics", {"func updateAsm("})>>)>>

-----------------------------------------------------------------------------
(* Porters that make several edits under one test for the marker.          *)

ContainersCompletion ==
  LET f == "completion.go"
  IN  <<On({Exists(f), Lacks(f, "sw64")},
           <<AfterLine(f, "linux/s390x", "linux/sw64", {"sw64"}),
             AfterLine(f, "s390x", "sw64,", {"sw64"})>>)>>

ImageSpecSchema ==
  LET f == "validator.go"
  IN  <<On({Exists(f), Lacks(f, "sw64")},
           <<AndThen(Subst(f, "linux: {", "linux: {sw64", {"linux: {", "sw64"})),
             AfterLine(f, "s390x:", "sw64: {}", {"sw64"})>>)>>

\* The osf_ lines carry no marker; generate.sh always writes one (a case
\* "sw64"), behind line 1 when the file has no "include by arch".
ContainerdSeccomp ==
  LET f == "seccomp_default.go"
  IN  <<On({Exists(f), Lacks(f, "sw64")},
           <<AndThen(AfterLine(f, "ArchS390", "case sw64: SW_64", {"sw64"})),
             AndThen(AfterLine(f, "mount", "osf_mount", {})),
             AndThen(AfterLine(f, "settimeofday", "osf_settimeofday", {})),
             AppendTo(f, "case sw64: Syscalls", {"sw64"})>>)>>

ContainerdFifo ==
  LET f == "handle_linux.go"
  IN  <<On({Exists(f)}, <<Subst(f, "const O_PATH", "//const O_PATH", {})>>),
        On({Exists(f), Lacks(f, "sw64")},
           <<AfterLine(f, "func getHandle", "var O_PATH", {"sw64"}),
             AfterLine(f, "import (", "runtime", {})>>)>>

RuncPatchbpf ==
  LET f == "enosys_linux.go"
  IN  <<On({Exists(f), Lacks(f, "SW64")},
           <<AndThen(AfterLine(f, "AUDIT_ARCH_S390X", "ifdef AUDIT_ARCH_SW_64", {"SW64"})),
             AfterLine(f, "C.C_AUDIT_ARCH_S390X", "case ArchSW64", {"SW64", "nativeArch"})>>),
        On({Exists(f), Has(f, "linuxAuditArch")},
           <<Subst(f, "nativeArch", "nativeArch renamed", {"linuxAuditArch"})>>)>>

\* Line 1 of arch.go's edits writes hdrArchSW64 and lookup.go's write sw64;
\* the line for sif.go writes HdrArchSW64 and "SW64 arch code", not "sw64".
Sif ==
  LET arch  == "arch.go"
      find  == "lookup.go"
      sif   == "sif.go"
      riscv == {Has(arch, "RISCV64")}
      other == {Lacks(arch, "RISCV64")}
  IN  <<On({Exists(arch), Lacks(arch, "sw64")},
           <<If(riscv, AfterLine(arch, "hdrArchRISCV64 archType", "hdrArchSW64 = 13", {})),
             If(riscv, AfterLine(arch, "riscv64: hdrArch", "sw64: hdrArchSW64", {"sw64"})),
             If(riscv, AfterLine(arch, "hdrArch: riscv64", "hdrArchSW64: sw64", {"sw64"})),
             If(other, AfterLine(arch, "hdrArchS390x archType", "hdrArchSW64 = 12", {})),
             If(other, AfterLine(arch, "s390x: hdrArch", "sw64: hdrArchSW64, 12", {"sw64"})),
             If(other, AfterLine(arch, "hdrArch: s390x", "hdrArchSW64: sw64, 12", {"sw64"}))>>),
        On({Exists(find), Lacks(find, "sw64")},
           <<AfterLine(find, "s390x: HdrArch", "sw64: hdrArchSW64", {"sw64"}),
             AfterLine(find, "HdrArch: s390x", "hdrArchSW64: sw64", {"sw64"})>>),
        On({Exists(sif), Lacks(sif, "sw64")},
           <<AfterLine(sif, "HdrArchS390x", "HdrArchSW64 = 12", {})>>)>>

SifV2 == Sif

LibseccompGolang ==
  LET f  == "seccomp.go"
      in == "seccomp_internal.go"
      scmp == "ArchARM64 ScmpArch"
  IN  <<On({Exists(f), Lacks(f, "SW64")},
           <<If({Has(f, scmp)},   AfterLine(f, scmp, "ArchSW64 ScmpArch", {"SW64"})),
             If({Lacks(f, scmp)}, AfterLine(f, "ArchARM64$", "ArchSW64", {"SW64"})),
             AfterLine(f, "ArchARM64, nil", "case sw64", {"SW64"}),
             AfterLine(f, "return arm64", "case ArchSW64", {"SW64"})>>),
        On({Exists(in), Lacks(in, "SW_64")},
           <<AfterLine(in, "C_ARCH_BAD", "ifndef SCMP_ARCH_SW_64", {"SW_64"}),
             AfterLine(in, "SCMP_ARCH_AARCH64", "C_ARCH_SW_64 =", {"SW_64"}),
             AfterLine(in, "return ArchARM64", "case C_ARCH_SW_64", {"SW_64"}),
             AfterLine(in, "return C_ARCH_AARCH64", "return C_ARCH_SW_64", {"SW_64"})>>)>>

\* LINE is the first isSystemZ() under GetClockSpeed; when there is none it is
\* empty and the sed scripts apply to every line of the file.
CadvisorMachine ==
  LET f     == "machine.go"
      arch  == "isSystemZ by getMachineArch"
      clock == "isSystemZ in GetClockSpeed"
      every == "isSystemZ"
      true  == "true == isSystemZ"
  IN  <<On({Exists(f), Has(f, every), Lacks(f, "SW_64")},
           <<If({Has(f, arch)},    AppendTo(f, "isSW_64 type1", {"SW_64"})),
             If({Lacks(f, arch)},  AppendTo(f, "isSW_64 type2", {"SW_64"})),
             If({Has(f, clock)},   Subst(f, clock, "or isSW_64", {clock, "SW_64"})),
             If({Lacks(f, clock)}, Subst(f, every, "or isSW_64 on every line", {every, "SW_64"})),
             Subst(f, true, "or true == isSW_64", {true, "SW_64"})>>)>>

-----------------------------------------------------------------------------
(* Porters with several files that depend on each other.                   *)

\* Mutant: the file that holds the marker is edited first.
Sha256SimdSwapped ==
  LET block == "sha256block_other.go"
      edit(f) == On({Exists(f), Lacks(block, "sw64")},
                    <<Subst(f, "ppc64", "sw64 ppc64", {"ppc64", "sw64"})>>)
      from(g, f) == On({Exists(g)}, <<CopyFile(g, f, "copy of " \o g)>>)
  IN  <<edit(block), edit("cpuid_other.go"),
        from("cpuid_ppc64le.go", "cpuid_sw64.go"),
        from("sha256block_ppc64le.go", "sha256block_sw64.go")>>

\* cpuid_other.go is guarded by the marker of sha256block_other.go.
Sha256Simd ==
  LET cpuid == "cpuid_other.go"
      block == "sha256block_other.go"
      from(g, f) == On({Exists(g)}, <<CopyFile(g, f, "copy of " \o g)>>)
  IN  <<On({Exists(cpuid), Lacks(block, "sw64")},
           <<Subst(cpuid, "ppc64", "sw64 ppc64", {"ppc64", "sw64"})>>),
        On({Exists(block), Lacks(block, "sw64")},
           <<Subst(block, "ppc64", "sw64 ppc64", {"ppc64", "sw64"})>>),
        from("cpuid_ppc64le.go", "cpuid_sw64.go"),
        from("sha256block_ppc64le.go", "sha256block_sw64.go")>>

\* The four layouts in which signal_linux.go has listed its signals.
SignalLayouts == <<"list", "nested list", "map of syscall", "map of unix">>

MobySignal ==
  LET linux == "signal_linux.go"
      sw64  == "signal_linux_sw64.go"
      mipsx == "signal_linux_mipsx.go"
      drop(w) == Subst(sw64, w, "no " \o w, {})
      add(after, new) ==
        [i \in 1..4 |-> AfterLine(sw64, after \o SignalLayouts[i], new \o SignalLayouts[i], {})]
  IN  <<On({Exists(linux), Missing(sw64)},
           <<CopyFile(linux, sw64, "copy of linux"), drop("!mips"),
             AppendTo(sw64, "build sw64", {"sw64"}), drop("STKFLT")>>
             \o add("SIGCONT ", "SIGEMT ") \o add("SIGILL ", "SIGINFO ")),
        On({Exists(linux), Lacks(linux, "sw64")},
           <<If({Missing(mipsx)}, AppendTo(linux, "build !sw64", {"sw64"})),
             If({Exists(mipsx)},  Subst(linux, "+build !mips", "+build !sw64,!mips", {"sw64"})),
             If({Exists(mipsx)},  Subst(linux, ":build !mips", ":build !sw64 && !mips", {"sw64"}))>>)>>

\* Mutant: the archive is moved away though the backup is there already.
ValyalaGozstdMovesAgain ==
  LET a      == "libzstd_linux.a"
      backup == "libzstd_linux.a.amd64"
  IN  <<On({Exists(a)}, <<MoveFile(a, backup, "moved"), Ship(a, "sw64 archive", {})>>),
        On({Missing(a)},
           <<Ship("libzstd_linux_sw64.a", "archive", {}), Ship("libzstd_linux_sw64.go", "cgo", {})>>)>>

\* The second compound command is the else of the first, which leaves the
\* file it tests in place.
ValyalaGozstd ==
  LET a      == "libzstd_linux.a"
      backup == "libzstd_linux.a.amd64"
  IN  <<On({Exists(a)},
           <<If({Missing(backup)}, MoveFile(a, backup, "moved")), Ship(a, "sw64 archive", {})>>),
        On({Missing(a)},
           <<Ship("libzstd_linux_sw64.a", "archive", {}), Ship("libzstd_linux_sw64.go", "cgo", {})>>)>>

EtcdBbolt ==
  LET amd64 == "bolt_amd64.go"
      sw64  == "bolt_sw64.go"
  IN  <<On({}, <<Ship(sw64, "shipped", {"package bbolt"}),
                 If({Has(amd64, "brokenUnaligned")}, AppendTo(sw64, "var brokenUnaligned", {})),
                 If({Lacks(amd64, "bbolt")}, Subst(sw64, "package bbolt", "package bolt", {}))>>)>>

SysCpu ==
  LET order == "byteorder.go"
      mips  == "cpu_mips64x.go"
      sw64  == "cpu_sw64.go"
  IN  <<On({Exists(order)}, <<Tag(order, "sh:")>>),
        Retag("endian_little.go", GoBuild, PlusBuild),
        On({}, <<Ship(sw64, "cacheLineSize", {}),
                 If({Has(mips, "initOptions")}, AppendTo(sw64, "func initOptions", {})),
                 If({Has(mips, "doinit")}, AppendTo(sw64, "func doinit", {}))>>)>>

\* A file made from the riscv64 one, or else from the mips64le one.
Derive(riscv64, mips64le, sw64) ==
  <<If({Exists(riscv64)}, CopyFile(riscv64, sw64, "copy of riscv64")),
    If({Missing(sw64)}, CopyFile(mips64le, sw64, "copy of mips64le")),
    Subst(sw64, "riscv64", "riscv64 as sw64", {}),
    Subst(sw64, "mips64le", "mips64le as sw64", {})>>

Zsys == Derive("zsys_linux_riscv64.go", "zsys_linux_mips64le.go", "zsys_linux_sw64.go")

NetIpv4 == <<On({}, Zsys)>>
NetIpv6 == <<On({}, Zsys)>>

\* Substituting the sw64 number for itself changes nothing: only a foreign
\* number is consumed.
NetSocket ==
  LET sys  == "sys_linux_sw64.go"
      zsys == "zsys_linux_sw64.go"
  IN  <<Retag("msghdr_linux_64bit.go", GoBuild, PlusBuild),
        Retag("cmsghdr_linux_64bit.go", GoBuild, PlusBuild),
        Retag("iovec_64bit.go", GoBuild, PlusBuild),
        On({}, Derive("sys_linux_riscv64.go", "sys_linux_mips64le.go", sys)
                 \o <<Subst(sys, "sysRECVMMSG", "sysRECVMMSG = 0x1df", {}),
                      Subst(sys, "sysSENDMMSG", "sysSENDMMSG = 0x1f7", {})>>),
        On({}, Zsys),
        On({Has(zsys, "Pad_cgo_1")},
           <<Subst(zsys, "Pad_cgo_0", "no Pad_cgo_0", {}),
             Subst(zsys, "Pad_cgo_1", "Pad_cgo_1 as 0", {"Pad_cgo_0"})>>)>>

PrometheusProcfs ==
  LET others == "cpuinfo_others.go"
      info   == "cpuinfo.go"
  IN  <<On({Exists(others)}, <<Tag(others, ",!s390x$"), Tag(others, "&& !s390x$")>>),
        Create("cpuinfo_sw64.go", {Test("exists", {"cpuinfo_armx.go", "cpuinfo_arm64.go"}, "")}),
        On({Exists(info), Has(info, "parseCPUInfoX86"), Lacks(info, "parseCPUInfoSW64")},
           <<If({Has(info, "fmt")},   AppendTo(info, "func with fmt", {"parseCPUInfoSW64"})),
             If({Lacks(info, "fmt")}, AppendTo(info, "func with errors", {"parseCPUInfoSW64"}))>>),
        InsertOnce("stat.go", "Increase default scanner buffer", "scanner.Scan()", "buf := make")>>

-----------------------------------------------------------------------------
PorterOf ==
  [RoaringBitmap |-> RoaringBitmap, CiliumEbpfInternal |-> CiliumEbpfInternal,
   PebbleManual |-> PebbleManual, PebbleRawalloc |-> PebbleRawalloc,
   RistrettoZ |-> RistrettoZ, JosharianNative |-> JosharianNative,
   MadminKernel |-> MadminKernel, MadminKernelV2 |-> MadminKernelV2,
   MadminKernelV3 |-> MadminKernelV3, URootUbinary |-> URootUbinary,
   UioUbinary |-> UioUbinary, Starlark |-> Starlark,
   ModerncMemory |-> ModerncMemory, Fasthttp |-> Fasthttp,
   KlauspostCrc32 |-> KlauspostCrc32, GoConcertAtomic |-> GoConcertAtomic,
   ContainerdPlatforms |-> ContainerdPlatforms, Platforms |-> Platforms,
   GomonkeyV2 |-> GomonkeyV2, BoltdbBolt |-> BoltdbBolt,
   CreackPty |-> CreackPty, GoOle |-> GoOle,
   GopsutilHost |-> GopsutilHost, GopsutilV3Host |-> GopsutilV3Host,
   GoSysconf |-> GoSysconf, KrPty |-> KrPty,
   ContinuitySysx |-> ContinuitySysx, RootlesskitSignal |-> RootlesskitSignal,
   MikiohTcp |-> MikiohTcp, MartenTcp |-> MartenTcp,
   Ocicrypt |-> Ocicrypt, DockerApiTypes |-> DockerApiTypes,
   DroneCompiler |-> DroneCompiler, GoSwagger |-> GoSwagger,
   RuncSeccomp |-> RuncSeccomp, RuntimeSpec |-> RuntimeSpec,
   DroneLinter |-> DroneLinter, BuildkitLlb |-> BuildkitLlb,
   OtelSemconv |-> OtelSemconv, RuncSystem |-> RuncSystem,
   VishvanandaNetns |-> VishvanandaNetns, Crc64nvme |-> Crc64nvme,
   ContainersCompletion |-> ContainersCompletion, ImageSpecSchema |-> ImageSpecSchema,
   ContainerdSeccomp |-> ContainerdSeccomp, ContainerdFifo |-> ContainerdFifo,
   RuncPatchbpf |-> RuncPatchbpf, Sif |-> Sif,
   SifV2 |-> SifV2, LibseccompGolang |-> LibseccompGolang,
   CadvisorMachine |-> CadvisorMachine, Sha256Simd |-> Sha256Simd,
   MobySignal |-> MobySignal, ValyalaGozstd |-> ValyalaGozstd,
   EtcdBbolt |-> EtcdBbolt, SysCpu |-> SysCpu,
   NetIpv4 |-> NetIpv4, NetIpv6 |-> NetIpv6,
   NetSocket |-> NetSocket, PrometheusProcfs |-> PrometheusProcfs]
=============================================================================
