---------------------------- MODULE MCPackagePort ----------------------------
(***************************************************************************)
(* Instances of PackagePort: the real porters on every vendored directory  *)
(* that differs in at most MaxOdd points from the one they were written    *)
(* for, in which every file and anchor is there and no marker is.          *)
(***************************************************************************)
EXTENDS Convergence_proofs, PackageScripts

CONSTANT MaxOdd   \* bounds on the points in which each package differs

AllPorters == DOMAIN PorterOf

\* The loops over many files of one kind, checked with fewer oddities.
LongPorters == {"Fasthttp", "OtelSemconv"}

IdempotentPorters ==
  AllPorters \ (LongPorters \cup {"ContainerdSeccomp", "ContainerdFifo", "Sif", "SifV2", "Sha256Simd"})

\* Those whose scripts are the script of another one up to its names.
TwinPorters ==
  {"PebbleRawalloc", "RistrettoZ", "MadminKernel", "MadminKernelV2", "MadminKernelV3",
   "URootUbinary", "UioUbinary", "Platforms", "BoltdbBolt", "CreackPty", "GoOle",
   "GopsutilHost", "GopsutilV3Host", "GoSysconf", "MartenTcp", "NetIpv6"}

PromisePorters == IdempotentPorters \ TwinPorters

\* Short ones of each kind, checked with more oddities and more runs.
SamplePorters ==
  {"ContinuitySysx", "Crc64nvme", "BuildkitLlb", "EtcdBbolt", "NetIpv4", "Sha256Simd",
   "ContainersCompletion", "ImageSpecSchema", "RuncPatchbpf", "ValyalaGozstd"}

NoOdd   == [p \in Packages |-> 0]
OneOdd  == [p \in Packages |-> 1]
MoreOdd == [p \in Packages |-> IF p \in LongPorters THEN 0 ELSE IF p \in SamplePorters THEN 2 ELSE 1]

TwoRuns  == [p \in Packages |-> 2]
MoreRuns == [p \in Packages |-> IF p \in SamplePorters THEN 4 ELSE 2]

MCScript == [p \in Packages |-> PorterOf[p]]

\* Files that a porter makes and no upstream has.
MadeFiles(s) ==
  {c.file : c \in {d \in CommandsOf(s) : d.op \in {"ship", "copy", "move"}}} \ {"libzstd_linux.a"}

\* The words upstream may hold in a file: those some test or anchor looks
\* for in it or in a copy of it, except the texts of the porter.
SoughtIn(s, f) ==
  {t.word : t \in {u \in TestsOf(s) : f \in u.files}}
    \cup {c.at : c \in {d \in CommandsOf(s) : d.file = f}}

Copies(s, f) == {f} \cup {c.file : c \in {d \in CommandsOf(s) : d.op = "copy" /\ d.from = f}}

MayHold(s, f) == UNION {SoughtIn(s, g) : g \in Copies(s, f)} \ (TextsOf(s) \cup {""})

Markers(s, f) ==
  {t.word : t \in {u \in UNION {s[b].guard : b \in 1..Len(s)} : u.kind = "lacks" /\ f \in u.files}}

UpstreamFiles(s) == FilesOf(s) \ MadeFiles(s)

(* The directories that differ from the expected one in at most max         *)
(* points: a pair <<file, "">> for a file that is not there, a pair         *)
(* <<file, word>> for a word that is missing (or, for a marker, there).     *)
Vendored(s, max) ==
  LET files   == UpstreamFiles(s)
      points  == UNION {{f} \X MayHold(s, f) : f \in files}
      markers == UNION {{f} \X Markers(s, f) : f \in files}
      directory(odd) ==
        LET there == {f \in files : <<f, "">> \notin odd}
        IN  [there |-> there,
             has   |-> {x \in points : x[1] \in there /\ (x \in markers <=> x \in odd)},
             twice |-> {}]
      odds == points \cup files \X {""}
  IN  {directory({})} \cup {directory({g[k] : k \in 1..max}) : g \in [1..max -> odds]}

MCUpstream == [p \in Packages |-> Vendored(PorterOf[p], MaxOdd[p])]

\* The porters of this repository that may repeat an edit, and those of
\* which only a new download repairs an interruption.
ASSUME NotIdempotent ==
  Packages \ Idempotent =
    Packages \cap {"ContainerdSeccomp", "ContainerdFifo", "Sif", "SifV2", "Sha256Simd"}

ASSUME NotRepairable ==
  Packages \ Repairable =
    Packages \cap
      {"ContainersCompletion", "ImageSpecSchema", "ContainerdSeccomp", "ContainerdFifo",
       "RuncPatchbpf", "Sif", "SifV2", "LibseccompGolang", "CadvisorMachine", "MobySignal",
       "ValyalaGozstd", "NetIpv4", "NetIpv6", "NetSocket", "Sha256Simd"}

\* Those whose compound commands depend on each other or on several runs.
ASSUME NotStable ==
  Packages \ Stable =
    Packages \cap
      {"ContainerdSeccomp", "ContainerdFifo", "Sif", "SifV2", "Sha256Simd", "RuncPatchbpf",
       "MobySignal", "ValyalaGozstd", "NetIpv4", "NetIpv6", "NetSocket"}

\* Those in which an interrupted run is taken for another version.
ASSUME NotContained ==
  Idempotent \ Contained = Packages \cap {"ValyalaGozstd", "NetIpv4", "NetIpv6", "NetSocket"}

\* Convergent scripts, none of whose edits are in each other's way.
ASSUME AllThorough == Thorough = Stable

\* The maps of lookup.go name a constant that the package declares: a tree
\* that nothing disturbed compiles when the sif porter says Done.
SifNamesDeclared ==
  pc = "done" /\ smooth /\ pkg \in {"Sif", "SifV2"} /\ <<"lookup.go", "sw64: hdrArchSW64">> \in dir.has =>
    \E w \in {"hdrArchSW64 = 13", "hdrArchSW64 = 12"} : <<"arch.go", w>> \in dir.has
=============================================================================
