# Specifications of sw-go-porter

sw-go-porter is a set of bash scripts that make a Go module's `vendor/` tree
compile for the SW64 architecture. `port.sh <module>` downloads the
dependencies with `go mod vendor` and then runs, for every package the
repository knows and the tree holds, the package's own script
`pkg/<package>/port.sh` on it: a **porter**. A porter recognises what it finds
with `grep` and `[ -f ]` and changes it with `sed -i`, `cp -f`, `mv` and `>>`.

The scripts keep no record of what they have done. Whether a file still has to
be edited is read off the file, so everything that matters depends on the
*sequence* of runs a tree has seen: a second run without a download, a run that
was interrupted, one in which a command failed. No test of the repository
exercises such sequences, and that is what these modules are about.

## The system

| Component | State | Operations | Where |
|---|---|---|---|
| dispatcher | the module's path, the loop's position, `PORTED` | read the argument, two questions, download, loop over `pkg/`, summary | `port.sh` |
| common.sh | none; colours | sourced by the dispatcher and by every porter, whose `set -e` makes a failing `tput` fatal | `common.sh` |
| 62 porters | the files of one vendored package | compound commands: an `if` on files and markers, then edits | `pkg/*/port.sh` |
| generate.sh | `seccomp_default.go` of containerd | computes the SW64 system calls from three kernel headers and inserts them | `pkg/github.com_containerd_containerd_contrib_seccomp/generate.sh` |
| buildJmpDirective | its result | splits an address into four signed halves and encodes seven instructions | `pkg/github.com_agiledragon_gomonkey_v2/jmp_sw64.go` |
| parseCPUInfoSW64 | the list of processors | parses `/proc/cpuinfo` | `pkg/github.com_prometheus_procfs/parseCPUInfoSW64.go` |
| other shipped Go files | none | constants, system call wrappers | `pkg/*/*.go`, `pkg/golang.org_x_sys_unix_v*` |

How they interact: the dispatcher runs the porters one after the other in the
order of `ls`, each in a shell of its own. They share nothing but the file
system. The dispatcher does not look at a porter's exit status. A porter ends
at the first command that fails (`set -e`), except inside a `&&` chain, where
only the rest of the chain is skipped. Dispatcher and porters do not run
concurrently; Ctrl-C reaches both.

What is hard:

- *repetition*: a porter meets a tree it has ported, because the download may
  be skipped (`port.sh:45`);
- *interruption*: a kill or Ctrl-C between any two commands, or within `cp`,
  which truncates its target before it writes it;
- *partial failure*: a command fails (disk full, permissions, a file that is
  not there, `TERM` unset), and the dispatcher goes on;
- *stale evidence*: one marker stands for several edits; a file's existence
  stands for its being complete; an edit may write a later edit's marker or
  hide its anchor;
- *variation*: upstream has changed these files over the years, so any file or
  anchor may be missing.

What makes each component correct:

- porter: writes no text twice (`AtMostOnce`), makes every edit the vendored
  package calls for when nothing disturbs it (`CleanRunComplete`), is stable
  under reruns (`RerunStable`), repairs an interruption (`RepairedByRerun`) or
  keeps what it cannot repair to the files it was at (`DamageConfined`), and
  comes to an end (`Terminates`);
- dispatcher: leaves a tree ported when nothing fails, whatever earlier
  sessions left (`Heals`), reports the packages it found (`ListsThePresent`),
  does not port what a failed download left (`FailedDownloadStops`), and
  changes nothing unasked (`OnlyWhenConfirmed`);
- the x/sys/unix porters: the SW64 build declares every symbol once
  (`DeclaredOnce`) and what it uses (`UsesDeclared`), whichever version of the
  package was vendored;
- generate.sh: allows no system call that is withheld and forgets none
  (`NothingWithheld`, `NothingForgotten`);
- parseCPUInfoSW64: gives each processor the fields of its own lines
  (`EveryProcessorInOrder`, `FieldsOfOwnLines`);
- buildJmpDirective: the instructions jump through the word at the given
  address (`JumpsThroughTarget`).

## Modules

```
EditScript            commands and tests of the porters, and what they do
 ├─ EditScript_proofs  lemmas: running a script, which edits are in each other's way
 ├─ PackageScripts    60 porters as sequences of compound commands
 ├─ UnixScripts       the two porters of golang.org/x/sys/unix
 └─ PackagePort       one porter at work: runs, failures, interruptions, downloads
     ├─ PackagePort_proofs   TypeCorrect, NeverTwice, WritesInOrder
     │   └─ Convergence_proofs   (with EditScript_proofs) RunsComplete, RerunsAreStable,
     │       │                   RerunsRepair, RunsAsAWhole, PromiseKept
     │       └─ MCPackagePort    (with PackageScripts) bounded sets of vendored packages
     ├─ UnixPort             (with UnixScripts) what the SW64 build declares
     │   └─ UnixVersions         versions of x/sys/unix, and what a word depends on
     │       └─ UnixPort_proofs  (with PackagePort_proofs, EditScript_proofs) RemovalsFind,
     │           │               UnixRerunRepairs, VersionsDeclareOnce, VersionsDeclareUsed
     │           └─ MCUnixPort   the history of the package
     └─ (implements) VendoredPackage    what a porter promises
                       └─ (used by) Session    the dispatcher
                            └─ Session_proofs ─ MCSession   SessionHeals, SessionKeepsPromises, ...
SeccompSyscalls       generate.sh
 ├─ SeccompSyscalls_proofs   SeccompSafe, SeccompComplete
 └─ MCSeccompSyscalls
CpuInfo               parseCPUInfoSW64
 ├─ CpuInfo_proofs    CpuTypeCorrect, CpuOrderCorrect, CpuFieldsCorrect
 └─ MCCpuInfo
JmpDirective          the encoder and a processor
 └─ JmpDirective_proofs      JmpTypeCorrect, JumpsCorrect
```

### EditScript

A directory is the set `there` of its files, the set `has` of pairs
*(file, word)* for the words that the porter looks for, anchors an edit at or
writes, and the set `twice` of the pairs that were written when they were there
already. A word stands for a whole pattern or text: where a text holds the
pattern of another command or a marker, the command lists it in `new`. This is
the only thing about texts that the control flow of a porter depends on.

`Effect` is what each command does when it succeeds, `Torn` what it may leave
when it is interrupted: `cp` an empty file, `sed -i` and `mv` nothing new,
because both rename; the texts of `>>` are far below a page and are taken to be
written at once. `Ported` is the big-step meaning of a script, the reference
that the small steps of PackagePort are compared with; `RunBlock` is the same
for one compound command.

Six conditions are read off a script's text alone. They are what the theorems
ask of a script, and MCPackagePort lists the porters that meet them:

- `Disciplined` (55 of the 60 in PackageScripts): a second run
  writes nothing twice. Whatever an `sed` insertion, a `>>` or an `s` command
  that keeps its pattern writes is guarded by a marker it writes itself and
  nothing else removes, or by the file's absence, or the file is written anew
  earlier in the same block.
- `Convergent`: the compound commands are `Local`, that is, each works on one
  file that no other one looks at; and each is `Marked` (the outer test asks
  for the absence of a text that every command writes), `Settling`
  (substitutions that leave nothing to substitute) or `Rebuilding` (the file is
  shipped before it is edited).
- `SelfRepairing`, of a block: a run finishes what an interrupted one began. No
  failure is passed over, and in a marked block at most one command runs
  (`Exclusive`), so that the marker is its last word. `Resumable` is a convergent
  script of such blocks.
- `TellsVersions`: no test within a block asks for a file that the script itself
  makes, and none is moved away, so that what an interrupted run has left is not
  taken for another version of the package.
- `Orderly`, of a block: no command takes away what a later one waits for
  (`LetsRun`), and none undoes what an earlier one made (`LeavesWork`).
- `Thorough` (in PackagePort): convergent with orderly blocks only.

### PackageScripts

One definition per directory of `pkg/`, in the order of its commands. `On` is a
compound command (`if ... then ... fi`), `If` a test within it, `AndThen` a
`&&`. The porters for `golang.org_x_sys_unix_v1` and `_v2` are in UnixScripts. Two
simplifications: in a build constraint the pattern begins at the first
architecture and the replacement puts `sw64` before it, so the word that is
looked for is gone after the edit (`Tag`); and where a porter tests a condition
once for several commands, each command carries the test, which is the same as
long as no command changes it, as is the case in all of them.

### UnixScripts and UnixPort

The two scripts (a third name, `golang.org_x_sys_unix`, that the dispatcher
would find is presumably a link to one of them) copy a complete set of SW64
files and then fit them to the version they meet: functions are
removed with line ranges that `grep -n` yields (`Remove`), functions and types
that upstream has gained are appended from `files/` (`Add`, `AddAs`), names are
changed (`Rename`; the loop over the sizes is `UnexportSizes`), the calls without
an error result are given one (`ReturnErrors`, three `sed`s in this order), and the files common to all architectures are kept out of
the SW64 build (`Exclude`). The word of a command is the symbol that it looks
for, so a file is the set of symbols it declares. `ShippedInBoth`, `ShippedV1`
and `ShippedV2` are what the shipped files declare, read from these files, of
the symbols the scripts look for.

UnixPort is PackagePort with these scripts, and what `go build` makes of the
result: `Sw64Build` is the files that GOARCH=sw64 compiles, by their names and
the constraints in them (`//go:build` overrules `// +build`), `OtherBuild` those
of another architecture, the reference for what the package has to declare.
The `cp` of six files is six commands; that `cp` goes on after one that fails is
left out. Two conditions are read off the scripts' text for the theorems:
`Supplied`, that every function whose lines are removed was shipped earlier in
the same compound command and nothing in between removes it; and `Fitted`, that
the first compound command ships files and then fits them, and that the others
edit the build lines of one further file each.

UnixVersions says what a version is: for each change in the history of
x/sys/unix that the script reacts to, what is declared before it or what is
declared since (`Mixture`), with one set of build lines. It also says what the
fate of a word depends on: `Slice` adds to some words those that are looked for by
the commands that may change one of them, until nothing is added. A porter is
`Separable` if no question about its result, one symbol or one pair of function
and type, is about more than two changes in this way.

In UnixPort, `SpecOfOneDownload` leaves out `Download`, after which everything
starts again.

### PackagePort

`pkg` is chosen once; `pc`, `blk` and `pos` are the place in its script; `dir`
is the vendored directory. The actions are those of bash: `Source` (common.sh),
`EnterBlock` and `SkipBlock` (the outer `if`), `Edit` and `SkipEdit` (a command,
an inner `if` that does not hold), `EditFails` (`set -e`), `EditFailsInChain`
(`&&`), `LeaveBlock`, `Finish`; and those around it: `Launch`, `Download`,
`Kill`. `origin`, `goal`, `smooth` and `clean` are history: the directory as it
was vendored, what an undisturbed run makes of it, whether anything has been
disturbed since, and whether a command has failed in this run.

`CleanRunComplete` measures a run against the vendored package: `CalledFor` says
which commands it calls for (their tests hold in it, what they read is there),
and `Complete` that the directory has their texts; files that are shipped or
copied count too. Where several variants of a file are shipped one over the other, one of them
is enough (`Versions`).

`DamageConfined` is about what the other properties leave open: the porters that a
rerun does not repair. After a run without failure, whatever went before it, a
file is as an undisturbed run would leave it, unless a compound command that
cannot finish what it began has left its marker behind (`Branded`) and works on
this file; and then the file has no text that it should not have. `NotRepairable`
and `NotContained` in MCPackagePort say for whom this is news: six porters are not
repairable and yet contained (the completion porter, image-spec, libseccomp, cadvisor,
runc patchbpf and moby signal). The five that are not idempotent and the
four that take an interrupted run for another version (gozstd and the three of
x/net) promise nothing after an interruption, and nothing is claimed of them.

### VendoredPackage and Session

VendoredPackage is what a porter looks like from outside: a package is fresh,
ported or torn. A run that reaches its end leaves it ported if nothing has been
disturbed since the download, and, for a porter whose rerun repairs, if no
command of this run failed. PackagePort implements it under a refinement
mapping (`Promise`, property `KeepsPromise`). A command that fails may leave any
of the three statuses, fresh included: a `cp` that is cut short can leave a file
that looks as it did when it was downloaded. Session uses the same operators
(`P!Ends`, `P!Disturbed`) for what a porter may do to its package, so what is
checked of the dispatcher holds for any porter that keeps the promise. Packages
whose porter is not idempotent are treated as disturbed by their second run.
Session in turn implements VendoredPackage once for every package whose porter
is idempotent (`V(p)`, property `KeepsPromises`): a package that is not under
`vendor/` is taken for a fresh one, the loop's current package for the one that
is running, and a failure is noted until the porter ends. So the two refinements
meet in one abstract specification: what `PackagePort` is shown to promise is
what the sessions do to each package, and no more.

Session follows `port.sh`: `ReadArgument` (l. 12-34, every early exit is `exit 0`),
`Confirm` (38-42), `SkipDownload`, `Download`, `DownloadFails` (45-55),
`PassPackage`, `RunPorter`, `NextPackage` (60-68), `Summary` (71-93), and
`Interrupt`. The argument `spaced` is a directory whose path holds a space: it
passes the test at l. 29, which quotes it, and breaks every later use, which
does not; `cd` (48) then fails, nobody looks, and `go mod vendor` runs where the
caller is. A download that does not come to its end, because `go` fails
(`DownloadFails`) or because Ctrl-C ends it together with the dispatcher
(`Interrupt`), leaves what `CutShort` says: `vendor/` as it was, or removed, with
some of the packages written.

### SeccompSyscalls

The chain of `port.sh:18-21` and `generate.sh`. The profile is a set of pairs
*(place, name)*: what it allows always, by architecture, or by capability. The
script computes a difference of sets by counting: `sort | uniq -u` of one list
that holds the names to exclude twice (`Occurrences`). The constants are any
headers and any profile; the one assumption, that the two names `port.sh`
inserts are in the script's own list of disabled calls, is line 27.

### CpuInfo

The scanner's position, the list and the index `i` that the loop counts beside
it. A line is what the code asks of it: its key, whether `": "` or only `":"`
follows, whether a number does, and whether it is too long for `bufio.Scanner`,
in which case the loop ends as at the end of the file, since nobody asks
`scanner.Err()`. The value of a field is the number of its line, which makes
"whose line is it" a question about numbers. `firstNonEmptyLine` is procfs's and
is modelled from its use.

### JmpDirective

`Split` is one round of the loop (l. 26-32), `Build` the seven instructions
(l. 34-40), and `LoadHigh` ... `Jump` are the processor's, modelled from the
comments beside the instructions: displacements are sign-extended, register 31
reads 0, registers wrap around. Registers are words of four halves; `Base`, the
number of values of a half, is 2^16 in the code. The numbers of the opcodes and
the places of the fields within a 32-bit word are left out.

## Runs

| Run | What it shows |
|---|---|
| `porters` | All 60 porters, with failures and interruptions, on the vendored packages that **Bounds** describes: `IInv` and `Converging`, the inductive invariants of the proofs, and what they are for: `AtMostOnce`, `CleanRunComplete`, `RerunStable`, `RepairedByRerun`. `Underway` does the same for the idempotent porters that are not stable, and `DamageConfined` says what is left of an interruption that a rerun does not repair: files of a compound command that was cut short behind its own marker, with edits missing and nothing worse. |
| `porters_promise` | Under fairness: porters implement VendoredPackage and come to an end. |
| `session` | The dispatcher, two sessions, three packages, every argument and reply: `Heals`, `ListsThePresent` and the like, and that each package sees no more than VendoredPackage says (`KeepsPromises`). |
| `jmp_directive` | All 256 addresses with halves of two bits. |
| `unix` | Both x/sys/unix porters on versions wholly before or after the 25 (31) changes they react to, but for one, and two launches with failures and interruptions: the SW64 build declares each symbol once and what it uses; a removal never searches in vain; a rerun repairs all but a half-excluded file. `Course` is the inductive invariant of the proofs as far as it can be evaluated, with the conditions that the theorems ask of the two scripts, and evaluates the samples that stand for all mixtures of changes. |
| `seccomp` | Headers and profiles over five names: nothing withheld is allowed, nothing available is forgotten. |
| `cpu_info` | All files of up to five lines, of lines that the code tells apart. |
| `sif_repeats` | Counterexample: a second run of the sif porter inserts `HdrArchSW64` again. |
| `done_unfinished` | Counterexample: `Done.` for a package that lacks an edit, after an interruption. |
| `spaced_path` | Counterexample: `vendor/` of another module is rewritten. |
| `sif_undeclared` | Counterexample: `lookup.go` names a constant that the package does not declare. |
| `summary_untruthful` | Counterexample: a package that was not ported is listed under "Packages ported:". |

`CHECK_DEADLOCK FALSE` is set in all of them: the number of launches or sessions
is bounded, and the processor stops after its last instruction.

### Bounds

- `MaxRuns` (launches and downloads): 2 in most runs. Every hazard of
  repetition shows in the second run, after an interruption at any point of the
  first; the ten `SamplePorters`, one of each shape, are allowed 4. That more runs add nothing to `AtMostOnce` is
  the theorem `NeverTwice`.
- `MaxOdd`: the vendored packages. The expected package has every file and
  anchor that the script names and none of its markers; `Vendored` has all
  packages that differ from it in at most `MaxOdd` points: a file is missing, an
  anchor is missing, a marker is there already. It is 2 for the samples, 0 for the
  two loops over many files (fasthttp, otel semconv) and 1 for the others. One point is what separates two
  versions of a package as far as most scripts can tell; the theorem holds for
  any set of packages that do not hold the porter's own texts.
- The five assumptions at the end of MCPackagePort list the porters that are not
  `Idempotent` (5), not `Repairable` (15), not `Stable` (11) and idempotent but not
  `Contained` (4), and say that all
  stable ones are `Thorough`; TLC evaluates the conditions on every script, so a
  change of a script that loses the discipline is noticed.
- `porters_promise` leaves out porters whose script is that of another one up
  to names (`TwinPorters`), because temporal checking is the costly part. It also
  leaves out the five porters that are not Idempotent.
- Session: three packages, one of each kind that MCPackagePort finds (plain;
  several edits under one marker; repeating); two sessions, since what a session
  can leave to the next is the status of the packages.
- `Base = 4`: every pattern of top bits of the four halves occurs, so every
  chain of carries does, those out of the last half included. `Garbage` has the
  least, the greatest and one other value.

- `unix`: a version is a choice, for each change in the history of
  x/sys/unix that a script reacts to, of its state before or after. The run
  explores those all before or all after but for one (`NearPicks`) with both kinds
  of build lines, the two extremes with the build lines of their time, and the
  package as it was before 2019. `Course` evaluates in addition the undisturbed run
  of every near pick with every set of build lines (`SampledPorters`). That more
  changes out of step add nothing to `DeclaredOnce` and `UsesDeclared` is the
  theorems `VersionsDeclareOnce` and `VersionsDeclareUsed`; the other properties
  are proved for any vendored package. The
  history itself is read from the scripts' comments. v1 has no answer to
  `Getrandom` moving to `syscall_linux.go`, as v2 has (v2, l. 78-80), so versions
  after that are v2's only.
- `cpu_info`: five lines make two processors with two lines of one field each, or
  one with repeated, unknown and malformed lines. That longer files add nothing
  is the theorems `CpuOrderCorrect` and `CpuFieldsCorrect`. `seccomp`: a name in each of the roles there
  are (inserted, disabled, not implemented, other); the theorems are for any names.

### Fairness

PackagePort: `WF_vars(Porter)`. A porter is a sequential process that waits for
nothing but the operating system, which keeps scheduling it. Nothing is assumed
of `Launch`, `Download` and `Kill`. Session: `WF_vars(Dispatcher)`, which says
that the dispatcher is scheduled, that the user answers its questions and that
`go mod vendor` returns; and `WF_vars(PorterEnds \/ PorterBreaks)`, that a
porter ends, which is `Terminates`. `SessionEnds` holds under these only.

## What is proved

TLAPS checks eight modules of proofs, for every value of the constants.

**A porter** (PackagePort_proofs, Convergence_proofs), from `PortAssumption`: a
script is a sequence of compound commands, a command writes its text, and a
vendored package never holds a text that only the porter writes. Nothing is
assumed about which commands, how many runs, or which of them fail or are
interrupted. What a theorem asks of the script is one of the conditions of
EditScript, which TLC evaluates on the repository's porters.

- `TypeCorrect`: `Spec => []TypeOK`.
- `NeverTwice`: `Spec => []AtMostOnce`. "Not written twice" is not inductive: the
  next command may write what the file already holds. The invariant `IInv`
  (`WritesInOrder`: `Spec => []IInv`) adds
  `Guarded`, which has two parts. `Steady` speaks of the directory at any time: a text
  that is there came with its marker, is not there twice, and the files it could be
  copied from do not hold it. `Ahead` speaks of a compound command that is being executed: the
  text of each command still to come, if it is one that grows, is not in its
  file. `Ahead` holds on entering a block because the guard saw no marker
  (`EnterAhead`), and is kept because no other command writes that text
  (`EditAhead`, from `OwnText`); interrupted commands keep `Steady`
  (`TornSteady`).
- `StaysOnCourse`: `Spec => []Converging`, the invariant behind the next four. "The
  last run ended at the goal" says nothing of the states in between, so
  `Converging` says of every compound command that it *would* bring its file to
  the goal if it were run from its beginning on the directory as it is
  (`Heals`), of those the current run has passed that they have (`Passed`), and
  of the one being executed that its remaining commands will (`InBlock`). In a
  convergent script each file belongs to one compound command, so a step
  disturbs only its own (`OthersUndisturbed`), and the three kinds of block are
  three reasons why running one again changes nothing (`MidHeals`,
  `SettlingSettled`, `RebuildingHeals`). After an interruption `Heals` survives
  only if the script is resumable: `Spent` says that a marked block has not run
  a command that the marker would hide the rest of (`SpentStep`, `TornPart`,
  `StopOnCourse`).
- `RerunsRepair`: `Spec => []RepairedByRerun`. The goal is read off the
  invariant behind the last block (`AtTheGoal`).
- `RunsComplete`: for every thorough porter `CleanRunComplete`. That a run ends
  at the goal is `Converging`; that the goal holds everything that the
  vendored package called for is `GoalIsComplete`, from a second induction along
  the commands of a block: what is called for stays called for until its turn
  (`StaysCalled`), is made then (`CalledWorks`) and stays (`WorkStays`).
- `RunsAsAWhole`: the same for scripts whose compound commands depend on each
  other, where no file has a goal of its own. What is said of one file in
  `Converging` is said of the whole directory: while nothing has been disturbed,
  the compound commands that are left *would* make the goal of it (`Leads`,
  `OnItsWay`), from the beginning of the script to its end (`LeadsStart`,
  `LeadsStep`, `LeadsEnd`; `PortedFrom` takes the meaning of a script apart at a
  compound command). That a new run is on its way again, from the goal, is what
  is asked of the porter: it is `Durable` if porting what has been ported
  changes nothing. This is a statement about one undisturbed run and its repetition on
  each vendored package; the theorem carries it to any number of runs, steps and
  disturbances. TLC evaluates it through `Underway` for the six porters concerned
  (runc patchbpf, moby signal, valyala gozstd, net ipv4, ipv6 and socket), on all the
  packages of the run.
- `RerunsAreStable`: for every porter that is stable or durable, `RerunStable`.
- `PromiseKept`: a porter that is stable or durable implements VendoredPackage,
  step by step (`NextPromise`). An edit that changes anything leaves a text that
  upstream never holds (`EditLeavesOrigin`), which is why a package at work never
  looks fresh again; `Finish` is where `AtTheGoal`, or `EndsAtGoal`, is needed.

The lemmas about scripts are in EditScript_proofs. `Ported` and `RunFrom` are
recursive functions, and the library's induction theorems cannot be used, as they
take a predicate as a parameter. The lemmas there are inductions all the same:
`LeastElement`, the well-foundedness of sets of natural numbers, gives
`InductiveSet` and `DownwardSet`, which speak of *sets* of numbers, so each
induction names the set of lengths or positions for which its statement holds.
The existence of the recursive functions themselves is proved that way
(`RunExists`, `PortExists`).

**The jump code** (JmpDirective_proofs), from `JmpAssumption`: `Base` is even and
positive.

- `JmpTypeCorrect` and `JumpsCorrect`: `Spec => []JumpsThroughTarget`, for every
  address, in particular with 16-bit halves. The invariant `JmpInv` says that
  after `i` rounds the address is the sum of the `i` signed halves at their
  places and of `double` at the next place, an exact equation in the integers
  (`SplitExact`: the carry that the code adds is what the sign takes away), and
  that after each instruction register 25 is congruent modulo the word to the
  partial sum (`RegisterSum`, `RegisterProduct`). What the last carry leaves in
  `double` is a multiple of the word, so the two meet in one value
  (`CongruentWords`).

**The porters of x/sys/unix** (UnixPort_proofs), from the same assumptions.
What is asked of the scripts is `Supplied`, `Fitted` and `SampledPorters`;
`Course` evaluates all three.

- `RemovalsFind`: for any supplied script and any vendored package, whatever was
  interrupted before. `InStock` says of each removal to come that its function is
  in the file once the commands that ship it have run.
- `UnixRerunRepairs`: for any vendored package. The compound command that ships
  and fits reads files that others edit afterwards, so the argument file by file
  does not apply here either. `RepairInv` has two halves. For the first compound
  command, `InFit` compares the directory with the one in which a single
  undisturbed run would be: they agree in every file shipped so far and in
  everything that the commands look at elsewhere (`Abreast`), because `cp` writes
  the shipped files anew; `Behind` is what is left of that after it, and
  `Untouched` says that nothing else changes. For
  the others, `InStages` says that a file of build lines is as it was vendored,
  half edited or edited, and `AtEnds`, `AtLines` and `Passed` which of these it is
  where. The half edited files are the exception that `RerunRepairs` makes.
- `KeepsCourse`: `Course`, the part of `RepairInv` that TLC checks.
- `VersionsDeclareOnce` and `VersionsDeclareUsed`: for every mixture of the
  changes, 2^25 for v1 and 2^31 for v2, with each of three sets of build lines. Two
  versions that agree in the words of a slice are ported to directories that
  agree in them (`AlikeAfter`, `AlikeResult`, `AlikePorted`), and the build takes the same
  files of both (`AlikeBuild`). Since a slice is about two changes at most, a sample
  agrees with the version in it; and the samples are right, which is evaluated
  and not proved.

**The dispatcher** (Session_proofs), from `SessionAssumption`: the packages are
distinct; nothing is assumed about how many there are, how many sessions, or
which porters repair or repeat. That porters keep the promise of VendoredPackage
is built into the actions (`P!Ends`, `P!Disturbed`).

- `SessionTypeCorrect`, `SessionStops`, `SessionConfirmed`: types, nothing runs on
  a failed download, nothing changes unasked. `BeforeLoop` says what is settled
  at each stage of a session.
- `SessionHeals`: `Spec => []Heals`. `Heals` speaks of the end only. `IInv` adds
  `Passed`, the same for the packages that the loop has passed; `Ahead`, that
  after a download those to come are still as downloaded, so that their porters
  run undisturbed; and `Current`, that a failure of the porter at work is noted.
  `PorterEnds` is the step where they meet.
- `SessionLists`: `Spec => []ListsThePresent`: the summary names the packages that
  were there, each once and in the order of the loop. `IInv` adds `Listing`: what
  has been listed so far is what the loop has passed and found, and no porter makes
  a package appear or disappear.
- `SessionInvariant`: `Spec => []IInv`, which TLC also checks.
- `SessionKeepsPromises`: `Spec => KeepsPromises`. A step of the dispatcher is a
  step of the VendoredPackage of the package it works on, a download one of all
  of them, and any other step a stutter (`FarFromPackage`, `NextPromises`). The one
  fact that is needed of the past is `Noted`: where a failure is noted for a
  package, that package is disturbed.

**The system calls** (SeccompSyscalls_proofs), from `SeccompAssumption`.
`SeccompSafe` and `SeccompComplete`: counting is the set difference, and the names
inserted by the steps before do not disturb it.

**The parser** (CpuInfo_proofs), from `InfoAssumption`, for any input.
`CpuTypeCorrect`: the index is always that of the last element, so that no
`cpuinfo[i]` panics. `CpuOrderCorrect`: `Spec => []EveryProcessorInOrder`;
`CpuFieldsCorrect`: `Spec => []FieldsOfOwnLines`. The invariant says in addition where the last processor began
and that its lines reach to the line just read.

**Only model-checked**:

- `CleanRunComplete` for the eleven porters that are not stable. The six
  durable ones look at each other's files in their compound commands; that they
  are durable is evaluated, not proved. The other five repeat an edit or copy what
  they edited; for them `RerunStable`, `RepairedByRerun` and `KeepsPromise` claim
  nothing.
- `DamageConfined`, for 51 porters. For the repairable ones it is what
  `RerunsRepair` proves; for the others no theorem says which of their files an
  interruption can reach.
- That the two x/sys/unix scripts meet `Supplied` and `Fitted`, that they are
  `Separable`, and that their samples are ported right: facts about two particular
  scripts and what they ship, which TLC evaluates.
- `Terminates` and `SessionEnds`: liveness under fairness, which is out of the
  prover's reach.
- The five counterexamples.

## What the runs found

1. `pkg/github.com_sylabs_sif_pkg_sif/port.sh:46` (and `_v2`): the test looks for
   `sw64` in `sif.go`, the inserted line holds `SW64`; each further run inserts
   the constant again.
2. `pkg/github.com_containers_common_pkg_completion/port.sh:17`: two insertions
   under the marker of the first; after an interruption between the two the
   second is never made and the porter still says `Done.` `containerd/fifo`
   (l. 22-23) likewise never gets its import. The porters that
   MCPackagePort lists in `NotRepairable` have the same or a similar weakness;
   `DamageConfined` says for most of them how far it reaches.
3. `port.sh:48`: the unchecked `cd` with a path that holds a space.
4. `port.sh:66`: a package is counted as ported whatever its porter's exit
   status.
5. `pkg/github.com_sylabs_sif_pkg_sif/port.sh:36-37` (and `_v2`): `lookup.go`, which
   uses exported constants, is given `hdrArchSW64`; `sif.go` (l. 47) declares
   `HdrArchSW64`.

Noted on the way, and stated as an exception in `RerunRepairs`: the x/sys/unix
porters (v1, l. 286-288; v2, l. 269-271) edit two build lines under one marker; a
file interrupted in between stays in the SW64 build. And `parseCPUInfoSW64.go:10`
(`FirstUnsplit` of CpuInfo): the test of the first line asks for `:`, the split for
`: `, so that a file that begins with `processor:` panics instead of being refused;
`/proc/cpuinfo` has no such line.

## Not modelled

- The shipped Go files other than the two above: 27,000 of the repository's 28,800
  lines of Go are tables generated by x/sys/unix's own tools (constants, struct
  layouts, one wrapper per system call) and `mkmerge` is a binary without source that
  only commented-out lines name. They have no state and make no choices; what the porters look for in them
  is in `ShippedInBoth` and its like. The program proper is 2,000 lines of bash,
  all of which is modelled.
- Whether the edited Go files compile, beyond the symbols that UnixPort and
  `SifNamesDeclared` follow: identifiers and syntax of Go are not in the model.
- A text's place in a file, other than by the anchor's presence. So the line
  ranges of `Remove` are taken to hit the function they are meant for, which holds
  for the shipped files, and `generate.sh` to find its line "include by arch".
- Other ways to split a path that holds a space: with the space at either end, or
  with a directory of the name in front of it, the unquoted uses can hit one that
  is there.
- `SizeofLongLong` beside `SizeofLong`: the `sed` for `Long` renames both, and the
  fifth round of that loop finds nothing.
- The line of cadvisor's `GetClockSpeed`, other than whether there is one: where
  there is none, the `sed` scripts hit every line, which the model has as a command
  and no property judges.
- The environment: a value of `PORTED` inherited from it (`port.sh:66`).
- The end of the input at a question (`port.sh:40`) is a yes, as in the code.
- `Dockerfile`, `Makefile`, colours and wording.

## Plan

What is left:

1. `CleanRunComplete` for the scripts with dependent compound commands, from
   their text alone: a condition weaker than `Local`, an order of the blocks in which each one
   reads only what earlier ones have settled. It would make `Durable` a consequence
   of the text as well.
2. `unix` with `Download` between two runs: everything starts again after it, so
   `SpecOfOneDownload` leaves it out of the run. The theorems are about `Spec`,
   which has it.
