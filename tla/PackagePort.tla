----------------------------- MODULE PackagePort -----------------------------
(***************************************************************************)
(* One porter pkg/<package>/port.sh at work on one vendored package: it    *)
(* runs its compound commands in order under "set -e", may be interrupted  *)
(* between any two commands, and may be run again, on the directory it     *)
(* left behind or on a freshly vendored one.                               *)
(***************************************************************************)
EXTENDS EditScript

CONSTANTS
  Packages,   \* the directories of pkg/
  Script,     \* the compound commands of each porter
  Upstream,   \* the directories "go mod vendor" may produce for a package
  MaxRuns     \* bounds on each package's launches and downloads, for model checking

Dirs(p) ==
  LET pairs == FilesOf(Script[p]) \X WordsOf(Script[p])
  IN  [there : SUBSET FilesOf(Script[p]), has : SUBSET pairs, twice : SUBSET pairs]

\* A command writes its text; upstream never holds a text that only the porter
\* writes.
ASSUME PortAssumption ==
  /\ MaxRuns \in [Packages -> Nat]
  /\ \A p \in Packages :
       /\ Script[p] \in Seq([guard : SUBSET TestsOf(Script[p]), commands : Seq(CommandsOf(Script[p]))])
       /\ \A c \in CommandsOf(Script[p]) : c.text \in c.new
       /\ Upstream[p] \subseteq Dirs(p)
       /\ \A d \in Upstream[p] :
            /\ d.twice = {}
            /\ \A x \in d.has : x[1] \in d.there /\ x[2] \notin TextsOf(Script[p])

VARIABLES
  pkg,      \* the package, chosen once
  dir,      \* its directory under vendor/
  pc,       \* where the porter is: see TypeOK
  blk,      \* the compound command it is at
  pos,      \* the command within it
  runs,     \* launches and downloads so far
  (* History. *)
  origin,   \* the directory as it was vendored
  goal,     \* what an undisturbed run makes of it
  smooth,   \* nothing failed or was interrupted since
  clean     \* no command has failed in the current run

port == <<pc, blk, pos>>
history == <<origin, goal, smooth>>
vars == <<pkg, dir, port, runs, history, clean>>

Block    == Script[pkg][blk]
Commands == Block.commands
Cmd      == Commands[pos]

Running == pc \in {"sourcing", "testing", "editing"}

Init ==
  /\ pkg \in Packages
  /\ dir \in Upstream[pkg]
  /\ pc = "idle" /\ blk = 1 /\ pos = 1
  /\ runs = 0
  /\ origin = dir /\ goal \in Ported(Script[pkg], {dir})
  /\ smooth = TRUE /\ clean = TRUE

-----------------------------------------------------------------------------
(* The dispatcher.                                                         *)

\* It runs the porter of a package whose directory exists.
Launch ==
  /\ ~Running /\ runs < MaxRuns[pkg]
  /\ pc' = "sourcing" /\ blk' = 1 /\ pos' = 1
  /\ runs' = runs + 1 /\ clean' = TRUE
  /\ UNCHANGED <<pkg, dir, history>>

\* "go mod vendor" removes vendor/ and writes it anew.
Download ==
  /\ ~Running /\ runs < MaxRuns[pkg]
  /\ \E fresh \in Upstream[pkg] :
       /\ dir' = fresh /\ origin' = fresh
       /\ goal' \in Ported(Script[pkg], {fresh})
  /\ pc' = "idle"
  /\ runs' = runs + 1 /\ smooth' = TRUE
  /\ UNCHANGED <<pkg, blk, pos, clean>>

-----------------------------------------------------------------------------
(* The porter.                                                             *)

Stop ==
  /\ pc' = "failed"
  /\ smooth' = FALSE
  /\ UNCHANGED <<pkg, blk, pos, runs, origin, goal>>

\* source common.sh: tput may fail, and set -e then ends the porter.
Source ==
  /\ pc = "sourcing"
  /\ pc' = "testing"
  /\ UNCHANGED <<pkg, dir, blk, pos, runs, history, clean>>

SourceFails ==
  /\ pc = "sourcing"
  /\ Stop
  /\ clean' = FALSE
  /\ UNCHANGED dir

\* Mutant: the outer if is left out.
EnterUnguarded ==
  /\ pc = "testing" /\ blk <= Len(Script[pkg])
  /\ pc' = "editing" /\ pos' = 1
  /\ UNCHANGED <<pkg, dir, blk, runs, history, clean>>

\* Mutant: the first command counts as 0.
EnterAtZero ==
  /\ pc = "testing" /\ blk <= Len(Script[pkg])
  /\ AllHold(Block.guard, dir)
  /\ pc' = "editing" /\ pos' = 0
  /\ UNCHANGED <<pkg, dir, blk, runs, history, clean>>

EnterBlock ==
  /\ pc = "testing" /\ blk <= Len(Script[pkg])
  /\ AllHold(Block.guard, dir)
  /\ pc' = "editing" /\ pos' = 1
  /\ UNCHANGED <<pkg, dir, blk, runs, history, clean>>

SkipBlock ==
  /\ pc = "testing" /\ blk <= Len(Script[pkg])
  /\ ~AllHold(Block.guard, dir)
  /\ blk' = blk + 1
  /\ UNCHANGED <<pkg, dir, pc, pos, runs, history, clean>>

\* Mutant: a command may run again after it has succeeded.
EditAgain ==
  /\ pc = "editing" /\ pos <= Len(Commands)
  /\ AllHold(Cmd.when, dir) /\ CanRun(Cmd, dir)
  /\ dir' = Effect(Cmd, dir)
  /\ pos' \in {pos, pos + 1}
  /\ UNCHANGED <<pkg, pc, blk, runs, history, clean>>

Edit ==
  /\ pc = "editing" /\ pos <= Len(Commands)
  /\ AllHold(Cmd.when, dir) /\ CanRun(Cmd, dir)
  /\ dir' = Effect(Cmd, dir)
  /\ pos' = pos + 1
  /\ UNCHANGED <<pkg, pc, blk, runs, history, clean>>

\* Mutant: an inner test that does not hold ends the compound command.
SkipEditAndRest ==
  /\ pc = "editing" /\ pos <= Len(Commands)
  /\ ~AllHold(Cmd.when, dir)
  /\ pos' = Len(Commands) + 1
  /\ UNCHANGED <<pkg, dir, pc, blk, runs, history, clean>>

SkipEdit ==
  /\ pc = "editing" /\ pos <= Len(Commands)
  /\ ~AllHold(Cmd.when, dir)
  /\ pos' = pos + 1
  /\ UNCHANGED <<pkg, dir, pc, blk, runs, history, clean>>

\* A command fails: its file is missing, the disk is full, ...  set -e ends
\* the porter, unless && follows the command.
Failing ==
  /\ pc = "editing" /\ pos <= Len(Commands)
  /\ AllHold(Cmd.when, dir)
  /\ clean' = FALSE
  /\ dir' \in {dir, Torn(Cmd, dir)}

\* Mutant: without set -e the porter goes on.
EditFailsUnnoticed ==
  /\ Failing
  /\ ~Cmd.soft
  /\ pos' = pos + 1
  /\ UNCHANGED <<pkg, pc, blk, runs, history>>

EditFails ==
  /\ Failing
  /\ ~Cmd.soft
  /\ Stop

EditFailsInChain ==
  /\ Failing
  /\ Cmd.soft
  /\ pos' \in BehindChain(Commands, pos)
  /\ smooth' = FALSE
  /\ UNCHANGED <<pkg, pc, blk, runs, origin, goal>>

\* Mutant: a compound command that repeats, as a while in place of an if.
LeaveBlockNever ==
  /\ pc = "editing" /\ pos > Len(Commands)
  /\ pc' = "testing"
  /\ UNCHANGED <<pkg, dir, blk, pos, runs, history, clean>>

LeaveBlock ==
  /\ pc = "editing" /\ pos > Len(Commands)
  /\ pc' = "testing" /\ blk' = blk + 1
  /\ UNCHANGED <<pkg, dir, pos, runs, history, clean>>

\* The script's end, or the exit 0 of a porter that finds nothing to do.
Finish ==
  /\ pc = "testing" /\ blk > Len(Script[pkg])
  /\ pc' = "done"
  /\ UNCHANGED <<pkg, dir, blk, pos, runs, history, clean>>

\* Ctrl-C, a kill or a power failure.
Kill ==
  /\ Running
  /\ Stop
  /\ UNCHANGED <<dir, clean>>

-----------------------------------------------------------------------------

Porter == Source \/ SourceFails \/ EnterBlock \/ SkipBlock \/ Edit \/ SkipEdit
            \/ EditFails \/ EditFailsInChain \/ LeaveBlock \/ Finish

Next == Launch \/ Download \/ Porter \/ Kill

Spec == Init /\ [][Next]_vars

\* The operating system keeps scheduling a porter that runs.
FairSpec == Spec /\ WF_vars(Porter)

-----------------------------------------------------------------------------
(* Properties.                                                             *)

\* The porters whose text shows that they repeat no edit, that they end in the
\* same directory however often they are run, that a run finishes what an
\* interrupted one began, that no edit is in the way of another, and that
\* what an interrupted run has left keeps to the commands that were at it.
Idempotent == {p \in Packages : Disciplined(Script[p])}
Stable     == {p \in Packages : Convergent(Script[p])}
Repairable == {p \in Packages : Resumable(Script[p])}
Thorough   == {p \in Stable : \A b \in 1..Len(Script[p]) : Orderly(Script[p][b])}
Contained  == {p \in Idempotent : TellsVersions(Script[p])}

\* Types: a porter is idle, in common.sh, between two compound commands, in
\* one of them, through, or stopped before its end.  (goal is determined by
\* origin.)
TypeOK ==
  /\ pkg \in Packages
  /\ dir \in Dirs(pkg) /\ origin \in Dirs(pkg)
  /\ pc \in {"idle", "sourcing", "testing", "editing", "done", "failed"}
  /\ blk \in 1..(Len(Script[pkg]) + 1) /\ pos \in Nat \ {0}
  /\ pc = "editing" => blk <= Len(Script[pkg]) /\ pos <= Len(Commands) + 1
  /\ runs \in 0..MaxRuns[pkg]
  /\ smooth \in BOOLEAN /\ clean \in BOOLEAN

\* No text is ever written twice to the same vendored file, however often
\* the porter is interrupted and run again without a new download.
NoRepeat ==
  \A c \in CommandsOf(Script[pkg]) : Grows(c) => <<c.file, c.text>> \notin dir.twice

AtMostOnce == pkg \in Idempotent => NoRepeat

\* What the vendored package called for: the tests of the command held in it,
\* and what the command reads was there.
CalledFor(b, k) ==
  LET c == Script[pkg][b].commands[k]
  IN  /\ AllHold(Script[pkg][b].guard, origin) /\ AllHold(c.when, origin)
      /\ CanRun(c, origin)
      /\ c.op \in {"after", "subst"} => <<c.file, c.at>> \in origin.has

\* The commands of which one is enough: those that create the same file, each
\* from what it is shipped or copied for.
Versions(b, k) ==
  LET c == Script[pkg][b].commands[k]
  IN  {d \in CommandsIn(Script[pkg][b]) :
         d = c \/ ({c.op, d.op} \subseteq {"ship", "copy"} /\ d.file = c.file)}

\* A run that nothing disturbed has made every edit that the vendored
\* package called for, and shipped every file: no edit of a porter hides the
\* anchor or writes the marker of a later one.
Complete ==
  \A b \in 1..Len(Script[pkg]) : \A k \in 1..Len(Script[pkg][b].commands) :
    CalledFor(b, k) =>
      LET c == Script[pkg][b].commands[k]
      IN  /\ \E d \in Versions(b, k) : <<d.file, d.text>> \in dir.has
          /\ c.op = "subst" /\ ~Grows(c) => <<c.file, c.at>> \notin dir.has

CleanRunComplete == pc = "done" /\ smooth => Complete

\* Undisturbed runs on the same vendored files all end in the directory that
\* the first one left.
RerunStable ==
  pc = "done" /\ smooth /\ pkg \in Idempotent \cup Stable => dir = goal

\* Whatever was interrupted before, a run without failure repairs it.
RepairedByRerun ==
  pc = "done" /\ clean /\ pkg \in Repairable => dir = goal

\* The compound command has left its marker behind, which the vendored
\* package did not have, and cannot finish what it began.
Branded(block) ==
  ~SelfRepairing(block) /\ AllHold(block.guard, origin) /\ ~AllHold(block.guard, dir)

TextsIn(f, d) == {w \in TextsOf(Script[pkg]) : <<f, w>> \in d.has}

\* After any interruptions, a run without failure leaves every file as an
\* undisturbed one would, except those of a compound command that was
\* interrupted behind its own marker; and these lack edits at worst, and have
\* none that an undisturbed run would not have made.
DamageConfined ==
  pc = "done" /\ clean /\ pkg \in Contained =>
    \A f \in FilesOf(Script[pkg]) :
      \/ Part(f, dir) = Part(f, goal)
      \/ /\ \E b \in 1..Len(Script[pkg]) :
              Branded(Script[pkg][b]) /\ \E c \in CommandsIn(Script[pkg][b]) : c.file = f
         /\ TextsIn(f, dir) \subseteq TextsIn(f, goal)

\* Whatever the porter prints Done for has all its edits.
DoneMeansComplete == pc = "done" => Complete

\* The porter, seen from outside, keeps the promise of VendoredPackage.
Status ==
  IF dir = goal THEN "ported"
  ELSE IF dir = origin THEN "fresh" ELSE "torn"

Promise == INSTANCE VendoredPackage WITH
  repairs <- pkg \in Repairable,
  status  <- Status,
  phase   <- IF Running THEN "running" ELSE "idle",
  sound   <- smooth,
  hitch   <- ~clean

KeepsPromise == Promise!Spec

\* A porter that starts comes to an end.
Terminates == Running ~> ~Running
=============================================================================
