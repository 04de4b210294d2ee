-------------------------- MODULE Convergence_proofs --------------------------
(***************************************************************************)
(* Where the runs of a porter end: for every convergent script, in the     *)
(* directory that the first undisturbed run makes; for every resumable     *)
(* one, also after runs that failed or were interrupted.  And that this    *)
(* directory has every edit that the vendored package calls for.           *)
(***************************************************************************)
EXTENDS PackagePort_proofs, EditScript_proofs

-----------------------------------------------------------------------------
(* The inductive invariant.  Each compound command, run from its beginning *)
(* on the directory as it is, would bring its file to the goal; those that *)
(* the current run has passed have; and the rest of the one that it is in  *)
(* will.                                                                   *)

Target(b) == FileOf(Script[pkg][b])

Targets == {Target(b) : b \in 1..Len(Script[pkg])}

AtGoal(f) == Part(f, dir) = Part(f, goal)

Heals(b) == Part(Target(b), BlockResult(Script[pkg][b], dir)) = Part(Target(b), goal)

\* An interruption now would not lose the way to the goal, or none happened.
Healthy == smooth \/ pkg \in Repairable

Grounded ==
  /\ origin \in Upstream[pkg]
  /\ goal \in Dirs(pkg)
  /\ dir.twice \subseteq dir.has
  /\ \A f \in FilesOf(Script[pkg]) \ Targets : AtGoal(f)

Passed ==
  /\ pc \in {"testing", "editing", "done"} => \A b \in 1..(blk - 1) : AtGoal(Target(b))
  /\ pc = "sourcing" => blk = 1
  /\ pc = "done" => blk = Len(Script[pkg]) + 1

InBlock ==
  pc = "editing" =>
    /\ Part(Target(blk), Result(Commands, pos, dir)) = Part(Target(blk), goal)
    /\ Mid(Block, pos, dir)
    /\ pkg \in Repairable => Spent(Block, pos, dir)

OnCourse ==
  /\ \A b \in 1..Len(Script[pkg]) :
       b # blk \/ pc # "editing" \/ Rebuilding(Script[pkg][b]) => Heals(b)
  /\ Passed
  /\ InBlock

Converging == pkg \in Stable => Grounded /\ (Healthy => OnCourse)

CInv == TypeOK /\ Converging

-----------------------------------------------------------------------------
(* The scripts.                                                            *)

LEMMA StableScript ==
  ASSUME NEW p \in Stable
  PROVE  /\ p \in Packages
         /\ LocalType(Script[p])
         /\ Len(Script[p]) \in Nat
         /\ \A b \in 1..Len(Script[p]) :
              /\ Len(Script[p][b].commands) \in Nat
              /\ AllOn(FileOf(Script[p][b]), Script[p][b].commands)
              /\ \/ Marked(Script[p][b])
                 \/ Settling(Script[p][b])
                 \/ Rebuilding(Script[p][b])
              /\ FileOf(Script[p][b]) \in FilesOf(Script[p])
<1>1. p \in Packages /\ Convergent(Script[p])
  BY DEF Stable
<1>2. LocalType(Script[p])
  BY <1>1, ScriptType DEF LocalType, Convergent
<1>3. ASSUME NEW b \in 1..Len(Script[p])
      PROVE  FileOf(Script[p][b]) \in FilesOf(Script[p])
  <2> DEFINE Blocks == [guard : SUBSET TestsOf(Script[p]), commands : Seq(CommandsOf(Script[p]))]
  <2>0. Script[p] \in Seq(Blocks)
    BY <1>1, ScriptType
  <2>1. Script[p][b] \in Blocks
    <3> HIDE DEF Blocks
    <3> QED
      BY <2>0, ElementType
  <2>4. Script[p][b].commands \in Seq(CommandsOf(Script[p]))
    BY <2>1
  <2>2. 1 \in 1..Len(Script[p][b].commands)
    BY <1>1, <2>4 DEF Convergent, Local
  <2>3. Script[p][b].commands[1] \in CommandsOf(Script[p])
    BY <1>1, <2>2, ScriptType
  <2> QED
    BY <2>3, CommandInScript DEF FileOf
<1> QED
  BY <1>1, <1>2, <1>3, ScriptType, LocalBlocks DEF Convergent

LEMMA RepairableScript ==
  ASSUME NEW p \in Repairable
  PROVE  /\ p \in Stable
         /\ \A b \in 1..Len(Script[p]) : OneMarks(Script[p][b])
         /\ \A c \in CommandsOf(Script[p]) : ~c.soft
<1>1. p \in Stable /\ \A b \in 1..Len(Script[p]) : SelfRepairing(Script[p][b])
  BY DEF Repairable, Resumable, Stable
<1>2. ASSUME NEW c \in CommandsOf(Script[p]) PROVE ~c.soft
  <2>1. PICK b \in 1..Len(Script[p]) : c \in CommandsIn(Script[p][b])
    BY DEF CommandsOf, CommandsIn
  <2> QED
    BY <1>1, <2>1 DEF SelfRepairing
<1> QED
  BY <1>1, <1>2, StableScript DEF SelfRepairing, OneMarks

\* Directories that differ in one file only.
SameBut(f, d, e) == \A g : g # f => Part(g, e) = Part(g, d)

\* What changes the file of one compound command disturbs no other.
LEMMA OthersUndisturbed ==
  ASSUME NEW s, LocalType(s), NEW i \in 1..Len(s), NEW d, NEW e, SameBut(FileOf(s[i]), d, e)
  PROVE  \A b \in 1..Len(s) : b # i =>
           /\ Part(FileOf(s[b]), e) = Part(FileOf(s[b]), d)
           /\ Part(FileOf(s[b]), BlockResult(s[b], e)) = Part(FileOf(s[b]), BlockResult(s[b], d))
<1> SUFFICES ASSUME NEW b \in 1..Len(s), b # i
             PROVE  /\ Part(FileOf(s[b]), e) = Part(FileOf(s[b]), d)
                    /\ Part(FileOf(s[b]), BlockResult(s[b], e))
                         = Part(FileOf(s[b]), BlockResult(s[b], d))
  OBVIOUS
<1>1. FileOf(s[b]) # FileOf(s[i]) /\ FileOf(s[i]) \notin FilesIn(s[b])
  BY LocalBlocks
<1>2. Agree(FilesIn(s[b]), e, d)
  BY <1>1 DEF Agree, SameBut
<1>3. Len(s[b].commands) \in Nat /\ AllOn(FileOf(s[b]), s[b].commands)
  BY LocalBlocks DEF LocalType
<1> QED
  BY <1>1, <1>2, <1>3, BlockAgree DEF SameBut

\* Directories that hold the same of every file are the same.
LEMMA DirEqual ==
  ASSUME NEW p \in Packages, NEW d \in Dirs(p), NEW e \in Dirs(p),
         \A f \in FilesOf(Script[p]) : Part(f, d) = Part(f, e)
  PROVE  d = e
<1> DEFINE Fs    == FilesOf(Script[p])
           pairs == Fs \X WordsOf(Script[p])
<1>1. \A f \in Fs : /\ f \in d.there <=> f \in e.there
                    /\ \A x : x[1] = f => (x \in d.has <=> x \in e.has) /\ (x \in d.twice <=> x \in e.twice)
  BY PartEqual
<1>2. /\ d \in [there : SUBSET Fs, has : SUBSET pairs, twice : SUBSET pairs]
      /\ e \in [there : SUBSET Fs, has : SUBSET pairs, twice : SUBSET pairs]
  BY DEF Dirs
<1>3. d.there = e.there
  BY <1>1, <1>2
<1>4. \A x \in pairs : x[1] \in Fs
  OBVIOUS
<1>5. d.has = e.has
  BY <1>1, <1>2, <1>4
<1>6. d.twice = e.twice
  BY <1>1, <1>2, <1>4
<1>7. /\ d = [there |-> d.there, has |-> d.has, twice |-> d.twice]
      /\ e = [there |-> e.there, has |-> e.has, twice |-> e.twice]
  BY <1>2
<1> QED
  BY <1>3, <1>5, <1>6, <1>7

\* What an undisturbed run makes of a vendored package.
LEMMA FreshGoal ==
  ASSUME NEW p \in Stable, NEW d \in Upstream[p], NEW G \in Ported(Script[p], {d})
  PROVE  /\ d \in Dirs(p) /\ d.twice = {}
         /\ G \in Dirs(p)
         /\ \A b \in 1..Len(Script[p]) :
              Part(FileOf(Script[p][b]), BlockResult(Script[p][b], d)) = Part(FileOf(Script[p][b]), G)
         /\ \A f : f \notin {FileOf(Script[p][b]) : b \in 1..Len(Script[p])} =>
              Part(f, d) = Part(f, G)
<1>1. p \in Packages /\ LocalType(Script[p])
  BY StableScript
<1>2. d \in Dirs(p) /\ d.twice = {}
  BY <1>1, PortAssumption DEF PortAssumption
<1>3. G \in Dirs(p)
  <2>1. \A b \in 1..Len(Script[p]) : \A k \in 1..Len(Script[p][b].commands) :
          \A x \in Dirs(p) : After(Script[p][b].commands[k], x) \in Dirs(p)
    BY <1>1, ScriptType, EffectType DEF After
  <2>2. Ported(Script[p], {d}) \subseteq Dirs(p)
    <3> HIDE DEF Dirs
    <3> QED
      BY <1>1, <1>2, <2>1, StableScript, PortedInside
  <2> QED
    BY <2>2
<1>4. /\ \A b \in 1..Len(Script[p]) :
           Part(FileOf(Script[p][b]), G) = Part(FileOf(Script[p][b]), BlockResult(Script[p][b], d))
      /\ \A g : (\A b \in 1..Len(Script[p]) : g # FileOf(Script[p][b])) => Part(g, G) = Part(g, d)
  <2>1. PortedUpTo(Script[p], d, Len(Script[p]), G)
    BY <1>1, PortedLocal
  <2> QED
    BY <2>1 DEF PortedUpTo
<1> QED
  BY <1>2, <1>3, <1>4

-----------------------------------------------------------------------------
(* The steps.                                                              *)

LEMMA DirProper ==
  ASSUME NEW p, NEW d \in Dirs(p), d.twice \subseteq d.has
  PROVE  Proper(d)
BY DEF Proper, Dirs

\* A vendored package is on course.
LEMMA FreshConverging ==
  ASSUME pkg \in Stable, dir \in Upstream[pkg], origin = dir,
         goal \in Ported(Script[pkg], {dir}), pc = "idle"
  PROVE  Grounded /\ OnCourse
<1>1. /\ dir \in Dirs(pkg) /\ dir.twice = {}
      /\ goal \in Dirs(pkg)
      /\ \A b \in 1..Len(Script[pkg]) :
           Part(FileOf(Script[pkg][b]), BlockResult(Script[pkg][b], dir))
             = Part(FileOf(Script[pkg][b]), goal)
      /\ \A f : f \notin {FileOf(Script[pkg][b]) : b \in 1..Len(Script[pkg])} =>
           Part(f, dir) = Part(f, goal)
  BY FreshGoal
<1>2. Grounded
  BY <1>1 DEF Grounded, Targets, Target, AtGoal
<1>3. OnCourse
  BY <1>1 DEF OnCourse, Passed, InBlock, Heals, Target
<1> QED
  BY <1>2, <1>3

\* So is one downloaded anew.
LEMMA FreshConvergingNext ==
  ASSUME pkg' \in Stable, dir' \in Upstream[pkg'], origin' = dir',
         goal' \in Ported(Script[pkg'], {dir'}), pc' = "idle"
  PROVE  Grounded' /\ OnCourse'
<1>1. /\ dir' \in Dirs(pkg') /\ dir'.twice = {}
      /\ goal' \in Dirs(pkg')
      /\ \A b \in 1..Len(Script[pkg']) :
           Part(FileOf(Script[pkg'][b]), BlockResult(Script[pkg'][b], dir'))
             = Part(FileOf(Script[pkg'][b]), goal')
      /\ \A f : f \notin {FileOf(Script[pkg'][b]) : b \in 1..Len(Script[pkg'])} =>
           Part(f, dir') = Part(f, goal')
  BY FreshGoal
<1>2. Grounded'
  BY <1>1 DEF Grounded, Targets, Target, AtGoal
<1>3. OnCourse'
  BY <1>1 DEF OnCourse, Passed, InBlock, Heals, Target
<1> QED
  BY <1>2, <1>3

LEMMA InitConverging == Init => CInv
<1> SUFFICES ASSUME Init PROVE CInv
  OBVIOUS
<1>1. TypeOK
  BY InitType
<1>2. pkg \in Stable => Grounded /\ OnCourse
  BY FreshConverging DEF Init
<1> QED
  BY <1>1, <1>2 DEF CInv, Converging

\* What the invariant says inside a compound command.
LEMMA AtCommand ==
  ASSUME TypeOK, pkg \in Stable, pc = "editing"
  PROVE  /\ blk \in 1..Len(Script[pkg])
         /\ Len(Commands) \in Nat
         /\ pos \in 1..(Len(Commands) + 1)
         /\ AllOn(Target(blk), Commands)
         /\ Target(blk) = FileOf(Block)
         /\ pos <= Len(Commands) =>
              /\ pos \in 1..Len(Commands)
              /\ InPlace(Cmd) /\ Cmd.file = Target(blk)
              /\ Cmd \in CommandsOf(Script[pkg])
         /\ Marked(Block) \/ Settling(Block) \/ Rebuilding(Block)
         /\ Grounded => Proper(dir)
<1>1. blk \in 1..Len(Script[pkg]) /\ Len(Commands) \in Nat
  BY StableScript DEF TypeOK, Commands, Block
<1>2. pos \in 1..(Len(Commands) + 1)
  BY <1>1 DEF TypeOK
<1>3. AllOn(Target(blk), Commands) /\ Target(blk) = FileOf(Block)
  BY <1>1, StableScript DEF Commands, Block, Target
<1>4. pos <= Len(Commands) =>
        /\ pos \in 1..Len(Commands)
        /\ InPlace(Cmd) /\ Cmd.file = Target(blk)
        /\ Cmd \in CommandsOf(Script[pkg])
  <2> SUFFICES ASSUME pos <= Len(Commands)
               PROVE  /\ pos \in 1..Len(Commands)
                      /\ InPlace(Cmd) /\ Cmd.file = Target(blk)
                      /\ Cmd \in CommandsOf(Script[pkg])
    OBVIOUS
  <2>1. pos \in 1..Len(Commands)
    BY <1>1, <1>2
  <2>2. InPlace(Cmd) /\ Cmd.file = Target(blk)
    BY <1>3, <2>1 DEF AllOn, Cmd
  <2>3. Cmd \in CommandsOf(Script[pkg])
    BY <1>1, <2>1, ScriptType DEF Cmd, Commands, Block, TypeOK
  <2> QED
    BY <2>1, <2>2, <2>3
<1>5. Marked(Block) \/ Settling(Block) \/ Rebuilding(Block)
  BY <1>1, StableScript DEF Block
<1>6. Grounded => Proper(dir)
  BY DirProper DEF Grounded, TypeOK
<1> QED
  BY <1>1, <1>2, <1>3, <1>4, <1>5, <1>6

\* The directory stays grounded when only the current compound command's file
\* changes.
LEMMA StaysGrounded ==
  ASSUME TypeOK, pkg \in Stable, pc = "editing", Grounded,
         Proper(dir'), SameBut(Target(blk), dir, dir'),
         UNCHANGED <<pkg, origin, goal>>
  PROVE  Grounded'
<1>1. \A f \in FilesOf(Script[pkg]) \ Targets : Part(f, dir') = Part(f, goal)
  BY AtCommand DEF Grounded, AtGoal, Targets, SameBut
<1> QED
  BY <1>1 DEF Grounded, Proper, AtGoal, Targets, Target

\* A change of the current compound command's file disturbs no other one.
LEMMA FileUndisturbed ==
  ASSUME TypeOK, pkg \in Stable, blk \in 1..Len(Script[pkg]), NEW e,
         SameBut(Target(blk), dir, e)
  PROVE  \A b \in 1..Len(Script[pkg]) : b # blk =>
           /\ Part(Target(b), e) = Part(Target(b), dir)
           /\ Part(Target(b), BlockResult(Script[pkg][b], e))
                = Part(Target(b), BlockResult(Script[pkg][b], dir))
<1> DEFINE s == Script[pkg]
<1>1. LocalType(s) /\ blk \in 1..Len(s) /\ SameBut(FileOf(s[blk]), dir, e)
  BY StableScript DEF Target
<1>2. \A b \in 1..Len(s) : b # blk =>
        /\ Part(FileOf(s[b]), e) = Part(FileOf(s[b]), dir)
        /\ Part(FileOf(s[b]), BlockResult(s[b], e)) = Part(FileOf(s[b]), BlockResult(s[b], dir))
  <2> HIDE DEF s
  <2> QED
    BY <1>1, OthersUndisturbed, Z3
<1> QED
  BY <1>2 DEF Target

\* One command of a compound command, run or passed over.
LEMMA CommandOnCourse ==
  ASSUME TypeOK, pkg \in Stable, pc = "editing", pos <= Len(Commands),
         Grounded, dir' = After(Cmd, dir),
         AllHold(Cmd.when, dir) \/ dir' = dir,
         pos' = pos + 1, UNCHANGED <<pkg, pc, blk, origin, goal>>
  PROVE  Grounded' /\ (OnCourse => OnCourse')
<1> DEFINE f == Target(blk)
<1>0. /\ blk \in 1..Len(Script[pkg])
      /\ Len(Commands) \in Nat
      /\ AllOn(f, Commands)
      /\ f = FileOf(Block)
      /\ pos \in 1..Len(Commands)
      /\ InPlace(Cmd) /\ Cmd.file = f
      /\ Proper(dir)
  BY AtCommand
<1>1. Proper(dir') /\ SameBut(f, dir, dir')
  BY <1>0, AfterProper, AfterElsewhere DEF SameBut
<1>2. Grounded'
  BY <1>1, StaysGrounded
<1> SUFFICES ASSUME OnCourse PROVE OnCourse'
  BY <1>2
<1>3. \A b \in 1..Len(Script[pkg]) : b # blk =>
        /\ Part(Target(b), dir') = Part(Target(b), dir)
        /\ Part(Target(b), BlockResult(Script[pkg][b], dir'))
             = Part(Target(b), BlockResult(Script[pkg][b], dir))
  BY <1>0, <1>1, FileUndisturbed
<1>4. ASSUME Rebuilding(Block) PROVE Heals(blk)'
  <2>1. AllHold(Block.guard, dir)
    BY <1>4 DEF OnCourse, InBlock, Mid
  <2>2. Part(f, BlockResult(Block, dir')) = Part(f, BlockResult(Block, dir))
    <3>1. dir' = dir \/ \E k \in 1..Len(Block.commands) : AllHold(Block.commands[k].when, dir)
      BY <1>0 DEF Cmd, Commands
    <3>2. \A g : g # FileOf(Block) => Part(g, dir) = Part(g, dir')
      BY <1>0, <1>1 DEF SameBut
    <3>3. Len(Block.commands) \in Nat /\ AllOn(FileOf(Block), Block.commands)
      BY <1>0 DEF Commands
    <3> QED
      BY <1>0, <1>4, <2>1, <3>1, <3>2, <3>3, RebuildingHeals
  <2>3. Heals(blk)
    BY <1>0, <1>4 DEF OnCourse, Block
  <2> QED
    BY <2>2, <2>3 DEF Heals, Target, Block
<1>5. ASSUME NEW b \in 1..Len(Script[pkg]), b # blk PROVE Heals(b)'
  <2>1. Heals(b)
    BY <1>5 DEF OnCourse
  <2> QED
    BY <1>3, <1>5, <2>1 DEF Heals, Target
<1>6. Passed'
  <2>1. \A b \in 1..(blk - 1) : b \in 1..Len(Script[pkg]) /\ b # blk
    BY <1>0, StableScript
  <2>2. \A b \in 1..(blk - 1) : Part(Target(b), dir') = Part(Target(b), goal)
    BY <1>3, <2>1 DEF OnCourse, Passed, AtGoal
  <2> QED
    BY <2>2 DEF Passed, AtGoal, Target
<1>7. InBlock'
  <2>1. Part(f, Result(Commands, pos, dir)) = Part(f, goal) /\ Mid(Block, pos, dir)
    BY DEF OnCourse, InBlock
  <2>2. Result(Commands, pos, dir) = Result(Commands, pos + 1, dir')
    BY <1>0, ResultStep DEF Cmd
  <2>3. Len(Block.commands) \in Nat /\ AllOn(FileOf(Block), Block.commands)
        /\ pos \in 1..Len(Block.commands) /\ Cmd = Block.commands[pos]
    BY <1>0 DEF Commands, Cmd
  <2>4. Mid(Block, pos + 1, dir')
    BY <1>0, <2>1, <2>3, MidStep
  <2>5. ASSUME pkg \in Repairable PROVE Spent(Block, pos + 1, dir')
    <3>1. OneMarks(Block)
      BY <1>0, <2>5, RepairableScript DEF Block
    <3>2. Spent(Block, pos, dir)
      BY <2>5 DEF OnCourse, InBlock
    <3> QED
      BY <1>0, <2>3, <3>1, <3>2, SpentStep
  <2> QED
    BY <2>1, <2>2, <2>4, <2>5 DEF InBlock, Commands, Block, Target
<1> QED
  BY <1>4, <1>5, <1>6, <1>7 DEF OnCourse, Block

\* A command that fails, or an interruption.
LEMMA StopOnCourse ==
  ASSUME TypeOK, pkg \in Stable, pc = "editing", Grounded,
         \/ dir' = dir
         \/ /\ pos <= Len(Commands) /\ AllHold(Cmd.when, dir)
            /\ dir' = Torn(Cmd, dir),
         UNCHANGED <<pkg, origin, goal>>
  PROVE  /\ Grounded'
         /\ pc' = "failed" /\ pkg \in Repairable /\ OnCourse => OnCourse'
<1> DEFINE f == Target(blk)
<1>0. /\ blk \in 1..Len(Script[pkg])
      /\ Len(Commands) \in Nat
      /\ pos \in 1..(Len(Commands) + 1)
      /\ AllOn(f, Commands)
      /\ f = FileOf(Block)
      /\ pos <= Len(Commands) => /\ pos \in 1..Len(Commands)
                                 /\ InPlace(Cmd) /\ Cmd.file = f
      /\ Marked(Block) \/ Settling(Block) \/ Rebuilding(Block)
      /\ Proper(dir)
  BY AtCommand
<1>1. Proper(dir') /\ SameBut(f, dir, dir')
  BY <1>0, TornPart DEF SameBut
<1>2. Grounded'
  BY <1>1, StaysGrounded
<1> SUFFICES ASSUME pc' = "failed", pkg \in Repairable, OnCourse PROVE OnCourse'
  BY <1>2
<1>3. Len(Block.commands) \in Nat /\ AllOn(FileOf(Block), Block.commands)
  BY <1>0 DEF Commands
<1>4. Part(f, BlockResult(Block, dir')) = Part(f, goal)
  <2>1. CASE Rebuilding(Block)
    <3>1. AllHold(Block.guard, dir)
      BY <2>1 DEF OnCourse, InBlock, Mid
    <3>2. dir' = dir \/ \E k \in 1..Len(Block.commands) : AllHold(Block.commands[k].when, dir)
      BY <1>0 DEF Cmd, Commands
    <3>3. \A g : g # FileOf(Block) => Part(g, dir) = Part(g, dir')
      BY <1>0, <1>1 DEF SameBut
    <3>4. Part(f, BlockResult(Block, dir')) = Part(f, BlockResult(Block, dir))
      BY <1>0, <1>3, <2>1, <3>1, <3>2, <3>3, RebuildingHeals
    <3>5. Heals(blk)
      BY <1>0, <2>1 DEF OnCourse, Block
    <3> QED
      BY <3>4, <3>5 DEF Heals, Block
  <2>2. CASE Marked(Block) \/ Settling(Block)
    <3>1. pos <= Len(Commands) => Cmd.op # "ship"
      <4>1. pos <= Len(Commands) => Cmd \in CommandsIn(Block)
        BY <1>0 DEF Cmd, Commands, CommandsIn
      <4> QED
        BY <2>2, <4>1 DEF Marked, Settling
    <3>2. dir' = dir
      BY <1>0, <3>1, TornPart
    <3>3. Mid(Block, pos, dir) /\ Spent(Block, pos, dir)
          /\ Part(f, Result(Commands, pos, dir)) = Part(f, goal)
      BY DEF OnCourse, InBlock
    <3>4. pos \in 1..(Len(Block.commands) + 1)
      BY <1>0 DEF Commands
    <3>5. BlockResult(Block, dir) = Result(Commands, pos, dir)
      BY <1>3, <2>2, <3>3, <3>4, MidHeals DEF Commands
    <3> QED
      BY <3>2, <3>3, <3>5
  <2> QED
    BY <1>0, <2>1, <2>2
<1>5. ASSUME NEW b \in 1..Len(Script[pkg]), b # blk PROVE Heals(b)'
  <2>1. Heals(b)
    BY <1>5 DEF OnCourse
  <2>2. Part(Target(b), BlockResult(Script[pkg][b], dir'))
          = Part(Target(b), BlockResult(Script[pkg][b], dir))
    BY <1>0, <1>1, <1>5, FileUndisturbed
  <2> QED
    BY <2>1, <2>2 DEF Heals, Target
<1>6. \A b \in 1..Len(Script[pkg]) : Heals(b)'
  BY <1>4, <1>5 DEF Heals, Target, Block
<1> QED
  BY <1>6 DEF OnCourse, Passed, InBlock

\* Where no directory and no history changes, only the control matters.
LEMMA SameDirectory ==
  ASSUME pkg \in Stable, Grounded, UNCHANGED <<pkg, dir, origin, goal>>
  PROVE  /\ Grounded'
         /\ \A b \in 1..Len(Script[pkg]) : Heals(b) => Heals(b)'
<1>1. Grounded'
  BY DEF Grounded, AtGoal, Targets, Target
<1>2. \A b \in 1..Len(Script[pkg]) : Heals(b) => Heals(b)'
  BY DEF Heals, Target
<1> QED
  BY <1>1, <1>2

LEMMA NextConverging == CInv /\ [Next]_vars => CInv'
<1> SUFFICES ASSUME CInv, [Next]_vars PROVE CInv'
  OBVIOUS
<1>1. TypeOK /\ TypeOK'
  BY NextType DEF CInv
<1>2. pkg' = pkg
  BY DEF Next, Porter, Launch, Download, Source, SourceFails, EnterBlock, SkipBlock, Edit,
         SkipEdit, EditFails, EditFailsInChain, LeaveBlock, Finish, Kill, Stop, vars
<1> SUFFICES ASSUME pkg \in Stable PROVE Grounded' /\ (Healthy' => OnCourse')
  BY <1>1, <1>2 DEF CInv, Converging
<1>3. Grounded /\ (Healthy => OnCourse)
  BY DEF CInv, Converging
<1>4. Len(Script[pkg]) \in Nat /\ blk \in 1..(Len(Script[pkg]) + 1)
  BY <1>1, StableScript DEF TypeOK
<1>6. CASE Launch
  <2>1. UNCHANGED <<pkg, dir, history>> /\ ~Running /\ pc' = "sourcing" /\ blk' = 1
    BY <1>6 DEF Launch
  <2>2. Grounded' /\ \A b \in 1..Len(Script[pkg]) : Heals(b) => Heals(b)'
    BY <1>3, <2>1, SameDirectory DEF history
  <2>3. Healthy => OnCourse'
    BY <1>2, <1>3, <2>1, <2>2 DEF OnCourse, Passed, InBlock, Running
  <2> QED
    BY <2>1, <2>2, <2>3 DEF Healthy, history
<1>7. CASE Download
  <2>1. /\ dir' \in Upstream[pkg] /\ origin' = dir'
        /\ goal' \in Ported(Script[pkg], {dir'}) /\ pc' = "idle"
    BY <1>7 DEF Download
  <2>2. Grounded' /\ OnCourse'
    BY <1>2, <2>1, FreshConvergingNext
  <2> QED
    BY <2>2
<1>8. CASE Source
  <2>1. UNCHANGED <<pkg, dir, history, blk>> /\ pc = "sourcing" /\ pc' = "testing"
    BY <1>8 DEF Source
  <2>2. Grounded' /\ \A b \in 1..Len(Script[pkg]) : Heals(b) => Heals(b)'
    BY <1>3, <2>1, SameDirectory DEF history
  <2>3. Healthy => OnCourse'
    BY <1>2, <1>3, <2>1, <2>2 DEF OnCourse, Passed, InBlock
  <2> QED
    BY <2>1, <2>2, <2>3 DEF Healthy, history
<1>9. CASE EnterBlock
  <2>1. /\ UNCHANGED <<pkg, dir, history, blk>>
        /\ pc = "testing" /\ pc' = "editing" /\ pos' = 1
        /\ AllHold(Block.guard, dir) /\ blk \in 1..Len(Script[pkg])
    BY <1>4, <1>9 DEF EnterBlock
  <2>2. Grounded' /\ \A b \in 1..Len(Script[pkg]) : Heals(b) => Heals(b)'
    BY <1>3, <2>1, SameDirectory DEF history
  <2>3. Mid(Block, 1, dir) /\ Spent(Block, 1, dir)
    BY <2>1, MidEnter
  <2>4. ASSUME Healthy PROVE OnCourse'
    <3>1. OnCourse /\ Heals(blk)
      BY <1>3, <2>1, <2>4 DEF OnCourse
    <3>2. Part(Target(blk), Result(Commands, 1, dir)) = Part(Target(blk), goal)
      BY <2>1, <3>1 DEF Heals, BlockResult, Block, Commands
    <3>3. InBlock'
      BY <2>1, <2>3, <3>2 DEF InBlock, Target, Commands, Block, history
    <3>4. Passed'
      BY <2>1, <3>1 DEF OnCourse, Passed, AtGoal, Target, history
    <3> QED
      BY <2>1, <2>2, <3>1, <3>3, <3>4 DEF OnCourse
  <2> QED
    BY <2>1, <2>2, <2>4 DEF Healthy, history
<1>10. CASE SkipBlock
  <2>1. /\ UNCHANGED <<pkg, dir, history, pc>>
        /\ pc = "testing" /\ blk' = blk + 1
        /\ ~AllHold(Block.guard, dir) /\ blk \in 1..Len(Script[pkg])
    BY <1>4, <1>10 DEF SkipBlock
  <2>2. Grounded' /\ \A b \in 1..Len(Script[pkg]) : Heals(b) => Heals(b)'
    BY <1>3, <2>1, SameDirectory DEF history
  <2>3. ASSUME Healthy PROVE OnCourse'
    <3>1. OnCourse /\ Heals(blk)
      BY <1>3, <2>1, <2>3 DEF OnCourse
    <3>2. AtGoal(Target(blk))
      BY <2>1, <3>1 DEF Heals, BlockResult, Block, AtGoal
    <3>3. \A b \in 1..((blk + 1) - 1) : AtGoal(Target(b))
      BY <2>1, <3>1, <3>2 DEF OnCourse, Passed
    <3>4. Passed'
      BY <2>1, <3>3 DEF Passed, AtGoal, Target, history
    <3> QED
      BY <2>1, <2>2, <3>1, <3>4 DEF OnCourse, InBlock
  <2> QED
    BY <2>1, <2>2, <2>3 DEF Healthy, history
<1>11. CASE Edit \/ SkipEdit
  <2>1. /\ pc = "editing" /\ pos <= Len(Commands)
        /\ dir' = After(Cmd, dir) /\ (AllHold(Cmd.when, dir) \/ dir' = dir)
        /\ pos' = pos + 1 /\ UNCHANGED <<pkg, pc, blk, history>>
    BY <1>11 DEF Edit, SkipEdit, After
  <2>2. Grounded' /\ (OnCourse => OnCourse')
    BY <1>1, <1>3, <2>1, CommandOnCourse DEF history
  <2> QED
    BY <1>3, <2>1, <2>2 DEF Healthy, history
<1>12. CASE EditFails
  <2>1. /\ pc = "editing" /\ pos <= Len(Commands) /\ AllHold(Cmd.when, dir)
        /\ dir' \in {dir, Torn(Cmd, dir)}
        /\ pc' = "failed" /\ smooth' = FALSE /\ UNCHANGED <<pkg, origin, goal>>
    BY <1>12 DEF EditFails, Failing, Stop
  <2>2. Grounded' /\ (pkg \in Repairable /\ OnCourse => OnCourse')
    BY <1>1, <1>3, <2>1, StopOnCourse
  <2> QED
    BY <1>3, <2>1, <2>2 DEF Healthy
<1>13. CASE EditFailsInChain
  <2>1. /\ pc = "editing" /\ pos <= Len(Commands) /\ AllHold(Cmd.when, dir)
        /\ dir' \in {dir, Torn(Cmd, dir)} /\ Cmd.soft
        /\ smooth' = FALSE /\ UNCHANGED <<pkg, origin, goal>>
    BY <1>13 DEF EditFailsInChain, Failing
  <2>2. Grounded'
    BY <1>1, <1>3, <2>1, StopOnCourse
  <2>3. pkg \notin Repairable
    BY <1>1, <2>1, AtCommand, RepairableScript
  <2> QED
    BY <2>1, <2>2, <2>3 DEF Healthy
<1>14. CASE LeaveBlock
  <2>1. /\ UNCHANGED <<pkg, dir, history>>
        /\ pc = "editing" /\ pos > Len(Commands)
        /\ pc' = "testing" /\ blk' = blk + 1
    BY <1>14 DEF LeaveBlock
  <2>2. Grounded' /\ \A b \in 1..Len(Script[pkg]) : Heals(b) => Heals(b)'
    BY <1>3, <2>1, SameDirectory DEF history
  <2>3. /\ blk \in 1..Len(Script[pkg]) /\ Len(Commands) \in Nat
        /\ pos = Len(Commands) + 1
        /\ Marked(Block) \/ Settling(Block) \/ Rebuilding(Block)
    BY <1>1, <2>1, AtCommand
  <2>4. ASSUME Healthy PROVE OnCourse'
    <3>1. OnCourse
      BY <1>3, <2>4
    <3>2. /\ Part(Target(blk), Result(Commands, pos, dir)) = Part(Target(blk), goal)
          /\ Mid(Block, pos, dir)
      BY <2>1, <3>1 DEF OnCourse, InBlock
    <3>3. AtGoal(Target(blk))
      BY <2>3, <3>2, ResultEnd DEF AtGoal
    <3>4. Heals(blk)
      <4>1. CASE Rebuilding(Block)
        BY <2>3, <3>1, <4>1 DEF OnCourse, Block
      <4>2. CASE Marked(Block) \/ Settling(Block)
        <5>1. BlockResult(Block, dir) = dir
          BY <2>3, <3>2, <4>2, MidLeave DEF Commands
        <5> QED
          BY <3>3, <5>1 DEF Heals, AtGoal, Block
      <4> QED
        BY <2>3, <4>1, <4>2
    <3>5. \A b \in 1..Len(Script[pkg]) : Heals(b)
      BY <3>1, <3>4 DEF OnCourse
    <3>6. \A b \in 1..((blk + 1) - 1) : AtGoal(Target(b))
      BY <2>1, <2>3, <3>1, <3>3 DEF OnCourse, Passed
    <3>7. Passed'
      BY <2>1, <3>6 DEF Passed, AtGoal, Target, history
    <3> QED
      BY <1>2, <2>1, <2>2, <3>5, <3>7 DEF OnCourse, InBlock
  <2> QED
    BY <2>1, <2>2, <2>4 DEF Healthy, history
<1>15. CASE Finish
  <2>1. /\ UNCHANGED <<pkg, dir, history, blk>>
        /\ pc = "testing" /\ pc' = "done" /\ blk = Len(Script[pkg]) + 1
    BY <1>4, <1>15 DEF Finish
  <2>2. Grounded' /\ \A b \in 1..Len(Script[pkg]) : Heals(b) => Heals(b)'
    BY <1>3, <2>1, SameDirectory DEF history
  <2>3. ASSUME Healthy PROVE OnCourse'
    <3>1. OnCourse
      BY <1>3, <2>3
    <3>2. Passed'
      BY <1>2, <2>1, <3>1 DEF OnCourse, Passed, AtGoal, Target, history
    <3> QED
      BY <1>2, <2>1, <2>2, <3>1, <3>2 DEF OnCourse, InBlock
  <2> QED
    BY <2>1, <2>2, <2>3 DEF Healthy, history
<1>16. CASE SourceFails \/ Kill
  <2>1. /\ UNCHANGED <<pkg, dir, origin, goal>> /\ Running
        /\ pc' = "failed" /\ smooth' = FALSE
    BY <1>16 DEF SourceFails, Kill, Stop, Running
  <2>2. Grounded' /\ \A b \in 1..Len(Script[pkg]) : Heals(b) => Heals(b)'
    BY <1>3, <2>1, SameDirectory
  <2>3. ASSUME pkg \in Repairable PROVE OnCourse'
    <3>1. OnCourse
      BY <1>3, <2>3 DEF Healthy
    <3>2. CASE pc = "editing"
      BY <1>1, <1>3, <2>1, <2>3, <3>1, <3>2, StopOnCourse
    <3>3. CASE pc # "editing"
      BY <1>2, <2>1, <2>2, <3>1, <3>3 DEF OnCourse, Passed, InBlock
    <3> QED
      BY <3>2, <3>3
  <2> QED
    BY <1>2, <2>1, <2>2, <2>3 DEF Healthy
<1>17. CASE UNCHANGED vars
  <2>1. UNCHANGED <<pkg, dir, origin, goal, smooth, pc, blk, pos>>
    BY <1>17 DEF vars, port, history
  <2>2. Grounded' /\ \A b \in 1..Len(Script[pkg]) : Heals(b) => Heals(b)'
    BY <1>3, <2>1, SameDirectory
  <2>3. ASSUME Healthy PROVE OnCourse'
    <3>1. OnCourse
      BY <1>3, <2>3
    <3>2. Passed' /\ InBlock'
      BY <2>1, <3>1 DEF OnCourse, Passed, InBlock, AtGoal, Target, Commands, Block
    <3> QED
      BY <2>1, <2>2, <3>1, <3>2 DEF OnCourse
  <2> QED
    BY <2>1, <2>2, <2>3 DEF Healthy
<1> QED
  BY <1>6, <1>7, <1>8, <1>9, <1>10, <1>11, <1>12, <1>13, <1>14, <1>15, <1>16, <1>17
  DEF Next, Porter

\* Behind the last compound command, on course, the directory is the goal.
LEMMA AtTheGoal ==
  ASSUME CInv, pkg \in Stable, Healthy,
         pc \in {"testing", "done"}, blk > Len(Script[pkg])
  PROVE  dir = goal
<1>1. TypeOK /\ Grounded /\ OnCourse
  BY DEF CInv, Converging
<1>2. Len(Script[pkg]) \in Nat /\ blk = Len(Script[pkg]) + 1
  BY <1>1, StableScript DEF TypeOK
<1>3. \A b \in 1..Len(Script[pkg]) : AtGoal(Target(b))
  BY <1>1, <1>2 DEF OnCourse, Passed
<1>4. \A f \in FilesOf(Script[pkg]) : Part(f, dir) = Part(f, goal)
  BY <1>1, <1>3 DEF Grounded, Targets, AtGoal
<1>5. pkg \in Packages /\ dir \in Dirs(pkg) /\ goal \in Dirs(pkg)
  BY <1>1 DEF TypeOK, Grounded
<1> HIDE DEF Dirs
<1> QED
  BY <1>4, <1>5, DirEqual

LEMMA DoneBehindAll ==
  ASSUME CInv, pkg \in Stable, Healthy, pc = "done"
  PROVE  blk > Len(Script[pkg])
BY StableScript DEF CInv, Converging, OnCourse, Passed

-----------------------------------------------------------------------------
(* The theorems.                                                           *)

LEMMA CourseKept == Spec => []CInv
BY InitConverging, NextConverging, PTL DEF Spec

(* At any moment of any sequence of runs, what is left to do still leads to *)
(* where an undisturbed run on the vendored package ends: in every script  *)
(* that converges, unless it was disturbed and does not repair that.       *)
THEOREM StaysOnCourse == Spec => []Converging
<1>1. CInv => Converging
  BY DEF CInv
<1> QED
  BY <1>1, CourseKept, PTL

(* Whatever was interrupted or failed before, and whatever a truncated copy *)
(* left behind, a run of a resumable porter that reaches its end has made  *)
(* of the package what an undisturbed run makes of it.                     *)
THEOREM RerunsRepair == Spec => []RepairedByRerun
<1>1. CInv => RepairedByRerun
  BY AtTheGoal, DoneBehindAll, RepairableScript DEF RepairedByRerun, Healthy
<1> QED
  BY <1>1, CourseKept, PTL

-----------------------------------------------------------------------------
(* What a run without failure makes of what the vendored package calls for. *)

\* The goal is what the porter makes of the package as it was vendored.
GoalOfOrigin ==
  pkg \in Packages /\ origin \in Upstream[pkg] /\ goal \in Ported(Script[pkg], {origin})

LEMMA InitGoal == Init => GoalOfOrigin
<1> SUFFICES ASSUME Init PROVE GoalOfOrigin
  OBVIOUS
<1>1. origin = dir /\ pkg \in Packages /\ dir \in Upstream[pkg] /\ goal \in Ported(Script[pkg], {dir})
  BY DEF Init
<1> QED
  BY <1>1 DEF GoalOfOrigin

LEMMA NextGoal == GoalOfOrigin /\ [Next]_vars => GoalOfOrigin'
<1> SUFFICES ASSUME GoalOfOrigin, [Next]_vars PROVE GoalOfOrigin'
  OBVIOUS
<1>1. CASE Download
  <2>1. /\ pkg' = pkg /\ origin' \in Upstream[pkg]
        /\ goal' \in Ported(Script[pkg], {origin'})
    BY <1>1 DEF Download
  <2> QED
    BY <2>1 DEF GoalOfOrigin
<1>2. CASE ~Download
  <2>1. UNCHANGED <<pkg, origin, goal>>
    BY <1>2 DEF Next, Porter, Launch, Source, SourceFails, EnterBlock, SkipBlock, Edit, SkipEdit,
                EditFails, EditFailsInChain, LeaveBlock, Finish, Kill, Stop, vars, history
  <2> QED
    BY <2>1 DEF GoalOfOrigin
<1> QED
  BY <1>1, <1>2

\* The goal has what each compound command makes of the vendored package.
LEMMA GoalIsComplete ==
  ASSUME GoalOfOrigin, pkg \in Thorough, dir = goal
  PROVE  Complete
<1>0. pkg \in Stable /\ pkg \in Packages
  BY DEF GoalOfOrigin, Thorough
<1> SUFFICES ASSUME NEW b \in 1..Len(Script[pkg]), NEW k \in 1..Len(Script[pkg][b].commands),
                    CalledFor(b, k)
             PROVE  LET c == Script[pkg][b].commands[k]
                    IN  /\ \E d \in Versions(b, k) : <<d.file, d.text>> \in goal.has
                        /\ c.op = "subst" /\ ~Grows(c) => <<c.file, c.at>> \notin goal.has
  BY DEF Complete
<1> DEFINE block == Script[pkg][b]
           q     == block.commands
           c     == q[k]
           f     == FileOf(block)
           made  == BlockResult(block, origin)
<1>1. /\ Len(q) \in Nat /\ AllOn(f, q)
      /\ \A j \in 1..Len(q) : q[j] \in CommandsOf(Script[pkg])
  BY <1>0, StableScript, ScriptType
<1>2. Orderly(block)
  BY DEF Thorough
<1>3. \A j \in 1..Len(q) : q[j].text \in q[j].new
  BY <1>0, <1>1, PortAssumption DEF PortAssumption
<1>4. \A j \in 1..Len(q) : \A x \in Dirs(pkg) : After(q[j], x) \in Dirs(pkg)
  BY <1>0, <1>1, EffectType DEF After
<1>5. origin \in Dirs(pkg) /\ Part(f, made) = Part(f, goal)
  BY <1>0, FreshGoal DEF GoalOfOrigin
<1>6. AllHold(block.guard, origin) /\ Called(c, origin)
  BY DEF CalledFor, Called
<1>7. Work(q, k, Len(q) + 1, made)
  <2> HIDE DEF Dirs
  <2> QED
    BY <1>1, <1>2, <1>3, <1>4, <1>5, <1>6, CalledIsMade
<1>8. \A w : <<f, w>> \in made.has <=> <<f, w>> \in goal.has
  <2>1. \A w : <<f, w>>[1] = f
    OBVIOUS
  <2> QED
    BY <1>5, <2>1, PartEqual
<1>9. PICK i \in 1..Len(q) :
        (i = k \/ {q[i].op, q[k].op} = {"ship"}) /\ <<q[i].file, q[i].text>> \in made.has
  <2>1. (Len(q) + 1) - 1 = Len(q)
    BY <1>1
  <2> QED
    BY <1>7, <2>1 DEF Work
<1>10. q[i].file = f /\ c.file = f
  BY <1>1 DEF AllOn
<1>11. q[i] \in Versions(b, k)
  BY <1>9, <1>10 DEF Versions, CommandsIn
<1>12. <<q[i].file, q[i].text>> \in goal.has
  BY <1>8, <1>9, <1>10
<1>13. c.op = "subst" /\ ~Grows(c) => <<c.file, c.at>> \notin goal.has
  BY <1>7, <1>8, <1>10 DEF Work
<1> QED
  BY <1>11, <1>12, <1>13

(* A run that nothing disturbed, the first one or a later one, has made of *)
(* the package everything that it called for as it was vendored: no edit   *)
(* of the script hides the anchor, writes the marker or undoes the work of *)
(* another one.                                                            *)
THEOREM RunsComplete == Spec => [](pkg \in Thorough => CleanRunComplete)
<1>1. CInv /\ GoalOfOrigin => (pkg \in Thorough => CleanRunComplete)
  BY AtTheGoal, DoneBehindAll, GoalIsComplete DEF CleanRunComplete, Healthy, Thorough
<1>2. Spec => []GoalOfOrigin
  BY InitGoal, NextGoal, PTL DEF Spec
<1> QED
  BY <1>1, <1>2, CourseKept, PTL

-----------------------------------------------------------------------------
(* Scripts whose compound commands look at each other's files.  What a run *)
(* makes of a directory is then not to be had file by file; but a run that *)
(* nothing disturbs makes of it what the script as a whole does, and where *)
(* porting once more changes nothing, no number of runs does.              *)

\* Porting what has been ported changes nothing.
Lasts(p, o) == \A d \in Ported(Script[p], {o}) : Ported(Script[p], {d}) = {d}

Durable == {p \in Packages : \A o \in Upstream[p] : Lasts(p, o)}

\* The compound commands from the b-th on would make the goal of d.
Leads(b, d) == PortedFrom(Script[pkg], b, d) = {goal}

OnItsWay ==
  smooth =>
    /\ pc # "failed"
    /\ pc \in {"idle", "sourcing"} => Leads(1, dir)
    /\ pc = "sourcing" => blk = 1
    /\ pc = "testing" => Leads(blk, dir)
    /\ pc = "editing" => Leads(blk + 1, Result(Commands, pos, dir))
    /\ pc = "done" => dir = goal

\* Of the porters that Converging does not speak of.
Underway ==
  pkg \in Idempotent \ Stable => (pc = "idle" => Lasts(pkg, origin)) /\ OnItsWay

Proven == dir.twice \subseteq dir.has /\ GoalOfOrigin

LEMMA LeadsStep ==
  ASSUME pkg \in Packages, NEW b \in 1..Len(Script[pkg]), NEW d, Leads(b, d)
  PROVE  Leads(b + 1, BlockResult(Script[pkg][b], d))
<1> DEFINE s == Script[pkg]
           S == [guard : SUBSET TestsOf(s), commands : Seq(CommandsOf(s))]
           m == Len(s)
           q == SubSeq(s, b, m)
           r == SubSeq(s, b + 1, m)
<1>1. s \in Seq(S) /\ m \in Nat /\ \A i \in 1..m : Len(s[i].commands) \in Nat
  BY ScriptType
<1>2. b \in 1..(m + 1) /\ b + 1 \in 1..(m + 1)
  BY <1>1
<1>3. /\ Len(q) = (m - b) + 1
      /\ \A i \in 1..Len(q) : i + b - 1 \in 1..m /\ q[i] = s[i + b - 1]
      /\ Len(r) = (m - (b + 1)) + 1
      /\ \A i \in 1..Len(r) : i + (b + 1) - 1 \in 1..m /\ r[i] = s[i + (b + 1) - 1]
  <2> HIDE DEF s, S, m
  <2>1. s \in Seq(S) /\ m = Len(s)
    BY <1>1 DEF m
  <2> QED
    BY <1>2, <2>1, TheRestOf
<1>4. Ported(q, {d}) = {goal}
  BY DEF Leads, PortedFrom
<1> HIDE DEF q, r, s
<1>5. /\ Len(q) \in Nat /\ Len(r) \in Nat /\ Len(q) = Len(r) + 1
      /\ \A i \in 1..Len(q) : Len(q[i].commands) \in Nat
      /\ \A i \in 1..Len(r) : Len(r[i].commands) \in Nat
  <2>1. Len(q) \in Nat /\ Len(r) \in Nat /\ Len(q) = Len(r) + 1
    BY <1>1, <1>3
  <2> QED
    BY <1>1, <1>3, <2>1
<1>6. q[1] = s[b] /\ \A i \in 1..Len(r) : i + 1 \in 1..Len(q) /\ r[i] = q[i + 1]
  <2>1. 1 \in 1..Len(q) /\ 1 + b - 1 = b
    BY <1>5
  <2>2. \A i \in 1..Len(r) : i + 1 \in 1..Len(q) /\ i + (b + 1) - 1 = (i + 1) + b - 1
    BY <1>5
  <2> QED
    BY <1>3, <2>1, <2>2
<1>7. PICK g : IsCourse(g, q, d)
  BY <1>5, CourseExists
<1>8. {g[Len(q)]} = {goal}
  BY <1>4, <1>5, <1>7, CourseEnd
<1> DEFINE h == [i \in 0..Len(r) |-> g[i + 1]]
           e == BlockResult(s[b], d)
<1>9. IsCourse(h, r, e)
  <2>1. h[0] = g[1] /\ 1 \in 1..Len(q)
    BY <1>5
  <2>2. g[1] = BlockResult(q[1], g[0]) /\ g[0] = d
    BY <1>7, <2>1 DEF IsCourse
  <2>3. h[0] = e
    BY <1>6, <2>1, <2>2
  <2>4. ASSUME NEW i \in 1..Len(r) PROVE h[i] = BlockResult(r[i], h[i - 1])
    <3>1. h[i] = g[i + 1] /\ h[i - 1] = g[i] /\ (i + 1) - 1 = i
      BY <1>5
    <3>2. g[i + 1] = BlockResult(q[i + 1], g[i])
      BY <1>6, <1>7, <3>1 DEF IsCourse
    <3> QED
      BY <1>6, <3>1, <3>2
  <2> HIDE DEF h, e
  <2> QED
    BY <2>3, <2>4 DEF IsCourse
<1>10. h[Len(r)] = goal
  <2>1. h[Len(r)] = g[Len(r) + 1]
    BY <1>5
  <2> QED
    BY <1>5, <1>8, <2>1
<1> HIDE DEF h, e
<1>11. Ported(r, {e}) = {h[Len(r)]}
  BY <1>5, <1>9, CourseEnd
<1> QED
  BY <1>10, <1>11 DEF Leads, PortedFrom, r, s, e

\* Behind the last compound command there is nothing left to do.
LEMMA LeadsEnd ==
  ASSUME pkg \in Packages, NEW d, Leads(Len(Script[pkg]) + 1, d)
  PROVE  d = goal
<1> DEFINE s == Script[pkg]
           S == [guard : SUBSET TestsOf(s), commands : Seq(CommandsOf(s))]
           q == SubSeq(s, Len(s) + 1, Len(s))
<1>1. s \in Seq(S) /\ Len(s) \in Nat
  BY ScriptType
<1>2. Len(q) = 0 /\ 1..Len(q) = {}
  <2>1. Len(s) + 1 \in 1..(Len(s) + 1) /\ (Len(s) - (Len(s) + 1)) + 1 = 0
    BY <1>1
  <2> HIDE DEF s, S
  <2> QED
    BY <1>1, <2>1, TheRestOf
<1>3. Ported(q, {d}) = {goal}
  BY DEF Leads, PortedFrom
<1> HIDE DEF q
<1>a. Len(q) \in Nat /\ \A i \in 1..Len(q) : Len(q[i].commands) \in Nat
  BY <1>2
<1>4. PICK g : IsCourse(g, q, d)
  BY <1>a, CourseExists
<1>5. Ported(q, {d}) = {g[Len(q)]}
  BY <1>a, <1>4, CourseEnd
<1>6. g[Len(q)] = d
  BY <1>2, <1>4 DEF IsCourse
<1> QED
  BY <1>3, <1>5, <1>6

\* From the first compound command on it is the whole script.
LEMMA LeadsStart ==
  ASSUME NEW p \in Packages, NEW d, NEW G \in Ported(Script[p], {d})
  PROVE  PortedFrom(Script[p], 1, d) = {G}
<1> DEFINE s == Script[p]
           S == [guard : SUBSET TestsOf(s), commands : Seq(CommandsOf(s))]
<1>1. s \in Seq(S) /\ Len(s) \in Nat /\ \A i \in 1..Len(s) : Len(s[i].commands) \in Nat
  BY ScriptType
<1>2. SubSeq(s, 1, Len(s)) = s
  <2> HIDE DEF s, S
  <2> QED
    BY <1>1
<1>3. \E x : Ported(s, {d}) = {x}
  <2> HIDE DEF s
  <2> QED
    BY <1>1, CourseExists, CourseEnd
<1> QED
  BY <1>2, <1>3 DEF PortedFrom

LEMMA InitOnItsWay == Init => Proven /\ OnItsWay
<1> SUFFICES ASSUME Init PROVE Proven /\ OnItsWay
  OBVIOUS
<1>1. GoalOfOrigin /\ origin = dir /\ pc = "idle" /\ dir.twice = {}
  BY InitGoal, PortAssumption DEF PortAssumption, Init
<1>2. Leads(1, dir)
  BY <1>1, LeadsStart DEF GoalOfOrigin, Leads
<1> QED
  BY <1>1, <1>2 DEF Proven, OnItsWay

LEMMA NextProven == TypeOK /\ Proven /\ [Next]_vars => Proven'
<1> SUFFICES ASSUME TypeOK, Proven, [Next]_vars PROVE Proven'
  OBVIOUS
<1>1. GoalOfOrigin'
  BY NextGoal DEF Proven
<1>2. dir.twice \subseteq dir.has
  BY DEF Proven
<1>3. CASE dir' = dir
  BY <1>1, <1>2, <1>3 DEF Proven
<1>4. CASE Download
  <2>1. dir' \in Upstream[pkg] /\ pkg \in Packages
    BY <1>4 DEF Download, TypeOK
  <2>2. dir'.twice = {}
    BY <2>1, PortAssumption DEF PortAssumption
  <2> QED
    BY <1>1, <2>2 DEF Proven
<1>5. \A c : Effect(c, dir).twice \subseteq Effect(c, dir).has
  BY <1>2 DEF Effect, Kept, Brings
<1>6. \A c : Torn(c, dir).twice \subseteq Torn(c, dir).has
  BY <1>2 DEF Torn
<1>7. CASE Edit \/ EditFails \/ EditFailsInChain
  <2>1. dir' = Effect(Cmd, dir) \/ dir' = Torn(Cmd, dir) \/ dir' = dir
    BY <1>7 DEF Edit, EditFails, EditFailsInChain, Failing
  <2> QED
    BY <1>1, <1>3, <1>5, <1>6, <2>1 DEF Proven
<1> QED
  BY <1>3, <1>4, <1>7
     DEF Next, Porter, Launch, Source, SourceFails, EnterBlock, SkipBlock, SkipEdit, LeaveBlock,
         Finish, Kill, Stop, vars

LEMMA NextOnItsWay ==
  ASSUME TypeOK, GoalOfOrigin, OnItsWay, pkg \in Durable, [Next]_vars
  PROVE  OnItsWay'
<1> SUFFICES ASSUME smooth' PROVE OnItsWay'
  BY DEF OnItsWay
<1>0. /\ pkg \in Packages /\ origin \in Upstream[pkg] /\ goal \in Ported(Script[pkg], {origin})
      /\ smooth \in BOOLEAN
  BY DEF GoalOfOrigin, TypeOK
<1>a. Len(Script[pkg]) \in Nat /\ \A b \in 1..Len(Script[pkg]) : Len(Script[pkg][b].commands) \in Nat
  BY <1>0, ScriptType
<1>b. /\ blk \in 1..(Len(Script[pkg]) + 1) /\ pos \in Nat \ {0}
      /\ pc = "editing" => blk <= Len(Script[pkg]) /\ pos <= Len(Commands) + 1
      /\ pc = "editing" => Len(Commands) \in Nat
  <2>1. /\ blk \in 1..(Len(Script[pkg]) + 1) /\ pos \in Nat \ {0}
        /\ pc = "editing" => blk <= Len(Script[pkg]) /\ pos <= Len(Commands) + 1
    BY DEF TypeOK
  <2>2. pc = "editing" => blk \in 1..Len(Script[pkg])
    BY <1>a, <2>1
  <2> QED
    BY <1>a, <2>1, <2>2 DEF Commands, Block
<1>1. CASE Launch
  <2>1. /\ pc \in {"idle", "done", "failed"} /\ pc' = "sourcing" /\ blk' = 1
        /\ UNCHANGED <<pkg, dir, goal, smooth>>
    BY <1>1 DEF Launch, history, Running, TypeOK
  <2>2. Leads(1, dir)
    <3>1. CASE pc = "idle"
      BY <2>1, <3>1 DEF OnItsWay
    <3>2. CASE pc = "done"
      <4>1. dir = goal
        BY <2>1, <3>2 DEF OnItsWay
      <4>2. Ported(Script[pkg], {goal}) = {goal}
        BY <1>0 DEF Durable, Lasts
      <4> QED
        BY <1>0, <4>1, <4>2, LeadsStart DEF Leads
    <3>3. pc # "failed"
      BY <2>1 DEF OnItsWay
    <3> QED
      BY <2>1, <3>1, <3>2, <3>3
  <2> QED
    BY <2>1, <2>2 DEF OnItsWay, Leads
<1>2. CASE Download
  <2>1. pc' = "idle" /\ pkg' = pkg /\ goal' \in Ported(Script[pkg], {dir'})
    BY <1>2 DEF Download
  <2>2. PortedFrom(Script[pkg], 1, dir') = {goal'}
    BY <1>0, <2>1, LeadsStart
  <2> QED
    BY <2>1, <2>2 DEF OnItsWay, Leads
<1>3. CASE Source
  <2>1. /\ pc = "sourcing" /\ pc' = "testing" /\ UNCHANGED <<pkg, dir, blk, goal, smooth>>
    BY <1>3 DEF Source, history
  <2> QED
    BY <2>1 DEF OnItsWay, Leads
<1>4. CASE EnterBlock
  <2>1. AllHold(Block.guard, dir) /\ pc = "testing" /\ pc' = "editing" /\ pos' = 1
    BY <1>4 DEF EnterBlock
  <2>2. UNCHANGED <<pkg, dir, blk, goal, smooth>>
    BY <1>4 DEF EnterBlock, history
  <2>3. blk \in 1..Len(Script[pkg])
    BY <1>a, <1>b, <1>4 DEF EnterBlock
  <2>4. Leads(blk, dir)
    BY <2>1, <2>2 DEF OnItsWay
  <2>5. Leads(blk + 1, BlockResult(Block, dir))
    BY <1>0, <2>3, <2>4, LeadsStep DEF Block
  <2>6. BlockResult(Block, dir) = Result(Commands, 1, dir)
    BY <2>1 DEF BlockResult, Commands
  <2> QED
    BY <2>1, <2>2, <2>5, <2>6 DEF OnItsWay, Leads, Commands, Block
<1>5. CASE SkipBlock
  <2>1. ~AllHold(Block.guard, dir) /\ pc = "testing" /\ blk' = blk + 1
    BY <1>5 DEF SkipBlock
  <2>2. UNCHANGED <<pkg, dir, pc, goal, smooth>>
    BY <1>5 DEF SkipBlock, history
  <2>3. blk \in 1..Len(Script[pkg])
    BY <1>a, <1>b, <1>5 DEF SkipBlock
  <2>4. Leads(blk, dir)
    BY <2>1, <2>2 DEF OnItsWay
  <2>5. Leads(blk + 1, BlockResult(Block, dir))
    BY <1>0, <2>3, <2>4, LeadsStep DEF Block
  <2>6. BlockResult(Block, dir) = dir
    BY <2>1 DEF BlockResult
  <2> QED
    BY <2>1, <2>2, <2>5, <2>6 DEF OnItsWay, Leads
<1>6. CASE Edit \/ SkipEdit
  <2>1. pc = "editing" /\ pos <= Len(Commands) /\ pos' = pos + 1 /\ dir' = After(Cmd, dir)
    BY <1>6 DEF Edit, SkipEdit, After
  <2>2. UNCHANGED <<pkg, pc, blk, goal, smooth>>
    BY <1>6 DEF Edit, SkipEdit, history
  <2>3. pos \in 1..Len(Commands)
    BY <1>b, <2>1
  <2>4. Result(Commands, pos, dir) = Result(Commands, pos + 1, After(Cmd, dir))
    BY <1>b, <2>1, <2>3, ResultStep DEF Cmd
  <2>5. Leads(blk + 1, Result(Commands, pos, dir))
    BY <2>1, <2>2 DEF OnItsWay
  <2> QED
    BY <2>1, <2>2, <2>4, <2>5 DEF OnItsWay, Leads, Commands, Block
<1>7. CASE LeaveBlock
  <2>1. pc = "editing" /\ pc' = "testing" /\ blk' = blk + 1 /\ pos > Len(Commands)
    BY <1>7 DEF LeaveBlock
  <2>2. UNCHANGED <<pkg, dir, goal, smooth>>
    BY <1>7 DEF LeaveBlock, history
  <2>3. pos = Len(Commands) + 1
    BY <1>b, <2>1
  <2>4. Result(Commands, pos, dir) = dir
    BY <1>b, <2>1, <2>3, ResultEnd
  <2>5. Leads(blk + 1, Result(Commands, pos, dir))
    BY <2>1, <2>2 DEF OnItsWay
  <2> QED
    BY <2>1, <2>2, <2>4, <2>5 DEF OnItsWay, Leads
<1>8. CASE Finish
  <2>1. pc = "testing" /\ pc' = "done" /\ blk > Len(Script[pkg])
    BY <1>8 DEF Finish
  <2>2. UNCHANGED <<pkg, dir, goal, smooth>>
    BY <1>8 DEF Finish, history
  <2>3. blk = Len(Script[pkg]) + 1
    BY <1>a, <1>b, <2>1
  <2>4. Leads(blk, dir)
    BY <2>1, <2>2 DEF OnItsWay
  <2>5. dir = goal
    BY <1>0, <2>3, <2>4, LeadsEnd
  <2> QED
    BY <2>1, <2>2, <2>5 DEF OnItsWay
<1>9. CASE UNCHANGED vars
  BY <1>9 DEF vars, port, history, OnItsWay, Leads, Commands, Block
<1>10. ~(SourceFails \/ EditFails \/ EditFailsInChain \/ Kill)
  BY DEF SourceFails, EditFails, EditFailsInChain, Kill, Stop
<1> QED
  BY <1>1, <1>2, <1>3, <1>4, <1>5, <1>6, <1>7, <1>8, <1>9, <1>10 DEF Next, Porter

\* What holds of every porter, convergent or not.
WayInv == CInv /\ Proven /\ (pkg \in Durable => OnItsWay)

LEMMA AlwaysWay == Spec => []WayInv
<1>1. Init => WayInv
  BY InitConverging, InitOnItsWay DEF WayInv
<1>2. WayInv /\ [Next]_vars => WayInv'
  <2> SUFFICES ASSUME WayInv, [Next]_vars PROVE WayInv'
    OBVIOUS
  <2>1. CInv' /\ Proven'
    BY NextConverging, NextProven DEF WayInv, CInv
  <2>2. pkg' = pkg
    BY DEF Next, Porter, Launch, Download, Source, SourceFails, EnterBlock, SkipBlock, Edit,
           SkipEdit, EditFails, EditFailsInChain, LeaveBlock, Finish, Kill, Stop, vars
  <2>3. pkg \in Durable => OnItsWay'
    BY NextOnItsWay DEF WayInv, CInv, Proven
  <2> QED
    BY <2>1, <2>2, <2>3 DEF WayInv, Durable
<1> QED
  BY <1>1, <1>2, PTL DEF Spec

(* Every run that nothing disturbs, the first one or a later one, is on    *)
(* the way to the directory that the script as a whole makes of the        *)
(* vendored package, at every command: for the porters that are not        *)
(* convergent too, if porting what they have ported changes nothing.       *)
THEOREM RunsAsAWhole == Spec => [](pkg \in Durable => Underway)
<1>1. WayInv => (pkg \in Durable => Underway)
  BY DEF WayInv, Underway, Durable, Proven, GoalOfOrigin
<1> QED
  BY <1>1, AlwaysWay, PTL

(* A porter may be run any number of times on what it made of a vendored   *)
(* package: every undisturbed run ends in the directory that the first one *)
(* left (port.sh may be repeated without a new download).  The text of a   *)
(* convergent script shows it; of another one, that a second run does.     *)
THEOREM RerunsAreStable == Spec => [](pkg \in Stable \cup Durable => RerunStable)
<1>1. WayInv => (pkg \in Stable \cup Durable => RerunStable)
  BY AtTheGoal, DoneBehindAll DEF WayInv, OnItsWay, RerunStable, Healthy
<1> QED
  BY <1>1, AlwaysWay, PTL

-----------------------------------------------------------------------------
(* PackagePort implements VendoredPackage.                                 *)

\* An edit that changes a directory leaves a text that upstream never holds.
LEMMA EditLeavesOrigin ==
  ASSUME TypeOK, Proven, pc = "editing", pos <= Len(Commands), NEW e, e = After(Cmd, dir), e # dir
  PROVE  e # origin
<1>1. pkg \in Packages /\ blk \in 1..Len(Script[pkg]) /\ pos \in 1..Len(Commands)
  <2>1. pkg \in Packages /\ blk \in 1..Len(Script[pkg])
    BY ScriptType DEF TypeOK
  <2>2. pos \in Nat \ {0} /\ Len(Commands) \in Nat
    BY <2>1, ScriptType DEF TypeOK, Commands, Block
  <2> QED
    BY <2>1, <2>2
<1>2. Cmd \in CommandsOf(Script[pkg])
  BY <1>1, ScriptType DEF Cmd, Commands, Block
<1>3. e = Effect(Cmd, dir) /\ CanRun(Cmd, dir)
  BY DEF After
<1>4. Proper(dir)
  <2>1. dir \in Dirs(pkg)
    BY DEF TypeOK
  <2> QED
    BY <2>1, DirProper DEF Proven
<1>5. ~(Cmd.op \in {"after", "subst"} /\ <<Cmd.file, Cmd.at>> \notin dir.has)
  BY <1>3, <1>4, UnmatchedEdit
<1>6. Writes(Cmd, dir) = {Cmd.file} \X Cmd.new
  BY <1>5 DEF Writes
<1>7. Writes(Cmd, dir) \subseteq e.has
  BY <1>3 DEF Effect
<1>8. Cmd.text \in Cmd.new /\ Cmd.text \in TextsOf(Script[pkg])
  BY <1>1, <1>2, PortAssumption DEF PortAssumption, TextsOf
<1>9. <<Cmd.file, Cmd.text>> \in e.has
  BY <1>6, <1>7, <1>8
<1>10. \A x \in origin.has : x[2] \notin TextsOf(Script[pkg])
  BY <1>1, PortAssumption DEF PortAssumption, Proven, GoalOfOrigin
<1> QED
  BY <1>8, <1>9, <1>10

\* A run that ends undisturbed, or in a porter that repairs, ends at the goal.
LEMMA EndsAtGoal ==
  ASSUME WayInv, pkg \in Stable \cup Durable, smooth \/ (pkg \in Repairable /\ clean),
         pc = "testing", blk > Len(Script[pkg])
  PROVE  dir = goal
<1>1. CASE pkg \in Stable
  BY <1>1, AtTheGoal DEF WayInv, Healthy
<1>2. CASE pkg \notin Stable
  <2>1. pkg \notin Repairable
    BY <1>2, RepairableScript
  <2>2. smooth /\ OnItsWay /\ TypeOK /\ pkg \in Packages
    BY <1>2, <2>1 DEF WayInv, CInv, Proven, GoalOfOrigin
  <2>3. blk = Len(Script[pkg]) + 1
    <3>1. blk \in 1..(Len(Script[pkg]) + 1) /\ Len(Script[pkg]) \in Nat
      BY <2>2, ScriptType DEF TypeOK
    <3> QED
      BY <3>1
  <2> QED
    BY <2>2, <2>3, LeadsEnd DEF OnItsWay
<1> QED
  BY <1>1, <1>2

LEMMA InitPromise == Init => Promise!Init
<1> SUFFICES ASSUME Init PROVE Promise!Init
  OBVIOUS
<1>1. Status \in {"fresh", "ported"} /\ ~Running /\ smooth = TRUE /\ clean = TRUE
  BY DEF Init, Status, Running
<1>2. (pkg \in Repairable) \in BOOLEAN
  OBVIOUS
<1> QED
  BY <1>1, <1>2 DEF Promise!Init

LEMMA NextPromise ==
  WayInv /\ pkg \in Stable \cup Durable /\ [Next]_vars => [Promise!Next]_(Promise!vars)
<1> SUFFICES ASSUME WayInv, pkg \in Stable \cup Durable, [Next]_vars
             PROVE  [Promise!Next]_(Promise!vars)
  OBVIOUS
<1>0. TypeOK /\ smooth \in BOOLEAN /\ clean \in BOOLEAN /\ Status' \in Promise!Disturbed
  BY DEF WayInv, CInv, TypeOK, Status, Promise!Disturbed
<1>1. pkg' = pkg
  BY DEF Next, Porter, Launch, Download, Source, SourceFails, EnterBlock, SkipBlock, Edit,
         SkipEdit, EditFails, EditFailsInChain, LeaveBlock, Finish, Kill, Stop, vars
<1>2. (pkg' \in Repairable) = (pkg \in Repairable)
  BY <1>1
<1>3. CASE Launch
  <2>1. Promise!Begin
    BY <1>3 DEF Launch, history, Running, Status, Promise!Begin
  <2> QED
    BY <1>2, <2>1 DEF Promise!Next
<1>4. CASE Download
  <2>1. Status' \in {"fresh", "ported"}
    BY <1>4 DEF Download, Status
  <2>2. Promise!Fetch
    BY <1>4, <2>1 DEF Download, Running, Promise!Fetch
  <2> QED
    BY <1>2, <2>2 DEF Promise!Next
<1>5. CASE Source \/ EnterBlock \/ SkipBlock \/ SkipEdit \/ LeaveBlock \/ UNCHANGED vars
  <2>1. UNCHANGED <<pkg, dir, history, clean>> /\ Running' = Running
    BY <1>5 DEF Source, EnterBlock, SkipBlock, SkipEdit, LeaveBlock, Running, vars, port
  <2>2. UNCHANGED Status
    BY <2>1 DEF Status, history
  <2> QED
    BY <2>1, <2>2 DEF Promise!vars, history
<1>6. CASE Edit
  <2>1. /\ pc = "editing" /\ pos <= Len(Commands) /\ dir' = After(Cmd, dir)
        /\ UNCHANGED <<pkg, pc, history, clean>>
    BY <1>6 DEF Edit, After
  <2>2. CASE dir' = dir
    BY <2>1, <2>2 DEF Promise!vars, Status, Running, history
  <2>3. CASE dir' # dir
    <3>1. dir' # origin'
      BY <1>0, <2>1, <2>3, EditLeavesOrigin DEF history, WayInv
    <3>2. Status' \in {"torn", "ported"}
      BY <3>1 DEF Status
    <3>3. Promise!Work
      BY <2>1, <3>2 DEF Promise!Work, Running, history
    <3> QED
      BY <1>2, <3>3 DEF Promise!Next
  <2> QED
    BY <2>2, <2>3
<1>7. CASE EditFailsInChain
  <2>1. pc = "editing" /\ pc' = pc /\ smooth' = FALSE /\ clean' = FALSE
    BY <1>7 DEF EditFailsInChain, Failing
  <2>2. Promise!Stumble
    BY <1>0, <2>1 DEF Promise!Stumble, Running
  <2> QED
    BY <1>2, <2>2 DEF Promise!Next
<1>8. CASE EditFails \/ SourceFails \/ Kill
  <2>1. Running /\ pc' = "failed" /\ smooth' = FALSE /\ clean' \in BOOLEAN
    BY <1>0, <1>8 DEF EditFails, SourceFails, Kill, Failing, Stop, Running
  <2>2. Promise!Break
    BY <1>0, <2>1 DEF Promise!Break, Running
  <2> QED
    BY <1>2, <2>2 DEF Promise!Next
<1>9. CASE Finish
  <2>1. /\ pc = "testing" /\ blk > Len(Script[pkg]) /\ pc' = "done"
        /\ UNCHANGED <<pkg, dir, history, clean>>
    BY <1>9 DEF Finish
  <2>2. smooth \/ (pkg \in Repairable /\ clean) => Status = "ported"
    BY <2>1, EndsAtGoal DEF Status
  <2>3. Promise!End
    BY <2>1, <2>2 DEF Promise!End, Promise!Ends, Running, Status, history
  <2> QED
    BY <1>2, <2>3 DEF Promise!Next
<1> QED
  BY <1>3, <1>4, <1>5, <1>6, <1>7, <1>8, <1>9 DEF Next, Porter

\* The package is chosen once.
LEMMA PackageStays ==
  pkg \in Stable \cup Durable /\ [Next]_vars => (pkg \in Stable \cup Durable)'
BY DEF Next, Porter, Launch, Download, Source, SourceFails, EnterBlock, SkipBlock, Edit,
       SkipEdit, EditFails, EditFailsInChain, LeaveBlock, Finish, Kill, Stop, vars, Stable,
       Durable, Lasts

(* Seen from outside, a porter that may be run again does what             *)
(* VendoredPackage says: what the dispatcher's sessions rely on.           *)
THEOREM PromiseKept == Spec /\ pkg \in Stable \cup Durable => KeepsPromise
<1>1. Spec /\ pkg \in Stable \cup Durable => [](pkg \in Stable \cup Durable)
  BY PackageStays, PTL DEF Spec
<1> QED
  BY <1>1, AlwaysWay, InitPromise, NextPromise, PTL DEF Spec, KeepsPromise, Promise!Spec
=============================================================================
