-------------------------- MODULE PackagePort_proofs --------------------------
(***************************************************************************)
(* What holds of every porter, for any script that satisfies the discipline *)
(* of EditScript and any vendored package: types, and that no text is      *)
(* written twice.                                                          *)
(***************************************************************************)
EXTENDS PackagePort, TLAPS

-----------------------------------------------------------------------------
(* The scripts.                                                            *)

\* An element of a sequence over a set is in the set.
LEMMA ElementType ==
  ASSUME NEW S, NEW q \in Seq(S), NEW i \in 1..Len(q)
  PROVE  q[i] \in S
<1> QED
  OBVIOUS

\* The assumption on the constants, for the package at hand.
LEMMA ScriptType ==
  ASSUME NEW p \in Packages
  PROVE  /\ Script[p] \in Seq([guard : SUBSET TestsOf(Script[p]),
                               commands : Seq(CommandsOf(Script[p]))])
         /\ Len(Script[p]) \in Nat
         /\ \A b \in 1..Len(Script[p]) :
              /\ Len(Script[p][b].commands) \in Nat
              /\ \A k \in 1..Len(Script[p][b].commands) :
                   Script[p][b].commands[k] \in CommandsOf(Script[p])
<1>1. Script[p] \in Seq([guard : SUBSET TestsOf(Script[p]), commands : Seq(CommandsOf(Script[p]))])
  BY PortAssumption DEF PortAssumption
<1>2. \A b \in 1..Len(Script[p]) :
        Script[p][b] \in [guard : SUBSET TestsOf(Script[p]), commands : Seq(CommandsOf(Script[p]))]
  BY <1>1, ElementType
<1>3. \A b \in 1..Len(Script[p]) : Script[p][b].commands \in Seq(CommandsOf(Script[p]))
  BY <1>2
<1>4. ASSUME NEW b \in 1..Len(Script[p]), NEW k \in 1..Len(Script[p][b].commands)
      PROVE  Script[p][b].commands[k] \in CommandsOf(Script[p])
  BY DEF CommandsOf
<1> QED
  BY <1>1, <1>3, <1>4

\* A command stays among the files and words of its script.
LEMMA CommandInScript ==
  ASSUME NEW s, NEW c \in CommandsOf(s)
  PROVE  c.file \in FilesOf(s) /\ c.from \in FilesOf(s) /\ c.new \subseteq WordsOf(s)
<1>1. {c.file, c.from} \subseteq FilesOf(s)
  BY DEF FilesOf
<1>2. c.new \cup {c.at} \subseteq WordsOf(s)
  BY DEF WordsOf
<1> QED
  BY <1>1, <1>2

\* An edit, and an interrupted one, leave a directory a directory.
LEMMA EffectType ==
  ASSUME NEW p \in Packages, NEW d \in Dirs(p), NEW c \in CommandsOf(Script[p])
  PROVE  Effect(c, d) \in Dirs(p) /\ Torn(c, d) \in Dirs(p)
<1> DEFINE Fs    == FilesOf(Script[p])
           pairs == Fs \X WordsOf(Script[p])
<1>1. c.file \in Fs /\ c.new \subseteq WordsOf(Script[p])
  BY CommandInScript
<1>2. d.there \in SUBSET Fs /\ d.has \in SUBSET pairs /\ d.twice \in SUBSET pairs
  BY DEF Dirs
<1>3. \A P \in SUBSET pairs : Kept(c, P) \in SUBSET pairs
  BY <1>1 DEF Kept, Brings
<1>4. Writes(c, d) \in SUBSET pairs
  BY <1>1 DEF Writes
<1>5. Effect(c, d) \in Dirs(p)
  <2>1. (d.there \ (IF c.op = "move" THEN {c.from} ELSE {})) \cup {c.file} \in SUBSET Fs
    BY <1>1, <1>2
  <2>2. Kept(c, d.has) \cup Writes(c, d) \in SUBSET pairs
    BY <1>2, <1>3, <1>4
  <2>3. Kept(c, d.twice) \cup (Kept(c, d.has) \cap Writes(c, d)) \in SUBSET pairs
    BY <1>2, <1>3, <1>4
  <2> QED
    BY <2>1, <2>2, <2>3 DEF Dirs, Effect
<1>6. Torn(c, d) \in Dirs(p)
  <2>1. /\ d.there \cup {c.file} \in SUBSET Fs
        /\ {x \in d.has : x[1] # c.file} \in SUBSET pairs
        /\ {x \in d.twice : x[1] # c.file} \in SUBSET pairs
    BY <1>1, <1>2
  <2> QED
    BY <2>1 DEF Dirs, Torn
<1> QED
  BY <1>5, <1>6

-----------------------------------------------------------------------------
(* Types.                                                                  *)

LEMMA InitType == Init => TypeOK
<1> SUFFICES ASSUME Init PROVE TypeOK
  OBVIOUS
<1>1. Len(Script[pkg]) \in Nat
  BY ScriptType DEF Init
<1>2. pkg \in Packages /\ dir \in Dirs(pkg)
  BY PortAssumption DEF Init, PortAssumption
<1>3. /\ pc = "idle" /\ blk = 1 /\ pos = 1 /\ runs = 0
      /\ origin = dir /\ smooth = TRUE /\ clean = TRUE
  BY DEF Init
<1>4. runs \in 0..MaxRuns[pkg]
  BY <1>2, <1>3, PortAssumption DEF PortAssumption
<1> QED
  BY <1>1, <1>2, <1>3, <1>4 DEF TypeOK

LEMMA NextType == TypeOK /\ [Next]_vars => TypeOK'
<1> SUFFICES ASSUME TypeOK, [Next]_vars PROVE TypeOK'
  OBVIOUS
<1> USE DEF TypeOK
<1>a. MaxRuns[pkg] \in Nat
  BY PortAssumption DEF PortAssumption
<1>0. /\ Len(Script[pkg]) \in Nat
      /\ blk \in 1..Len(Script[pkg]) =>
           /\ Len(Commands) \in Nat
           /\ pos \in 1..Len(Commands) => Cmd \in CommandsOf(Script[pkg])
  BY ScriptType DEF Commands, Cmd, Block
<1>1. CASE Launch
  BY <1>1, <1>0, <1>a DEF Launch, history, Running, Commands, Block
<1>2. CASE Download
  <2>1. \A fresh \in Upstream[pkg] : fresh \in Dirs(pkg)
    BY PortAssumption DEF PortAssumption
  <2> QED
    BY <1>2, <2>1, <1>a DEF Download, Running, Commands, Block
<1>3. CASE Source
  BY <1>3 DEF Source, history, Commands, Block
<1>4. CASE SourceFails
  BY <1>4 DEF SourceFails, Stop, Commands, Block
<1>5. CASE EnterBlock
  BY <1>5, <1>0 DEF EnterBlock, history, Commands, Block
<1>6. CASE SkipBlock
  BY <1>6, <1>0 DEF SkipBlock, history, Commands, Block
<1>7. CASE Edit
  <2>1. Cmd \in CommandsOf(Script[pkg])
    BY <1>7, <1>0 DEF Edit
  <2>2. dir' \in Dirs(pkg)
    BY <1>7, <2>1, EffectType DEF Edit
  <2> QED
    BY <1>7, <1>0, <2>2 DEF Edit, history, Commands, Block
<1>8. CASE SkipEdit
  BY <1>8, <1>0 DEF SkipEdit, history, Commands, Block
<1>9. ASSUME Failing PROVE dir' \in Dirs(pkg) /\ clean' \in BOOLEAN
  <2>1. Cmd \in CommandsOf(Script[pkg])
    BY <1>9, <1>0 DEF Failing
  <2> QED
    BY <1>9, <2>1, EffectType DEF Failing
<1>10. CASE EditFails
  BY <1>10, <1>9 DEF EditFails, Stop, Commands, Block
<1>11. CASE EditFailsInChain
  <2>1. pos' \in Nat \ {0} /\ pos' <= Len(Commands) + 1
    BY <1>11, <1>0 DEF EditFailsInChain, Failing, BehindChain
  <2> QED
    BY <1>11, <1>9, <2>1 DEF EditFailsInChain, Commands, Block
<1>12. CASE LeaveBlock
  BY <1>12, <1>0 DEF LeaveBlock, history, Commands, Block
<1>13. CASE Finish
  BY <1>13 DEF Finish, history, Commands, Block
<1>14. CASE Kill
  BY <1>14 DEF Kill, Stop, Commands, Block
<1>15. CASE UNCHANGED vars
  BY <1>15 DEF vars, port, history, Commands, Block
<1> QED
  BY <1>1, <1>2, <1>3, <1>4, <1>5, <1>6, <1>7, <1>8, <1>10, <1>11, <1>12, <1>13, <1>14, <1>15
  DEF Next, Porter

(* Every porter stays in its control flow, and its directory among the     *)
(* files and words of its script: port.sh of every package.                *)
THEOREM TypeCorrect == Spec => []TypeOK
<1> QED
  BY InitType, NextType, PTL DEF Spec
-----------------------------------------------------------------------------
(* No text is written twice.                                               *)
(*                                                                         *)
(* The invariant that is inductive speaks of what the guards rely on: a    *)
(* directory is steady if words are found in existing files only, a text   *)
(* that is there came with its marker, and no copy brings a text along;    *)
(* and inside a compound command, the texts still ahead are not there yet, *)
(* unless a command before them is about to write their file anew.         *)

Positions(s) == UNION { {b} \X (1..Len(s[b].commands)) : b \in 1..Len(s) }

At(s, x) == s[x[1]].commands[x[2]]

Growing(s) == {x \in Positions(s) : Grows(At(s, x))}

Found(c, d) == <<c.file, c.text>> \in d.has

InFiles(d) == \A y \in d.has : y[1] \in d.there

WithMarkers(s, d) ==
  \A x \in Growing(s) : \A m \in At(s, x).new :
    MarkedBy(s, x[1], At(s, x), m) /\ Found(At(s, x), d) => <<At(s, x).file, m>> \in d.has

CleanSources(s, d) ==
  \A x \in Growing(s) : \A e \in CommandsOf(s) :
    e.op = "copy" /\ e.file = At(s, x).file =>
      /\ <<e.from, At(s, x).text>> \notin d.has
      /\ <<e.from, At(s, x).text>> \notin d.twice

Once(s, d) == \A x \in Growing(s) : <<At(s, x).file, At(s, x).text>> \notin d.twice

Steady(s, d) == InFiles(d) /\ WithMarkers(s, d) /\ CleanSources(s, d) /\ Once(s, d)

Ahead(s, b, j, d) ==
  \A k \in j..Len(s[b].commands) :
    Grows(s[b].commands[k]) /\ Found(s[b].commands[k], d) =>
      \E i \in j..(k - 1) : ResetBy(s, b, i, k)

Guarded == Steady(Script[pkg], dir) /\ (pc = "editing" => Ahead(Script[pkg], blk, pos, dir))

IInv == TypeOK /\ (pkg \in Idempotent => Guarded)

\* The commands of a script are those at its positions.
LEMMA CommandsAtPositions ==
  ASSUME NEW p \in Packages
  PROVE  /\ \A x \in Positions(Script[p]) : At(Script[p], x) \in CommandsOf(Script[p])
         /\ \A c \in CommandsOf(Script[p]) : \E x \in Positions(Script[p]) : c = At(Script[p], x)
<1>1. ASSUME NEW x \in Positions(Script[p]) PROVE At(Script[p], x) \in CommandsOf(Script[p])
  <2>1. x[1] \in 1..Len(Script[p]) /\ x[2] \in 1..Len(Script[p][x[1]].commands)
    BY DEF Positions
  <2> QED
    BY <2>1, ScriptType DEF At
<1>2. ASSUME NEW c \in CommandsOf(Script[p])
      PROVE  \E x \in Positions(Script[p]) : c = At(Script[p], x)
  <2>1. PICK b \in 1..Len(Script[p]) :
          c \in {Script[p][b].commands[k] : k \in 1..Len(Script[p][b].commands)}
    BY DEF CommandsOf
  <2>2. PICK k \in 1..Len(Script[p][b].commands) : c = Script[p][b].commands[k]
    BY <2>1
  <2>3. <<b, k>> \in Positions(Script[p]) /\ c = At(Script[p], <<b, k>>)
    BY <2>2, ScriptType DEF Positions, At
  <2> QED
    BY <2>3
<1> QED
  BY <1>1, <1>2

\* Only the command at x writes its text to its file, or brings it there.
LEMMA OwnWriter ==
  ASSUME NEW p \in Packages, Disciplined(Script[p]),
         NEW x \in Growing(Script[p]), NEW y \in Positions(Script[p]), y # x,
         At(Script[p], y).file = At(Script[p], x).file
  PROVE  /\ At(Script[p], x).text \notin At(Script[p], y).new
         /\ At(Script[p], y).op # "move"
         /\ At(Script[p], y).op = "copy" =>
              \A e \in CommandsOf(Script[p]) :
                e.file = At(Script[p], y).from =>
                  At(Script[p], x).text \notin e.new /\ e.op \notin {"copy", "move"}
<1>1. x[1] \in 1..Len(Script[p]) /\ x[2] \in 1..Len(Script[p][x[1]].commands)
  BY DEF Growing, Positions
<1>2. y[1] \in 1..Len(Script[p]) /\ y[2] \in 1..Len(Script[p][y[1]].commands)
  BY DEF Positions
<1>3. <<y[1], y[2]>> # <<x[1], x[2]>>
  BY DEF Growing, Positions
<1>4. OwnText(Script[p], x[1], x[2])
  BY <1>1 DEF Disciplined, Growing, At
<1> QED
  BY <1>1, <1>2, <1>3, <1>4 DEF OwnText, At

\* What the vendored package is steady by.
LEMMA FreshSteady ==
  ASSUME NEW p \in Packages, NEW d \in Upstream[p]
  PROVE  Steady(Script[p], d)
<1>1. d.twice = {} /\ \A y \in d.has : y[1] \in d.there /\ y[2] \notin TextsOf(Script[p])
  BY PortAssumption DEF PortAssumption
<1>2. \A x \in Growing(Script[p]) : At(Script[p], x).text \in TextsOf(Script[p])
  BY CommandsAtPositions DEF TextsOf, Growing
<1>3. InFiles(d)
  BY <1>1 DEF InFiles
<1>4. WithMarkers(Script[p], d)
  BY <1>1, <1>2 DEF WithMarkers, Found
<1>5. CleanSources(Script[p], d)
  BY <1>1, <1>2 DEF CleanSources
<1>6. Once(Script[p], d)
  BY <1>1 DEF Once
<1> QED
  BY <1>3, <1>4, <1>5, <1>6 DEF Steady

\* Nothing a copy of a growing file is made from ever gets the text.
LEMMA SourceWriter ==
  ASSUME NEW p \in Packages, Disciplined(Script[p]),
         NEW x \in Growing(Script[p]), NEW e \in CommandsOf(Script[p]),
         e.op = "copy", e.file = At(Script[p], x).file,
         NEW c \in CommandsOf(Script[p]), c.file = e.from
  PROVE  At(Script[p], x).text \notin c.new /\ c.op \notin {"copy", "move"}
<1>1. PICK z \in Positions(Script[p]) : e = At(Script[p], z)
  BY CommandsAtPositions
<1>2. z # x
  BY <1>1 DEF Growing, Grows
<1> QED
  BY <1>1, <1>2, OwnWriter

\* What is in a directory after an edit was there, or was brought or written.
LEMMA EffectPairs ==
  ASSUME NEW c, NEW d, NEW z
  PROVE  /\ z \in Effect(c, d).has =>
              \/ z \in d.has /\ ~Erases(c, z)
              \/ z \in Brings(c, d.has)
              \/ z \in Writes(c, d)
         /\ z \in Effect(c, d).twice =>
              \/ z \in d.twice /\ ~Erases(c, z)
              \/ z \in Brings(c, d.twice)
              \/ /\ z \in Writes(c, d)
                 /\ z \in d.has \/ z \in Brings(c, d.has)
BY DEF Effect, Kept

\* What a copy or move brings to a file was in the file it reads.
LEMMA BroughtPairs ==
  ASSUME NEW c, NEW P, \A y \in P : y = <<y[1], y[2]>>
  PROVE  \A f, w : <<f, w>> \in Brings(c, P) =>
           c.op \in {"copy", "move"} /\ c.file = f /\ <<c.from, w>> \in P
<1> SUFFICES ASSUME NEW f, NEW w, <<f, w>> \in Brings(c, P)
             PROVE  c.op \in {"copy", "move"} /\ c.file = f /\ <<c.from, w>> \in P
  OBVIOUS
<1>1. c.op \in {"copy", "move"}
  BY DEF Brings
<1>2. PICK y \in P : y[1] = c.from /\ <<f, w>> = <<c.file, y[2]>>
  BY <1>1 DEF Brings
<1> QED
  BY <1>1, <1>2

LEMMA WrittenPairs ==
  ASSUME NEW c, NEW d, NEW f, NEW w
  PROVE  <<f, w>> \in Writes(c, d) => c.file = f /\ w \in c.new
BY DEF Writes

\* The pairs of a directory are pairs.
LEMMA DirPairs ==
  ASSUME NEW p \in Packages, NEW d \in Dirs(p)
  PROVE  /\ \A y \in d.has : y = <<y[1], y[2]>>
         /\ \A y \in d.twice : y = <<y[1], y[2]>>
BY DEF Dirs

\* The command at position y, run where its text is not there yet if it
\* grows, keeps a directory steady.
LEMMA EffectSteady ==
  ASSUME NEW p \in Packages, Disciplined(Script[p]),
         NEW d \in Dirs(p), Steady(Script[p], d),
         NEW y \in Positions(Script[p]),
         Grows(At(Script[p], y)) => ~Found(At(Script[p], y), d)
  PROVE  Steady(Script[p], Effect(At(Script[p], y), d))
<1> DEFINE s == Script[p]
           c == At(s, y)
           e == Effect(c, d)
<1>0. c \in CommandsOf(s)
  BY CommandsAtPositions
<1>a. /\ \A z \in d.has : z = <<z[1], z[2]>>
      /\ \A z \in d.twice : z = <<z[1], z[2]>>
  BY DirPairs
<1>1. InFiles(e)
  <2> SUFFICES ASSUME NEW z \in e.has PROVE z[1] \in e.there
    BY DEF InFiles
  <2>1. CASE z \in d.has /\ ~Erases(c, z)
    <3>1. z[1] \in d.there
      BY <2>1 DEF Steady, InFiles
    <3> QED
      BY <2>1, <3>1 DEF Effect, Erases
  <2>2. CASE z \in Brings(c, d.has) \/ z \in Writes(c, d)
    <3>1. z[1] = c.file
      BY <2>2 DEF Brings, Writes
    <3> QED
      BY <3>1 DEF Effect
  <2> QED
    BY <2>1, <2>2, EffectPairs
<1>2. WithMarkers(s, e)
  <2> SUFFICES ASSUME NEW x \in Growing(s), NEW m \in At(s, x).new,
                      MarkedBy(s, x[1], At(s, x), m), Found(At(s, x), e)
               PROVE  <<At(s, x).file, m>> \in e.has
    BY DEF WithMarkers
  <2> DEFINE f == At(s, x).file
             t == At(s, x).text
  <2>1. /\ c.file = f => /\ c.op \in {"after", "append", "subst"}
                         /\ c.op = "subst" /\ c.at = m => m \in c.new
        /\ c.op = "move" => c.from # f
    BY <1>0 DEF MarkedBy
  <2>2. CASE <<f, t>> \in d.has
    <3>1. <<f, m>> \in d.has
      BY <2>2 DEF Steady, WithMarkers, Found
    <3>2. CASE Erases(c, <<f, m>>)
      <4>1. c.file = f /\ c.op = "subst" /\ c.at = m /\ m \in c.new
        BY <2>1, <3>2 DEF Erases
      <4>2. <<f, m>> \in Writes(c, d)
        BY <3>1, <4>1 DEF Writes
      <4> QED
        BY <4>2 DEF Effect
    <3>3. CASE ~Erases(c, <<f, m>>)
      BY <3>1, <3>3 DEF Effect, Kept
    <3> QED
      BY <3>2, <3>3
  <2>3. CASE <<f, t>> \in Brings(c, d.has)
    <3>1. \A g, w : <<g, w>> \in Brings(c, d.has) => c.op \in {"copy", "move"} /\ c.file = g
      BY <1>a, BroughtPairs
    <3>2. c.op \in {"copy", "move"} /\ c.file = f
      BY <2>3, <3>1
    <3> QED
      BY <2>1, <3>2
  <2>4. CASE <<f, t>> \in Writes(c, d)
    <3>1. c.file = f /\ t \in c.new
      BY <2>4, WrittenPairs
    <3>2. y = x
      BY <3>1, OwnWriter
    <3>3. <<f, m>> \in Writes(c, d)
      BY <2>4, <3>2 DEF Writes
    <3> QED
      BY <3>3 DEF Effect
  <2> QED
    BY <2>2, <2>3, <2>4, EffectPairs DEF Found
<1>3. CleanSources(s, e)
  <2> SUFFICES ASSUME NEW x \in Growing(s), NEW g \in CommandsOf(s),
                      g.op = "copy", g.file = At(s, x).file
               PROVE  /\ <<g.from, At(s, x).text>> \notin e.has
                      /\ <<g.from, At(s, x).text>> \notin e.twice
    BY DEF CleanSources
  <2> DEFINE z == <<g.from, At(s, x).text>>
  <2>1. z \notin d.has /\ z \notin d.twice
    BY DEF Steady, CleanSources
  <2>2. c.file = g.from => At(s, x).text \notin c.new /\ c.op \notin {"copy", "move"}
    BY <1>0, SourceWriter
  <2>3. z \notin Writes(c, d)
    BY <2>2, WrittenPairs
  <2>4. z \notin Brings(c, d.has) /\ z \notin Brings(c, d.twice)
    BY <1>a, <2>2, BroughtPairs
  <2> QED
    BY <2>1, <2>3, <2>4, EffectPairs
<1>4. Once(s, e)
  <2> SUFFICES ASSUME NEW x \in Growing(s)
               PROVE  <<At(s, x).file, At(s, x).text>> \notin e.twice
    BY DEF Once
  <2> DEFINE f == At(s, x).file
             t == At(s, x).text
  <2>1. <<f, t>> \notin d.twice
    BY DEF Steady, Once
  <2>2. <<f, t>> \notin Brings(c, d.has) /\ <<f, t>> \notin Brings(c, d.twice)
    <3> SUFFICES ASSUME c.op \in {"copy", "move"}, c.file = f
                 PROVE  <<c.from, t>> \notin d.has /\ <<c.from, t>> \notin d.twice
      BY <1>a, BroughtPairs
    <3>1. y # x
      BY DEF Growing, Grows
    <3>2. c.op = "copy"
      BY <3>1, OwnWriter
    <3> QED
      BY <1>0, <3>2 DEF Steady, CleanSources
  <2>3. ~(<<f, t>> \in Writes(c, d) /\ <<f, t>> \in d.has)
    <3> SUFFICES ASSUME <<f, t>> \in Writes(c, d) PROVE <<f, t>> \notin d.has
      OBVIOUS
    <3>1. c.file = f /\ t \in c.new
      BY WrittenPairs
    <3>2. y = x
      BY <3>1, OwnWriter
    <3> QED
      BY <3>2 DEF Growing, Found
  <2> QED
    BY <2>1, <2>2, <2>3, EffectPairs
<1> QED
  BY <1>1, <1>2, <1>3, <1>4 DEF Steady

\* So does any command when it is cut short.
LEMMA TornSteady ==
  ASSUME NEW p \in Packages, Disciplined(Script[p]), NEW d, Steady(Script[p], d),
         NEW c \in CommandsOf(Script[p])
  PROVE  Steady(Script[p], Torn(c, d))
<1> DEFINE s == Script[p]
           e == Torn(c, d)
<1>1. CASE c.op \notin {"ship", "copy"}
  BY <1>1 DEF Torn
<1>2. CASE c.op \in {"ship", "copy"}
  <2>1. /\ e.there = d.there \cup {c.file}
        /\ e.has = {z \in d.has : z[1] # c.file}
        /\ e.twice = {z \in d.twice : z[1] # c.file}
    BY <1>2 DEF Torn
  <2>2. InFiles(e)
    BY <2>1 DEF Steady, InFiles
  <2>3. WithMarkers(s, e)
    <3> SUFFICES ASSUME NEW x \in Growing(s), NEW m \in At(s, x).new,
                        MarkedBy(s, x[1], At(s, x), m), Found(At(s, x), e)
                 PROVE  <<At(s, x).file, m>> \in e.has
      BY DEF WithMarkers
    <3>1. c.file # At(s, x).file
      BY <1>2 DEF MarkedBy
    <3>2. <<At(s, x).file, m>> \in d.has
      BY <2>1 DEF Steady, WithMarkers, Found
    <3> QED
      BY <2>1, <3>1, <3>2
  <2>4. CleanSources(s, e)
    BY <2>1 DEF Steady, CleanSources
  <2>5. Once(s, e)
    BY <2>1 DEF Steady, Once
  <2> QED
    BY <2>2, <2>3, <2>4, <2>5 DEF Steady
<1> QED
  BY <1>1, <1>2

\* What the outer if of a compound command has established.
LEMMA EnterAhead ==
  ASSUME NEW p \in Packages, Disciplined(Script[p]),
         NEW d \in Dirs(p), Steady(Script[p], d),
         NEW b \in 1..Len(Script[p]), AllHold(Script[p][b].guard, d)
  PROVE  Ahead(Script[p], b, 1, d)
<1> DEFINE s == Script[p]
<1> SUFFICES ASSUME NEW k \in 1..Len(s[b].commands), Grows(s[b].commands[k]),
                    ~ResetBefore(s, b, k)
             PROVE  ~Found(s[b].commands[k], d)
  BY DEF Ahead, ResetBefore
<1> DEFINE c == s[b].commands[k]
           x == <<b, k>>
<1>1. x \in Growing(s) /\ At(s, x) = c
  BY ScriptType DEF Growing, Positions, At
<1>2. \/ \E m \in c.new : MarkedBy(s, b, c, m)
      \/ Missing(c.file) \in s[b].guard
  BY DEF Disciplined
<1>3. ASSUME NEW m \in c.new, MarkedBy(s, b, c, m) PROVE ~Found(c, d)
  <2>1. Holds(Lacks(c.file, m), d)
    BY <1>3 DEF MarkedBy, AllHold
  <2>2. <<c.file, m>> \notin d.has
    BY <2>1 DEF Holds, Lacks, Test
  <2> QED
    BY <1>1, <1>3, <2>2 DEF Steady, WithMarkers
<1>4. CASE Missing(c.file) \in s[b].guard
  <2>1. Holds(Missing(c.file), d)
    BY <1>4 DEF AllHold
  <2>2. c.file \notin d.there
    BY <2>1 DEF Holds, Missing, Test
  <2> QED
    BY <2>2 DEF Steady, InFiles, Found
<1> QED
  BY <1>2, <1>3, <1>4

\* A command of the compound command puts no text there that is still ahead.
LEMMA EditAhead ==
  ASSUME NEW p \in Packages, Disciplined(Script[p]),
         NEW d \in Dirs(p), Steady(Script[p], d),
         NEW b \in 1..Len(Script[p]), NEW j \in 1..Len(Script[p][b].commands),
         Ahead(Script[p], b, j, d)
  PROVE  Ahead(Script[p], b, j + 1, Effect(Script[p][b].commands[j], d))
<1> DEFINE s == Script[p]
           c == s[b].commands[j]
           y == <<b, j>>
<1>0. Len(s[b].commands) \in Nat
  BY ScriptType
<1>1. y \in Positions(s) /\ At(s, y) = c /\ c \in CommandsOf(s)
  <2>1. y \in Positions(s)
    BY <1>0 DEF Positions
  <2>2. c \in CommandsOf(s)
    BY ScriptType
  <2> QED
    BY <2>1, <2>2 DEF At
<1> SUFFICES ASSUME NEW k \in (j + 1)..Len(s[b].commands), Grows(s[b].commands[k]),
                    ~\E i \in (j + 1)..(k - 1) : ResetBy(s, b, i, k)
             PROVE  ~Found(s[b].commands[k], Effect(c, d))
  BY DEF Ahead
<1> DEFINE g == s[b].commands[k]
           x == <<b, k>>
           z == <<g.file, g.text>>
<1>2. x \in Growing(s) /\ At(s, x) = g /\ y # x
  BY <1>0 DEF Growing, Positions, At
<1>3. z \notin Writes(c, d)
  <2> SUFFICES ASSUME z \in Writes(c, d) PROVE FALSE
    OBVIOUS
  <2>1. c.file = g.file /\ g.text \in c.new
    BY WrittenPairs
  <2> QED
    BY <1>1, <1>2, <2>1, OwnWriter
<1>4. z \notin Brings(c, d.has)
  <2> SUFFICES ASSUME z \in Brings(c, d.has) PROVE FALSE
    OBVIOUS
  <2>1. c.op \in {"copy", "move"} /\ c.file = g.file /\ <<c.from, g.text>> \in d.has
    BY DirPairs, BroughtPairs
  <2>2. c.op = "copy"
    BY <1>1, <1>2, <2>1, OwnWriter
  <2> QED
    BY <1>1, <1>2, <2>1, <2>2 DEF Steady, CleanSources
<1>5. z \notin d.has \/ Erases(c, z)
  <2> SUFFICES ASSUME z \in d.has PROVE Erases(c, z)
    OBVIOUS
  <2>1. PICK i \in j..(k - 1) : ResetBy(s, b, i, k)
    BY <1>0 DEF Ahead, Found
  <2>2. i = j
    BY <1>0, <2>1
  <2> QED
    BY <2>1, <2>2 DEF ResetBy, Erases
<1> QED
  BY <1>3, <1>4, <1>5, EffectPairs DEF Found

\* Nor does passing over commands: one that writes a file anew has no test of
\* its own and is in no chain, so that it is never passed over.
LEMMA PassAhead ==
  ASSUME NEW p \in Packages, NEW b \in 1..Len(Script[p]),
         NEW j \in 1..Len(Script[p][b].commands),
         NEW d, NEW e, e.has \subseteq d.has,
         Ahead(Script[p], b, j, d),
         ~AllHold(Script[p][b].commands[j].when, d) \/ Script[p][b].commands[j].soft,
         NEW n \in Nat, n > j,
         \A i \in (j + 1)..(n - 1) : Script[p][b].commands[i - 1].soft
  PROVE  Ahead(Script[p], b, n, e)
<1>0. Len(Script[p][b].commands) \in Nat
  BY ScriptType
<1> SUFFICES ASSUME NEW k \in n..Len(Script[p][b].commands), Grows(Script[p][b].commands[k]),
                    Found(Script[p][b].commands[k], e)
             PROVE  \E i \in n..(k - 1) : ResetBy(Script[p], b, i, k)
  BY DEF Ahead
<1>1. k \in j..Len(Script[p][b].commands)
  BY <1>0
<1>2. PICK i \in j..(k - 1) : ResetBy(Script[p], b, i, k)
  BY <1>1 DEF Ahead, Found
<1>3. i # j
  BY <1>2 DEF ResetBy, AllHold
<1>4. i \notin (j + 1)..(n - 1)
  BY <1>2 DEF ResetBy
<1> QED
  BY <1>0, <1>2, <1>3, <1>4

LEMMA Predecessor ==
  ASSUME NEW j \in Nat, NEW n \in Nat, NEW i \in (j + 1)..(n - 1)
  PROVE  i - 1 \in j..(n - 2)
OBVIOUS

LEMMA InitInvariant == Init => IInv
<1> SUFFICES ASSUME Init PROVE IInv
  OBVIOUS
<1>1. TypeOK
  BY InitType
<1>2. Steady(Script[pkg], dir)
  BY FreshSteady DEF Init
<1> QED
  BY <1>1, <1>2 DEF Init, IInv, Guarded

LEMMA NextInvariant == IInv /\ [Next]_vars => IInv'
<1> SUFFICES ASSUME IInv, [Next]_vars PROVE IInv'
  OBVIOUS
<1>1. TypeOK /\ TypeOK'
  BY NextType DEF IInv
<1>2. pkg' = pkg
  BY DEF Next, Porter, Launch, Download, Source, SourceFails, EnterBlock, SkipBlock, Edit,
         SkipEdit, EditFails, EditFailsInChain, LeaveBlock, Finish, Kill, Stop, vars
<1> SUFFICES ASSUME pkg \in Idempotent PROVE Guarded'
  BY <1>1, <1>2 DEF IInv, Guarded
<1>3. /\ pkg \in Packages /\ Disciplined(Script[pkg])
      /\ dir \in Dirs(pkg)
      /\ Guarded
  BY <1>1 DEF Idempotent, TypeOK, IInv, Guarded
<1>4. Len(Script[pkg]) \in Nat /\ blk \in Nat \ {0} /\ pos \in Nat \ {0}
  BY <1>1, <1>3, ScriptType DEF TypeOK
<1>5. blk <= Len(Script[pkg]) =>
        /\ blk \in 1..Len(Script[pkg])
        /\ Len(Commands) \in Nat
  BY <1>3, <1>4, ScriptType DEF Commands, Block
<1>6. pc = "editing" /\ pos <= Len(Commands) =>
        /\ blk \in 1..Len(Script[pkg])
        /\ pos \in 1..Len(Commands)
        /\ <<blk, pos>> \in Positions(Script[pkg])
        /\ Cmd = At(Script[pkg], <<blk, pos>>)
        /\ Cmd \in CommandsOf(Script[pkg])
  <2> SUFFICES ASSUME pc = "editing", pos <= Len(Commands)
               PROVE  /\ blk \in 1..Len(Script[pkg])
                      /\ pos \in 1..Len(Commands)
                      /\ <<blk, pos>> \in Positions(Script[pkg])
                      /\ Cmd = At(Script[pkg], <<blk, pos>>)
                      /\ Cmd \in CommandsOf(Script[pkg])
    OBVIOUS
  <2>1. blk \in 1..Len(Script[pkg]) /\ pos \in 1..Len(Commands)
    BY <1>1, <1>4, <1>5 DEF TypeOK
  <2>2. <<blk, pos>> \in Positions(Script[pkg])
    BY <1>4, <2>1 DEF Positions, Commands, Block
  <2>3. Cmd = At(Script[pkg], <<blk, pos>>)
    BY DEF Cmd, Commands, Block, At
  <2> QED
    BY <1>3, <2>1, <2>2, <2>3, CommandsAtPositions
<1>10. ASSUME dir' = dir, pc' # "editing" PROVE Guarded'
  BY <1>2, <1>3, <1>10 DEF Guarded
<1>11. CASE Launch \/ Source \/ LeaveBlock \/ Finish
  BY <1>10, <1>11 DEF Launch, Source, LeaveBlock, Finish
<1>12. CASE Download
  <2>1. Steady(Script[pkg], dir')
    BY <1>3, <1>12, FreshSteady DEF Download
  <2> QED
    BY <1>2, <1>12, <2>1 DEF Download, Guarded
<1>13. CASE SkipBlock
  BY <1>10, <1>13 DEF SkipBlock
<1>14. CASE EnterBlock
  <2>1. Ahead(Script[pkg], blk, 1, dir)
    BY <1>3, <1>5, <1>14, EnterAhead DEF EnterBlock, Block, Guarded
  <2> QED
    BY <1>2, <1>3, <1>14, <2>1 DEF EnterBlock, Guarded
<1>15. CASE Edit
  <2>1. Ahead(Script[pkg], blk, pos, dir) /\ Steady(Script[pkg], dir)
    BY <1>3, <1>15 DEF Edit, Guarded
  <2>2. Grows(Cmd) => ~Found(Cmd, dir)
    <3>1. pos..(pos - 1) = {}
      BY <1>4
    <3>2. pos \in pos..Len(Commands)
      BY <1>5, <1>6, <1>15 DEF Edit
    <3> QED
      BY <2>1, <3>1, <3>2 DEF Ahead, Cmd, Commands, Block
  <2>3. Steady(Script[pkg], dir')
    BY <1>3, <1>6, <1>15, <2>1, <2>2, EffectSteady DEF Edit
  <2>4. Ahead(Script[pkg], blk, pos + 1, dir')
    BY <1>3, <1>6, <1>15, <2>1, EditAhead DEF Edit, Cmd, Commands, Block
  <2> QED
    BY <1>2, <1>15, <2>3, <2>4 DEF Edit, Guarded
<1>16. CASE SkipEdit
  <2>1. Ahead(Script[pkg], blk, pos, dir)
    BY <1>3, <1>16 DEF SkipEdit, Guarded
  <2>2. /\ blk \in 1..Len(Script[pkg]) /\ pos \in 1..Len(Script[pkg][blk].commands)
        /\ ~AllHold(Script[pkg][blk].commands[pos].when, dir)
    BY <1>6, <1>16 DEF SkipEdit, Cmd, Commands, Block
  <2>3. pos + 1 \in Nat /\ pos + 1 > pos
    BY <1>4
  <2>4. Ahead(Script[pkg], blk, pos + 1, dir)
    <3>1. (pos + 1)..((pos + 1) - 1) = {}
      BY <1>4
    <3>2. dir.has \subseteq dir.has
      OBVIOUS
    <3> QED
      BY <1>3, <2>1, <2>2, <2>3, <3>1, <3>2, PassAhead
  <2> QED
    BY <1>2, <1>3, <1>16, <2>4 DEF SkipEdit, Guarded
<1>17. ASSUME Failing PROVE Steady(Script[pkg], dir') /\ dir'.has \subseteq dir.has
  <2>1. Cmd \in CommandsOf(Script[pkg]) /\ Steady(Script[pkg], dir)
    BY <1>3, <1>6, <1>17 DEF Failing, Guarded
  <2>2. Steady(Script[pkg], Torn(Cmd, dir))
    BY <1>3, <2>1, TornSteady
  <2>3. Torn(Cmd, dir).has \subseteq dir.has
    BY DEF Torn
  <2> QED
    BY <1>17, <2>1, <2>2, <2>3 DEF Failing
<1>18. CASE EditFails
  BY <1>2, <1>17, <1>18 DEF EditFails, Stop, Guarded
<1>19. CASE EditFailsInChain
  <2>1. Ahead(Script[pkg], blk, pos, dir)
    BY <1>3, <1>19 DEF EditFailsInChain, Failing, Guarded
  <2>2. pos' \in Nat /\ pos' > pos
    BY <1>4, <1>5, <1>6, <1>19 DEF EditFailsInChain, Failing, BehindChain
  <2>3. \A i \in (pos + 1)..(pos' - 1) : Script[pkg][blk].commands[i - 1].soft
    <3>1. \A h \in pos..(pos' - 2) : Commands[h].soft
      BY <1>19 DEF EditFailsInChain, BehindChain
    <3>2. \A i \in (pos + 1)..(pos' - 1) : i - 1 \in pos..(pos' - 2)
      BY <1>4, <2>2, Predecessor
    <3>3. \A i \in (pos + 1)..(pos' - 1) : Commands[i - 1].soft
      BY <3>1, <3>2, Zenon
    <3> QED
      BY <3>3 DEF Commands, Block
  <2>4. /\ blk \in 1..Len(Script[pkg]) /\ pos \in 1..Len(Script[pkg][blk].commands)
        /\ Script[pkg][blk].commands[pos].soft
    BY <1>6, <1>19 DEF EditFailsInChain, Failing, Cmd, Commands, Block
  <2>5. Ahead(Script[pkg], blk, pos', dir')
    BY <1>3, <1>17, <1>19, <2>1, <2>2, <2>3, <2>4, PassAhead DEF EditFailsInChain
  <2> QED
    BY <1>2, <1>17, <1>19, <2>5 DEF EditFailsInChain, Guarded
<1>20. CASE SourceFails
  BY <1>10, <1>20 DEF SourceFails, Stop
<1>21. CASE Kill
  BY <1>10, <1>21 DEF Kill, Stop
<1>22. CASE UNCHANGED vars
  BY <1>3, <1>22 DEF vars, port, Guarded
<1> QED
  BY <1>11, <1>12, <1>13, <1>14, <1>15, <1>16, <1>18, <1>19, <1>20, <1>21, <1>22
  DEF Next, Porter

LEMMA InvariantOnce == IInv => AtMostOnce
<1> SUFFICES ASSUME IInv, pkg \in Idempotent, NEW c \in CommandsOf(Script[pkg]), Grows(c)
             PROVE  <<c.file, c.text>> \notin dir.twice
  BY DEF AtMostOnce, NoRepeat
<1>1. pkg \in Packages
  BY DEF Idempotent
<1>2. PICK x \in Positions(Script[pkg]) : c = At(Script[pkg], x)
  BY <1>1, CommandsAtPositions
<1>3. x \in Growing(Script[pkg])
  BY <1>2 DEF Growing
<1> QED
  BY <1>2, <1>3 DEF IInv, Guarded, Steady, Once

(* However often a disciplined porter is interrupted, fails and is run     *)
(* again, it writes no text of its own twice to a vendored file: the loop  *)
(* of port.sh may be repeated without a new download.                      *)
THEOREM NeverTwice == Spec => []AtMostOnce
<1> QED
  BY InitInvariant, NextInvariant, InvariantOnce, PTL DEF Spec

\* What a disciplined porter has written is there in the order of its
\* commands, and what it is about to write is not there twice, at every step
\* of every run: the invariant behind NeverTwice.
THEOREM WritesInOrder == Spec => []IInv
BY InitInvariant, NextInvariant, PTL DEF Spec
=============================================================================
