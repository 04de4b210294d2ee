---------------------------- MODULE UnixPort_proofs ----------------------------
(***************************************************************************)
(* What holds of the porters of golang.org/x/sys/unix, whatever version of *)
(* the package has been vendored: no removal searches in vain, a rerun     *)
(* repairs an interruption, and what the SW64 build declares.              *)
(***************************************************************************)
EXTENDS UnixVersions, PackagePort_proofs, EditScript_proofs

-----------------------------------------------------------------------------
(* The commands that UnixPort uses: edits in place, and the removal of     *)
(* lines.                                                                  *)

LEMMA PlainEffect ==
  ASSUME NEW c, Plain(c), NEW d
  PROVE  /\ Effect(c, d).there = d.there \cup {c.file}
         /\ \A x : x \in Effect(c, d).has <=> (x \in d.has /\ ~Erases(c, x)) \/ x \in Writes(c, d)
         /\ \A x : x \in Effect(c, d).twice <=>
              ~Erases(c, x) /\ (x \in d.twice \/ (x \in d.has /\ x \in Writes(c, d)))
         /\ \A x : Erases(c, x) \/ x \in Writes(c, d) => x[1] = c.file
<1>1. \A P : Kept(c, P) = {x \in P : ~Erases(c, x)}
  BY DEF Plain, Kept, Brings
<1>2. \A x : Erases(c, x) \/ x \in Writes(c, d) => x[1] = c.file
  BY DEF Plain, Erases, Writes
<1>3. d.there \ (IF c.op = "move" THEN {c.from} ELSE {}) = d.there
  BY DEF Plain
<1> QED
  BY <1>1, <1>2, <1>3 DEF Effect

\* A command leaves the other files alone, also when it is interrupted.
LEMMA PlainElsewhere ==
  ASSUME NEW c, Plain(c), NEW d, NEW f, f # c.file
  PROVE  Part(f, After(c, d)) = Part(f, d) /\ Part(f, Torn(c, d)) = Part(f, d)
<1>1. Part(f, Effect(c, d)) = Part(f, d)
  <2>1. f \in Effect(c, d).there <=> f \in d.there
    BY PlainEffect
  <2>2. ASSUME NEW x, x[1] = f
        PROVE  (x \in Effect(c, d).has <=> x \in d.has) /\ (x \in Effect(c, d).twice <=> x \in d.twice)
    <3>1. ~Erases(c, x) /\ x \notin Writes(c, d)
      BY <2>2, PlainEffect
    <3> QED
      BY <3>1, PlainEffect
  <2> QED
    BY <2>1, <2>2, PartEqual
<1>2. Part(f, Torn(c, d)) = Part(f, d)
  <2>1. f \in Torn(c, d).there <=> f \in d.there
    BY DEF Torn
  <2>2. \A x : x[1] = f => (x \in Torn(c, d).has <=> x \in d.has) /\ (x \in Torn(c, d).twice <=> x \in d.twice)
    BY DEF Torn
  <2> QED
    BY <2>1, <2>2, PartEqual
<1> QED
  BY <1>1, <1>2 DEF After

LEMMA PlainProper ==
  ASSUME NEW c, Plain(c), NEW d, Proper(d)
  PROVE  Proper(After(c, d)) /\ Proper(Torn(c, d))
<1>1. Proper(Effect(c, d))
  <2>1. Effect(c, d).twice \subseteq Effect(c, d).has
    <3>1. ASSUME NEW x, x \in Effect(c, d).twice PROVE x \in Effect(c, d).has
      <4>1. ~Erases(c, x) /\ (x \in d.twice \/ x \in d.has)
        BY <3>1, PlainEffect
      <4>2. x \in d.has
        BY <4>1 DEF Proper
      <4> QED
        BY <4>1, <4>2, PlainEffect
    <3> QED
      BY <3>1
  <2> QED
    BY <2>1 DEF Proper, Effect
<1>2. Proper(Torn(c, d))
  BY DEF Proper, Torn
<1> QED
  BY <1>1, <1>2 DEF After

-----------------------------------------------------------------------------
(* Removals.                                                               *)

\* What a removal still to come needs, once shipped, is there.
InStock ==
  pc = "editing" =>
    \A k \in pos..Len(Commands) : \A i \in 1..(pos - 1) :
      Commands[k].op = "delete" /\ Supplies(Commands, i, k) =>
        /\ Commands[k].file \in dir.there
        /\ <<Commands[k].file, Commands[k].at>> \in dir.has

SuppliedPorters == {p \in Packages : Supplied(Script[p])}

RemovalInv == TypeOK /\ (pkg \in SuppliedPorters => InStock)

LEMMA AtPosition ==
  ASSUME TypeOK, pc = "editing"
  PROVE  /\ pkg \in Packages /\ blk \in 1..Len(Script[pkg]) /\ Len(Script[pkg]) \in Nat
         /\ Len(Commands) \in Nat /\ pos \in 1..(Len(Commands) + 1)
         /\ pos <= Len(Commands) => pos \in 1..Len(Commands) /\ Cmd \in CommandsOf(Script[pkg])
<1>1. pkg \in Packages /\ blk \in 1..Len(Script[pkg]) /\ Len(Script[pkg]) \in Nat
  BY ScriptType DEF TypeOK
<1>2. Len(Commands) \in Nat
  BY <1>1, ScriptType DEF Commands, Block
<1>3. pos \in 1..(Len(Commands) + 1)
  BY <1>2 DEF TypeOK
<1>4. pos <= Len(Commands) => pos \in 1..Len(Commands)
  BY <1>2, <1>3
<1> QED
  BY <1>1, <1>2, <1>3, <1>4, ScriptType DEF Cmd, Commands, Block

\* A step behind a command, made or not needed.
LEMMA StockStays ==
  ASSUME TypeOK, pkg \in SuppliedPorters, InStock, pc = "editing", pos <= Len(Commands),
         NEW e, e = After(Cmd, dir),
         NEW k \in (pos + 1)..Len(Commands), NEW i \in 1..pos,
         Commands[k].op = "delete", Supplies(Commands, i, k)
  PROVE  Commands[k].file \in e.there /\ <<Commands[k].file, Commands[k].at>> \in e.has
<1>1. /\ Len(Commands) \in Nat /\ pos \in 1..Len(Commands)
  BY AtPosition
<1> DEFINE x == <<Commands[k].file, Commands[k].at>>
<1>2. x[1] = Commands[k].file /\ x[2] = Commands[k].at
  OBVIOUS
<1>0. Plain(Cmd)
  <2>1. k \in 1..Len(Commands)
    BY <1>1
  <2> QED
    BY <1>1, <2>1, AtPosition DEF SuppliedPorters, Supplied, Cmd, Commands, Block
<1>3. CASE i = pos
  <2>1. Cmd.op = "ship" /\ Cmd.file = Commands[k].file /\ Cmd.when = {} /\ Commands[k].at \in Cmd.new
    BY <1>3 DEF Supplies, Cmd
  <2>2. e = Effect(Cmd, dir)
    BY <2>1 DEF After, AllHold, CanRun
  <2>3. x \in Writes(Cmd, dir)
    BY <2>1 DEF Writes
  <2> QED
    BY <1>0, <2>1, <2>2, <2>3, PlainEffect
<1>4. CASE i # pos
  <2>1. i \in 1..(pos - 1) /\ k \in pos..Len(Commands)
    BY <1>1, <1>4
  <2>2. Commands[k].file \in dir.there /\ x \in dir.has
    BY <2>1 DEF InStock
  <2>3. pos \in (i + 1)..(k - 1)
    BY <1>1, <2>1
  <2>4. Cmd.file = Commands[k].file =>
          \/ Cmd.op \in {"after", "append"}
          \/ Cmd.op \in {"subst", "delete"} /\ Cmd.at # Commands[k].at
    BY <2>3 DEF Supplies, Cmd
  <2>5. ~Erases(Cmd, x)
    <3>1. CASE Cmd.file = Commands[k].file
      <4>1. x # <<Cmd.file, Cmd.at>> \/ Cmd.op \in {"after", "append"}
        BY <2>4, <3>1
      <4> QED
        BY <2>4, <3>1, <4>1 DEF Erases
    <3>2. CASE Cmd.file # Commands[k].file
      BY <1>0, <1>2, <3>2, PlainEffect
    <3> QED
      BY <3>1, <3>2
  <2>6. Commands[k].file \in Effect(Cmd, dir).there /\ x \in Effect(Cmd, dir).has
    BY <1>0, <2>2, <2>5, PlainEffect
  <2> QED
    BY <2>2, <2>6 DEF After
<1> QED
  BY <1>1, <1>3, <1>4

LEMMA NextRemoval == RemovalInv /\ [Next]_vars => RemovalInv'
<1> SUFFICES ASSUME RemovalInv, [Next]_vars PROVE RemovalInv'
  OBVIOUS
<1>1. TypeOK /\ TypeOK'
  BY NextType DEF RemovalInv
<1>2. pkg' = pkg
  BY DEF Next, Porter, Launch, Download, Source, SourceFails, EnterBlock, SkipBlock, Edit,
         SkipEdit, EditFails, EditFailsInChain, LeaveBlock, Finish, Kill, Stop, vars
<1> SUFFICES ASSUME pkg \in SuppliedPorters, pc' = "editing" PROVE InStock'
  BY <1>1, <1>2 DEF RemovalInv, InStock
<1>3. InStock
  BY DEF RemovalInv
<1>4. CASE EnterBlock
  <2>1. pos' = 1
    BY <1>4 DEF EnterBlock
  <2> QED
    BY <2>1 DEF InStock
<1>5. CASE Edit \/ SkipEdit
  <2>1. /\ pc = "editing" /\ pos <= Len(Commands) /\ pos' = pos + 1
        /\ dir' = After(Cmd, dir) /\ UNCHANGED <<pkg, blk>>
    BY <1>5 DEF Edit, SkipEdit, After
  <2>2. Commands' = Commands
    BY <2>1 DEF Commands, Block
  <2>3. pos \in 1..Len(Commands)
    BY <1>1, <2>1, AtPosition
  <2>4. ASSUME NEW k \in (pos + 1)..Len(Commands), NEW i \in 1..pos,
               Commands[k].op = "delete", Supplies(Commands, i, k)
        PROVE  Commands[k].file \in dir'.there /\ <<Commands[k].file, Commands[k].at>> \in dir'.has
    BY <1>1, <1>3, <2>1, <2>4, StockStays
  <2>5. (pos + 1) - 1 = pos
    BY <2>3
  <2> QED
    BY <2>1, <2>2, <2>4, <2>5 DEF InStock
<1>6. CASE EditFailsInChain
  <2>1. pc = "editing" /\ pos <= Len(Commands) /\ Cmd.soft /\ UNCHANGED <<pkg, blk>>
    BY <1>6 DEF EditFailsInChain, Failing
  <2>2. pos \in 1..Len(Commands) /\ blk \in 1..Len(Script[pkg])
    BY <1>1, <2>1, AtPosition
  <2>3. Commands' = Commands
    BY <2>1 DEF Commands, Block
  <2>4. \A k \in 1..Len(Commands) : Commands[k].op # "delete"
    BY <2>1, <2>2 DEF SuppliedPorters, Supplied, Cmd, Commands, Block
  <2>5. pos' \in Nat \ {0}
    BY <1>1 DEF TypeOK
  <2>6. \A k \in pos'..Len(Commands) : k \in 1..Len(Commands)
    BY <2>2, <2>5
  <2> QED
    BY <2>3, <2>4, <2>6 DEF InStock
<1>7. CASE UNCHANGED vars
  BY <1>3, <1>7 DEF InStock, vars, port, Commands, Block
<1> QED
  BY <1>4, <1>5, <1>6, <1>7
  DEF Next, Porter, Launch, Download, Source, SourceFails, SkipBlock, EditFails, LeaveBlock,
      Finish, Kill, Stop

(* Whatever the version, and whatever runs and interruptions came before:  *)
(* LINE is never empty where the porter removes the lines around it, so    *)
(* that sed never gets a range that begins before the file (v1, l. 24-29). *)
THEOREM RemovalsFind == Spec => [](pkg \in SuppliedPorters => RemovalsFindTheirFunction)
<1>1. Init => RemovalInv
  BY InitType DEF Init, RemovalInv, InStock
<1>2. Spec => []RemovalInv
  BY <1>1, NextRemoval, PTL DEF Spec
<1>3. RemovalInv => (pkg \in SuppliedPorters => RemovalsFindTheirFunction)
  <2> SUFFICES ASSUME RemovalInv, pkg \in SuppliedPorters, pc = "editing",
                      pos <= Len(Commands), Cmd.op = "delete"
               PROVE  CanRun(Cmd, dir)
    BY DEF RemovalsFindTheirFunction
  <2>1. TypeOK /\ InStock
    BY DEF RemovalInv
  <2>2. blk \in 1..Len(Script[pkg]) /\ pos \in 1..Len(Commands)
    BY <2>1, AtPosition
  <2>3. PICK i \in 1..(pos - 1) : Supplies(Commands, i, pos)
    BY <2>2 DEF SuppliedPorters, Supplied, Cmd, Commands, Block
  <2>4. pos \in pos..Len(Commands)
    BY <2>2
  <2>5. Cmd.file \in dir.there /\ <<Cmd.file, Cmd.at>> \in dir.has
    BY <2>1, <2>3, <2>4 DEF InStock, Cmd
  <2> QED
    BY <2>5 DEF CanRun
<1> QED
  BY <1>2, <1>3, PTL

-----------------------------------------------------------------------------
(* The commands that ship the SW64 files and fit them.                     *)

LEMMA FitElsewhere ==
  ASSUME NEW q, Len(q) \in Nat, \A k \in 1..Len(q) : Plain(q[k]),
         NEW g, \A k \in 1..Len(q) : q[k].file # g,
         NEW k \in 1..(Len(q) + 1), NEW d
  PROVE  Part(g, Result(q, k, d)) = Part(g, d)
<1> DEFINE m == Len(q) + 1
           U == {j \in 1..m : \A e : Part(g, Result(q, j, e)) = Part(g, e)}
<1>1. m \in U
  BY ResultEnd
<1>2. ASSUME NEW j \in 1..m, j + 1 \in U \/ j = m PROVE j \in U
  <2> SUFFICES ASSUME j # m, NEW e PROVE Part(g, Result(q, j, e)) = Part(g, e)
    BY <1>1
  <2>1. j \in 1..Len(q)
    OBVIOUS
  <2>2. Result(q, j, e) = Result(q, j + 1, After(q[j], e))
    BY <2>1, ResultStep
  <2>3. j + 1 \in U
    <3> HIDE DEF U
    <3> QED
      BY <1>2
  <2>4. Part(g, After(q[j], e)) = Part(g, e)
    BY <2>1, PlainElsewhere
  <2> QED
    BY <2>2, <2>3, <2>4
<1>3. 1..m \subseteq U
  <2>1. m \in Nat
    OBVIOUS
  <2> HIDE DEF U, m
  <2> QED
    BY <1>1, <1>2, <2>1, DownwardSet
<1> QED
  BY <1>3

\* The contents that some command asks for.
Asked(q, x) == \E k \in 1..Len(q) : \E t \in q[k].when : x[1] \in t.files /\ x[2] = t.word

(* Before the j-th command two directories hold the same of the files that *)
(* have been shipped, and the same of what is asked of the files that are  *)
(* not shipped at all.                                                     *)
Abreast(q, j, d, e) ==
  /\ \A i \in 1..(j - 1) : q[i].file \in d.there /\ q[i].file \in e.there
  /\ \A x : (\E i \in 1..(j - 1) : x[1] = q[i].file) => (x \in d.has <=> x \in e.has)
  /\ \A x : Asked(q, x) /\ (\A i \in 1..Len(q) : x[1] # q[i].file) => (x \in d.has <=> x \in e.has)

\* Behind the last shipped file there is none to come.
LEMMA AllShipped ==
  ASSUME NEW q, Len(q) \in Nat, ShipsThenFits(q), NEW k \in 1..Len(q), q[k].op # "ship",
         NEW n \in 1..Len(q)
  PROVE  \E i \in 1..(k - 1) : q[i].file = q[n].file
<1>1. PICK i \in 1..n : q[i].op = "ship" /\ q[i].file = q[n].file
  BY DEF ShipsThenFits
<1>2. i \in 1..Len(q)
  OBVIOUS
<1>3. k \notin 1..(i - 1) /\ k # i
  BY <1>1, <1>2 DEF ShipsThenFits
<1> QED
  BY <1>1, <1>2, <1>3

LEMMA AbreastShip ==
  ASSUME NEW q, Len(q) \in Nat, ShipsThenFits(q), NEW k \in 1..Len(q), q[k].op = "ship",
         NEW d, NEW e, Abreast(q, k, d, e)
  PROVE  Abreast(q, k + 1, After(q[k], d), After(q[k], e))
<1> DEFINE c == q[k]
<1>1. Plain(c) /\ c.when = {} /\ \A i \in 1..(k - 1) : q[i].file # c.file
  BY DEF ShipsThenFits
<1>2. After(c, d) = Effect(c, d) /\ After(c, e) = Effect(c, e)
  BY <1>1 DEF After, AllHold, CanRun
<1>3. \A x : x[1] = c.file => (x \in Effect(c, d).has <=> x \in {c.file} \X c.new)
                              /\ (x \in Effect(c, e).has <=> x \in {c.file} \X c.new)
  <2>1. \A x : x[1] = c.file => Erases(c, x)
    BY DEF Erases
  <2>2. Writes(c, d) = {c.file} \X c.new /\ Writes(c, e) = {c.file} \X c.new
    BY DEF Writes
  <2> QED
    BY <1>1, <2>1, <2>2, PlainEffect
<1>4. \A x : x[1] # c.file => (x \in Effect(c, d).has <=> x \in d.has)
                              /\ (x \in Effect(c, e).has <=> x \in e.has)
  BY <1>1, PlainEffect
<1>5. /\ Effect(c, d).there = d.there \cup {c.file}
      /\ Effect(c, e).there = e.there \cup {c.file}
  BY <1>1, PlainEffect
<1>6. (k + 1) - 1 = k /\ \A i \in 1..k : i = k \/ i \in 1..(k - 1)
  OBVIOUS
<1>7. \A i \in 1..k : q[i].file \in Effect(c, d).there /\ q[i].file \in Effect(c, e).there
  BY <1>5, <1>6 DEF Abreast
<1>8. ASSUME NEW x, \E i \in 1..k : x[1] = q[i].file
      PROVE  x \in Effect(c, d).has <=> x \in Effect(c, e).has
  BY <1>3, <1>4, <1>6, <1>8 DEF Abreast
<1>9. ASSUME NEW x, Asked(q, x), \A i \in 1..Len(q) : x[1] # q[i].file
      PROVE  x \in Effect(c, d).has <=> x \in Effect(c, e).has
  BY <1>4, <1>9 DEF Abreast
<1> QED
  BY <1>2, <1>6, <1>7, <1>8, <1>9 DEF Abreast

LEMMA AbreastFit ==
  ASSUME NEW q, Len(q) \in Nat, ShipsThenFits(q), NEW k \in 1..Len(q), q[k].op # "ship",
         NEW d, NEW e, Abreast(q, k, d, e)
  PROVE  Abreast(q, k + 1, After(q[k], d), After(q[k], e))
<1> DEFINE c == q[k]
<1>1. Plain(c) /\ \A t \in c.when : t.kind \in {"has", "lacks"}
  BY DEF ShipsThenFits
<1>2. \A n \in 1..Len(q) : \E i \in 1..(k - 1) : q[i].file = q[n].file
  BY AllShipped
<1>3. c.file \in d.there /\ c.file \in e.there
  BY <1>2 DEF Abreast
<1>4. \A x : Asked(q, x) \/ (\E n \in 1..Len(q) : x[1] = q[n].file) =>
        (x \in d.has <=> x \in e.has)
  BY <1>2 DEF Abreast
<1>5. AllHold(c.when, d) <=> AllHold(c.when, e)
  <2>1. ASSUME NEW t \in c.when PROVE Holds(t, d) <=> Holds(t, e)
    <3>1. \A x \in t.files \X {t.word} : Asked(q, x)
      BY DEF Asked
    <3>2. (t.files \X {t.word}) \cap d.has = (t.files \X {t.word}) \cap e.has
      BY <1>4, <3>1
    <3> QED
      BY <1>1, <3>2 DEF Holds
  <2> QED
    BY <2>1 DEF AllHold
<1>6. \A w : <<c.file, w>> \in d.has <=> <<c.file, w>> \in e.has
  <2>1. \A w : <<c.file, w>>[1] = c.file
    OBVIOUS
  <2> QED
    BY <1>4, <2>1
<1>7. CanRun(c, d) <=> CanRun(c, e)
  BY <1>1, <1>3, <1>6 DEF CanRun, Plain
<1>8. Writes(c, d) = Writes(c, e)
  BY <1>6 DEF Writes
<1>9. /\ \A i \in 1..k : i = k \/ i \in 1..(k - 1)
      /\ (k + 1) - 1 = k
  OBVIOUS
<1>10. \A x : (x \in d.has <=> x \in e.has) => (x \in Effect(c, d).has <=> x \in Effect(c, e).has)
  BY <1>1, <1>8, PlainEffect
<1>11. /\ d.there \subseteq Effect(c, d).there
       /\ e.there \subseteq Effect(c, e).there
  BY <1>1, PlainEffect
<1>12. \A i \in 1..k : \E n \in 1..(k - 1) : q[n].file = q[i].file
  BY <1>2
<1>13. /\ \A i \in 1..k : q[i].file \in d.there /\ q[i].file \in e.there
       /\ \A x : (\E i \in 1..k : x[1] = q[i].file) => (x \in d.has <=> x \in e.has)
       /\ \A x : Asked(q, x) => (x \in d.has <=> x \in e.has)
  BY <1>4, <1>12 DEF Abreast
<1>14. CASE AllHold(c.when, d) /\ CanRun(c, d)
  <2>1. After(c, d) = Effect(c, d) /\ After(c, e) = Effect(c, e)
    BY <1>5, <1>7, <1>14 DEF After
  <2> QED
    BY <1>9, <1>10, <1>11, <1>13, <2>1 DEF Abreast
<1>15. CASE ~(AllHold(c.when, d) /\ CanRun(c, d))
  <2>1. After(c, d) = d /\ After(c, e) = e
    BY <1>5, <1>7, <1>15 DEF After
  <2> QED
    BY <1>9, <1>13, <2>1 DEF Abreast
<1> QED
  BY <1>14, <1>15

LEMMA AbreastStep ==
  ASSUME NEW q, Len(q) \in Nat, ShipsThenFits(q), NEW k \in 1..Len(q),
         NEW d, NEW e, Abreast(q, k, d, e)
  PROVE  Abreast(q, k + 1, After(q[k], d), After(q[k], e))
BY AbreastShip, AbreastFit

-----------------------------------------------------------------------------
(* The compound commands that edit the build lines of one file.            *)

LineBlock(B) ==
  /\ Len(B.commands) = 2
  /\ \A k \in 1..2 :
       LET c == B.commands[k]
       IN  /\ c.op \in {"after", "subst"} /\ c.file = FileOf(B) /\ c.when = {}
           /\ c.new \cup {c.at} \subseteq BuildLines
  /\ ~B.commands[2].soft
  /\ Exists(FileOf(B)) \in B.guard
  /\ \A t \in B.guard : t.files = {FileOf(B)}

\* Where both edits can be made again, and where a mark keeps from it.
LEMMA EndianBlock ==
  /\ LineBlock(EndianLittle) /\ Settling(EndianLittle)
  /\ EndianLittle.guard = {Exists(FileOf(EndianLittle))} /\ ~EndianLittle.commands[1].soft
<1> DEFINE c == Subst(Endian, "// +build 386", "// +build sw64 386", {})
           e == Subst(Endian, "//go:build 386", "//go:build sw64 || 386", {})
<1>1. /\ EndianLittle.guard = {Exists(Endian)} /\ EndianLittle.commands = <<c, e>>
  BY DEF EndianLittle, On
<1>2. /\ c.op = "subst" /\ c.file = Endian /\ c.when = {} /\ ~c.soft /\ c.at = "// +build 386"
      /\ c.new = {"// +build sw64 386"}
      /\ e.op = "subst" /\ e.file = Endian /\ e.when = {} /\ ~e.soft /\ e.at = "//go:build 386"
      /\ e.new = {"//go:build sw64 || 386"}
  BY DEF Subst, Command
<1>3. Exists(Endian).files = {Endian} /\ Exists(Endian).kind = "exists"
  BY DEF Exists, Test
<1> HIDE DEF c, e
<1>4. Len(EndianLittle.commands) = 2 /\ EndianLittle.commands[1] = c /\ EndianLittle.commands[2] = e
  BY <1>1
<1>5. FileOf(EndianLittle) = Endian
  BY <1>2, <1>4 DEF FileOf
<1>6. LineBlock(EndianLittle)
  <2>1. \A k \in 1..2 : k = 1 \/ k = 2
    OBVIOUS
  <2> QED
    BY <1>1, <1>2, <1>3, <1>4, <1>5, <2>1 DEF LineBlock, BuildLines
<1>7. CommandsIn(EndianLittle) = {c, e}
  <2>1. 1..2 = {1, 2}
    OBVIOUS
  <2> QED
    BY <1>4, <2>1 DEF CommandsIn
<1>8. TestsIn(EndianLittle) = {Exists(Endian)}
  <2>1. \A x \in CommandsIn(EndianLittle) : x.when = {}
    BY <1>2, <1>7
  <2>2. UNION {x.when : x \in CommandsIn(EndianLittle)} = {}
    BY <2>1
  <2> QED
    BY <1>1, <2>2 DEF TestsIn
<1>9. Settling(EndianLittle)
  <2>1. \A x, y \in CommandsIn(EndianLittle) : x.op = "subst" /\ x.at \notin y.new
    BY <1>2, <1>7
  <2>2. \A t \in TestsIn(EndianLittle) : t.kind = "exists"
    BY <1>3, <1>8
  <2> QED
    BY <2>1, <2>2 DEF Settling
<1> QED
  BY <1>1, <1>2, <1>4, <1>5, <1>6, <1>9

LEMMA ExcludeBlock ==
  ASSUME NEW kind
  PROVE  LET B == Exclude(kind)
             f == Common(kind)
         IN  /\ LineBlock(B) /\ FileOf(B) = f /\ Marked(B)
             /\ B.guard = {Exists(f), Lacks(f, "sw64")}
             /\ B.commands[1].soft
             /\ B.commands[1].new = {"// +build !sw64", "sw64"}
             /\ B.commands[2].at = "//go:build linux" /\ B.commands[2].op = "subst"
             /\ B.commands[2].text = "//go:build linux && !sw64"
<1> DEFINE f == Common(kind)
           B == Exclude(kind)
           c == AndThen(AfterLine(f, "// +build linux", "// +build !sw64", {"sw64"}))
           e == Subst(f, "//go:build linux", "//go:build linux && !sw64", {"//go:build linux", "sw64"})
<1>1. B.guard = {Exists(f), Lacks(f, "sw64")} /\ B.commands = <<c, e>>
  BY DEF Exclude, On
<1>2. /\ c.op = "after" /\ c.file = f /\ c.when = {} /\ c.soft /\ c.at = "// +build linux"
      /\ c.new = {"// +build !sw64", "sw64"}
      /\ e.op = "subst" /\ e.file = f /\ e.when = {} /\ ~e.soft /\ e.at = "//go:build linux"
      /\ e.new = {"//go:build linux && !sw64", "//go:build linux", "sw64"}
      /\ e.text = "//go:build linux && !sw64"
  BY DEF Subst, Command, AfterLine, AndThen
<1>3. /\ Exists(f).files = {f} /\ Lacks(f, "sw64").files = {f}
      /\ Lacks(f, "sw64").kind = "lacks" /\ Lacks(f, "sw64").word = "sw64"
  BY DEF Exists, Lacks, Test
<1> HIDE DEF c, e, B, f
<1>4. Len(B.commands) = 2 /\ B.commands[1] = c /\ B.commands[2] = e
  BY <1>1
<1>5. FileOf(B) = f
  BY <1>2, <1>4 DEF FileOf
<1>6. LineBlock(B)
  <2>1. \A k \in 1..2 : k = 1 \/ k = 2
    OBVIOUS
  <2>2. c.new \cup {c.at} \subseteq BuildLines /\ e.new \cup {e.at} \subseteq BuildLines
    BY <1>2 DEF BuildLines
  <2>3. Exists(f) \in B.guard /\ \A t \in B.guard : t.files = {f}
    BY <1>1, <1>3
  <2> QED
    BY <1>2, <1>4, <1>5, <2>1, <2>2, <2>3 DEF LineBlock
<1>7. CommandsIn(B) = {c, e}
  <2>1. 1..2 = {1, 2}
    OBVIOUS
  <2> QED
    BY <1>4, <2>1 DEF CommandsIn
<1>8. Marked(B)
  <2>1. Lacks(f, "sw64") \in Marks(B)
    BY <1>1, <1>2, <1>3, <1>5, <1>7 DEF Marks
  <2> QED
    BY <1>2, <1>7, <2>1 DEF Marked
<1>9. /\ LineBlock(B) /\ FileOf(B) = f /\ Marked(B)
      /\ B.guard = {Exists(f), Lacks(f, "sw64")}
      /\ B.commands[1].soft
      /\ B.commands[1].new = {"// +build !sw64", "sw64"}
      /\ B.commands[2].at = "//go:build linux" /\ B.commands[2].op = "subst"
      /\ B.commands[2].text = "//go:build linux && !sw64"
  BY <1>1, <1>2, <1>4, <1>5, <1>6, <1>8
<1> QED
  BY <1>9 DEF B, f

\* What the first i commands make of o, and where a directory holds just that.
Reach(B, i, o) ==
  IF i = 0 THEN o
  ELSE IF i = 1 THEN After(B.commands[1], o) ELSE After(B.commands[2], After(B.commands[1], o))

InReach(B, i, o, d) == Part(FileOf(B), d) = Part(FileOf(B), Reach(B, i, o))

LEMMA LineCommands ==
  ASSUME NEW B, LineBlock(B)
  PROVE  /\ Len(B.commands) \in Nat /\ Len(B.commands) = 2
         /\ AllOn(FileOf(B), B.commands)
         /\ \A k \in 1..2 :
              LET c == B.commands[k]
              IN  /\ InPlace(c) /\ Plain(c) /\ c.file = FileOf(B) /\ c.when = {}
                  /\ c.op \in {"after", "subst"} /\ c.new \cup {c.at} \subseteq BuildLines
<1>1. Len(B.commands) = 2
  BY DEF LineBlock
<1>2. \A k \in 1..2 :
        LET c == B.commands[k]
        IN  /\ InPlace(c) /\ Plain(c) /\ c.file = FileOf(B) /\ c.when = {}
            /\ c.op \in {"after", "subst"} /\ c.new \cup {c.at} \subseteq BuildLines
  BY DEF LineBlock, InPlace, Plain
<1> QED
  BY <1>1, <1>2 DEF AllOn

LEMMA ReachProper ==
  ASSUME NEW B, LineBlock(B), NEW o, Proper(o), NEW i \in 0..2
  PROVE  Proper(Reach(B, i, o))
<1>1. 1 \in 1..2 /\ 2 \in 1..2
  OBVIOUS
<1>2. InPlace(B.commands[1]) /\ InPlace(B.commands[2])
  BY <1>1, LineCommands
<1>3. Proper(After(B.commands[1], o))
  BY <1>2, AfterProper
<1>4. Proper(After(B.commands[2], After(B.commands[1], o)))
  BY <1>2, <1>3, AfterProper
<1> QED
  BY <1>3, <1>4 DEF Reach

LEMMA ReachStep ==
  ASSUME NEW B, LineBlock(B), NEW o, NEW i \in 0..1, NEW d, InReach(B, i, o, d)
  PROVE  InReach(B, i + 1, o, After(B.commands[i + 1], d))
<1> DEFINE c == B.commands[i + 1]
<1>1. i + 1 \in 1..2
  OBVIOUS
<1>2. InPlace(c) /\ c.file = FileOf(B) /\ c.when = {}
  BY <1>1, LineCommands
<1>3. Part(c.file, After(c, d)) = Part(c.file, After(c, Reach(B, i, o)))
  BY <1>2, AfterAgree DEF InReach
<1>4. After(c, Reach(B, i, o)) = Reach(B, i + 1, o)
  BY DEF Reach
<1> QED
  BY <1>2, <1>3, <1>4 DEF InReach

LEMMA ReachBlock ==
  ASSUME NEW B, LineBlock(B), NEW o
  PROVE  BlockResult(B, o) = IF AllHold(B.guard, o) THEN Reach(B, 2, o) ELSE o
<1> DEFINE q == B.commands
<1>1. Len(q) = 2 /\ Len(q) \in Nat /\ 1 \in 1..Len(q) /\ 2 \in 1..Len(q)
  BY LineCommands
<1> HIDE DEF q
<1>2. Result(q, 1, o) = Result(q, 1 + 1, After(q[1], o))
  BY <1>1, ResultStep
<1>3. Result(q, 2, After(q[1], o)) = Result(q, 2 + 1, After(q[2], After(q[1], o)))
  BY <1>1, ResultStep
<1>4. Result(q, Len(q) + 1, After(q[2], After(q[1], o))) = After(q[2], After(q[1], o))
  BY <1>1, ResultEnd
<1>5. Result(q, 1, o) = After(q[2], After(q[1], o))
  BY <1>1, <1>2, <1>3, <1>4
<1> QED
  BY <1>5 DEF BlockResult, Reach, q

\* The guard looks at the file of the block.
LEMMA ReachGuard ==
  ASSUME NEW B, LineBlock(B), NEW d, NEW e, Part(FileOf(B), d) = Part(FileOf(B), e)
  PROVE  AllHold(B.guard, d) <=> AllHold(B.guard, e)
<1>1. \A t \in B.guard : Agree(t.files, d, e)
  BY DEF LineBlock, Agree
<1> QED
  BY <1>1, AllHoldAgree

\* A marked block is entered again only when none of its edits was made.
LEMMA ReachEnter ==
  ASSUME NEW B, LineBlock(B), Marked(B), NEW o, Proper(o), NEW i \in 0..2,
         NEW d, InReach(B, i, o, d), AllHold(B.guard, d)
  PROVE  InReach(B, 0, o, d)
<1> DEFINE r == After(B.commands[1], o)
<1>1. 1 \in 1..Len(B.commands) /\ 2 \in 1..Len(B.commands) /\ Len(B.commands) \in Nat
  BY LineCommands
<1>2. ~Blocked(B, Reach(B, i, o))
  BY ReachGuard, BlockedGuard DEF InReach
<1>3. r # o => Blocked(B, r)
  BY <1>1, LineCommands, MarkStays
<1>4. Proper(r)
  BY ReachProper, 1 \in 0..2 DEF Reach
<1>5. Blocked(B, r) \/ After(B.commands[2], r) # r => Blocked(B, After(B.commands[2], r))
  BY <1>1, <1>4, LineCommands, MarkStays
<1>6. Reach(B, i, o) = o
  BY <1>2, <1>3, <1>5 DEF Reach
<1> QED
  BY <1>6 DEF InReach, Reach

\* A block that settles can be run again from anywhere.
LEMMA ReachAgain ==
  ASSUME NEW B, LineBlock(B), Settling(B), NEW o, Proper(o), NEW i \in 1..2, NEW j \in 1..i,
         NEW d, InReach(B, i, o, d)
  PROVE  InReach(B, i, o, After(B.commands[j], d))
<1> DEFINE r == After(B.commands[1], o)
<1>1. 1 \in 1..Len(B.commands) /\ 2 \in 1..Len(B.commands) /\ Len(B.commands) \in Nat
  BY LineCommands
<1>2. Settled(B, 1, o)
  BY DEF Settled
<1>3. Settled(B, 2, r)
  <2>1. Settled(B, 1 + 1, r)
    BY <1>1, <1>2, LineCommands, SettlingSettled
  <2> QED
    BY <2>1
<1>4. Proper(r)
  BY ReachProper, 1 \in 0..2 DEF Reach
<1>5. Settled(B, 3, After(B.commands[2], r))
  <2>1. Settled(B, 2 + 1, After(B.commands[2], r))
    BY <1>1, <1>3, <1>4, LineCommands, SettlingSettled
  <2> QED
    BY <2>1
<1>6. After(B.commands[j], Reach(B, i, o)) = Reach(B, i, o)
  <2>1. CASE i = 1
    <3>1. j \in 1..(2 - 1)
      BY <2>1
    <3> QED
      BY <1>3, <2>1, <3>1 DEF Settled, Reach
  <2>2. CASE i = 2
    <3>1. j \in 1..(3 - 1)
      BY <2>2
    <3> QED
      BY <1>5, <2>2, <3>1 DEF Settled, Reach
  <2> QED
    BY <2>1, <2>2
<1>7. j \in 1..2
  OBVIOUS
<1>8. InPlace(B.commands[j]) /\ B.commands[j].file = FileOf(B) /\ B.commands[j].when = {}
  BY <1>7, LineCommands
<1> QED
  BY <1>6, <1>8, AfterAgree DEF InReach

\* What the file holds besides its build lines stays.
LEMMA LineEffect ==
  ASSUME NEW B, LineBlock(B), NEW k \in 1..2, NEW d,
         NEW x, x[1] = FileOf(B), x[2] \notin BuildLines
  PROVE  x \in After(B.commands[k], d).has <=> x \in d.has
<1> DEFINE c == B.commands[k]
<1>1. Plain(c) /\ c.op \in {"after", "subst"} /\ c.new \cup {c.at} \subseteq BuildLines
  BY LineCommands
<1>2. ~Erases(c, x) /\ x \notin Writes(c, d)
  <2>1. x # <<c.file, c.at>>
    BY <1>1
  <2>2. \A g, W : W \subseteq BuildLines => x \notin {g} \X W
    OBVIOUS
  <2> QED
    BY <1>1, <2>1, <2>2 DEF Erases, Writes
<1> QED
  BY <1>1, <1>2, PlainEffect DEF After

LEMMA ReachCells ==
  ASSUME NEW B, LineBlock(B), NEW o, FileOf(B) \in o.there, NEW i \in 0..2,
         NEW d, InReach(B, i, o, d)
  PROVE  /\ FileOf(B) \in d.there
         /\ \A x : x[1] = FileOf(B) /\ x[2] \notin BuildLines => (x \in d.has <=> x \in o.has)
<1> DEFINE r == After(B.commands[1], o)
           s == After(B.commands[2], r)
<1>1. 1 \in 1..2 /\ 2 \in 1..2
  OBVIOUS
<1>2. \A x : x[1] = FileOf(B) /\ x[2] \notin BuildLines =>
        (x \in r.has <=> x \in o.has) /\ (x \in s.has <=> x \in r.has)
  BY <1>1, LineEffect
<1>3. FileOf(B) \in r.there /\ FileOf(B) \in s.there
  <2>1. \A k \in 1..2 : \A e : FileOf(B) \in e.there => FileOf(B) \in After(B.commands[k], e).there
    BY LineCommands, PlainEffect DEF After
  <2> QED
    BY <1>1, <2>1
<1>4. Reach(B, i, o) \in {o, r, s}
  BY DEF Reach
<1>5. /\ FileOf(B) \in Reach(B, i, o).there
      /\ \A x : x[1] = FileOf(B) /\ x[2] \notin BuildLines => (x \in Reach(B, i, o).has <=> x \in o.has)
  <2> HIDE DEF r, s
  <2> QED
    BY <1>2, <1>3, <1>4
<1> QED
  BY <1>5, PartEqual DEF InReach

(* An exclusion that was interrupted between its two edits: its mark keeps *)
(* a rerun from the second one, if there is still something to edit.       *)
LEMMA HalfWay ==
  ASSUME NEW B, LineBlock(B), B.commands[2].op = "subst",
         NEW o, Proper(o), AllHold(B.guard, o),
         NEW m \in B.commands[1].new,
         NEW n, n \notin B.commands[1].new, <<FileOf(B), n>> \notin o.has,
         NEW d, InReach(B, 1, o, d), ~AllHold(B.guard, d)
  PROVE  \/ InReach(B, 2, o, d)
         \/ /\ <<FileOf(B), m>> \in d.has /\ <<FileOf(B), B.commands[2].at>> \in d.has
            /\ <<FileOf(B), n>> \notin d.has
<1> DEFINE f == FileOf(B)
           c == B.commands[1]
           e == B.commands[2]
           r == After(c, o)
<1>1. m \in c.new /\ n \notin c.new /\ e.op = "subst"
  OBVIOUS
<1>2. /\ InPlace(c) /\ Plain(c) /\ c.file = f /\ c.when = {}
      /\ InPlace(e) /\ e.file = f /\ e.when = {}
  <2>1. 1 \in 1..2 /\ 2 \in 1..2
    OBVIOUS
  <2> QED
    BY <2>1, LineCommands
<1>3. Reach(B, 1, o) = r /\ Reach(B, 2, o) = After(e, r)
  BY DEF Reach
<1>4. r # o
  BY <1>1, <1>3, ReachGuard DEF InReach
<1>5. r = Effect(c, o) /\ {f} \X c.new \subseteq r.has
  BY <1>2, <1>4, IdleOrWrites
<1>6. <<f, m>> \in r.has
  BY <1>1, <1>5
<1>7. <<f, n>> \notin r.has
  <2>1. <<f, n>> \notin Writes(c, o)
    BY <1>1 DEF Writes
  <2> QED
    BY <1>2, <1>5, <2>1, PlainEffect
<1>8. Proper(r)
  BY <1>2, AfterProper
<1>9. CASE <<f, e.at>> \in r.has
  <2>1. \A w : <<f, w>> \in r.has <=> <<f, w>> \in d.has
    <3>1. \A x : x[1] = f => (x \in d.has <=> x \in r.has)
      BY <1>3, PartEqual DEF InReach
    <3>2. \A w : <<f, w>>[1] = f
      OBVIOUS
    <3> QED
      BY <3>1, <3>2
  <2> QED
    BY <1>6, <1>7, <1>9, <2>1
<1>10. CASE <<f, e.at>> \notin r.has
  <2>1. After(e, r) = r
    <3> HIDE DEF r, e
    <3>1. CanRun(e, r) => Effect(e, r) = r
      BY <1>1, <1>2, <1>8, <1>10, UnmatchedEdit
    <3> QED
      BY <3>1 DEF After
  <2> QED
    BY <1>3, <2>1 DEF InReach
<1> QED
  BY <1>9, <1>10

LEMMA HalfMade ==
  ASSUME NEW kind \in Kinds, NEW o, Proper(o), AllHold(Exclude(kind).guard, o),
         <<Common(kind), "//go:build linux && !sw64">> \notin o.has,
         NEW d, InReach(Exclude(kind), 1, o, d), ~AllHold(Exclude(kind).guard, d)
  PROVE  InReach(Exclude(kind), 2, o, d) \/ FileOf(Exclude(kind)) \in HalfExcluded(d)
<1> DEFINE B == Exclude(kind)
<1>1. /\ LineBlock(B) /\ FileOf(B) = Common(kind)
      /\ B.commands[1].new = {"// +build !sw64", "sw64"}
      /\ B.commands[2].op = "subst" /\ B.commands[2].at = "//go:build linux"
  BY ExcludeBlock
<1> HIDE DEF B
<1>2. "// +build !sw64" \in B.commands[1].new /\ "//go:build linux && !sw64" \notin B.commands[1].new
  BY <1>1, Zenon
<1>3. \/ InReach(B, 2, o, d)
      \/ /\ <<FileOf(B), "// +build !sw64">> \in d.has
         /\ <<FileOf(B), B.commands[2].at>> \in d.has
         /\ <<FileOf(B), "//go:build linux && !sw64">> \notin d.has
  BY <1>1, <1>2, HalfWay, Zenon DEF B
<1>4. FileOf(B) \in CommonFiles
  BY <1>1, Zenon DEF CommonFiles
<1>5. InReach(B, 2, o, d) \/ FileOf(B) \in HalfExcluded(d)
  BY <1>1, <1>3, <1>4, Zenon DEF HalfExcluded, PlusLineExcludes, GoLineExcludes, Contains
<1> QED
  BY <1>5 DEF B

-----------------------------------------------------------------------------
(* The script as a whole.                                                  *)

FittedPorters == {p \in Packages : Fitted(Script[p])}

LEMMA FittedBlocks ==
  ASSUME NEW p \in Packages, Fitted(Script[p])
  PROVE  LET s == Script[p]
             q == s[1].commands
         IN  /\ Len(s) \in Nat /\ Len(s) > 0 /\ Len(q) \in Nat
             /\ \A b \in 1..Len(s) : Len(s[b].commands) \in Nat
             /\ s[1].guard = {}
             /\ ShipsThenFits(q)
             /\ \A k \in 1..Len(q) : Plain(q[k]) /\ ~q[k].soft /\ q[k].file \in ShippedFiles(s)
             /\ \A f \in ShippedFiles(s) : \E k \in 1..Len(q) : q[k].file = f
             /\ \A x : Asked(q, x) => x[2] \notin BuildLines
             /\ \A b \in 2..Len(s) :
                  /\ LineBlock(s[b])
                  /\ \/ s[b] = EndianLittle
                     \/ \E kind \in Kinds : s[b] = Exclude(kind)
                  /\ FileOf(s[b]) \notin ShippedFiles(s)
             /\ \A b \in 2..Len(s) : \A i \in 2..Len(s) :
                  i # b => FileOf(s[i]) # FileOf(s[b])
<1> DEFINE s == Script[p]
           q == s[1].commands
<1>1. /\ Len(s) \in Nat /\ Len(s) > 0 /\ \A b \in 1..Len(s) : Len(s[b].commands) \in Nat
  BY ScriptType DEF Fitted
<1>2. Len(q) \in Nat
  BY <1>1
<1>3. ShipsThenFits(q) /\ s[1].guard = {}
  BY DEF Fitted
<1>4. \A k \in 1..Len(q) : Plain(q[k]) /\ ~q[k].soft /\ q[k].file \in ShippedFiles(s)
  BY <1>3 DEF ShipsThenFits, ShippedFiles
<1>5. \A f \in ShippedFiles(s) : \E k \in 1..Len(q) : q[k].file = f
  BY DEF ShippedFiles
<1>6. \A x : Asked(q, x) => x[2] \notin BuildLines
  BY DEF Fitted, Asked
<1>7. \A b \in 2..Len(s) :
        /\ s[b] = EndianLittle \/ \E kind \in Kinds : s[b] = Exclude(kind)
        /\ FileOf(s[b]) \notin ShippedFiles(s)
        /\ \A i \in 2..(b - 1) : FileOf(s[i]) # FileOf(s[b])
  BY DEF Fitted
<1>8. ASSUME NEW b \in 2..Len(s) PROVE LineBlock(s[b])
  <2>1. \A kind : LineBlock(Exclude(kind))
    BY ExcludeBlock
  <2> QED
    BY <1>7, <2>1, EndianBlock
<1>9. ASSUME NEW b \in 2..Len(s), NEW i \in 2..Len(s), i # b
      PROVE  FileOf(s[i]) # FileOf(s[b])
  <2>1. i \in 2..(b - 1) \/ b \in 2..(i - 1)
    BY <1>1, <1>9
  <2> QED
    BY <1>7, <2>1
<1> QED
  BY <1>1, <1>2, <1>3, <1>4, <1>5, <1>6, <1>7, <1>8, <1>9

\* What a run makes of the vendored o: the shipped files as their commands
\* leave them, the files of build lines each as its block does, the rest as
\* it was.
PortedAs(s, o, G) ==
  /\ \A f \in ShippedFiles(s) : Part(f, G) = Part(f, Result(s[1].commands, 1, o))
  /\ \A b \in 2..Len(s) : Part(FileOf(s[b]), G) = Part(FileOf(s[b]), BlockResult(s[b], o))
  /\ \A f : f \notin ShippedFiles(s) /\ (\A b \in 2..Len(s) : f # FileOf(s[b])) =>
       Part(f, G) = Part(f, o)

LEMMA LineElsewhere ==
  ASSUME NEW B, LineBlock(B), NEW d, NEW f, f # FileOf(B)
  PROVE  Part(f, BlockResult(B, d)) = Part(f, d)
<1>1. Len(B.commands) \in Nat /\ AllOn(FileOf(B), B.commands)
  BY LineCommands
<1> QED
  BY <1>1, BlockElsewhere

LEMMA LineAgree ==
  ASSUME NEW B, LineBlock(B), NEW d, NEW e, Part(FileOf(B), d) = Part(FileOf(B), e)
  PROVE  Part(FileOf(B), BlockResult(B, d)) = Part(FileOf(B), BlockResult(B, e))
<1>1. InReach(B, 0, e, d)
  BY DEF InReach, Reach
<1>2. InReach(B, 1, e, After(B.commands[1], d))
  BY <1>1, ReachStep
<1>3. InReach(B, 2, e, After(B.commands[2], After(B.commands[1], d)))
  BY <1>2, ReachStep
<1> QED
  BY <1>3, ReachBlock, ReachGuard DEF InReach, Reach

\* The same, for the first i compound commands.
PortedAsFar(s, o, i, G) ==
  /\ \A f \in ShippedFiles(s) : Part(f, G) = Part(f, Result(s[1].commands, 1, o))
  /\ \A b \in 2..i : Part(FileOf(s[b]), G) = Part(FileOf(s[b]), BlockResult(s[b], o))
  /\ \A f : f \notin ShippedFiles(s) /\ (\A b \in 2..i : f # FileOf(s[b])) =>
       Part(f, G) = Part(f, o)

LEMMA PortedFar ==
  ASSUME NEW s, NEW o, NEW i \in Nat, i > 0, i + 1 <= Len(s), Len(s) \in Nat,
         \A b \in 2..Len(s) : LineBlock(s[b]) /\ FileOf(s[b]) \notin ShippedFiles(s),
         \A b \in 2..Len(s) : \A n \in 2..Len(s) : n # b => FileOf(s[n]) # FileOf(s[b]),
         NEW e, PortedAsFar(s, o, i, e)
  PROVE  PortedAsFar(s, o, i + 1, BlockResult(s[i + 1], e))
<1> DEFINE B == s[i + 1]
           x == BlockResult(B, e)
<1>1. i + 1 \in 2..Len(s) /\ \A b \in 2..i : b \in 2..Len(s) /\ b # i + 1
  OBVIOUS
<1>2. LineBlock(B) /\ FileOf(B) \notin ShippedFiles(s) /\ \A b \in 2..i : FileOf(s[b]) # FileOf(B)
  BY <1>1
<1>3. \A g : g # FileOf(B) => Part(g, x) = Part(g, e)
  BY <1>2, LineElsewhere
<1>4. Part(FileOf(B), e) = Part(FileOf(B), o)
  BY <1>2 DEF PortedAsFar
<1>5. Part(FileOf(B), x) = Part(FileOf(B), BlockResult(B, o))
  BY <1>2, <1>4, LineAgree
<1>6. \A b \in 2..(i + 1) : b \in 2..i \/ b = i + 1
  OBVIOUS
<1> HIDE DEF x
<1>7. \A f \in ShippedFiles(s) : Part(f, x) = Part(f, Result(s[1].commands, 1, o))
  BY <1>2, <1>3 DEF PortedAsFar
<1>8. \A b \in 2..(i + 1) : Part(FileOf(s[b]), x) = Part(FileOf(s[b]), BlockResult(s[b], o))
  BY <1>2, <1>3, <1>5, <1>6 DEF PortedAsFar
<1>9. ASSUME NEW f, f \notin ShippedFiles(s), \A b \in 2..(i + 1) : f # FileOf(s[b])
      PROVE  Part(f, x) = Part(f, o)
  <2>1. f # FileOf(B) /\ \A b \in 2..i : f # FileOf(s[b])
    BY <1>9
  <2> QED
    BY <1>3, <1>9, <2>1 DEF PortedAsFar
<1>10. PortedAsFar(s, o, i + 1, x)
  BY <1>7, <1>8, <1>9 DEF PortedAsFar
<1> QED
  BY <1>10 DEF x

LEMMA PortedOne ==
  ASSUME NEW p \in Packages, Fitted(Script[p]), NEW o
  PROVE  \E G : Ported(Script[p], {o}) = {G} /\ PortedAs(Script[p], o, G)
<1> DEFINE s == Script[p]
           m == Len(s)
           q == s[1].commands
<1>0. /\ m \in Nat /\ m > 0 /\ s[1].guard = {} /\ Len(q) \in Nat
      /\ \A b \in 1..m : Len(s[b].commands) \in Nat
      /\ \A k \in 1..Len(q) : Plain(q[k]) /\ q[k].file \in ShippedFiles(s)
      /\ \A b \in 2..m : LineBlock(s[b]) /\ FileOf(s[b]) \notin ShippedFiles(s)
      /\ \A b \in 2..m : \A n \in 2..m : n # b => FileOf(s[n]) # FileOf(s[b])
  BY FittedBlocks
<1>1. PICK f : /\ Ported(s, {o}) = f[m]
               /\ f[0] = {o}
               /\ \A b \in 1..m : f[b] = RunBlock(s[b], f[b - 1])
  <2>1. Len(s) \in Nat
    BY <1>0
  <2> DEFINE D == {o}
  <2> HIDE DEF s, D
  <2>2. \E f : /\ Ported(s, D) = f[Len(s)]
              /\ f[0] = D
              /\ \A b \in 1..Len(s) : f[b] = RunBlock(s[b], f[b - 1])
    BY <2>1, PortedIsPort
  <2> QED
    BY <2>2 DEF D
<1> HIDE DEF s, m, q
<1>a. m = Len(s) /\ q = s[1].commands
  BY DEF m, q
<1> DEFINE T == {i \in Nat : i + 1 <= m => \E e : f[i + 1] = {e} /\ PortedAsFar(s, o, i + 1, e)}
<1>2. 0 \in T
  <2> DEFINE x == BlockResult(s[1], o)
  <2>1. 1 \in 1..m /\ 1 - 1 = 0 /\ Len(s[1].commands) \in Nat
    BY <1>0
  <2>2. f[1] = {x}
    BY <1>1, <2>1, RunBlockOne
  <2>3. x = Result(q, 1, o)
    BY <1>0, <1>a DEF BlockResult, AllHold
  <2>4. \A g : g \notin ShippedFiles(s) => Part(g, x) = Part(g, o)
    <3>1. 1 \in 1..(Len(q) + 1)
      BY <1>0
    <3>2. \A g : g \notin ShippedFiles(s) => \A k \in 1..Len(q) : q[k].file # g
      BY <1>0
    <3> QED
      BY <1>0, <2>3, <3>1, <3>2, FitElsewhere
  <2> HIDE DEF x
  <2>5. PortedAsFar(s, o, 1, x)
    BY <1>a, <2>3, <2>4 DEF PortedAsFar
  <2> QED
    BY <2>2, <2>5
<1>3. ASSUME NEW i \in Nat, i \in T PROVE i + 1 \in T
  <2> SUFFICES ASSUME (i + 1) + 1 <= m
               PROVE  \E e : f[(i + 1) + 1] = {e} /\ PortedAsFar(s, o, (i + 1) + 1, e)
    OBVIOUS
  <2> DEFINE n == i + 1
  <2>1. n \in Nat /\ n > 0 /\ n <= m /\ n + 1 \in 1..m /\ (n + 1) - 1 = n
    BY <1>0
  <2>2. PICK e : f[n] = {e} /\ PortedAsFar(s, o, n, e)
    BY <1>3, <2>1
  <2> HIDE DEF n
  <2>3. f[n + 1] = RunBlock(s[n + 1], {e})
    BY <1>1, <2>1, <2>2
  <2>4. f[n + 1] = {BlockResult(s[n + 1], e)}
    BY <1>0, <2>1, <2>3, RunBlockOne
  <2>5. n + 1 <= m
    BY <2>1, <1>0
  <2>6. PortedAsFar(s, o, n + 1, BlockResult(s[n + 1], e))
    BY <1>0, <1>a, <2>1, <2>2, <2>5, PortedFar
  <2>7. \E y : f[n + 1] = {y} /\ PortedAsFar(s, o, n + 1, y)
    BY <2>4, <2>6
  <2> QED
    BY <2>7 DEF n
<1>4. Nat \subseteq T
  <2> HIDE DEF T
  <2> QED
    BY <1>2, <1>3, InductiveSet
<1>5. m - 1 \in Nat /\ (m - 1) + 1 = m
  BY <1>0
<1>6. PICK e : f[m] = {e} /\ PortedAsFar(s, o, m, e)
  <2>1. m - 1 \in T
    <3> HIDE DEF T
    <3> QED
      BY <1>4, <1>5
  <2>2. (m - 1) + 1 <= m
    BY <1>0
  <2>3. \E e : f[(m - 1) + 1] = {e} /\ PortedAsFar(s, o, (m - 1) + 1, e)
    BY <2>1, <2>2
  <2> QED
    BY <1>5, <2>3
<1>7. PortedAs(s, o, e)
  BY <1>a, <1>6 DEF PortedAs, PortedAsFar
<1>8. Ported(s, {o}) = {e}
  BY <1>1, <1>6
<1> QED
  BY <1>7, <1>8 DEF s

LEMMA PortedFitted ==
  ASSUME NEW p \in Packages, Fitted(Script[p]), NEW o, NEW G \in Ported(Script[p], {o})
  PROVE  PortedAs(Script[p], o, G)
BY PortedOne

-----------------------------------------------------------------------------
(* Where the files are, in the course of any number of runs.               *)

Lines == 2..Len(Script[pkg])

FileAt(b) == FileOf(Script[pkg][b])

\* Of block b: its file as its first i commands make it of the vendored one.
Stage(b, i) == InReach(Script[pkg][b], i, origin, dir)
Due(b)      == AllHold(Script[pkg][b].guard, origin)
AtGoal(b)   == Part(FileAt(b), dir) = Part(FileAt(b), goal)

Settles(b)  == Script[pkg][b] = EndianLittle

\* Two directories with the same in the shipped files.
Fitting(s, d, e) ==
  /\ \A f \in ShippedFiles(s) : f \in d.there /\ f \in e.there
  /\ \A x \in (d.has \ e.has) \cup (e.has \ d.has) : x[1] \notin ShippedFiles(s)

InStages == \A b \in Lines : Stage(b, 0) \/ (Due(b) /\ (Stage(b, 1) \/ Stage(b, 2)))

\* Undisturbed, a file is half edited only where the porter is at work.
AtEnds ==
  smooth => \A b \in Lines : \/ pc = "editing" /\ blk = b
                             \/ Stage(b, 0)
                             \/ Due(b) /\ Stage(b, 2)

AtLines ==
  pc = "editing" /\ blk \in Lines =>
    /\ Due(blk)
    /\ pos = 1 => Stage(blk, 0) \/ Settles(blk)
    /\ pos = 2 => Stage(blk, 1) \/ (Settles(blk) /\ Stage(blk, 2))
    /\ pos = 3 => Stage(blk, 2) \/ ~clean

\* What a run has dealt with, unless it found it half excluded.
Passed ==
  pc \in {"testing", "editing", "done"} =>
    \A b \in 2..(blk - 1) :
      /\ clean => AtGoal(b) \/ FileAt(b) \in HalfExcluded(dir)
      /\ smooth => AtGoal(b)

Untouched ==
  \A f : f \notin ShippedFiles(Script[pkg]) /\ (\A b \in Lines : f # FileAt(b)) =>
    Part(f, dir) = Part(f, origin)

InFit ==
  pc = "editing" /\ blk = 1 =>
    \E s : /\ Result(Commands, 1, origin) = Result(Commands, pos, s)
           /\ Abreast(Commands, pos, dir, s)

Behind ==
  pc \in {"testing", "editing", "done"} /\ blk > 1 => Fitting(Script[pkg], dir, goal)

Ground ==
  /\ origin \in Upstream[pkg] /\ goal \in Ported(Script[pkg], {origin})
  /\ Proper(dir)
  /\ smooth /\ pc # "idle" => clean
  /\ pc = "sourcing" => blk = 1
  /\ pc = "done" => blk > Len(Script[pkg])

RepairInv ==
  /\ TypeOK
  /\ pkg \in FittedPorters =>
       /\ Ground /\ InStages /\ AtEnds /\ AtLines /\ Passed
       /\ Untouched /\ InFit /\ Behind

-----------------------------------------------------------------------------
(* The steps.                                                              *)

\* A step within one block, on one vendored package.
LEMMA SamePackage ==
  ASSUME [Next]_vars
  PROVE  /\ pkg' = pkg
         /\ ~Download => UNCHANGED <<origin, goal>>
BY DEF Next, Porter, Launch, Download, Source, SourceFails, EnterBlock, SkipBlock, Edit,
       SkipEdit, EditFails, EditFailsInChain, LeaveBlock, Finish, Kill, Stop, vars, history, Failing

LEMMA FreshProper ==
  ASSUME NEW p \in Packages, NEW o \in Upstream[p]
  PROVE  Proper(o) /\ \A x \in o.has : x[2] \notin TextsOf(Script[p])
<1>1. o \in Dirs(p) /\ o.twice = {} /\ \A x \in o.has : x[2] \notin TextsOf(Script[p])
  BY PortAssumption
<1> QED
  BY <1>1 DEF Dirs, Proper

\* The file of each block has its own block, and is not shipped.
LEMMA AtBlock ==
  ASSUME TypeOK, pkg \in FittedPorters
  PROVE  /\ pkg \in Packages /\ Fitted(Script[pkg]) /\ Len(Script[pkg]) \in Nat
         /\ \A b \in Lines :
              /\ LineBlock(Script[pkg][b]) /\ FileAt(b) \notin ShippedFiles(Script[pkg])
              /\ Settles(b) \/ \E kind \in Kinds : Script[pkg][b] = Exclude(kind)
              /\ \A i \in Lines : i # b => FileAt(i) # FileAt(b)
         /\ \A b \in Lines : Settles(b) => Settling(Script[pkg][b])
         /\ \A b \in Lines : ~Settles(b) => Marked(Script[pkg][b])
<1>1. pkg \in Packages /\ Fitted(Script[pkg])
  BY DEF FittedPorters
<1>2. \A kind : Marked(Exclude(kind))
  BY ExcludeBlock
<1>3. Settling(EndianLittle)
  BY EndianBlock
<1>4. /\ Len(Script[pkg]) \in Nat
      /\ \A b \in Lines :
           /\ LineBlock(Script[pkg][b]) /\ FileAt(b) \notin ShippedFiles(Script[pkg])
           /\ Settles(b) \/ \E kind \in Kinds : Script[pkg][b] = Exclude(kind)
           /\ \A i \in Lines : i # b => FileAt(i) # FileAt(b)
  BY <1>1, FittedBlocks DEF Lines, FileAt, Settles
<1>5. \A b \in Lines : Settles(b) => Settling(Script[pkg][b])
  BY <1>3 DEF Settles
<1>6. \A b \in Lines : ~Settles(b) => Marked(Script[pkg][b])
  BY <1>2, <1>4
<1> QED
  BY <1>1, <1>4, <1>5, <1>6

\* What one command leaves alone, done or interrupted.
LEMMA EditFrame ==
  ASSUME TypeOK, pkg \in FittedPorters, Proper(dir), pc = "editing", pos <= Len(Commands),
         NEW e \in {dir, After(Cmd, dir), Torn(Cmd, dir)}
  PROVE  /\ Proper(e)
         /\ blk = 1 => /\ Plain(Cmd) /\ ~Cmd.soft
                       /\ \A f : f \notin ShippedFiles(Script[pkg]) => Part(f, e) = Part(f, dir)
         /\ blk # 1 => /\ blk \in Lines /\ pos \in 1..2 /\ Torn(Cmd, dir) = dir
                       /\ \A f : f # FileAt(blk) => Part(f, e) = Part(f, dir)
<1>1. /\ pkg \in Packages /\ blk \in 1..Len(Script[pkg]) /\ Len(Script[pkg]) \in Nat
      /\ pos \in 1..Len(Commands)
  BY AtPosition
<1>2. CASE blk = 1
  <2>1. Plain(Cmd) /\ ~Cmd.soft /\ Cmd.file \in ShippedFiles(Script[pkg])
    BY <1>1, <1>2, AtBlock, FittedBlocks DEF Cmd, Commands, Block
  <2>2. \A f : f \notin ShippedFiles(Script[pkg]) => Part(f, e) = Part(f, dir)
    BY <2>1, PlainElsewhere
  <2> QED
    BY <1>2, <2>1, <2>2, PlainProper
<1>3. CASE blk # 1
  <2>1. blk \in Lines
    BY <1>1, <1>3 DEF Lines
  <2>2. LineBlock(Block)
    BY <2>1, AtBlock DEF Block
  <2>3. pos \in 1..2
    BY <1>1, <2>2, LineCommands DEF Commands
  <2>4. Plain(Cmd) /\ Cmd.op \in {"after", "subst"} /\ Cmd.file = FileAt(blk)
    BY <2>2, <2>3, LineCommands DEF Cmd, Commands, FileAt, Block
  <2>5. Torn(Cmd, dir) = dir
    BY <2>4 DEF Torn
  <2>6. \A f : f # FileAt(blk) => Part(f, e) = Part(f, dir)
    BY <2>4, PlainElsewhere
  <2> QED
    BY <1>3, <2>1, <2>3, <2>4, <2>5, <2>6, PlainProper
<1> QED
  BY <1>2, <1>3

\* The steps by what they do to the directory.
Quiet   == UNCHANGED <<pkg, dir, origin, goal>>
Makes   == /\ pc = "editing" /\ pos <= Len(Commands) /\ dir' = After(Cmd, dir) /\ pos' = pos + 1
           /\ UNCHANGED <<pkg, pc, blk, origin, goal, smooth, clean>>
Stops   == /\ pc = "editing" /\ pos <= Len(Commands) /\ ~Cmd.soft
           /\ dir' \in {dir, Torn(Cmd, dir)}
           /\ pc' = "failed" /\ ~smooth' /\ ~clean'
           /\ UNCHANGED <<pkg, blk, pos, origin, goal>>
Jumps   == /\ pc = "editing" /\ pos <= Len(Commands) /\ Cmd.soft
           /\ dir' \in {dir, Torn(Cmd, dir)}
           /\ pos' \in BehindChain(Commands, pos) /\ ~smooth' /\ ~clean'
           /\ UNCHANGED <<pkg, pc, blk, origin, goal>>
Renews  == /\ dir' \in Upstream[pkg] /\ origin' = dir' /\ goal' \in Ported(Script[pkg], {dir'})
           /\ pc' = "idle" /\ UNCHANGED <<pkg, blk>>

\* The other steps, by what they do to the porter's place in its script.
Begins  == /\ pc \notin {"sourcing", "testing", "editing"}
           /\ pc' = "sourcing" /\ blk' = 1 /\ clean' /\ smooth' = smooth
Breaks  == /\ pc' = "failed" /\ ~smooth' /\ UNCHANGED blk
Sources == /\ pc = "sourcing" /\ pc' = "testing" /\ UNCHANGED <<blk, smooth, clean>>
Enters  == /\ pc = "testing" /\ blk <= Len(Script[pkg]) /\ AllHold(Block.guard, dir)
           /\ pc' = "editing" /\ pos' = 1 /\ UNCHANGED <<blk, smooth, clean>>
Skips   == /\ pc = "testing" /\ blk <= Len(Script[pkg]) /\ ~AllHold(Block.guard, dir)
           /\ blk' = blk + 1 /\ UNCHANGED <<pc, smooth, clean>>
Leaves  == /\ pc = "editing" /\ pos > Len(Commands)
           /\ pc' = "testing" /\ blk' = blk + 1 /\ UNCHANGED <<smooth, clean>>
Ends    == /\ pc = "testing" /\ blk > Len(Script[pkg]) /\ pc' = "done"
           /\ UNCHANGED <<blk, smooth, clean>>
Idles   == UNCHANGED vars

Moves == Begins \/ Breaks \/ Sources \/ Enters \/ Skips \/ Leaves \/ Ends \/ Idles

LEMMA StepKinds ==
  ASSUME TypeOK, [Next]_vars
  PROVE  Renews \/ Makes \/ Stops \/ Jumps \/ (Quiet /\ Moves)
<1>1. CASE Download
  BY <1>1 DEF Download, Renews
<1>2. CASE Edit \/ SkipEdit
  BY <1>2 DEF Edit, SkipEdit, Makes, After, history
<1>3. CASE EditFails
  BY <1>3 DEF EditFails, Failing, Stop, Stops
<1>4. CASE EditFailsInChain
  BY <1>4 DEF EditFailsInChain, Failing, Jumps
<1>5. CASE Launch
  BY <1>5 DEF Launch, Running, Quiet, Moves, Begins, history
<1>6. CASE Source \/ SourceFails \/ Kill
  BY <1>6 DEF Source, SourceFails, Kill, Stop, Quiet, Moves, Sources, Breaks, history
<1>7. CASE EnterBlock \/ SkipBlock
  BY <1>7 DEF EnterBlock, SkipBlock, Quiet, Moves, Enters, Skips, history
<1>8. CASE LeaveBlock \/ Finish
  BY <1>8 DEF LeaveBlock, Finish, Quiet, Moves, Leaves, Ends, history
<1>9. CASE UNCHANGED vars
  BY <1>9 DEF Quiet, Moves, Idles, vars, history
<1> QED
  BY <1>1, <1>2, <1>3, <1>4, <1>5, <1>6, <1>7, <1>8, <1>9 DEF Next, Porter

LEMMA NextGround ==
  ASSUME TypeOK, pkg \in FittedPorters, Ground, [Next]_vars
  PROVE  Ground'
<1>0. pkg' = pkg
  BY SamePackage
<1>1. CASE Renews
  <2>1. Proper(dir')
    BY <1>1, FreshProper DEF Renews, TypeOK
  <2> QED
    BY <1>1, <2>1 DEF Renews, Ground
<1>2. CASE Makes
  <2>1. Proper(dir')
    BY <1>2, EditFrame DEF Makes, Ground
  <2> QED
    BY <1>2, <2>1 DEF Makes, Ground
<1>3. CASE Stops
  <2>1. Proper(dir')
    BY <1>3, EditFrame DEF Stops, Ground
  <2> QED
    BY <1>3, <2>1 DEF Stops, Ground
<1>4. CASE Jumps
  <2>1. Proper(dir')
    BY <1>4, EditFrame DEF Jumps, Ground
  <2> QED
    BY <1>4, <2>1 DEF Jumps, Ground
<1>5. CASE Quiet /\ Moves
  BY <1>5 DEF Ground, Quiet, Moves, Begins, Breaks, Sources, Enters, Skips, Leaves, Ends, Idles,
              vars, port, history
<1> QED
  BY <1>1, <1>2, <1>3, <1>4, <1>5, StepKinds

-----------------------------------------------------------------------------
(* The files of build lines, step by step.                                 *)

LEMMA StageKept ==
  ASSUME UNCHANGED <<pkg, origin>>, NEW b, Part(FileAt(b), dir') = Part(FileAt(b), dir)
  PROVE  /\ \A i : Stage(b, i)' <=> Stage(b, i)
         /\ Due(b)' <=> Due(b)
         /\ goal' = goal => (AtGoal(b)' <=> AtGoal(b))
BY DEF Stage, Due, AtGoal, InReach, FileAt

LEMMA HalfKept ==
  ASSUME NEW f, NEW d, NEW e, Part(f, d) = Part(f, e)
  PROVE  f \in HalfExcluded(d) <=> f \in HalfExcluded(e)
<1>1. \A w : Contains(d, f, w) <=> Contains(e, f, w)
  <2>1. \A x : x[1] = f => (x \in d.has <=> x \in e.has)
    BY PartEqual
  <2>2. \A w : <<f, w>>[1] = f
    OBVIOUS
  <2> QED
    BY <2>1, <2>2 DEF Contains
<1> QED
  BY <1>1, Zenon DEF HalfExcluded, PlusLineExcludes, GoLineExcludes

\* An edit at a file of build lines.
LEMMA MakesStage ==
  ASSUME TypeOK, pkg \in FittedPorters, Ground, InStages, AtLines, Makes, blk \in Lines
  PROVE  /\ Due(blk) /\ pos \in 1..2
         /\ pos = 1 => Stage(blk, 1)' \/ (Settles(blk) /\ Stage(blk, 2)')
         /\ pos = 2 => Stage(blk, 2)'
         /\ \A b \in Lines : b # blk => Part(FileAt(b), dir') = Part(FileAt(b), dir)
<1> DEFINE B == Script[pkg][blk]
<1>1. /\ LineBlock(B) /\ Proper(origin) /\ (Settles(blk) => Settling(B))
      /\ pkg \in Packages
  BY AtBlock, FreshProper DEF Ground
<1>2. /\ pc = "editing" /\ pos <= Len(Commands) /\ dir' = After(B.commands[pos], dir)
      /\ pos' = pos + 1 /\ UNCHANGED <<pkg, pc, blk, origin, goal, smooth, clean>>
  BY DEF Makes, Cmd, Commands, Block
<1>3. blk # 1
  BY DEF Lines
<1>4. /\ pos \in 1..2
      /\ \A f : f # FileAt(blk) => Part(f, dir') = Part(f, dir)
  BY <1>2, <1>3, EditFrame DEF Ground, Makes
<1>5. \A i : Stage(blk, i)' <=> InReach(B, i, origin, After(B.commands[pos], dir))
  BY <1>2 DEF Stage
<1>6. \A i : Stage(blk, i) <=> InReach(B, i, origin, dir)
  BY DEF Stage
<1>7. Due(blk) /\ (pos = 1 => Stage(blk, 0) \/ Settles(blk))
      /\ (pos = 2 => Stage(blk, 1) \/ (Settles(blk) /\ Stage(blk, 2)))
  BY <1>2 DEF AtLines
<1>8. Stage(blk, 0) \/ Stage(blk, 1) \/ Stage(blk, 2)
  BY DEF InStages
<1> HIDE DEF B
<1>9. ASSUME pos = 1 PROVE Stage(blk, 1)' \/ (Settles(blk) /\ Stage(blk, 2)')
  <2>1. CASE Stage(blk, 0)
    <3>1. InReach(B, 0 + 1, origin, After(B.commands[0 + 1], dir))
      BY <1>1, <1>6, <2>1, ReachStep
    <3> QED
      BY <1>5, <1>9, <3>1
  <2>2. CASE Settles(blk) /\ Stage(blk, 1)
    <3>1. InReach(B, 1, origin, After(B.commands[1], dir))
      BY <1>1, <1>6, <2>2, ReachAgain
    <3> QED
      BY <1>5, <1>9, <3>1
  <2>3. CASE Settles(blk) /\ Stage(blk, 2)
    <3>1. InReach(B, 2, origin, After(B.commands[1], dir))
      BY <1>1, <1>6, <2>3, ReachAgain
    <3> QED
      BY <1>5, <1>9, <2>3, <3>1
  <2> QED
    BY <1>7, <1>8, <1>9, <2>1, <2>2, <2>3
<1>10. ASSUME pos = 2 PROVE Stage(blk, 2)'
  <2>1. CASE Stage(blk, 1)
    <3>1. InReach(B, 1 + 1, origin, After(B.commands[1 + 1], dir))
      BY <1>1, <1>6, <2>1, ReachStep
    <3> QED
      BY <1>5, <1>10, <3>1
  <2>2. CASE Settles(blk) /\ Stage(blk, 2)
    <3>1. InReach(B, 2, origin, After(B.commands[2], dir))
      BY <1>1, <1>6, <2>2, ReachAgain
    <3> QED
      BY <1>5, <1>10, <3>1
  <2> QED
    BY <1>7, <1>10, <2>1, <2>2
<1>11. ASSUME NEW b \in Lines, b # blk PROVE Part(FileAt(b), dir') = Part(FileAt(b), dir)
  <2>1. FileAt(b) # FileAt(blk)
    BY <1>11, AtBlock
  <2> QED
    BY <1>4, <2>1
<1> QED
  BY <1>4, <1>7, <1>9, <1>10, <1>11

\* The other steps leave the files of build lines as they are.
LEMMA OtherStages ==
  ASSUME TypeOK, pkg \in FittedPorters, Ground,
         (Makes /\ blk = 1) \/ Stops \/ Jumps \/ Quiet
  PROVE  /\ UNCHANGED <<pkg, origin, goal>>
         /\ \A b \in Lines : Part(FileAt(b), dir') = Part(FileAt(b), dir)
<1>1. CASE Quiet
  BY <1>1 DEF Quiet
<1>2. CASE (Makes /\ blk = 1) \/ Stops \/ Jumps
  <2>1. /\ pc = "editing" /\ pos <= Len(Commands) /\ UNCHANGED <<pkg, origin, goal>>
        /\ dir' \in {dir, After(Cmd, dir), Torn(Cmd, dir)}
    BY <1>2 DEF Makes, Stops, Jumps
  <2>2. CASE blk = 1
    <3>1. \A f : f \notin ShippedFiles(Script[pkg]) => Part(f, dir') = Part(f, dir)
      BY <2>1, <2>2, EditFrame DEF Ground
    <3> QED
      BY <2>1, <3>1, AtBlock
  <2>3. CASE blk # 1
    <3>1. Torn(Cmd, dir) = dir
      BY <2>1, <2>3, EditFrame DEF Ground
    <3>2. dir' = dir
      BY <1>2, <2>3, <3>1 DEF Stops, Jumps
    <3> QED
      BY <2>1, <3>2
  <2> QED
    BY <2>2, <2>3
<1> QED
  BY <1>1, <1>2

LEMMA NextStages ==
  ASSUME TypeOK, pkg \in FittedPorters, Ground, InStages, AtLines, [Next]_vars
  PROVE  InStages'
<1>0. pkg' = pkg /\ Lines' = Lines
  BY SamePackage DEF Lines
<1>1. CASE Renews
  BY <1>0, <1>1 DEF Renews, InStages, Stage, InReach, Reach
<1>2. CASE Makes /\ blk # 1
  <2>1. blk \in Lines
    BY <1>2, AtPosition DEF Makes, Lines
  <2>2. UNCHANGED <<pkg, origin>>
    BY <1>2 DEF Makes
  <2>3. ASSUME NEW b \in Lines
        PROVE  Stage(b, 0)' \/ (Due(b)' /\ (Stage(b, 1)' \/ Stage(b, 2)'))
    <3>1. CASE b = blk
      <4>1. Due(b)' <=> Due(b)
        BY <2>2 DEF Due
      <4>2. \A i : Stage(b, i)' <=> InReach(Script[pkg][b], i, origin, dir')
        BY <2>2 DEF Stage
      <4>3. blk' = blk
        BY <1>2 DEF Makes
      <4>4. Due(b) /\ (Stage(b, 1)' \/ Stage(b, 2)')
        BY <1>2, <2>1, <3>1, <4>3, MakesStage DEF Stage
      <4> QED
        BY <4>1, <4>4
    <3>2. CASE b # blk
      <4>1. Part(FileAt(b), dir') = Part(FileAt(b), dir)
        BY <1>2, <2>1, <3>2, MakesStage
      <4>2. Stage(b, 0) \/ (Due(b) /\ (Stage(b, 1) \/ Stage(b, 2)))
        BY DEF InStages
      <4> QED
        BY <2>2, <4>1, <4>2, StageKept
    <3> QED
      BY <3>1, <3>2
  <2> QED
    BY <1>0, <2>3 DEF InStages
<1>3. CASE (Makes /\ blk = 1) \/ Stops \/ Jumps \/ Quiet
  <2>1. /\ UNCHANGED <<pkg, origin, goal>>
        /\ \A b \in Lines : Part(FileAt(b), dir') = Part(FileAt(b), dir)
    BY <1>3, OtherStages
  <2>2. ASSUME NEW b \in Lines
        PROVE  Stage(b, 0)' \/ (Due(b)' /\ (Stage(b, 1)' \/ Stage(b, 2)'))
    BY <2>1, StageKept DEF InStages
  <2> QED
    BY <1>0, <2>2 DEF InStages
<1> QED
  BY <1>1, <1>2, <1>3, StepKinds

\* A compound command is entered only where the vendored file called for it,
\* and, unless it settles, only where nothing of it has been done.
LEMMA EnterLine ==
  ASSUME TypeOK, pkg \in FittedPorters, Ground, InStages, NEW b \in Lines,
         AllHold(Script[pkg][b].guard, dir)
  PROVE  Due(b) /\ (Stage(b, 0) \/ Settles(b))
<1> DEFINE B == Script[pkg][b]
<1>1. LineBlock(B) /\ Proper(origin) /\ (~Settles(b) => Marked(B))
  BY AtBlock, FreshProper DEF Ground
<1>2. \A i : Stage(b, i) <=> InReach(B, i, origin, dir)
  BY DEF Stage
<1>3. Stage(b, 0) \/ (Due(b) /\ (Stage(b, 1) \/ Stage(b, 2)))
  BY DEF InStages
<1> HIDE DEF B
<1>4. Stage(b, 0) => Due(b)
  <2>1. Stage(b, 0) => (AllHold(B.guard, dir) <=> AllHold(B.guard, origin))
    BY <1>1, <1>2, ReachGuard DEF InReach, Reach
  <2> QED
    BY <2>1 DEF Due, B
<1>5. ASSUME ~Settles(b) PROVE Stage(b, 0)
  <2>1. PICK i \in 0..2 : InReach(B, i, origin, dir)
    BY <1>2, <1>3
  <2>2. InReach(B, 0, origin, dir)
    BY <1>1, <1>5, <2>1, ReachEnter DEF B
  <2> QED
    BY <1>2, <2>2
<1> QED
  BY <1>3, <1>4, <1>5

\* Only the first edit of an exclusion is followed by &&.
LEMMA JumpsBehind ==
  ASSUME TypeOK, pkg \in FittedPorters, Ground, Jumps
  PROVE  blk \in Lines /\ pos' = 3
<1>1. pc = "editing" /\ pos <= Len(Commands) /\ Cmd.soft /\ pos' \in BehindChain(Commands, pos)
  BY DEF Jumps
<1>2. blk \in Lines /\ pos \in 1..2
  BY <1>1, EditFrame DEF Ground
<1>3. Len(Commands) = 2 /\ ~Commands[2].soft
  BY <1>2, AtBlock DEF LineBlock, Commands, Block
<1>4. pos = 1 /\ Commands[1].soft
  BY <1>1, <1>2, <1>3 DEF Cmd
<1>5. pos' \in 2..3 /\ ~Commands[pos' - 1].soft
  BY <1>1, <1>3, <1>4 DEF BehindChain
<1>6. pos' = 2 => pos' - 1 = 1
  OBVIOUS
<1> QED
  BY <1>2, <1>4, <1>5, <1>6

LEMMA NextLines ==
  ASSUME TypeOK, pkg \in FittedPorters, Ground, InStages, AtLines, [Next]_vars
  PROVE  AtLines'
<1>0. pkg' = pkg /\ Lines' = Lines
  BY SamePackage DEF Lines
<1>1. CASE Renews
  BY <1>1 DEF Renews, AtLines
<1>2. CASE Makes
  <2> SUFFICES ASSUME blk \in Lines
               PROVE  /\ Due(blk)'
                      /\ pos' = 1 => Stage(blk, 0)' \/ Settles(blk)'
                      /\ pos' = 2 => Stage(blk, 1)' \/ (Settles(blk)' /\ Stage(blk, 2)')
                      /\ pos' = 3 => Stage(blk, 2)' \/ ~clean'
    BY <1>0, <1>2 DEF Makes, AtLines
  <2>1. /\ Due(blk) /\ pos \in 1..2
        /\ pos = 1 => Stage(blk, 1)' \/ (Settles(blk) /\ Stage(blk, 2)')
        /\ pos = 2 => Stage(blk, 2)'
    BY <1>2, MakesStage
  <2>2. pos' = pos + 1 /\ (Due(blk)' <=> Due(blk)) /\ (Settles(blk)' <=> Settles(blk))
    BY <1>2 DEF Makes, Due, Settles
  <2> QED
    BY <2>1, <2>2
<1>3. CASE Stops
  BY <1>3 DEF Stops, AtLines
<1>4. CASE Jumps
  <2>1. pos' = 3 /\ ~clean' /\ blk' = blk /\ pc = "editing" /\ blk \in Lines
    BY <1>4, JumpsBehind DEF Jumps
  <2>2. Due(blk)' <=> Due(blk)
    BY <1>0, <1>4 DEF Jumps, Due
  <2> QED
    BY <2>1, <2>2 DEF AtLines
<1>5. CASE Quiet /\ Enters
  <2> SUFFICES ASSUME blk \in Lines PROVE Due(blk)' /\ (Stage(blk, 0)' \/ Settles(blk)')
    BY <1>0, <1>5 DEF Enters, AtLines
  <2>1. Due(blk) /\ (Stage(blk, 0) \/ Settles(blk))
    BY <1>5, EnterLine DEF Enters, Block
  <2>2. /\ Due(blk)' <=> Due(blk)
        /\ Stage(blk, 0)' <=> Stage(blk, 0)
        /\ Settles(blk)' <=> Settles(blk)
    BY <1>5 DEF Quiet, Enters, Due, Stage, Settles
  <2> QED
    BY <2>1, <2>2
<1>6. CASE Quiet /\ Idles
  BY <1>6 DEF Idles, vars, port, history, AtLines, Lines, Due, Stage, Settles
<1>7. CASE Quiet /\ (Begins \/ Breaks \/ Sources \/ Skips \/ Leaves \/ Ends)
  BY <1>7 DEF Begins, Breaks, Sources, Skips, Leaves, Ends, AtLines
<1> QED
  BY <1>1, <1>2, <1>3, <1>4, <1>5, <1>6, <1>7, StepKinds DEF Moves

LEMMA NextEnds ==
  ASSUME TypeOK, pkg \in FittedPorters, Ground, InStages, AtLines, AtEnds, [Next]_vars
  PROVE  AtEnds'
<1>0. pkg' = pkg /\ Lines' = Lines
  BY SamePackage DEF Lines
<1>1. CASE Renews
  BY <1>0, <1>1 DEF Renews, AtEnds, Stage, InReach, Reach
<1>2. CASE Stops \/ Jumps
  BY <1>2 DEF Stops, Jumps, AtEnds
<1>3. CASE Makes
  <2> SUFFICES ASSUME smooth, NEW b \in Lines, b # blk
               PROVE  Stage(b, 0)' \/ (Due(b)' /\ Stage(b, 2)')
    BY <1>0, <1>3 DEF Makes, AtEnds
  <2>1. Part(FileAt(b), dir') = Part(FileAt(b), dir)
    <3>1. CASE blk = 1
      BY <1>3, <3>1, OtherStages
    <3>2. CASE blk # 1
      <4>1. blk \in Lines
        BY <1>3, <3>2, AtPosition DEF Makes, Lines
      <4> QED
        BY <1>3, <4>1, MakesStage
    <3> QED
      BY <3>1, <3>2
  <2>2. UNCHANGED <<pkg, origin>>
    BY <1>3 DEF Makes
  <2> QED
    BY <2>1, <2>2, StageKept DEF AtEnds
<1>4. CASE Quiet /\ Leaves
  <2> SUFFICES ASSUME smooth, NEW b \in Lines PROVE Stage(b, 0)' \/ (Due(b)' /\ Stage(b, 2)')
    BY <1>0, <1>4 DEF Leaves, AtEnds
  <2>1. /\ \A i : Stage(b, i)' <=> Stage(b, i)
        /\ Due(b)' <=> Due(b)
    BY <1>4 DEF Quiet, Stage, Due
  <2>2. CASE blk = b
    <3>1. LineBlock(Block) /\ pc = "editing" /\ pos > Len(Commands)
      BY <1>4, <2>2, AtBlock DEF Leaves, Block
    <3>2. pos = 3
      <4>1. Len(Commands) = 2
        BY <3>1, LineCommands DEF Commands
      <4>2. pos \in 1..(Len(Commands) + 1)
        BY <3>1, AtPosition
      <4> QED
        BY <3>1, <4>1, <4>2
    <3>3. clean
      BY <3>1 DEF Ground
    <3> QED
      BY <2>1, <2>2, <3>1, <3>2, <3>3 DEF AtLines
  <2>3. CASE blk # b
    BY <2>1, <2>3 DEF AtEnds
  <2> QED
    BY <2>2, <2>3
<1>5. CASE Quiet /\ (Begins \/ Breaks \/ Sources \/ Enters \/ Skips \/ Ends)
  <2> SUFFICES ASSUME smooth', NEW b \in Lines
               PROVE  (pc' = "editing" /\ blk' = b) \/ Stage(b, 0)' \/ (Due(b)' /\ Stage(b, 2)')
    BY <1>0 DEF AtEnds
  <2>1. /\ \A i : Stage(b, i)' <=> Stage(b, i)
        /\ Due(b)' <=> Due(b)
    BY <1>5 DEF Quiet, Stage, Due
  <2>2. CASE Begins \/ Sources \/ Enters \/ Skips \/ Ends
    <3>1. smooth
      BY <2>2 DEF Begins, Sources, Enters, Skips, Ends
    <3>2. pc # "editing"
      BY <2>2 DEF Begins, Sources, Enters, Skips, Ends
    <3> QED
      BY <2>1, <2>2, <3>1, <3>2 DEF AtEnds
  <2>3. CASE Breaks
    BY <2>3 DEF Breaks
  <2> QED
    BY <1>5, <2>2, <2>3
<1>6. CASE Quiet /\ Idles
  BY <1>6 DEF Idles, vars, port, history, AtEnds, Lines, Due, Stage
<1> QED
  BY <1>1, <1>2, <1>3, <1>4, <1>5, <1>6, StepKinds DEF Moves

LEMMA GoalLine ==
  ASSUME TypeOK, pkg \in FittedPorters, Ground, NEW b \in Lines
  PROVE  /\ Due(b) /\ Stage(b, 2) => AtGoal(b)
         /\ ~Due(b) /\ Stage(b, 0) => AtGoal(b)
<1> DEFINE B == Script[pkg][b]
<1>1. LineBlock(B)
  BY AtBlock
<1>2. PortedAs(Script[pkg], origin, goal)
  BY AtBlock, PortedFitted DEF Ground
<1>3. Part(FileAt(b), goal) = Part(FileAt(b), BlockResult(B, origin))
  BY <1>2 DEF PortedAs, Lines, FileAt
<1>4. BlockResult(B, origin) = IF Due(b) THEN Reach(B, 2, origin) ELSE Reach(B, 0, origin)
  BY <1>1, ReachBlock DEF Due, Reach
<1>5. \A i : Stage(b, i) <=> Part(FileAt(b), dir) = Part(FileAt(b), Reach(B, i, origin))
  BY DEF Stage, InReach, FileAt
<1> QED
  BY <1>3, <1>4, <1>5 DEF AtGoal

\* What passing over a compound command means.
LEMMA SkipLine ==
  ASSUME TypeOK, pkg \in FittedPorters, Ground, InStages, NEW b \in Lines,
         ~AllHold(Script[pkg][b].guard, dir)
  PROVE  /\ AtGoal(b) \/ FileAt(b) \in HalfExcluded(dir)
         /\ Stage(b, 0) \/ (Due(b) /\ Stage(b, 2)) => AtGoal(b)
<1> DEFINE B == Script[pkg][b]
<1>1. LineBlock(B) /\ Proper(origin) /\ pkg \in Packages
  BY AtBlock, FreshProper DEF Ground
<1>2. \A i : Stage(b, i) <=> InReach(B, i, origin, dir)
  BY DEF Stage
<1>3. Stage(b, 0) => ~Due(b)
  <2>1. InReach(B, 0, origin, dir) => (AllHold(B.guard, dir) <=> AllHold(B.guard, origin))
    BY <1>1, ReachGuard DEF InReach, Reach
  <2> QED
    BY <1>2, <2>1 DEF Due
<1>4. Stage(b, 0) \/ (Due(b) /\ Stage(b, 2)) => AtGoal(b)
  BY <1>3, GoalLine
<1>5. ASSUME Due(b), Stage(b, 1) PROVE AtGoal(b) \/ FileAt(b) \in HalfExcluded(dir)
  <2>1. CASE Settles(b)
    <3>1. B.guard = {Exists(FileOf(B))}
      BY <2>1, EndianBlock DEF Settles
    <3>2. Exists(FileOf(B)).kind = "exists" /\ Exists(FileOf(B)).files = {FileOf(B)}
      BY DEF Exists, Test
    <3>3. \A d : AllHold(B.guard, d) <=> FileOf(B) \in d.there
      BY <3>1, <3>2 DEF AllHold, Holds
    <3>4. FileOf(B) \in origin.there
      BY <1>5, <3>3 DEF Due
    <3>5. FileOf(B) \in dir.there
      <4>1. 1 \in 0..2
        OBVIOUS
      <4> QED
        BY <1>1, <1>2, <1>5, <3>4, <4>1, ReachCells
    <3> QED
      BY <3>3, <3>5
  <2>2. CASE ~Settles(b)
    <3>1. PICK kind \in Kinds : B = Exclude(kind)
      BY <2>2, AtBlock
    <3>2. <<Common(kind), "//go:build linux && !sw64">> \notin origin.has
      <4>1. /\ Exclude(kind).commands[2].text = "//go:build linux && !sw64"
            /\ LineBlock(Exclude(kind))
        BY ExcludeBlock
      <4>2. 2 \in 1..Len(B.commands) /\ b \in 1..Len(Script[pkg])
        BY <1>1, LineCommands DEF Lines
      <4>3. B.commands[2] \in CommandsOf(Script[pkg])
        BY <1>1, <4>2, ScriptType
      <4>4. "//go:build linux && !sw64" \in TextsOf(Script[pkg])
        BY <3>1, <4>1, <4>3, Zenon DEF TextsOf
      <4>5. \A x \in origin.has : x[2] \notin TextsOf(Script[pkg])
        BY <1>1, FreshProper DEF Ground
      <4>6. \A f, w : w \in TextsOf(Script[pkg]) => <<f, w>> \notin origin.has
        BY <4>5
      <4> QED
        BY <4>4, <4>6, Zenon
    <3>3. /\ InReach(Exclude(kind), 1, origin, dir)
          /\ AllHold(Exclude(kind).guard, origin)
          /\ ~AllHold(Exclude(kind).guard, dir)
      BY <1>2, <1>5, <3>1 DEF Due
    <3>4. InReach(Exclude(kind), 2, origin, dir) \/ FileOf(Exclude(kind)) \in HalfExcluded(dir)
      BY <1>1, <3>2, <3>3, HalfMade, Zenon
    <3>5. Stage(b, 2) \/ FileAt(b) \in HalfExcluded(dir)
      BY <1>2, <3>1, <3>4 DEF FileAt
    <3> QED
      BY <1>5, <3>5, GoalLine
  <2> QED
    BY <2>1, <2>2
<1> QED
  BY <1>4, <1>5 DEF InStages

LEMMA NextPassed ==
  ASSUME TypeOK, pkg \in FittedPorters, Ground, InStages, AtLines, AtEnds, Passed, [Next]_vars
  PROVE  Passed'
<1>0. pkg' = pkg /\ blk \in Nat /\ \A b \in 2..(blk - 1) : b \in Lines /\ b # blk
  <2>1. blk \in 1..(Len(Script[pkg]) + 1) /\ Len(Script[pkg]) \in Nat
    BY AtBlock DEF TypeOK
  <2> QED
    BY <2>1, SamePackage DEF Lines
\* What has been passed stays as it is.
<1>1. ASSUME NEW b \in 2..(blk - 1), UNCHANGED <<pkg, origin, goal>>,
             Part(FileAt(b), dir') = Part(FileAt(b), dir)
      PROVE  /\ AtGoal(b)' <=> AtGoal(b)
             /\ FileAt(b)' \in HalfExcluded(dir') <=> FileAt(b) \in HalfExcluded(dir)
  <2>1. FileAt(b)' = FileAt(b)
    BY <1>0 DEF FileAt
  <2> QED
    BY <1>1, <2>1, StageKept, HalfKept
<1>2. CASE Renews \/ Stops
  BY <1>2 DEF Renews, Stops, Passed
<1>3. CASE Makes \/ Jumps
  <2>1. /\ pc = "editing" /\ blk' = blk /\ (clean' => clean) /\ (smooth' => smooth)
        /\ UNCHANGED <<pkg, origin, goal>>
    BY <1>3 DEF Makes, Jumps
  <2>2. ASSUME NEW b \in 2..(blk - 1) PROVE Part(FileAt(b), dir') = Part(FileAt(b), dir)
    <3>1. CASE Jumps \/ blk = 1
      BY <1>0, <1>3, <3>1, OtherStages
    <3>2. CASE Makes /\ blk # 1
      <4>1. blk \in Lines
        BY <3>2, AtPosition DEF Makes, Lines
      <4> QED
        BY <1>0, <3>2, <4>1, MakesStage
    <3> QED
      BY <1>3, <3>1, <3>2
  <2> QED
    BY <1>1, <2>1, <2>2 DEF Passed
<1>4. CASE Quiet /\ (Skips \/ Leaves)
  <2>1. /\ pc \in {"testing", "editing"} /\ blk' = blk + 1 /\ blk \in 1..Len(Script[pkg])
        /\ UNCHANGED <<smooth, clean, pkg, dir, origin, goal>>
    BY <1>0, <1>4, AtPosition, AtBlock DEF Quiet, Skips, Leaves, TypeOK
  <2>2. \A b \in 2..(blk' - 1) : b \in 2..(blk - 1) \/ (b = blk /\ blk \in Lines)
    BY <1>0, <2>1 DEF Lines
  <2>3. ASSUME blk \in Lines
        PROVE  /\ clean => AtGoal(blk) \/ FileAt(blk) \in HalfExcluded(dir)
               /\ smooth => AtGoal(blk)
    <3>1. CASE Skips
      <4>1. pc = "testing" /\ ~AllHold(Script[pkg][blk].guard, dir)
        BY <3>1 DEF Skips, Block
      <4>2. smooth => Stage(blk, 0) \/ (Due(blk) /\ Stage(blk, 2))
        BY <2>3, <4>1 DEF AtEnds
      <4> QED
        BY <2>3, <4>1, <4>2, SkipLine
    <3>2. CASE Leaves
      <4>1. LineBlock(Block) /\ pc = "editing" /\ pos > Len(Commands)
        BY <2>3, <3>2, AtBlock DEF Leaves, Block
      <4>2. Len(Commands) = 2 /\ pos \in 1..(Len(Commands) + 1)
        BY <4>1, AtPosition, LineCommands DEF Commands
      <4>3. pos = 3
        BY <4>1, <4>2
      <4>4. Due(blk) /\ (Stage(blk, 2) \/ ~clean)
        BY <2>3, <4>1, <4>3 DEF AtLines
      <4>5. smooth => clean
        BY <4>1 DEF Ground
      <4>6. clean => AtGoal(blk)
        BY <2>3, <4>4, GoalLine
      <4> QED
        BY <4>5, <4>6
    <3> QED
      BY <1>4, <3>1, <3>2
  <2>4. ASSUME NEW b \in 2..(blk' - 1)
        PROVE  /\ clean => AtGoal(b) \/ FileAt(b) \in HalfExcluded(dir)
               /\ smooth => AtGoal(b)
    BY <2>1, <2>2, <2>3 DEF Passed
  <2>5. \A b : (AtGoal(b)' <=> AtGoal(b)) /\ FileAt(b)' = FileAt(b)
    BY <2>1 DEF AtGoal, FileAt
  <2> QED
    BY <2>1, <2>4, <2>5 DEF Passed
<1>5. CASE Quiet /\ (Sources \/ Begins)
  <2>1. pc' = "sourcing" \/ blk' = 1
    BY <1>5 DEF Sources, Begins, Ground
  <2> QED
    BY <2>1 DEF Passed
<1>6. CASE Quiet /\ (Enters \/ Ends \/ Idles)
  <2>1. /\ UNCHANGED <<pkg, dir, origin, goal, blk, smooth, clean>>
        /\ pc' \in {"testing", "editing", "done"} => pc \in {"testing", "editing", "done"}
    BY <1>6 DEF Quiet, Enters, Ends, Idles, vars, port, history
  <2>2. \A b : (AtGoal(b)' <=> AtGoal(b)) /\ FileAt(b)' = FileAt(b)
    BY <2>1 DEF AtGoal, FileAt
  <2> QED
    BY <2>1, <2>2 DEF Passed
<1>7. CASE Quiet /\ Breaks
  BY <1>7 DEF Breaks, Passed
<1> QED
  BY <1>2, <1>3, <1>4, <1>5, <1>6, <1>7, StepKinds DEF Moves

-----------------------------------------------------------------------------
(* The shipped files, step by step, and those that no command edits.       *)

LEMMA NextUntouched ==
  ASSUME TypeOK, pkg \in FittedPorters, Ground, Untouched, [Next]_vars
  PROVE  Untouched'
<1>0. pkg' = pkg /\ Lines' = Lines
  BY SamePackage DEF Lines
<1>1. CASE Renews
  BY <1>1 DEF Renews, Untouched
<1>2. CASE ~Renews
  <2>1. origin' = origin
    BY <1>2, StepKinds DEF Makes, Stops, Jumps, Quiet
  <2>2. ASSUME NEW f, f \notin ShippedFiles(Script[pkg]), \A b \in Lines : f # FileAt(b)
        PROVE  Part(f, dir') = Part(f, dir)
    <3>1. CASE Quiet
      BY <3>1 DEF Quiet
    <3>2. CASE Makes \/ Stops \/ Jumps
      <4>1. /\ pc = "editing" /\ pos <= Len(Commands)
            /\ dir' \in {dir, After(Cmd, dir), Torn(Cmd, dir)}
        BY <3>2 DEF Makes, Stops, Jumps
      <4>2. CASE blk = 1
        BY <2>2, <4>1, <4>2, EditFrame DEF Ground
      <4>3. CASE blk # 1
        <5>1. blk \in Lines /\ \A g : g # FileAt(blk) => Part(g, dir') = Part(g, dir)
          BY <4>1, <4>3, EditFrame DEF Ground
        <5> QED
          BY <2>2, <5>1
      <4> QED
        BY <4>2, <4>3
    <3> QED
      BY <1>2, <3>1, <3>2, StepKinds
  <2>3. \A b : FileAt(b)' = FileAt(b)
    BY <1>0 DEF FileAt
  <2> QED
    BY <1>0, <2>1, <2>2, <2>3 DEF Untouched
<1> QED
  BY <1>1, <1>2

\* What is asked of the directory has not been changed by any run.
LEMMA EnterFit ==
  ASSUME TypeOK, pkg \in FittedPorters, Ground, InStages, Untouched
  PROVE  Abreast(Script[pkg][1].commands, 1, dir, origin)
<1> DEFINE q == Script[pkg][1].commands
<1>1. /\ \A x : Asked(q, x) => x[2] \notin BuildLines
      /\ \A f \in ShippedFiles(Script[pkg]) : \E k \in 1..Len(q) : q[k].file = f
  BY AtBlock, FittedBlocks
<1>2. ASSUME NEW x, Asked(q, x), \A i \in 1..Len(q) : x[1] # q[i].file
      PROVE  x \in dir.has <=> x \in origin.has
  <2>1. x[1] \notin ShippedFiles(Script[pkg]) /\ x[2] \notin BuildLines
    BY <1>1, <1>2
  <2>2. CASE \A b \in Lines : x[1] # FileAt(b)
    BY <2>1, <2>2, PartEqual DEF Untouched
  <2>3. ASSUME NEW b \in Lines, x[1] = FileAt(b) PROVE x \in dir.has <=> x \in origin.has
    <3> DEFINE B == Script[pkg][b]
    <3>1. LineBlock(B) /\ x[1] = FileOf(B)
      BY <2>3, AtBlock DEF FileAt
    <3>2. CASE Stage(b, 0)
      BY <3>1, <3>2, PartEqual DEF Stage, InReach, Reach
    <3>3. CASE Due(b) /\ (Stage(b, 1) \/ Stage(b, 2))
      <4>1. PICK i \in 0..2 : InReach(B, i, origin, dir)
        BY <3>3, 1 \in 0..2, 2 \in 0..2 DEF Stage
      <4>2. FileOf(B) \in origin.there
        <5>1. Exists(FileOf(B)) \in B.guard
          BY <3>1 DEF LineBlock
        <5>2. Holds(Exists(FileOf(B)), origin)
          BY <3>3, <5>1 DEF Due, AllHold
        <5> QED
          BY <5>2 DEF Holds, Exists, Test
      <4> QED
        BY <2>1, <3>1, <4>1, <4>2, ReachCells
    <3> QED
      BY <2>3, <3>2, <3>3 DEF InStages
  <2> QED
    BY <2>2, <2>3
<1>3. 1..(1 - 1) = {}
  OBVIOUS
<1> QED
  BY <1>2, <1>3 DEF Abreast

LEMMA NextInFit ==
  ASSUME TypeOK, pkg \in FittedPorters, Ground, InStages, Untouched, InFit, [Next]_vars
  PROVE  InFit'
<1>0. pkg' = pkg
  BY SamePackage
<1> SUFFICES ASSUME pc' = "editing", blk' = 1
             PROVE  \E s : /\ Result(Commands, 1, origin)' = Result(Commands', pos', s)
                           /\ Abreast(Commands', pos', dir', s)
  BY DEF InFit
<1>1. CASE Makes
  <2>1. /\ pc = "editing" /\ pos <= Len(Commands) /\ dir' = After(Cmd, dir) /\ pos' = pos + 1
        /\ UNCHANGED <<pkg, pc, blk, origin>> /\ blk = 1
    BY <1>1 DEF Makes
  <2>2. Commands' = Commands
    BY <2>1 DEF Commands, Block
  <2>3. pos \in 1..Len(Commands) /\ Len(Commands) \in Nat
    BY <2>1, AtPosition
  <2>4. ShipsThenFits(Commands)
    BY <2>1, AtBlock, FittedBlocks DEF Commands, Block
  <2>5. PICK s : /\ Result(Commands, 1, origin) = Result(Commands, pos, s)
                 /\ Abreast(Commands, pos, dir, s)
    BY <2>1 DEF InFit
  <2>6. Result(Commands, pos, s) = Result(Commands, pos + 1, After(Cmd, s))
    BY <2>3, ResultStep DEF Cmd
  <2>7. Abreast(Commands, pos + 1, After(Cmd, dir), After(Cmd, s))
    BY <2>3, <2>4, <2>5, AbreastStep DEF Cmd
  <2> QED
    BY <2>1, <2>2, <2>5, <2>6, <2>7
<1>2. CASE Stops \/ Renews
  BY <1>2 DEF Stops, Renews
<1>3. CASE Jumps
  <2>1. blk' = blk /\ blk \in Lines
    BY <1>3, JumpsBehind DEF Jumps
  <2> QED
    BY <2>1 DEF Lines
<1>4. CASE Quiet /\ Enters
  <2>1. pos' = 1 /\ blk' = 1 /\ dir' = dir /\ origin' = origin
    BY <1>4 DEF Quiet, Enters
  <2>2. Commands' = Script[pkg][1].commands
    BY <1>0, <2>1 DEF Commands, Block
  <2>3. Abreast(Script[pkg][1].commands, 1, dir, origin)
    BY EnterFit
  <2> QED
    BY <2>1, <2>2, <2>3
<1>5. CASE Quiet /\ Idles
  BY <1>5 DEF Idles, vars, port, history, InFit, Commands, Block
<1>6. CASE Quiet /\ (Begins \/ Breaks \/ Sources \/ Skips \/ Leaves \/ Ends)
  BY <1>6 DEF Begins, Breaks, Sources, Skips, Leaves, Ends
<1> QED
  BY <1>1, <1>2, <1>3, <1>4, <1>5, <1>6, StepKinds DEF Moves

\* The shipped files, when all commands on them have run.
LEMMA LeaveFit ==
  ASSUME TypeOK, pkg \in FittedPorters, Ground, InFit, Leaves, blk = 1
  PROVE  Fitting(Script[pkg], dir, goal)
<1> DEFINE q == Script[pkg][1].commands
<1>1. pc = "editing" /\ pos > Len(Commands) /\ Commands = q
  BY DEF Leaves, Commands, Block
<1>2. Len(q) \in Nat /\ pos = Len(q) + 1
  BY <1>1, AtPosition
<1>3. PICK s : Result(q, 1, origin) = Result(q, pos, s) /\ Abreast(q, pos, dir, s)
  BY <1>1 DEF InFit
<1>4. Result(q, 1, origin) = s
  BY <1>2, <1>3, ResultEnd
<1>5. PortedAs(Script[pkg], origin, goal)
  BY AtBlock, PortedFitted DEF Ground
<1>6. \A f \in ShippedFiles(Script[pkg]) : Part(f, goal) = Part(f, s)
  BY <1>4, <1>5 DEF PortedAs
<1>7. \A f \in ShippedFiles(Script[pkg]) : \E i \in 1..(pos - 1) : q[i].file = f
  <2>1. pos - 1 = Len(q)
    BY <1>2
  <2>2. \A f \in ShippedFiles(Script[pkg]) : \E i \in 1..Len(q) : q[i].file = f
    BY AtBlock, FittedBlocks
  <2> HIDE DEF q
  <2> QED
    BY <2>1, <2>2
<1> HIDE DEF q
<1>8. /\ \A f \in ShippedFiles(Script[pkg]) : f \in dir.there /\ f \in s.there
      /\ \A x : x[1] \in ShippedFiles(Script[pkg]) => (x \in dir.has <=> x \in s.has)
  BY <1>3, <1>7 DEF Abreast
<1>9. /\ \A f \in ShippedFiles(Script[pkg]) : f \in goal.there <=> f \in s.there
      /\ \A x : x[1] \in ShippedFiles(Script[pkg]) => (x \in goal.has <=> x \in s.has)
  BY <1>6, PartEqual
<1> QED
  BY <1>8, <1>9 DEF Fitting

LEMMA NextBehind ==
  ASSUME TypeOK, pkg \in FittedPorters, Ground, InFit, Behind, [Next]_vars
  PROVE  Behind'
<1>0. pkg' = pkg
  BY SamePackage
<1>1. CASE Renews \/ Stops
  BY <1>1 DEF Renews, Stops, Behind
<1>2. CASE Makes \/ Jumps
  <2>1. /\ pc = "editing" /\ pos <= Len(Commands) /\ UNCHANGED <<pkg, blk, goal>>
        /\ dir' \in {dir, After(Cmd, dir), Torn(Cmd, dir)}
    BY <1>2 DEF Makes, Jumps
  <2> SUFFICES ASSUME blk > 1 PROVE Fitting(Script[pkg], dir', goal)
    BY <1>0, <2>1 DEF Behind
  <2>2. blk \in Lines /\ \A f : f # FileAt(blk) => Part(f, dir') = Part(f, dir)
    BY <2>1, EditFrame DEF Ground
  <2>3. \A f \in ShippedFiles(Script[pkg]) : Part(f, dir') = Part(f, dir)
    BY <2>2, AtBlock
  <2>4. Fitting(Script[pkg], dir, goal)
    BY <2>1 DEF Behind
  <2> QED
    BY <2>3, <2>4, PartEqual DEF Fitting
<1>3. CASE Quiet /\ Leaves
  <2>1. CASE blk = 1
    BY <1>0, <1>3, <2>1, LeaveFit DEF Quiet, Behind
  <2>2. CASE blk # 1
    <3>1. blk > 1 /\ pc = "editing"
      BY <1>3, <2>2, AtPosition DEF Leaves
    <3> QED
      BY <1>0, <1>3, <3>1 DEF Quiet, Behind
  <2> QED
    BY <2>1, <2>2
<1>4. CASE Quiet /\ Skips
  <2>1. pc = "testing" /\ blk # 1
    <3>1. Script[pkg][1].guard = {}
      BY AtBlock, FittedBlocks
    <3> QED
      BY <1>4, <3>1 DEF Skips, Block, AllHold
  <2>2. blk > 1
    BY <2>1, AtBlock DEF TypeOK
  <2> QED
    BY <1>0, <1>4, <2>1, <2>2 DEF Quiet, Behind
<1>5. CASE Quiet /\ (Begins \/ Sources)
  <2>1. blk' = 1
    BY <1>5 DEF Begins, Sources, Ground
  <2> QED
    BY <2>1 DEF Behind
<1>6. CASE Quiet /\ (Enters \/ Ends \/ Idles)
  <2>1. /\ UNCHANGED <<pkg, dir, goal, blk>>
        /\ pc' \in {"testing", "editing", "done"} => pc \in {"testing", "editing", "done"}
    BY <1>6 DEF Quiet, Enters, Ends, Idles, vars, port, history
  <2> QED
    BY <2>1 DEF Behind
<1>7. CASE Quiet /\ Breaks
  BY <1>7 DEF Breaks, Behind
<1> QED
  BY <1>1, <1>2, <1>3, <1>4, <1>5, <1>6, <1>7, StepKinds DEF Moves

-----------------------------------------------------------------------------
(* Where an undisturbed run and a rerun end.                               *)

LEMMA InitRepair == Init => RepairInv
<1> SUFFICES ASSUME Init PROVE RepairInv
  OBVIOUS
<1>1. TypeOK
  BY InitType
<1>2. /\ pkg \in Packages /\ dir \in Upstream[pkg] /\ origin = dir
      /\ goal \in Ported(Script[pkg], {dir}) /\ pc = "idle"
  BY DEF Init
<1>3. Proper(dir)
  BY <1>2, FreshProper
<1>4. \A b : Stage(b, 0)
  BY <1>2 DEF Stage, InReach, Reach
<1> QED
  BY <1>1, <1>2, <1>3, <1>4
  DEF RepairInv, Ground, InStages, AtEnds, AtLines, Passed, Untouched, InFit, Behind

LEMMA NextRepair == RepairInv /\ [Next]_vars => RepairInv'
<1> SUFFICES ASSUME RepairInv, [Next]_vars PROVE RepairInv'
  OBVIOUS
<1>1. TypeOK /\ TypeOK'
  BY NextType DEF RepairInv
<1>2. pkg' = pkg
  BY SamePackage
<1> SUFFICES ASSUME pkg \in FittedPorters
             PROVE  /\ Ground' /\ InStages' /\ AtEnds' /\ AtLines' /\ Passed'
                    /\ Untouched' /\ InFit' /\ Behind'
  BY <1>1, <1>2 DEF RepairInv
<1>3. Ground /\ InStages /\ AtEnds /\ AtLines /\ Passed /\ Untouched /\ InFit /\ Behind
  BY DEF RepairInv
<1> QED
  BY <1>1, <1>3, NextGround, NextStages, NextEnds, NextLines, NextPassed, NextUntouched,
     NextInFit, NextBehind

LEMMA AlwaysRepair == Spec => []RepairInv
<1> QED
  BY InitRepair, NextRepair, PTL DEF Spec

\* No edit of a build line creates or removes its file.
LEMMA LineThere ==
  ASSUME TypeOK, pkg \in FittedPorters, Ground, InStages, NEW b \in Lines
  PROVE  FileAt(b) \in dir.there <=> FileAt(b) \in goal.there
<1> DEFINE B == Script[pkg][b]
           f == FileOf(B)
<1>1. LineBlock(B) /\ f = FileAt(b)
  BY AtBlock DEF FileAt
<1>2. Due(b) => f \in origin.there
  <2>1. Exists(f) \in B.guard
    BY <1>1 DEF LineBlock
  <2>2. Due(b) => Holds(Exists(f), origin)
    BY <2>1 DEF Due, AllHold
  <2> QED
    BY <2>2 DEF Holds, Exists, Test
<1>3. Due(b) => \A i \in 0..2 : f \in Reach(B, i, origin).there
  BY <1>1, <1>2, ReachCells DEF InReach
<1>4. f \in dir.there <=> f \in origin.there
  <2>1. CASE Stage(b, 0)
    BY <2>1, PartEqual DEF Stage, InReach, Reach
  <2>2. CASE Due(b) /\ (Stage(b, 1) \/ Stage(b, 2))
    <3>1. PICK i \in 0..2 : InReach(B, i, origin, dir)
      BY <2>2, 1 \in 0..2, 2 \in 0..2 DEF Stage
    <3> QED
      BY <1>1, <1>2, <2>2, <3>1, ReachCells
  <2> QED
    BY <2>1, <2>2 DEF InStages
<1>5. f \in goal.there <=> f \in origin.there
  <2>1. PortedAs(Script[pkg], origin, goal)
    BY AtBlock, PortedFitted DEF Ground
  <2>2. Part(f, goal) = Part(f, BlockResult(B, origin))
    BY <1>1, <2>1 DEF PortedAs, Lines, FileAt
  <2>3. f \in goal.there <=> f \in BlockResult(B, origin).there
    BY <2>2, PartEqual
  <2>4. BlockResult(B, origin) = IF Due(b) THEN Reach(B, 2, origin) ELSE origin
    BY <1>1, ReachBlock DEF Due
  <2>5. 2 \in 0..2
    OBVIOUS
  <2> QED
    BY <1>2, <1>3, <2>3, <2>4, <2>5
<1> QED
  BY <1>1, <1>4, <1>5

LEMMA EndPart ==
  ASSUME RepairInv, pkg \in FittedPorters, pc = "done", clean, NEW f
  PROVE  /\ f \in dir.there <=> f \in goal.there
         /\ \/ \A x : x[1] = f => (x \in dir.has <=> x \in goal.has)
            \/ ~smooth /\ f \in HalfExcluded(dir)
<1>1. TypeOK /\ Ground /\ InStages /\ Passed /\ Untouched /\ Behind
  BY DEF RepairInv
<1>2. PortedAs(Script[pkg], origin, goal)
  BY <1>1, AtBlock, PortedFitted DEF Ground
<1>3. Len(Script[pkg]) \in Nat /\ Len(Script[pkg]) > 0 /\ blk = Len(Script[pkg]) + 1
  <2>1. Len(Script[pkg]) \in Nat /\ Len(Script[pkg]) > 0
    BY <1>1, AtBlock, FittedBlocks
  <2> QED
    BY <1>1, <2>1 DEF TypeOK, Ground
<1>4. CASE f \in ShippedFiles(Script[pkg])
  BY <1>1, <1>3, <1>4 DEF Behind, Fitting
<1>5. ASSUME NEW b \in Lines, f = FileAt(b)
      PROVE  /\ f \in dir.there <=> f \in goal.there
             /\ \/ \A x : x[1] = f => (x \in dir.has <=> x \in goal.has)
                \/ ~smooth /\ f \in HalfExcluded(dir)
  <2>1. b \in 2..(blk - 1)
    BY <1>3 DEF Lines
  <2>2. AtGoal(b) \/ (~smooth /\ f \in HalfExcluded(dir))
    BY <1>1, <1>5, <2>1 DEF Passed
  <2>3. f \in dir.there <=> f \in goal.there
    BY <1>1, <1>5, LineThere
  <2> QED
    BY <1>5, <2>2, <2>3, PartEqual DEF AtGoal
<1>6. CASE f \notin ShippedFiles(Script[pkg]) /\ \A b \in Lines : f # FileAt(b)
  <2>1. Part(f, dir) = Part(f, origin)
    BY <1>1, <1>6 DEF Untouched
  <2>2. Part(f, goal) = Part(f, origin)
    BY <1>2, <1>6 DEF PortedAs, Lines, FileAt
  <2> QED
    BY <2>1, <2>2, PartEqual
<1> QED
  BY <1>4, <1>5, <1>6

(* A porter that is interrupted or fails anywhere, any number of times,    *)
(* and is then run to its end without failure leaves what an undisturbed   *)
(* run would: only a file that was stopped between the two edits of an     *)
(* exclusion (v1, l. 286-288; v2, l. 269-271) stays half excluded.         *)
THEOREM UnixRerunRepairs == Spec => [](pkg \in FittedPorters => RerunRepairs)
<1>1. RepairInv => (pkg \in FittedPorters => RerunRepairs)
  <2> SUFFICES ASSUME RepairInv, pkg \in FittedPorters, pc = "done", clean
               PROVE  /\ dir.there = goal.there
                      /\ \A x \in (dir.has \ goal.has) \cup (goal.has \ dir.has) :
                           x[1] \in HalfExcluded(dir)
    BY DEF RerunRepairs
  <2>1. dir.there = goal.there
    <3>1. \A f : f \in dir.there <=> f \in goal.there
      BY EndPart
    <3> QED
      BY <3>1
  <2>2. ASSUME NEW x \in (dir.has \ goal.has) \cup (goal.has \ dir.has)
        PROVE  x[1] \in HalfExcluded(dir)
    BY <2>2, EndPart
  <2> QED
    BY <2>1, <2>2
<1> QED
  BY <1>1, AlwaysRepair, PTL

\* Runs of which none was disturbed end where one of them does.
SmoothEnd == pc = "done" /\ smooth => dir.there = goal.there /\ dir.has = goal.has

LEMMA RepairSmooth == RepairInv => (pkg \in FittedPorters => SmoothEnd)
<1> SUFFICES ASSUME RepairInv, pkg \in FittedPorters, pc = "done", smooth
             PROVE  dir.there = goal.there /\ dir.has = goal.has
  BY DEF SmoothEnd
<1>1. clean
  BY DEF RepairInv, Ground
<1>2. \A f : f \in dir.there <=> f \in goal.there
  BY <1>1, EndPart
<1>3. \A x : x \in dir.has <=> x \in goal.has
  <2>1. ASSUME NEW x PROVE x \in dir.has <=> x \in goal.has
    BY <1>1, EndPart
  <2> QED
    BY <2>1
<1>4. dir.there = goal.there
  BY <1>2
<1>5. dir.has = goal.has
  BY <1>3
<1> QED
  BY <1>4, <1>5

(* The porters keep to their course: each file of build lines is as it was *)
(* vendored or as one or both of its edits make it, half edited only after *)
(* a disturbance or under the porter's hands, and what a run has passed is *)
(* as it should be in the end.  And the scripts have the shape, and the    *)
(* samples are ported, as the theorems of this module ask for; the samples *)
(* are the same whatever was vendored, and looked at once.                 *)
Course ==
  /\ pkg \in FittedPorters \cap SuppliedPorters
  /\ pc = "idle" /\ origin \in Others[pkg] => pkg \in SampledPorters
  /\ pc \in {"sourcing", "done"} => InStages
  /\ AtEnds /\ AtLines /\ Passed /\ Behind /\ SmoothEnd

\* What makes the theorems of this module go through, at every step of every run.
THEOREM KeepsCourse ==
  Spec => [](pkg \in FittedPorters \cap SuppliedPorters \cap SampledPorters => Course)
<1>1. RepairInv => (pkg \in FittedPorters \cap SuppliedPorters \cap SampledPorters => Course)
  BY RepairSmooth DEF RepairInv, Course
<1> QED
  BY <1>1, AlwaysRepair, PTL

-----------------------------------------------------------------------------
(* Versions that are alike are ported alike.                               *)

LEMMA AlikeCells ==
  ASSUME NEW W, NEW d, NEW e
  PROVE  Alike(W, d, e) <=>
           d.there = e.there /\ \A x : x[2] \in W => (x \in d.has <=> x \in e.has)
BY DEF Alike

LEMMA AlikeTests ==
  ASSUME NEW W, NEW d, NEW e, Alike(W, d, e), NEW tests,
         \A t \in tests : t.kind \in {"exists", "missing"} \/ t.word \in W
  PROVE  AllHold(tests, d) <=> AllHold(tests, e)
<1>1. ASSUME NEW t \in tests PROVE Holds(t, d) <=> Holds(t, e)
  <2>1. CASE t.kind \in {"exists", "missing"}
    BY <2>1 DEF Holds, Alike
  <2>2. CASE t.word \in W
    <3>1. \A x \in t.files \X {t.word} : x \in d.has <=> x \in e.has
      BY <2>2, AlikeCells
    <3>2. (t.files \X {t.word}) \cap d.has = (t.files \X {t.word}) \cap e.has
      BY <3>1
    <3> QED
      BY <3>2 DEF Holds, Alike
  <2> QED
    BY <2>1, <2>2
<1> QED
  BY <1>1 DEF AllHold

\* A command whose own words are all from W, or none of those that it affects.
Keeps(c, W) ==
  /\ Plain(c)
  /\ \A t \in c.when : t.kind \in {"has", "lacks"}
  /\ \/ c.op = "ship" /\ c.when = {}
     \/ c.op # "ship" /\ (Affects(c) \cap W # {} => LooksFor(c) \subseteq W)

LEMMA AlikeShip ==
  ASSUME NEW W, NEW c, Plain(c), c.op = "ship", c.when = {}, NEW d, NEW e, Alike(W, d, e)
  PROVE  Alike(W, After(c, d), After(c, e))
<1>1. After(c, d) = Effect(c, d) /\ After(c, e) = Effect(c, e)
  BY DEF After, AllHold, CanRun
<1>2. Writes(c, d) = Writes(c, e)
  BY DEF Writes
<1>3. Effect(c, d).there = Effect(c, e).there
  <2>1. Effect(c, d).there = d.there \cup {c.file} /\ Effect(c, e).there = e.there \cup {c.file}
    BY PlainEffect
  <2> QED
    BY <2>1 DEF Alike
<1>4. ASSUME NEW x, x[2] \in W PROVE x \in Effect(c, d).has <=> x \in Effect(c, e).has
  BY <1>2, <1>4, AlikeCells, PlainEffect
<1> QED
  BY <1>1, <1>3, <1>4, AlikeCells

\* What a fitting command changes without looking at W is not in W.
LEMMA AlikeBeside ==
  ASSUME NEW W, NEW c, Plain(c), c.op # "ship", Affects(c) \cap W = {},
         NEW d, c.file \in d.there
  PROVE  Alike(W, After(c, d), d)
<1>1. Effect(c, d).there = d.there
  <2>1. Effect(c, d).there = d.there \cup {c.file}
    BY PlainEffect
  <2> QED
    BY <2>1
<1>2. ASSUME NEW x, x[2] \in W PROVE x \in Effect(c, d).has <=> x \in d.has
  <2>1. ~Erases(c, x)
    BY <1>2 DEF Erases, Affects, Plain
  <2>2. x \notin Writes(c, d)
    BY <1>2 DEF Writes, Affects
  <2> QED
    BY <2>1, <2>2, PlainEffect
<1>3. Alike(W, Effect(c, d), d)
  BY <1>1, <1>2, AlikeCells
<1>4. Alike(W, d, d)
  BY AlikeCells
<1> QED
  BY <1>3, <1>4 DEF After

LEMMA AlikeWithin ==
  ASSUME NEW W, NEW c, Plain(c), c.op # "ship", LooksFor(c) \subseteq W,
         NEW d, NEW e, c.file \in d.there \/ c.op # "append", Alike(W, d, e)
  PROVE  Alike(W, After(c, d), After(c, e))
<1>1. AllHold(c.when, d) <=> AllHold(c.when, e)
  <2>1. \A t \in c.when : t.word \in W
    BY DEF LooksFor
  <2> QED
    BY <2>1, AlikeTests
<1>2. c.op \in {"after", "subst", "delete"} => (<<c.file, c.at>> \in d.has <=> <<c.file, c.at>> \in e.has)
  <2>1. c.op \in {"after", "subst", "delete"} => c.at \in W
    BY DEF LooksFor
  <2>2. <<c.file, c.at>>[2] = c.at
    OBVIOUS
  <2> QED
    BY <2>1, <2>2, AlikeCells
<1>3. CanRun(c, d) <=> CanRun(c, e)
  BY <1>2 DEF CanRun, Plain, Alike
<1>4. Writes(c, d) = Writes(c, e)
  BY <1>2 DEF Writes
<1>5. Effect(c, d).there = Effect(c, e).there
  <2>1. Effect(c, d).there = d.there \cup {c.file} /\ Effect(c, e).there = e.there \cup {c.file}
    BY PlainEffect
  <2> QED
    BY <2>1 DEF Alike
<1>6. ASSUME NEW x, x[2] \in W PROVE x \in Effect(c, d).has <=> x \in Effect(c, e).has
  BY <1>4, <1>6, AlikeCells, PlainEffect
<1>7. Alike(W, Effect(c, d), Effect(c, e))
  BY <1>5, <1>6, AlikeCells
<1> QED
  BY <1>1, <1>3, <1>7 DEF After

LEMMA AlikeChain ==
  ASSUME NEW W, NEW a, NEW b, NEW d, Alike(W, a, b), Alike(W, b, d)
  PROVE  Alike(W, a, d) /\ Alike(W, b, a)
BY AlikeCells

LEMMA AlikeAfter ==
  ASSUME NEW W, NEW c, Keeps(c, W), NEW d, NEW e, Alike(W, d, e),
         c.op = "ship" \/ c.file \in d.there
  PROVE  Alike(W, After(c, d), After(c, e))
<1>1. CASE c.op = "ship"
  BY <1>1, AlikeShip DEF Keeps
<1>2. CASE c.op # "ship" /\ Affects(c) \cap W = {}
  <2>1. c.file \in d.there /\ c.file \in e.there
    BY <1>2 DEF Alike
  <2>2. Alike(W, After(c, d), d) /\ Alike(W, After(c, e), e)
    BY <1>2, <2>1, AlikeBeside DEF Keeps
  <2> QED
    BY <2>2, AlikeCells
<1>3. CASE c.op # "ship" /\ LooksFor(c) \subseteq W
  BY <1>3, AlikeWithin DEF Keeps
<1> QED
  BY <1>1, <1>2, <1>3 DEF Keeps

LEMMA AfterThere ==
  ASSUME NEW c, Plain(c), NEW d
  PROVE  /\ d.there \subseteq After(c, d).there
         /\ c.op = "ship" /\ c.when = {} => c.file \in After(c, d).there
<1>1. d.there \subseteq Effect(c, d).there /\ c.file \in Effect(c, d).there
  BY PlainEffect
<1>2. c.op = "ship" /\ c.when = {} => After(c, d) = Effect(c, d)
  BY DEF After, AllHold, CanRun
<1> QED
  BY <1>1, <1>2 DEF After

\* What the commands make of two alike directories is alike.
LEMMA AlikeResult ==
  ASSUME NEW W, NEW q, Len(q) \in Nat, ShipsThenFits(q), \A k \in 1..Len(q) : Keeps(q[k], W),
         NEW d, NEW e, Alike(W, d, e)
  PROVE  Alike(W, Result(q, 1, d), Result(q, 1, e))
<1> DEFINE m == Len(q) + 1
           Laid(j, x) == \A i \in 1..(j - 1) : q[i].file \in x.there
           U == {j \in 1..m : \A x, y : Alike(W, x, y) /\ Laid(j, x) =>
                                Alike(W, Result(q, j, x), Result(q, j, y))}
<1>1. m \in U
  BY ResultEnd
<1>2. ASSUME NEW j \in 1..m, j + 1 \in U \/ j = m PROVE j \in U
  <2> SUFFICES ASSUME j # m, NEW x, NEW y, Alike(W, x, y), Laid(j, x)
               PROVE  Alike(W, Result(q, j, x), Result(q, j, y))
    BY <1>1
  <2> DEFINE c == q[j]
  <2>1. j \in 1..Len(q) /\ (j + 1) - 1 = j /\ \A i \in 1..j : i = j \/ i \in 1..(j - 1)
    OBVIOUS
  <2>2. Result(q, j, x) = Result(q, j + 1, After(c, x)) /\ Result(q, j, y) = Result(q, j + 1, After(c, y))
    BY <2>1, ResultStep
  <2>3. Plain(c) /\ Keeps(c, W) /\ (c.op = "ship" => c.when = {})
    BY <2>1 DEF ShipsThenFits
  <2>4. c.op = "ship" \/ c.file \in x.there
    <3>1. PICK i \in 1..j : q[i].op = "ship" /\ q[i].file = c.file
      BY <2>1 DEF ShipsThenFits
    <3> QED
      BY <2>1, <3>1
  <2>5. Alike(W, After(c, x), After(c, y))
    BY <2>3, <2>4, AlikeAfter
  <2>6. x.there \subseteq After(c, x).there /\ c.file \in After(c, x).there
    BY <2>3, <2>4, AfterThere
  <2>7. Laid(j + 1, After(c, x))
    BY <2>1, <2>6
  <2>8. j + 1 \in U
    <3> HIDE DEF U
    <3> QED
      BY <1>2
  <2> QED
    BY <2>2, <2>5, <2>7, <2>8
<1>3. 1..m \subseteq U
  <2>1. m \in Nat
    OBVIOUS
  <2> HIDE DEF U, m
  <2> QED
    BY <1>1, <1>2, <2>1, DownwardSet
<1>4. 1 \in 1..m /\ Laid(1, d)
  OBVIOUS
<1> QED
  BY <1>3, <1>4

\* What a block of build lines makes of them.
LEMMA AlikeBlock ==
  ASSUME NEW W, BuildLines \subseteq W, NEW B, LineBlock(B),
         B = EndianLittle \/ \E kind \in Kinds : B = Exclude(kind),
         NEW d, NEW e, Alike(W, d, e)
  PROVE  Alike(W, BlockResult(B, d), BlockResult(B, e))
<1> DEFINE c1 == B.commands[1]
           c2 == B.commands[2]
<1>1. /\ \A k \in 1..2 : Plain(B.commands[k]) /\ B.commands[k].when = {}
                         /\ B.commands[k].op \in {"after", "subst"} /\ B.commands[k].at \in W
      /\ 1 \in 1..2 /\ 2 \in 1..2 /\ 1 \in 1..3 /\ Len(B.commands) \in Nat
      /\ Len(B.commands) = 2
  BY LineCommands
<1>2. \A k \in 1..2 : LooksFor(B.commands[k]) \subseteq W
  BY <1>1 DEF LooksFor
<1>3. Alike(W, After(c1, d), After(c1, e))
  BY <1>1, <1>2, AlikeWithin
<1>4. Alike(W, After(c2, After(c1, d)), After(c2, After(c1, e)))
  BY <1>1, <1>2, <1>3, AlikeWithin
<1>5. \A t \in B.guard : t.kind \in {"exists", "missing"} \/ t.word \in W
  <2>1. PICK f : B.guard \subseteq {Exists(f), Lacks(f, "sw64")}
    <3>1. CASE B = EndianLittle
      BY <3>1, EndianBlock
    <3>2. CASE \E kind \in Kinds : B = Exclude(kind)
      <4>1. PICK kind \in Kinds : B = Exclude(kind)
        BY <3>2
      <4>2. B.guard = {Exists(Common(kind)), Lacks(Common(kind), "sw64")}
        BY <4>1, ExcludeBlock
      <4> QED
        BY <4>2
    <3> QED
      BY <3>1, <3>2
  <2>2. Exists(f).kind = "exists" /\ Lacks(f, "sw64").word = "sw64"
    BY DEF Exists, Lacks, Test
  <2>3. "sw64" \in BuildLines
    BY Zenon DEF BuildLines
  <2> QED
    BY <2>1, <2>2, <2>3
<1>6. AllHold(B.guard, d) <=> AllHold(B.guard, e)
  BY <1>5, AlikeTests
<1>7. \A x : BlockResult(B, x) = IF AllHold(B.guard, x) THEN After(c2, After(c1, x)) ELSE x
  BY ReachBlock DEF Reach
<1> QED
  BY <1>4, <1>6, <1>7

LEMMA AlikePart ==
  ASSUME NEW W, NEW X, NEW Y, Alike(W, X, Y), NEW f, NEW G, NEW H,
         Part(f, G) = Part(f, X), Part(f, H) = Part(f, Y)
  PROVE  /\ f \in G.there <=> f \in H.there
         /\ \A x : x[1] = f /\ x[2] \in W => (x \in G.has <=> x \in H.has)
<1>1. /\ f \in G.there <=> f \in X.there
      /\ \A x : x[1] = f => (x \in G.has <=> x \in X.has)
  BY PartEqual
<1>2. /\ f \in H.there <=> f \in Y.there
      /\ \A x : x[1] = f => (x \in H.has <=> x \in Y.has)
  BY PartEqual
<1>3. X.there = Y.there /\ \A x : x[2] \in W => (x \in X.has <=> x \in Y.has)
  BY AlikeCells
<1> QED
  BY <1>1, <1>2, <1>3

\* What the porter makes of two alike versions is alike.
LEMMA AlikePorted ==
  ASSUME NEW p \in Packages, Fitted(Script[p]), NEW W, BuildLines \subseteq W,
         \A c \in CommandsIn(Script[p][1]) : Keeps(c, W),
         NEW o, NEW e, Alike(W, o, e),
         NEW G \in Ported(Script[p], {o}), NEW H \in Ported(Script[p], {e})
  PROVE  Alike(W, G, H)
<1> DEFINE s == Script[p]
           q == s[1].commands
<1>1. PortedAs(s, o, G) /\ PortedAs(s, e, H)
  BY PortedFitted
<1>2. /\ Len(q) \in Nat /\ ShipsThenFits(q) /\ \A k \in 1..Len(q) : Keeps(q[k], W)
      /\ \A b \in 2..Len(s) : /\ LineBlock(s[b])
                              /\ s[b] = EndianLittle \/ \E kind \in Kinds : s[b] = Exclude(kind)
  BY FittedBlocks DEF CommandsIn
<1> HIDE DEF s, q
<1>a. q = s[1].commands
  BY DEF q
<1>3. Alike(W, Result(q, 1, o), Result(q, 1, e))
  BY <1>2, AlikeResult
<1>4. \A b \in 2..Len(s) : Alike(W, BlockResult(s[b], o), BlockResult(s[b], e))
  BY <1>2, AlikeBlock
<1>5. ASSUME NEW f
      PROVE  /\ f \in G.there <=> f \in H.there
             /\ \A x : x[1] = f /\ x[2] \in W => (x \in G.has <=> x \in H.has)
  <2>1. CASE f \in ShippedFiles(s)
    <3>1. Part(f, G) = Part(f, Result(q, 1, o)) /\ Part(f, H) = Part(f, Result(q, 1, e))
      BY <1>1, <1>a, <2>1 DEF PortedAs
    <3> QED
      BY <1>3, <3>1, AlikePart
  <2>2. ASSUME NEW b \in 2..Len(s), f = FileOf(s[b]) PROVE <1>5!2
    <3>1. Part(f, G) = Part(f, BlockResult(s[b], o)) /\ Part(f, H) = Part(f, BlockResult(s[b], e))
      BY <1>1, <2>2 DEF PortedAs
    <3> QED
      BY <1>4, <3>1, AlikePart
  <2>3. CASE f \notin ShippedFiles(s) /\ \A b \in 2..Len(s) : f # FileOf(s[b])
    <3>1. Part(f, G) = Part(f, o) /\ Part(f, H) = Part(f, e)
      BY <1>1, <2>3 DEF PortedAs
    <3> QED
      BY <3>1, AlikePart
  <2> QED
    BY <2>1, <2>2, <2>3
<1>6. G.there = H.there
  BY <1>5
<1>7. ASSUME NEW x, x[2] \in W PROVE x \in G.has <=> x \in H.has
  BY <1>5, <1>7
<1> QED
  BY <1>6, <1>7, AlikeCells

-----------------------------------------------------------------------------
(* What the build makes of alike directories is the same.                  *)

LEMMA AlikeHolding ==
  ASSUME NEW W, NEW d, NEW e, Alike(W, d, e), NEW w \in W
  PROVE  /\ Holding(d, w) = Holding(e, w)
         /\ \A f : Contains(d, f, w) <=> Contains(e, f, w)
<1>1. \A f : <<f, w>> \in d.has <=> <<f, w>> \in e.has
  <2>1. \A f : <<f, w>>[2] \in W
    OBVIOUS
  <2> QED
    BY <2>1, AlikeCells
<1> QED
  BY <1>1 DEF Holding, Contains, Alike

LEMMA AlikeBuild ==
  ASSUME NEW W, BuildLines \subseteq W, NEW d, NEW e, Alike(W, d, e)
  PROVE  /\ Sw64Build(d) = Sw64Build(e) /\ OtherBuild(d) = OtherBuild(e)
         /\ BuildsEndian(d) <=> BuildsEndian(e)
<1>1. d.there = e.there
  BY DEF Alike
<1>2. \A w \in BuildLines : \A f : Contains(d, f, w) <=> Contains(e, f, w)
  BY AlikeHolding
<1>3. /\ "//go:build linux && !sw64" \in BuildLines /\ "// +build !sw64" \in BuildLines
      /\ "//go:build linux" \in BuildLines /\ "//go:build sw64 || 386" \in BuildLines
      /\ "// +build sw64 386" \in BuildLines /\ "//go:build 386" \in BuildLines
  BY Zenon DEF BuildLines
<1>4. \A f : Excluded(d, f) <=> Excluded(e, f)
  BY <1>2, <1>3, Zenon DEF Excluded, GoLineExcludes, PlusLineExcludes
<1>5. EndianBuilt(d) <=> EndianBuilt(e)
  BY <1>2, <1>3, Zenon DEF EndianBuilt
<1> QED
  BY <1>1, <1>4, <1>5 DEF Sw64Build, OtherBuild, BuildsEndian

LEMMA AlikeDeclares ==
  ASSUME NEW W, BuildLines \subseteq W, NEW w \in W, NEW o, NEW r, Alike(W, o, r),
         NEW d, NEW e, Alike(W, d, e), DeclaresOnce(w, r, e)
  PROVE  DeclaresOnce(w, o, d)
<1>1. Holding(d, w) = Holding(e, w) /\ Holding(o, w) = Holding(r, w)
  BY AlikeHolding
<1>2. Sw64Build(d) = Sw64Build(e) /\ OtherBuild(o) = OtherBuild(r)
  BY AlikeBuild
<1> QED
  BY <1>1, <1>2 DEF DeclaresOnce

LEMMA AlikeTypes ==
  ASSUME NEW W, BuildLines \subseteq W, NEW u, u[1] \in W, u[2] \in W,
         NEW d, NEW e, Alike(W, d, e),
         Contains(e, Z, u[1]) => Holding(e, u[2]) \cap Sw64Build(e) # {}
  PROVE  Contains(d, Z, u[1]) => Holding(d, u[2]) \cap Sw64Build(d) # {}
<1>1. Holding(d, u[2]) = Holding(e, u[2]) /\ Sw64Build(d) = Sw64Build(e)
  BY AlikeHolding, AlikeBuild
<1>2. Contains(d, Z, u[1]) <=> Contains(e, Z, u[1])
  BY AlikeHolding
<1> QED
  BY <1>1, <1>2

\* Directories that differ in no word say the same.
LEMMA SameFinds ==
  ASSUME NEW o, NEW d, NEW e, d.there = e.there, d.has = e.has, FindsWhatItUses(o, e)
  PROVE  FindsWhatItUses(o, d)
<1>1. \A w, f : Contains(d, f, w) <=> Contains(e, f, w)
  BY DEF Contains
<1>2. \A w : Holding(d, w) = Holding(e, w)
  BY DEF Holding
<1>3. Sw64Build(d) = Sw64Build(e) /\ (BuildsEndian(d) <=> BuildsEndian(e))
  <2>1. Alike(BuildLines, d, e)
    BY AlikeCells
  <2> QED
    BY <2>1, AlikeBuild
<1> QED
  BY <1>1, <1>2, <1>3
     DEF FindsWhatItUses, HasTypes, ImportsErrors, CallsNoError, PassesFutimesat

LEMMA SameDeclares ==
  ASSUME NEW p, NEW o, NEW d, NEW e, d.there = e.there, d.has = e.has, DeclaresAllOnce(p, o, e)
  PROVE  DeclaresAllOnce(p, o, d)
<1>1. \A w : Holding(d, w) = Holding(e, w)
  BY DEF Holding
<1>2. Sw64Build(d) = Sw64Build(e)
  <2>1. Alike(BuildLines, d, e)
    BY AlikeCells
  <2> QED
    BY <2>1, AlikeBuild
<1> QED
  BY <1>1, <1>2 DEF DeclaresAllOnce, DeclaresOnce

-----------------------------------------------------------------------------
(* A few versions stand for all.                                           *)

LEMMA SliceHolds ==
  ASSUME NEW p, NEW V
  PROVE  V \cup BuildLines \subseteq Slice(p, V)
BY DEF Slice, Grown

\* A slice that depends on no other word is kept apart by every command.
LEMMA SliceKept ==
  ASSUME NEW p \in Packages, Fitted(Script[p]), NEW W, Grown(p, W) = W
  PROVE  \A c \in CommandsIn(Script[p][1]) : Keeps(c, W)
<1> SUFFICES ASSUME NEW c \in CommandsIn(Script[p][1]) PROVE Keeps(c, W)
  OBVIOUS
<1> DEFINE q == Script[p][1].commands
<1>1. PICK k \in 1..Len(q) : c = q[k]
  BY DEF CommandsIn
<1>2. Plain(c) /\ (c.op = "ship" => c.when = {}) /\ \A t \in c.when : t.kind \in {"has", "lacks"}
  BY <1>1 DEF Fitted, ShipsThenFits
<1>3. ASSUME c.op # "ship", Affects(c) \cap W # {} PROVE LooksFor(c) \subseteq W
  <2>1. c \in Fitters(p)
    BY <1>3 DEF Fitters
  <2> QED
    BY <1>3, <2>1 DEF Grown
<1> QED
  BY <1>2, <1>3 DEF Keeps

\* Of two changes at most, any combination is that of a near pick.
LEMMA NearEnough ==
  ASSUME NEW p, NEW pick \in Picks(p),
         NEW i \in DOMAIN Changes[p] \cup {0}, NEW j \in DOMAIN Changes[p] \cup {0}
  PROVE  \E near \in NearPicks(p) : \A n \in DOMAIN Changes[p] \cap {i, j} : near[n] = pick[n]
<1> DEFINE D == DOMAIN Changes[p]
           base == IF i \in D THEN pick[i] ELSE 1
           side == IF j \in D THEN pick[j] ELSE 1
           near == [n \in D |-> IF n = j THEN side ELSE base]
<1>1. base \in 1..2 /\ side \in 1..2
  BY DEF Picks
<1>2. near \in NearPicks(p)
  <2> HIDE DEF base, side
  <2> QED
    BY <1>1 DEF NearPicks
<1>3. \A n \in D \cap {i, j} : near[n] = pick[n]
  OBVIOUS
<1> QED
  BY <1>2, <1>3

\* Two mixtures that have picked the same of the changes W is about.
LEMMA MixturesAlike ==
  ASSUME NEW p, NEW W, NEW pick \in Picks(p), NEW near \in Picks(p), NEW lines,
         \A n \in Touching(p, W) : near[n] = pick[n]
  PROVE  Alike(W, Mixture(p, pick, lines), Mixture(p, near, lines))
<1> DEFINE D == DOMAIN Changes[p]
           Made(g) == UNION {Changes[p][n][g[n]] : n \in D}
<1>1. ASSUME NEW x, x[2] \in W, NEW n \in D
      PROVE  x \in Changes[p][n][pick[n]] <=> x \in Changes[p][n][near[n]]
  <2>1. pick[n] \in 1..2 /\ near[n] \in 1..2
    BY DEF Picks
  <2>2. CASE n \in Touching(p, W)
    BY <2>2
  <2>3. CASE n \notin Touching(p, W)
    BY <1>1, <2>1, <2>3 DEF Touching
  <2> QED
    BY <2>2, <2>3
<1>2. ASSUME NEW x, x[2] \in W PROVE x \in Made(pick) <=> x \in Made(near)
  BY <1>1, <1>2
<1>3. \A g : /\ Mixture(p, g, lines).there = AllFiles \ Sw64Files
             /\ Mixture(p, g, lines).has = Lasting[p] \cup lines \cup Made(g)
  BY DEF Mixture
<1> HIDE DEF Made
<1> QED
  BY <1>2, <1>3, AlikeCells

LEMMA NearIsPick ==
  ASSUME NEW p, NEW near \in NearPicks(p)
  PROVE  near \in Picks(p)
BY DEF NearPicks, Picks

\* For each question, each version is like one of the samples.
LEMMA SampleFor ==
  ASSUME NEW p, Separable(p), NEW V \in Questions(p), NEW o \in Vendorable(p)
  PROVE  \E r \in Samples(p) : Alike(Slice(p, V), o, r)
<1> DEFINE W == Slice(p, V)
<1>1. CASE o \in Others[p]
  <2>1. o \in Samples(p) /\ Alike(W, o, o)
    BY <1>1, AlikeCells DEF Samples
  <2> QED
    BY <2>1
<1>2. ASSUME NEW pick \in Picks(p), NEW lines \in Headers, o = Mixture(p, pick, lines)
      PROVE  \E r \in Samples(p) : Alike(W, o, r)
  <2>1. PICK i \in DOMAIN Changes[p] \cup {0}, j \in DOMAIN Changes[p] \cup {0} :
               Touching(p, W) \subseteq {i, j}
    BY DEF Separable
  <2>2. PICK near \in NearPicks(p) : \A n \in DOMAIN Changes[p] \cap {i, j} : near[n] = pick[n]
    BY NearEnough
  <2>3. \A n \in Touching(p, W) : near[n] = pick[n]
    BY <2>1, <2>2 DEF Touching
  <2>4. Alike(W, o, Mixture(p, near, lines))
    BY <1>2, <2>3, NearIsPick, MixturesAlike
  <2>5. Mixture(p, near, lines) \in Samples(p)
    BY DEF Samples
  <2> QED
    BY <2>4, <2>5
<1> QED
  BY <1>1, <1>2 DEF Vendorable

\* The sample that answers a question about o, and how it is ported.
LEMMA Witness ==
  ASSUME NEW p \in Packages, Fitted(Script[p]), p \in SampledPorters,
         NEW V \in Questions(p), NEW o \in Vendorable(p), NEW G \in Ported(Script[p], {o})
  PROVE  \E W, r, H : /\ V \cup BuildLines \subseteq W
                      /\ Alike(W, o, r) /\ Alike(W, G, H)
                      /\ DeclaresAllOnce(p, r, H) /\ FindsWhatItUses(r, H)
<1> DEFINE W == Slice(p, V)
<1>1. Separable(p) /\ SamplesRight(p)
  BY DEF SampledPorters
<1>2. PICK r \in Samples(p) : Alike(W, o, r)
  BY <1>1, SampleFor
<1>3. PICK H : H \in Ported(Script[p], {r})
  <2>1. \E H : Ported(Script[p], {r}) = {H}
    BY PortedOne
  <2> QED
    BY <2>1
<1>4. V \cup BuildLines \subseteq W
  BY SliceHolds
<1>5. Grown(p, W) = W
  BY <1>1 DEF Separable
<1>6. DeclaresAllOnce(p, r, H) /\ FindsWhatItUses(r, H)
  BY <1>1, <1>3 DEF SamplesRight
<1> HIDE DEF W
<1>7. Alike(W, G, H)
  <2>1. \A c \in CommandsIn(Script[p][1]) : Keeps(c, W)
    BY <1>5, SliceKept
  <2> QED
    BY <1>2, <1>3, <1>4, <2>1, AlikePorted
<1> QED
  BY <1>2, <1>4, <1>6, <1>7

\* What the build makes of a version as its porter leaves it.
LEMMA VersionFits ==
  ASSUME NEW p \in Packages, Fitted(Script[p]), p \in SampledPorters,
         NEW o \in Vendorable(p), NEW G \in Ported(Script[p], {o})
  PROVE  DeclaresAllOnce(p, o, G) /\ FindsWhatItUses(o, G)
<1> DEFINE Answered(V) == \E W, r, H : /\ V \cup BuildLines \subseteq W
                                       /\ Alike(W, o, r) /\ Alike(W, G, H)
                                       /\ DeclaresAllOnce(p, r, H) /\ FindsWhatItUses(r, H)
<1>1. \A V \in Questions(p) : Answered(V)
  BY Witness
<1>2. ASSUME NEW w \in SymbolsOf(Script[p]) PROVE DeclaresOnce(w, o, G)
  <2>1. {w} \in Questions(p)
    BY DEF Questions
  <2>2. Answered({w})
    BY <1>1, <2>1
  <2>3. PICK W, r, H : /\ w \in W /\ BuildLines \subseteq W /\ Alike(W, o, r) /\ Alike(W, G, H)
                       /\ DeclaresAllOnce(p, r, H)
    BY <2>2
  <2>4. DeclaresOnce(w, r, H)
    BY <2>3 DEF DeclaresAllOnce
  <2> QED
    BY <2>3, <2>4, AlikeDeclares
<1>3. HasTypes(G)
  <2> SUFFICES ASSUME NEW u \in TypeOfFunction
               PROVE  Contains(G, Z, u[1]) => Holding(G, u[2]) \cap Sw64Build(G) # {}
    BY DEF HasTypes
  <2>1. {u[1], u[2]} \in Questions(p)
    BY DEF Questions
  <2>2. Answered({u[1], u[2]})
    BY <1>1, <2>1
  <2>3. PICK W, r, H : /\ u[1] \in W /\ u[2] \in W /\ BuildLines \subseteq W /\ Alike(W, G, H)
                       /\ HasTypes(H)
    BY <2>2 DEF FindsWhatItUses
  <2>4. Contains(H, Z, u[1]) => Holding(H, u[2]) \cap Sw64Build(H) # {}
    BY <2>3 DEF HasTypes
  <2> QED
    BY <2>3, <2>4, AlikeTypes
<1>4. ImportsErrors(G)
  <2>1. {"errors", "fchmodat2"} \in Questions(p)
    BY DEF Questions
  <2>2. Answered({"errors", "fchmodat2"})
    BY <1>1, <2>1
  <2>3. PICK W, H : /\ "errors" \in W /\ "fchmodat2" \in W /\ Alike(W, G, H) /\ ImportsErrors(H)
    BY <2>2 DEF FindsWhatItUses
  <2>4. /\ Contains(G, Z, "errors") <=> Contains(H, Z, "errors")
        /\ Contains(G, Z, "fchmodat2") <=> Contains(H, Z, "fchmodat2")
    BY <2>3, AlikeHolding
  <2> QED
    BY <2>3, <2>4 DEF ImportsErrors
<1>5. BuildsEndian(G)
  <2>1. {} \in Questions(p)
    BY DEF Questions
  <2>2. Answered({})
    BY <1>1, <2>1
  <2>3. PICK W, H : BuildLines \subseteq W /\ Alike(W, G, H) /\ BuildsEndian(H)
    BY <2>2 DEF FindsWhatItUses
  <2> QED
    BY <2>3, AlikeBuild
<1>6. CallsNoError(o, G)
  <2> DEFINE V == {"NoError", RawSyscallPair, SyscallPair}
  <2>1. V \in Questions(p)
    BY DEF Questions
  <2>2. Answered(V)
    BY <1>1, <2>1
  <2>3. PICK W, r, H : /\ V \subseteq W /\ Alike(W, o, r) /\ Alike(W, G, H) /\ CallsNoError(r, H)
    BY <2>2 DEF FindsWhatItUses
  <2>4. \A f : \A w \in V : /\ Contains(G, f, w) <=> Contains(H, f, w)
                            /\ Contains(o, f, w) <=> Contains(r, f, w)
    BY <2>3, AlikeHolding
  <2> QED
    BY <2>3, <2>4 DEF CallsNoError
<1>7. PassesFutimesat(o, G)
  <2>1. {OldFutimesat} \in Questions(p)
    BY DEF Questions
  <2>2. Answered({OldFutimesat})
    BY <1>1, <2>1
  <2>3. PICK W, r, H : /\ OldFutimesat \in W /\ Alike(W, o, r) /\ Alike(W, G, H)
                       /\ PassesFutimesat(r, H)
    BY <2>2 DEF FindsWhatItUses
  <2>4. \A f : /\ Contains(G, f, OldFutimesat) <=> Contains(H, f, OldFutimesat)
               /\ Contains(o, f, OldFutimesat) <=> Contains(r, f, OldFutimesat)
    BY <2>3, AlikeHolding
  <2> QED
    BY <2>3, <2>4 DEF PassesFutimesat
<1> QED
  BY <1>2, <1>3, <1>4, <1>5, <1>6, <1>7 DEF DeclaresAllOnce, FindsWhatItUses

\* Porters of which a few samples tell everything, on versions made of the
\* changes they know.
Versed(p) == p \in FittedPorters \cap SampledPorters /\ Upstream[p] \subseteq Vendorable(p)

LEMMA DoneFits ==
  RepairInv => (Versed(pkg) /\ pc = "done" /\ smooth =>
                  DeclaresAllOnce(pkg, origin, dir) /\ FindsWhatItUses(origin, dir))
<1> SUFFICES ASSUME RepairInv, Versed(pkg), pc = "done", smooth
             PROVE  DeclaresAllOnce(pkg, origin, dir) /\ FindsWhatItUses(origin, dir)
  OBVIOUS
<1>1. /\ pkg \in FittedPorters /\ pkg \in SampledPorters /\ Upstream[pkg] \subseteq Vendorable(pkg)
      /\ pkg \in Packages /\ Fitted(Script[pkg])
  BY DEF Versed, FittedPorters
<1>2. origin \in Vendorable(pkg) /\ goal \in Ported(Script[pkg], {origin})
  BY <1>1 DEF RepairInv, Ground
<1>3. dir.there = goal.there /\ dir.has = goal.has
  BY <1>1, RepairSmooth DEF SmoothEnd
<1>4. DeclaresAllOnce(pkg, origin, goal) /\ FindsWhatItUses(origin, goal)
  BY <1>1, <1>2, VersionFits
<1> QED
  BY <1>3, <1>4, SameDeclares, SameFinds

\* Whatever mixture of the known changes has been vendored, runs that nothing
\* disturbs, the first or a later one, leave each symbol declared once.
THEOREM VersionsDeclareOnce == Spec => [](Versed(pkg) => DeclaredOnce)
<1>1. RepairInv => (Versed(pkg) => DeclaredOnce)
  BY DoneFits DEF DeclaredOnce
<1> QED
  BY <1>1, AlwaysRepair, PTL

\* And the functions it has left in zsyscall_linux_sw64.go find what they use.
THEOREM VersionsDeclareUsed == Spec => [](Versed(pkg) => UsesDeclared)
<1>1. RepairInv => (Versed(pkg) => UsesDeclared)
  BY DoneFits DEF UsesDeclared
<1> QED
  BY <1>1, AlwaysRepair, PTL
=============================================================================
