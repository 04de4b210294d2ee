-------------------------- MODULE EditScript_proofs --------------------------
(***************************************************************************)
(* What the commands of a script, and a run of several of them, do to one  *)
(* file of a directory: what they preserve, what their outcome depends on, *)
(* and when they change nothing.                                           *)
(***************************************************************************)
EXTENDS EditScript, WellFoundedInduction, SequenceTheorems, TLAPS

-----------------------------------------------------------------------------
(* Induction, from the library's theorem that < is well founded.           *)

\* A nonempty set of naturals has a least element.
LEMMA LeastElement ==
  ASSUME NEW T, T \subseteq Nat, T # {}
  PROVE  \E n \in T : \A m \in T : n <= m
<1> DEFINE R == {ss \in Nat \X Nat : ss[1] < ss[2]}
<1>1. IsWellFoundedOn(R, Nat)
  BY NatLessThanWellFounded DEF OpToRel
<1>2. \E x \in T : \A y \in T : ~ (<<y, x>> \in R)
  <2> HIDE DEF R
  <2> QED
    BY <1>1, WFMin
<1>3. \A x, y \in T : <<y, x>> \notin R => x <= y
  OBVIOUS
<1> QED
  BY <1>2, <1>3

\* A set that holds 0 and, with any number, the next one, holds them all.
LEMMA InductiveSet ==
  ASSUME NEW T, 0 \in T, \A n \in Nat : n \in T => n + 1 \in T
  PROVE  Nat \subseteq T
<1> SUFFICES ASSUME Nat \ T # {} PROVE FALSE
  OBVIOUS
<1>1. PICK n \in Nat \ T : \A m \in Nat \ T : n <= m
  BY LeastElement
<1> QED
  BY <1>1

\* Downwards from m.
LEMMA DownwardSet ==
  ASSUME NEW m \in Nat, NEW T, m \in T,
         \A k \in 1..m : k + 1 \in T \/ k = m => k \in T
  PROVE  1..m \subseteq T
<1> DEFINE U == {i \in Nat : i < m => m - i \in T}
<1>1. 0 \in U
  OBVIOUS
<1>2. ASSUME NEW i \in Nat, i \in U PROVE i + 1 \in U
  <2> SUFFICES ASSUME i + 1 < m PROVE m - (i + 1) \in T
    OBVIOUS
  <2>1. m - i \in T /\ m - (i + 1) \in 1..m /\ (m - (i + 1)) + 1 = m - i
    BY <1>2
  <2> QED
    BY <2>1
<1>3. Nat \subseteq U
  <2> HIDE DEF U
  <2> QED
    BY <1>1, <1>2, InductiveSet
<1>4. \A k \in 1..m : m - k \in Nat /\ m - k < m /\ m - (m - k) = k
  OBVIOUS
<1> QED
  BY <1>3, <1>4

-----------------------------------------------------------------------------
(* Runs of several commands.                                               *)

\* f lists what the commands of q make of the directories D, from the k-th on.
IsRun(f, q, k, m, D) ==
  f = [j \in k..m |-> IF j = k THEN D ELSE RunCommand(q[j - 1], f[j - 1])]

LEMMA RunExists ==
  ASSUME NEW q, NEW k \in Nat, NEW D, NEW m \in Nat, k <= m
  PROVE  \E f : IsRun(f, q, k, m, D)
<1> DEFINE T == {i \in Nat : \E f : IsRun(f, q, k, k + i, D)}
<1>1. 0 \in T
  <2> DEFINE f == [j \in k..(k + 0) |-> D]
  <2>1. IsRun(f, q, k, k + 0, D)
    BY DEF IsRun
  <2> QED
    BY <2>1
<1>2. ASSUME NEW i \in Nat, i \in T PROVE i + 1 \in T
  <2>1. PICK f : IsRun(f, q, k, k + i, D)
    BY <1>2
  <2> DEFINE n == k + (i + 1)
             next == RunCommand(q[n - 1], f[n - 1])
             g == [j \in k..n |-> IF j = n THEN next ELSE f[j]]
  <2>2. f = [j \in k..(k + i) |-> IF j = k THEN D ELSE RunCommand(q[j - 1], f[j - 1])]
    BY <2>1 DEF IsRun
  <2>3. ASSUME NEW j \in k..n
        PROVE  g[j] = IF j = k THEN D ELSE RunCommand(q[j - 1], g[j - 1])
    <3>1. CASE j = n
      <4>1. j # k /\ j - 1 \in k..n /\ j - 1 # n
        BY <3>1
      <4>2. g[j - 1] = f[n - 1] /\ g[j] = next
        BY <3>1, <4>1
      <4> QED
        BY <3>1, <4>1, <4>2
    <3>2. CASE j # n
      <4>1. j \in k..(k + i) /\ g[j] = f[j]
        BY <3>2
      <4>2. j # k => g[j - 1] = f[j - 1]
        BY <3>2
      <4> QED
        BY <2>2, <4>1, <4>2
    <3> QED
      BY <3>1, <3>2
  <2>4. IsRun(g, q, k, n, D)
    BY <2>3 DEF IsRun
  <2> QED
    BY <2>4
<1>3. Nat \subseteq T
  <2> HIDE DEF T
  <2> QED
    BY <1>1, <1>2, InductiveSet
<1>4. m - k \in Nat /\ k + (m - k) = m
  OBVIOUS
<1> QED
  BY <1>3, <1>4

LEMMA RunEquations ==
  ASSUME NEW q, NEW k \in Nat, NEW D, NEW m \in Nat, k <= m, NEW f, IsRun(f, q, k, m, D)
  PROVE  /\ f[k] = D
         /\ \A j \in (k + 1)..m : f[j] = RunCommand(q[j - 1], f[j - 1])
<1>1. \A j \in k..m : f[j] = IF j = k THEN D ELSE RunCommand(q[j - 1], f[j - 1])
  BY DEF IsRun
<1>2. k \in k..m
  OBVIOUS
<1>3. f[k] = D
  BY <1>1, <1>2, Zenon
<1>4. ASSUME NEW j \in (k + 1)..m PROVE f[j] = RunCommand(q[j - 1], f[j - 1])
  <2>1. j \in k..m /\ j # k
    OBVIOUS
  <2> QED
    BY <1>1, <2>1, Zenon
<1> QED
  BY <1>3, <1>4

LEMMA RunFromIsRun ==
  ASSUME NEW q, Len(q) \in Nat, NEW k \in 1..(Len(q) + 1), NEW D
  PROVE  \E f : IsRun(f, q, k, Len(q) + 1, D) /\ RunFrom(q, k, D) = f[Len(q) + 1]
<1> DEFINE f == CHOOSE g : IsRun(g, q, k, Len(q) + 1, D)
<1>0. k \in Nat /\ Len(q) + 1 \in Nat /\ k <= Len(q) + 1
  OBVIOUS
<1>1. IsRun(f, q, k, Len(q) + 1, D)
  <2>1. \E g : IsRun(g, q, k, Len(q) + 1, D)
    BY <1>0, RunExists
  <2> QED
    BY <2>1
<1>2. RunFrom(q, k, D) = f[Len(q) + 1]
  BY DEF RunFrom, IsRun
<1> QED
  BY <1>1, <1>2
\* Behind the last command nothing is left to run.
LEMMA RunFromEnd ==
  ASSUME NEW q, Len(q) \in Nat, NEW D
  PROVE  RunFrom(q, Len(q) + 1, D) = D
<1>1. Len(q) + 1 \in 1..(Len(q) + 1)
  OBVIOUS
<1>2. PICK f : IsRun(f, q, Len(q) + 1, Len(q) + 1, D) /\ RunFrom(q, Len(q) + 1, D) = f[Len(q) + 1]
  BY <1>1, RunFromIsRun
<1> QED
  BY <1>2 DEF IsRun

\* The first command, then the others.
LEMMA RunFromStep ==
  ASSUME NEW q, Len(q) \in Nat, NEW k \in 1..Len(q), NEW D
  PROVE  RunFrom(q, k, D) = RunFrom(q, k + 1, RunCommand(q[k], D))
<1> DEFINE E == RunCommand(q[k], D)
           m == Len(q) + 1
<1>0. k \in 1..m /\ k + 1 \in 1..m /\ m \in Nat /\ k \in Nat
  OBVIOUS
<1>1. PICK f : IsRun(f, q, k, m, D) /\ RunFrom(q, k, D) = f[m]
  BY <1>0, RunFromIsRun
<1>2. PICK g : IsRun(g, q, k + 1, m, E) /\ RunFrom(q, k + 1, E) = g[m]
  BY <1>0, RunFromIsRun
<1> DEFINE T == {i \in Nat : (k + 1) + i <= m => f[(k + 1) + i] = g[(k + 1) + i]}
<1>3. f[k] = D /\ \A j \in (k + 1)..m : f[j] = RunCommand(q[j - 1], f[j - 1])
  BY <1>0, <1>1, RunEquations
<1>4. g[k + 1] = E /\ \A j \in (k + 2)..m : g[j] = RunCommand(q[j - 1], g[j - 1])
  <2>1. k + 1 \in Nat /\ k + 1 <= m /\ (k + 1) + 1 = k + 2
    BY <1>0
  <2>2. g[k + 1] = E /\ \A j \in ((k + 1) + 1)..m : g[j] = RunCommand(q[j - 1], g[j - 1])
    BY <1>0, <1>2, <2>1, RunEquations
  <2> QED
    BY <2>1, <2>2
<1>5. 0 \in T
  <2>1. k + 1 \in (k + 1)..m /\ (k + 1) - 1 = k /\ (k + 1) + 0 = k + 1
    BY <1>0
  <2>2. f[k + 1] = RunCommand(q[(k + 1) - 1], f[(k + 1) - 1])
    BY <1>3, <2>1
  <2> QED
    BY <1>3, <1>4, <2>1, <2>2
<1>6. ASSUME NEW i \in Nat, i \in T PROVE i + 1 \in T
  <2> DEFINE j == (k + 1) + (i + 1)
  <2> SUFFICES ASSUME j <= m PROVE f[j] = g[j]
    OBVIOUS
  <2>1. /\ j \in (k + 1)..m /\ j \in (k + 2)..m
        /\ j - 1 = (k + 1) + i /\ (k + 1) + i <= m
    BY <1>0
  <2>2. f[j - 1] = g[j - 1]
    BY <1>6, <2>1
  <2>3. f[j] = RunCommand(q[j - 1], f[j - 1]) /\ g[j] = RunCommand(q[j - 1], g[j - 1])
    BY <1>3, <1>4, <2>1
  <2> QED
    BY <2>2, <2>3
<1>7. Nat \subseteq T
  <2> HIDE DEF T
  <2> QED
    BY <1>5, <1>6, InductiveSet
<1>8. Len(q) - k \in Nat /\ (k + 1) + (Len(q) - k) = m
  BY <1>0
<1>9. f[m] = g[m]
  <2>1. Len(q) - k \in T
    BY <1>7, <1>8
  <2>2. (k + 1) + (Len(q) - k) <= m
    BY <1>0
  <2> QED
    BY <1>8, <2>1, <2>2
<1> QED
  BY <1>1, <1>2, <1>9

\* A run on one directory has one outcome.
Result(commands, k, dir) == CHOOSE e \in RunFrom(commands, k, {dir}) : TRUE

LEMMA ResultEnd ==
  ASSUME NEW q, Len(q) \in Nat, NEW d
  PROVE  Result(q, Len(q) + 1, d) = d
BY RunFromEnd DEF Result

LEMMA ResultStep ==
  ASSUME NEW q, Len(q) \in Nat, NEW k \in 1..Len(q), NEW d
  PROVE  Result(q, k, d) = Result(q, k + 1, After(q[k], d))
<1>1. RunCommand(q[k], {d}) = {After(q[k], d)}
  BY DEF RunCommand
<1>2. RunFrom(q, k, {d}) = RunFrom(q, k + 1, RunCommand(q[k], {d}))
  BY RunFromStep
<1> QED
  BY <1>1, <1>2 DEF Result

LEMMA RunFromOne ==
  ASSUME NEW q, Len(q) \in Nat, NEW k \in 1..(Len(q) + 1), NEW d
  PROVE  RunFrom(q, k, {d}) = {Result(q, k, d)}
<1> DEFINE T == {j \in 1..(Len(q) + 1) : \A e : \E x : RunFrom(q, j, {e}) = {x}}
           m == Len(q) + 1
<1>1. m \in T
  <2>1. m \in 1..m
    OBVIOUS
  <2>2. \A e : RunFrom(q, m, {e}) = {e}
    BY RunFromEnd
  <2> QED
    BY <2>1, <2>2
<1>2. ASSUME NEW j \in 1..m, j + 1 \in T \/ j = m PROVE j \in T
  <2> SUFFICES ASSUME j # m, NEW e PROVE \E x : RunFrom(q, j, {e}) = {x}
    BY <1>1
  <2>1. j + 1 \in T
    <3> HIDE DEF T
    <3> QED
      BY <1>2
  <2>2. j \in 1..Len(q)
    OBVIOUS
  <2>3. RunFrom(q, j, {e}) = RunFrom(q, j + 1, RunCommand(q[j], {e}))
    BY <2>2, RunFromStep
  <2>4. RunCommand(q[j], {e}) = {After(q[j], e)}
    BY DEF RunCommand
  <2> QED
    BY <2>1, <2>3, <2>4
<1>3. 1..m \subseteq T
  <2>1. m \in Nat
    OBVIOUS
  <2> HIDE DEF T, m
  <2> QED
    BY <1>1, <1>2, <2>1, DownwardSet
<1>4. PICK x : RunFrom(q, k, {d}) = {x}
  BY <1>3
<1> QED
  BY <1>4 DEF Result

\* What a compound command makes of one directory.
BlockResult(block, dir) ==
  IF AllHold(block.guard, dir) THEN Result(block.commands, 1, dir) ELSE dir

LEMMA RunBlockOne ==
  ASSUME NEW block, Len(block.commands) \in Nat, NEW d
  PROVE  RunBlock(block, {d}) = {BlockResult(block, d)}
<1>0. 1 \in 1..(Len(block.commands) + 1)
  OBVIOUS
<1>1. AllHold(block.guard, d) => RunFrom(block.commands, 1, {d}) = {Result(block.commands, 1, d)}
  BY <1>0, RunFromOne
<1> QED
  BY <1>1 DEF RunBlock, BlockResult
-----------------------------------------------------------------------------
(* One file of a directory.                                                *)

LEMMA PartEqual ==
  ASSUME NEW f, NEW d, NEW e
  PROVE  Part(f, d) = Part(f, e) <=>
           /\ f \in d.there <=> f \in e.there
           /\ \A x : x[1] = f => (x \in d.has <=> x \in e.has) /\ (x \in d.twice <=> x \in e.twice)
<1>1. ASSUME Part(f, d) = Part(f, e)
      PROVE  /\ f \in d.there <=> f \in e.there
             /\ \A x : x[1] = f => (x \in d.has <=> x \in e.has) /\ (x \in d.twice <=> x \in e.twice)
  <2>1. /\ Part(f, d).there = Part(f, e).there
        /\ Part(f, d).has = Part(f, e).has
        /\ Part(f, d).twice = Part(f, e).twice
    BY <1>1
  <2> QED
    BY <2>1 DEF Part
<1>2. ASSUME /\ f \in d.there <=> f \in e.there
             /\ \A x : x[1] = f => (x \in d.has <=> x \in e.has) /\ (x \in d.twice <=> x \in e.twice)
      PROVE  Part(f, d) = Part(f, e)
  <2>1. {x \in d.has : x[1] = f} = {x \in e.has : x[1] = f}
    BY <1>2
  <2>2. {x \in d.twice : x[1] = f} = {x \in e.twice : x[1] = f}
    BY <1>2
  <2>3. (f \in d.there) = (f \in e.there)
    BY <1>2
  <2> QED
    BY <2>1, <2>2, <2>3 DEF Part
<1> QED
  BY <1>1, <1>2

\* Directories that agree on some files.
Agree(F, d, e) == \A f \in F : Part(f, d) = Part(f, e)

\* A test depends on the files it names.
LEMMA HoldsAgree ==
  ASSUME NEW t, NEW d, NEW e, Agree(t.files, d, e)
  PROVE  Holds(t, d) <=> Holds(t, e)
<1>1. \A f \in t.files : /\ f \in d.there <=> f \in e.there
                         /\ <<f, t.word>> \in d.has <=> <<f, t.word>> \in e.has
  <2> SUFFICES ASSUME NEW f \in t.files
               PROVE  /\ f \in d.there <=> f \in e.there
                      /\ <<f, t.word>> \in d.has <=> <<f, t.word>> \in e.has
    OBVIOUS
  <2>1. Part(f, d) = Part(f, e) /\ <<f, t.word>>[1] = f
    BY DEF Agree
  <2> QED
    BY <2>1, PartEqual
<1>2. t.files \cap d.there = t.files \cap e.there
  BY <1>1
<1>3. (t.files \X {t.word}) \cap d.has = (t.files \X {t.word}) \cap e.has
  BY <1>1
<1> QED
  BY <1>2, <1>3 DEF Holds

LEMMA AllHoldAgree ==
  ASSUME NEW tests, NEW d, NEW e, \A t \in tests : Agree(t.files, d, e)
  PROVE  AllHold(tests, d) <=> AllHold(tests, e)
BY HoldsAgree DEF AllHold

\* What an edit in place does to the pairs of a directory.
LEMMA InPlaceEffect ==
  ASSUME NEW c, InPlace(c), NEW d
  PROVE  /\ Effect(c, d).there = d.there \cup {c.file}
         /\ \A x : x \in Effect(c, d).has <=> (x \in d.has /\ ~Erases(c, x)) \/ x \in Writes(c, d)
         /\ \A x : x \in Effect(c, d).twice <=>
              ~Erases(c, x) /\ (x \in d.twice \/ (x \in d.has /\ x \in Writes(c, d)))
         /\ \A x : Erases(c, x) \/ x \in Writes(c, d) => x[1] = c.file
<1>1. \A P : Kept(c, P) = {x \in P : ~Erases(c, x)}
  BY DEF InPlace, Kept, Brings
<1>2. \A x : Erases(c, x) \/ x \in Writes(c, d) => x[1] = c.file
  BY DEF InPlace, Erases, Writes
<1>3. d.there \ (IF c.op = "move" THEN {c.from} ELSE {}) = d.there
  BY DEF InPlace
<1> QED
  BY <1>1, <1>2, <1>3 DEF Effect

\* An edit in place leaves the other files alone.
LEMMA AfterElsewhere ==
  ASSUME NEW c, InPlace(c), NEW d, NEW f, f # c.file
  PROVE  Part(f, After(c, d)) = Part(f, d)
<1>1. Part(f, Effect(c, d)) = Part(f, d)
  BY InPlaceEffect, PartEqual
<1> QED
  BY <1>1 DEF After

\* What it makes of its own file depends on that file and those it tests.
LEMMA AfterAgree ==
  ASSUME NEW c, InPlace(c), NEW d, NEW e,
         Part(c.file, d) = Part(c.file, e),
         \A t \in c.when : Agree(t.files, d, e)
  PROVE  Part(c.file, After(c, d)) = Part(c.file, After(c, e))
<1> DEFINE f == c.file
<1>0. /\ f \in d.there <=> f \in e.there
      /\ \A x : x[1] = f => (x \in d.has <=> x \in e.has) /\ (x \in d.twice <=> x \in e.twice)
  BY PartEqual
<1>1. AllHold(c.when, d) <=> AllHold(c.when, e)
  BY AllHoldAgree
<1>2. CanRun(c, d) <=> CanRun(c, e)
  BY <1>0 DEF CanRun, InPlace
<1>3. Writes(c, d) = Writes(c, e)
  <2>1. <<f, c.at>>[1] = f
    OBVIOUS
  <2>2. <<f, c.at>> \in d.has <=> <<f, c.at>> \in e.has
    BY <1>0, <2>1
  <2> QED
    BY <2>2 DEF Writes
<1>4. Part(f, Effect(c, d)) = Part(f, Effect(c, e))
  <2>1. f \in Effect(c, d).there <=> f \in Effect(c, e).there
    BY InPlaceEffect
  <2>2. ASSUME NEW x, x[1] = f
        PROVE  /\ x \in Effect(c, d).has <=> x \in Effect(c, e).has
               /\ x \in Effect(c, d).twice <=> x \in Effect(c, e).twice
    BY <1>0, <1>3, <2>2, InPlaceEffect
  <2> QED
    BY <2>1, <2>2, PartEqual
<1> QED
  BY <1>1, <1>2, <1>4 DEF After

-----------------------------------------------------------------------------
(* Commands with nothing left to do.                                       *)

Proper(d) ==
  /\ d = [there |-> d.there, has |-> d.has, twice |-> d.twice]
  /\ d.twice \subseteq d.has

LEMMA AfterProper ==
  ASSUME NEW c, InPlace(c), NEW d, Proper(d)
  PROVE  Proper(After(c, d))
<1>1. Effect(c, d).twice \subseteq Effect(c, d).has
  BY InPlaceEffect DEF Proper
<1>2. Effect(c, d) = [there |-> Effect(c, d).there, has |-> Effect(c, d).has,
                      twice |-> Effect(c, d).twice]
  BY DEF Effect
<1> QED
  BY <1>1, <1>2 DEF After, Proper

\* An edit whose pattern matches no line changes nothing.
LEMMA UnmatchedEdit ==
  ASSUME NEW c, c.op \in {"after", "subst"}, NEW d, Proper(d),
         CanRun(c, d), <<c.file, c.at>> \notin d.has
  PROVE  Effect(c, d) = d
<1>1. InPlace(c) /\ c.file \in d.there
  BY DEF InPlace, CanRun
<1>2. Writes(c, d) = {}
  BY DEF Writes
<1>3. \A x \in d.has : ~Erases(c, x)
  BY DEF Erases
<1>4. /\ \A x : x \in Effect(c, d).there <=> x \in d.there
      /\ \A x : x \in Effect(c, d).has <=> x \in d.has
      /\ \A x : x \in Effect(c, d).twice <=> x \in d.twice
  BY <1>1, <1>2, <1>3, InPlaceEffect DEF Proper
<1>5. /\ Effect(c, d).there = d.there
      /\ Effect(c, d).has = d.has
      /\ Effect(c, d).twice = d.twice
  BY <1>4
<1>7. Effect(c, d) = [there |-> Effect(c, d).there, has |-> Effect(c, d).has,
                      twice |-> Effect(c, d).twice]
  BY DEF Effect
<1> QED
  BY <1>5, <1>7 DEF Proper

\* An edit in place that changes something was called for and writes its text.
LEMMA IdleOrWrites ==
  ASSUME NEW c, InPlace(c), NEW d, Proper(d), After(c, d) # d
  PROVE  /\ AllHold(c.when, d) /\ CanRun(c, d)
         /\ After(c, d) = Effect(c, d)
         /\ {c.file} \X c.new \subseteq After(c, d).has
<1>1. AllHold(c.when, d) /\ CanRun(c, d) /\ After(c, d) = Effect(c, d)
  BY DEF After
<1>2. ~(c.op \in {"after", "subst"} /\ <<c.file, c.at>> \notin d.has)
  BY <1>1, UnmatchedEdit
<1>3. Writes(c, d) = {c.file} \X c.new
  BY <1>2 DEF Writes
<1> QED
  BY <1>1, <1>3, InPlaceEffect

\* A substitution that does not write its own pattern has nothing left to do
\* exactly when the pattern is gone, or its tests keep it from running.
LEMMA SettledSubst ==
  ASSUME NEW c, c.op = "subst", c.at \notin c.new, NEW d, Proper(d)
  PROVE  After(c, d) = d <=>
           ~(AllHold(c.when, d) /\ c.file \in d.there /\ <<c.file, c.at>> \in d.has)
<1>0. CanRun(c, d) <=> c.file \in d.there
  BY DEF CanRun
<1>1. CASE AllHold(c.when, d) /\ c.file \in d.there /\ <<c.file, c.at>> \in d.has
  <2>1. InPlace(c) /\ After(c, d) = Effect(c, d)
    BY <1>0, <1>1 DEF InPlace, After
  <2>2. Erases(c, <<c.file, c.at>>) /\ <<c.file, c.at>> \notin Writes(c, d)
    BY DEF Erases, Writes
  <2>3. <<c.file, c.at>> \notin Effect(c, d).has
    BY <2>1, <2>2, InPlaceEffect
  <2> QED
    BY <1>1, <2>1, <2>3
<1>2. CASE ~(AllHold(c.when, d) /\ c.file \in d.there)
  BY <1>0, <1>2 DEF After
<1>3. CASE c.file \in d.there /\ <<c.file, c.at>> \notin d.has
  BY <1>0, <1>3, UnmatchedEdit DEF After
<1> QED
  BY <1>1, <1>2, <1>3

-----------------------------------------------------------------------------
(* Commands on one file.                                                   *)

\* Commands that all edit file f in place.
AllOn(f, q) == \A k \in 1..Len(q) : InPlace(q[k]) /\ q[k].file = f

\* The files that the commands and f depend on are in F.
Within(F, f, q) == f \in F /\ \A k \in 1..Len(q) : \A t \in q[k].when : t.files \subseteq F

LEMMA ResultElsewhere ==
  ASSUME NEW q, Len(q) \in Nat, NEW f, AllOn(f, q), NEW g, g # f,
         NEW k \in 1..(Len(q) + 1), NEW d
  PROVE  Part(g, Result(q, k, d)) = Part(g, d)
<1> DEFINE m == Len(q) + 1
           T == {j \in 1..m : \A e : Part(g, Result(q, j, e)) = Part(g, e)}
<1>1. m \in T
  BY ResultEnd
<1>2. ASSUME NEW j \in 1..m, j + 1 \in T \/ j = m PROVE j \in T
  <2> SUFFICES ASSUME j # m, NEW e PROVE Part(g, Result(q, j, e)) = Part(g, e)
    BY <1>1
  <2>1. j \in 1..Len(q)
    OBVIOUS
  <2>2. Result(q, j, e) = Result(q, j + 1, After(q[j], e))
    BY <2>1, ResultStep
  <2>3. j + 1 \in T
    <3> HIDE DEF T
    <3> QED
      BY <1>2
  <2>4. Part(g, After(q[j], e)) = Part(g, e)
    BY <2>1, AfterElsewhere DEF AllOn
  <2> QED
    BY <2>2, <2>3, <2>4
<1>3. 1..m \subseteq T
  <2>1. m \in Nat
    OBVIOUS
  <2> HIDE DEF T, m
  <2> QED
    BY <1>1, <1>2, <2>1, DownwardSet
<1> QED
  BY <1>3

LEMMA AfterWithin ==
  ASSUME NEW q, NEW f, AllOn(f, q), NEW F, Within(F, f, q), NEW k \in 1..Len(q),
         NEW d, NEW e, Agree(F, d, e)
  PROVE  Agree(F, After(q[k], d), After(q[k], e))
<1>1. InPlace(q[k]) /\ q[k].file = f /\ f \in F
  BY DEF AllOn, Within
<1>2. \A t \in q[k].when : Agree(t.files, d, e)
  BY DEF Within, Agree
<1>3. Part(f, After(q[k], d)) = Part(f, After(q[k], e))
  BY <1>1, <1>2, AfterAgree DEF Agree
<1>4. \A g \in F : g # f => /\ Part(g, After(q[k], d)) = Part(g, d)
                            /\ Part(g, After(q[k], e)) = Part(g, e)
  BY <1>1, AfterElsewhere
<1> QED
  BY <1>3, <1>4 DEF Agree

LEMMA ResultWithin ==
  ASSUME NEW q, Len(q) \in Nat, NEW f, AllOn(f, q), NEW F, Within(F, f, q),
         NEW k \in 1..(Len(q) + 1), NEW d, NEW e, Agree(F, d, e)
  PROVE  Part(f, Result(q, k, d)) = Part(f, Result(q, k, e))
<1> DEFINE m == Len(q) + 1
           T == {j \in 1..m : \A x, y : Agree(F, x, y) =>
                                Agree(F, Result(q, j, x), Result(q, j, y))}
<1>1. m \in T
  BY ResultEnd
<1>2. ASSUME NEW j \in 1..m, j + 1 \in T \/ j = m PROVE j \in T
  <2> SUFFICES ASSUME j # m, NEW x, NEW y, Agree(F, x, y)
               PROVE  Agree(F, Result(q, j, x), Result(q, j, y))
    BY <1>1
  <2>1. j \in 1..Len(q)
    OBVIOUS
  <2>2. /\ Result(q, j, x) = Result(q, j + 1, After(q[j], x))
        /\ Result(q, j, y) = Result(q, j + 1, After(q[j], y))
    BY <2>1, ResultStep
  <2>3. j + 1 \in T
    <3> HIDE DEF T
    <3> QED
      BY <1>2
  <2>4. Agree(F, After(q[j], x), After(q[j], y))
    BY <2>1, AfterWithin
  <2> QED
    BY <2>2, <2>3, <2>4
<1>3. 1..m \subseteq T
  <2>1. m \in Nat
    OBVIOUS
  <2> HIDE DEF T, m
  <2> QED
    BY <1>1, <1>2, <2>1, DownwardSet
<1>4. Agree(F, Result(q, k, d), Result(q, k, e))
  BY <1>3
<1> QED
  BY <1>4 DEF Agree, Within

\* Commands with nothing left to do can be left out.
LEMMA ResultSettled ==
  ASSUME NEW q, Len(q) \in Nat, NEW k \in 1..(Len(q) + 1), NEW n \in k..(Len(q) + 1), NEW d,
         \A j \in k..(n - 1) : After(q[j], d) = d
  PROVE  Result(q, k, d) = Result(q, n, d)
<1> DEFINE T == {i \in Nat : k + i <= n => Result(q, k, d) = Result(q, k + i, d)}
<1>1. 0 \in T
  OBVIOUS
<1>2. ASSUME NEW i \in Nat, i \in T PROVE i + 1 \in T
  <2> SUFFICES ASSUME k + (i + 1) <= n
               PROVE  Result(q, k, d) = Result(q, k + (i + 1), d)
    OBVIOUS
  <2>1. k + i \in 1..Len(q) /\ k + i \in k..(n - 1) /\ (k + i) + 1 = k + (i + 1)
    OBVIOUS
  <2>2. Result(q, k + i, d) = Result(q, (k + i) + 1, d)
    BY <2>1, ResultStep
  <2>3. Result(q, k, d) = Result(q, k + i, d)
    BY <1>2
  <2> QED
    BY <2>1, <2>2, <2>3
<1>3. Nat \subseteq T
  <2> HIDE DEF T
  <2> QED
    BY <1>1, <1>2, InductiveSet
<1>4. n - k \in Nat /\ k + (n - k) = n
  OBVIOUS
<1> QED
  BY <1>3, <1>4

\* What a set of directories is closed under, a run does not leave.
LEMMA ResultInside ==
  ASSUME NEW q, Len(q) \in Nat, NEW D, \A k \in 1..Len(q) : \A d \in D : After(q[k], d) \in D,
         NEW k \in 1..(Len(q) + 1), NEW d \in D
  PROVE  Result(q, k, d) \in D
<1> DEFINE m == Len(q) + 1
           T == {j \in 1..m : \A e \in D : Result(q, j, e) \in D}
<1>1. m \in T
  BY ResultEnd
<1>2. ASSUME NEW j \in 1..m, j + 1 \in T \/ j = m PROVE j \in T
  <2> SUFFICES ASSUME j # m, NEW e \in D PROVE Result(q, j, e) \in D
    BY <1>1
  <2>1. j \in 1..Len(q)
    OBVIOUS
  <2>2. Result(q, j, e) = Result(q, j + 1, After(q[j], e))
    BY <2>1, ResultStep
  <2>3. j + 1 \in T
    <3> HIDE DEF T
    <3> QED
      BY <1>2
  <2> QED
    BY <2>1, <2>2, <2>3
<1>3. 1..m \subseteq T
  <2>1. m \in Nat
    OBVIOUS
  <2> HIDE DEF T, m
  <2> QED
    BY <1>1, <1>2, <2>1, DownwardSet
<1> QED
  BY <1>3

\* What each command hands on to the next one, a run ends with.
LEMMA ResultThrough ==
  ASSUME NEW q, Len(q) \in Nat, NEW D,
         \A k \in 1..Len(q) : \A d \in D[k] : After(q[k], d) \in D[k + 1],
         NEW d \in D[1]
  PROVE  Result(q, 1, d) \in D[Len(q) + 1]
<1> DEFINE m == Len(q) + 1
           T == {j \in 1..m : \A e \in D[j] : Result(q, j, e) \in D[m]}
<1>1. m \in T
  BY ResultEnd
<1>2. ASSUME NEW j \in 1..m, j + 1 \in T \/ j = m PROVE j \in T
  <2> SUFFICES ASSUME j # m, NEW e \in D[j] PROVE Result(q, j, e) \in D[m]
    BY <1>1
  <2>1. j \in 1..Len(q)
    OBVIOUS
  <2>2. Result(q, j, e) = Result(q, j + 1, After(q[j], e))
    BY <2>1, ResultStep
  <2>3. j + 1 \in T
    <3> HIDE DEF T
    <3> QED
      BY <1>2
  <2> QED
    BY <2>1, <2>2, <2>3
<1>3. 1..m \subseteq T
  <2>1. m \in Nat
    OBVIOUS
  <2> HIDE DEF T, m
  <2> QED
    BY <1>1, <1>2, <2>1, DownwardSet
<1> QED
  BY <1>3

-----------------------------------------------------------------------------
(* Compound commands.                                                      *)

LEMMA BlockFiles ==
  ASSUME NEW block, Len(block.commands) \in Nat
  PROVE  /\ Within(FilesIn(block), FileOf(block), block.commands)
         /\ \A t \in block.guard : t.files \subseteq FilesIn(block)
         /\ \A k \in 1..Len(block.commands) : block.commands[k] \in CommandsIn(block)
         /\ \A k \in 1..Len(block.commands) : block.commands[k].when \subseteq TestsIn(block)
         /\ block.guard \subseteq TestsIn(block)
<1>1. \A k \in 1..Len(block.commands) : block.commands[k] \in CommandsIn(block)
  BY DEF CommandsIn
<1>2. block.guard \subseteq TestsIn(block)
  BY DEF TestsIn
<1>3. \A k \in 1..Len(block.commands) : block.commands[k].when \subseteq TestsIn(block)
  BY <1>1 DEF TestsIn
<1>4. \A t \in TestsIn(block) : t.files \subseteq FilesIn(block)
  BY DEF FilesIn
<1>5. FileOf(block) \in FilesIn(block)
  BY DEF FilesIn
<1> QED
  BY <1>1, <1>2, <1>3, <1>4, <1>5 DEF Within

LEMMA BlockElsewhere ==
  ASSUME NEW block, Len(block.commands) \in Nat, NEW f, AllOn(f, block.commands),
         NEW g, g # f, NEW d
  PROVE  Part(g, BlockResult(block, d)) = Part(g, d)
<1>1. 1 \in 1..(Len(block.commands) + 1)
  OBVIOUS
<1>2. Part(g, Result(block.commands, 1, d)) = Part(g, d)
  BY <1>1, ResultElsewhere
<1> QED
  BY <1>2 DEF BlockResult

LEMMA BlockAgree ==
  ASSUME NEW block, Len(block.commands) \in Nat, AllOn(FileOf(block), block.commands),
         NEW d, NEW e, Agree(FilesIn(block), d, e)
  PROVE  Part(FileOf(block), BlockResult(block, d)) = Part(FileOf(block), BlockResult(block, e))
<1>1. 1 \in 1..(Len(block.commands) + 1)
  OBVIOUS
<1>2. Part(FileOf(block), Result(block.commands, 1, d)) = Part(FileOf(block), Result(block.commands, 1, e))
  BY <1>1, BlockFiles, ResultWithin
<1>3. AllHold(block.guard, d) <=> AllHold(block.guard, e)
  <2>1. \A t \in block.guard : Agree(t.files, d, e)
    BY BlockFiles DEF Agree
  <2> QED
    BY <2>1, AllHoldAgree
<1>4. Part(FileOf(block), d) = Part(FileOf(block), e)
  BY BlockFiles DEF Agree, Within
<1> QED
  BY <1>2, <1>3, <1>4 DEF BlockResult

-----------------------------------------------------------------------------
(* Whole scripts.                                                          *)

IsPort(f, script, m, D) ==
  f = [b \in 0..m |-> IF b = 0 THEN D ELSE RunBlock(script[b], f[b - 1])]

LEMMA PortExists ==
  ASSUME NEW script, NEW D, NEW m \in Nat
  PROVE  \E f : IsPort(f, script, m, D)
<1> DEFINE T == {i \in Nat : \E f : IsPort(f, script, i, D)}
<1>1. 0 \in T
  <2> DEFINE f == [b \in 0..0 |-> D]
  <2>1. IsPort(f, script, 0, D)
    BY DEF IsPort
  <2> QED
    BY <2>1
<1>2. ASSUME NEW i \in Nat, i \in T PROVE i + 1 \in T
  <2>1. PICK f : IsPort(f, script, i, D)
    BY <1>2
  <2> DEFINE n == i + 1
             next == RunBlock(script[n], f[i])
             g == [b \in 0..n |-> IF b = n THEN next ELSE f[b]]
  <2>2. f = [b \in 0..i |-> IF b = 0 THEN D ELSE RunBlock(script[b], f[b - 1])]
    BY <2>1 DEF IsPort
  <2>3. ASSUME NEW b \in 0..n
        PROVE  g[b] = IF b = 0 THEN D ELSE RunBlock(script[b], g[b - 1])
    <3>1. CASE b = n
      <4>1. b # 0 /\ b - 1 = i /\ b - 1 \in 0..n /\ b - 1 # n
        BY <3>1
      <4>2. g[b - 1] = f[i] /\ g[b] = next
        BY <3>1, <4>1
      <4> QED
        BY <3>1, <4>1, <4>2
    <3>2. CASE b # n
      <4>1. b \in 0..i /\ g[b] = f[b]
        BY <3>2
      <4>2. b # 0 => g[b - 1] = f[b - 1]
        BY <3>2
      <4> QED
        BY <2>2, <4>1, <4>2
    <3> QED
      BY <3>1, <3>2
  <2>4. IsPort(g, script, n, D)
    BY <2>3 DEF IsPort
  <2> QED
    BY <2>4
<1>3. Nat \subseteq T
  <2> HIDE DEF T
  <2> QED
    BY <1>1, <1>2, InductiveSet
<1> QED
  BY <1>3

LEMMA PortedIsPort ==
  ASSUME NEW script, Len(script) \in Nat, NEW D
  PROVE  \E f : /\ Ported(script, D) = f[Len(script)]
                /\ f[0] = D
                /\ \A b \in 1..Len(script) : f[b] = RunBlock(script[b], f[b - 1])
<1> DEFINE m == Len(script)
           f == CHOOSE g : IsPort(g, script, m, D)
<1>1. IsPort(f, script, m, D)
  <2>1. \E g : IsPort(g, script, m, D)
    BY PortExists
  <2> QED
    BY <2>1
<1>2. Ported(script, D) = f[m]
  BY DEF Ported, IsPort
<1>3. \A b \in 0..m : f[b] = IF b = 0 THEN D ELSE RunBlock(script[b], f[b - 1])
  <2> HIDE DEF f
  <2> QED
    BY <1>1 DEF IsPort
<1>4. 0 \in 0..m /\ \A b \in 1..m : b \in 0..m /\ b # 0
  OBVIOUS
<1>5. f[0] = D /\ \A b \in 1..m : f[b] = RunBlock(script[b], f[b - 1])
  <2> HIDE DEF f, m
  <2> QED
    BY <1>3, <1>4
<1> QED
  BY <1>2, <1>5

\* The directories that a run passes through between two compound commands.
IsCourse(g, script, d) ==
  /\ g[0] = d
  /\ \A b \in 1..Len(script) : g[b] = BlockResult(script[b], g[b - 1])

\* A run from one directory takes one course, and ends where it ends.
LEMMA CourseEnd ==
  ASSUME NEW script, Len(script) \in Nat, \A b \in 1..Len(script) : Len(script[b].commands) \in Nat,
         NEW d, NEW g, IsCourse(g, script, d)
  PROVE  Ported(script, {d}) = {g[Len(script)]}
<1> DEFINE m == Len(script)
<1>1. PICK f : /\ Ported(script, {d}) = f[m]
               /\ f[0] = {d}
               /\ \A b \in 1..m : f[b] = RunBlock(script[b], f[b - 1])
  <2> DEFINE D == {d}
  <2>1. \E f : /\ Ported(script, D) = f[m]
               /\ f[0] = D
               /\ \A b \in 1..m : f[b] = RunBlock(script[b], f[b - 1])
    <3> HIDE DEF D
    <3> QED
      BY PortedIsPort
  <2> QED
    BY <2>1
<1> DEFINE T == {i \in Nat : i <= m => f[i] = {g[i]}}
<1>2. 0 \in T
  BY <1>1 DEF IsCourse
<1>3. ASSUME NEW i \in Nat, i \in T PROVE i + 1 \in T
  <2> SUFFICES ASSUME i + 1 <= m PROVE f[i + 1] = {g[i + 1]}
    OBVIOUS
  <2>1. i + 1 \in 1..m /\ (i + 1) - 1 = i /\ f[i] = {g[i]}
    BY <1>3
  <2>2. f[i + 1] = RunBlock(script[i + 1], {g[i]})
    BY <1>1, <2>1
  <2>3. g[i + 1] = BlockResult(script[i + 1], g[i])
    BY <2>1 DEF IsCourse
  <2> QED
    BY <2>1, <2>2, <2>3, RunBlockOne
<1>4. m \in T
  <2> HIDE DEF T
  <2> QED
    BY <1>2, <1>3, InductiveSet
<1> QED
  BY <1>1, <1>4

LEMMA CourseExists ==
  ASSUME NEW script, Len(script) \in Nat, \A b \in 1..Len(script) : Len(script[b].commands) \in Nat,
         NEW d
  PROVE  \E g : IsCourse(g, script, d)
<1> DEFINE m == Len(script)
<1>1. PICK f : /\ Ported(script, {d}) = f[m]
               /\ f[0] = {d}
               /\ \A b \in 1..m : f[b] = RunBlock(script[b], f[b - 1])
  <2> DEFINE D == {d}
  <2>1. \E f : /\ Ported(script, D) = f[m]
               /\ f[0] = D
               /\ \A b \in 1..m : f[b] = RunBlock(script[b], f[b - 1])
    <3> HIDE DEF D
    <3> QED
      BY PortedIsPort
  <2> QED
    BY <2>1
<1> DEFINE The(E) == CHOOSE x : x \in E
           T == {i \in Nat : i <= m => f[i] = {The(f[i])}}
<1>0. ASSUME NEW y PROVE {y} = {The({y})}
  OBVIOUS
<1>2. 0 \in T
  BY <1>0, <1>1
<1>3. ASSUME NEW i \in Nat, i \in T PROVE i + 1 \in T
  <2> SUFFICES ASSUME i + 1 <= m PROVE f[i + 1] = {The(f[i + 1])}
    OBVIOUS
  <2>1. i + 1 \in 1..m /\ (i + 1) - 1 = i /\ i <= m
    BY <1>3
  <2>2. f[i] = {The(f[i])}
    BY <1>3, <2>1
  <2> DEFINE x == The(f[i])
             y == BlockResult(script[i + 1], x)
  <2>3. f[i + 1] = RunBlock(script[i + 1], {x})
    BY <1>1, <2>1, <2>2
  <2>4. RunBlock(script[i + 1], {x}) = {y}
    <3> HIDE DEF x
    <3> QED
      BY <2>1, RunBlockOne
  <2>5. f[i + 1] = {y}
    BY <2>3, <2>4
  <2> HIDE DEF y, The
  <2> QED
    BY <1>0, <2>5
<1>4. \A i \in 0..m : f[i] = {The(f[i])}
  <2>1. Nat \subseteq T
    <3> HIDE DEF T
    <3> QED
      BY <1>2, <1>3, InductiveSet
  <2> QED
    BY <2>1
<1> DEFINE g == [i \in 0..m |-> The(f[i])]
<1> HIDE DEF The
<1>5. \A i \in 0..m : f[i] = {g[i]}
  BY <1>4
<1> HIDE DEF g
<1>6. g[0] = d
  BY <1>1, <1>5
<1>7. ASSUME NEW b \in 1..m PROVE g[b] = BlockResult(script[b], g[b - 1])
  <2>1. b \in 0..m /\ b - 1 \in 0..m
    OBVIOUS
  <2>2. f[b] = {g[b]} /\ f[b - 1] = {g[b - 1]}
    BY <1>5, <2>1
  <2>3. RunBlock(script[b], {g[b - 1]}) = {BlockResult(script[b], g[b - 1])}
    BY <1>7, RunBlockOne
  <2> QED
    BY <1>1, <1>7, <2>2, <2>3
<1> QED
  BY <1>6, <1>7 DEF IsCourse

\* What the compound commands from the b-th on make of a directory.
PortedFrom(script, b, d) == Ported(SubSeq(script, b, Len(script)), {d})

\* What that is run on: the compound commands from the b-th on, as a script.
LEMMA TheRestOf ==
  ASSUME NEW S, NEW script \in Seq(S), NEW b \in 1..(Len(script) + 1)
  PROVE  LET q == SubSeq(script, b, Len(script))
         IN  /\ Len(q) = (Len(script) - b) + 1
             /\ \A i \in 1..Len(q) : i + b - 1 \in 1..Len(script) /\ q[i] = script[i + b - 1]
<1>1. Len(script) \in Nat /\ b \in Int /\ \A i \in b..Len(script) : script[i] \in S
  OBVIOUS
<1> DEFINE q == SubSeq(script, b, Len(script))
<1>2. /\ Len(q) = IF b <= Len(script) THEN Len(script) - b + 1 ELSE 0
      /\ \A i \in 1..Len(script) - b + 1 : q[i] = script[b + i - 1]
  BY <1>1, SubSeqProperties
<1> HIDE DEF q
<1>3. Len(q) = (Len(script) - b) + 1
  BY <1>1, <1>2
<1>4. \A i \in 1..Len(q) : i + b - 1 \in 1..Len(script) /\ q[i] = script[i + b - 1]
  BY <1>1, <1>2, <1>3
<1> QED
  BY <1>3, <1>4 DEF q

\* The scripts whose compound commands the lemmas are about.
LocalType(script) ==
  /\ Local(script)
  /\ Len(script) \in Nat
  /\ \A b \in 1..Len(script) : Len(script[b].commands) \in Nat

LEMMA LocalBlocks ==
  ASSUME NEW script, LocalType(script), NEW b \in 1..Len(script)
  PROVE  /\ AllOn(FileOf(script[b]), script[b].commands)
         /\ \A i \in 1..Len(script) : i # b => FileOf(script[i]) \notin FilesIn(script[b])
         /\ \A i \in 1..Len(script) : i # b => FileOf(script[i]) # FileOf(script[b])
<1>1. AllOn(FileOf(script[b]), script[b].commands)
  BY BlockFiles DEF LocalType, Local, AllOn
<1>2. FileOf(script[b]) \in FilesIn(script[b])
  BY DEF FilesIn
<1>3. \A i \in 1..Len(script) : i # b => FileOf(script[i]) \notin FilesIn(script[b])
  BY DEF LocalType, Local
<1> QED
  BY <1>1, <1>2, <1>3

\* e is d with the first i compound commands run, each by itself.
PortedUpTo(script, d, i, e) ==
  /\ \A b \in 1..i : Part(FileOf(script[b]), e) = Part(FileOf(script[b]), BlockResult(script[b], d))
  /\ \A g : (\A b \in 1..i : g # FileOf(script[b])) => Part(g, e) = Part(g, d)

\* A run of a local script is the run of each compound command by itself.
LEMMA PortedLocal ==
  ASSUME NEW script, LocalType(script), NEW d, NEW G \in Ported(script, {d})
  PROVE  PortedUpTo(script, d, Len(script), G)
<1> DEFINE m == Len(script)
           file(b) == FileOf(script[b])
           Done(i, e) == PortedUpTo(script, d, i, e)
<1>0. m \in Nat
  BY DEF LocalType
<1>1. PICK f : /\ Ported(script, {d}) = f[m]
               /\ f[0] = {d}
               /\ \A b \in 1..m : f[b] = RunBlock(script[b], f[b - 1])
  BY <1>0, PortedIsPort
<1> DEFINE T == {i \in Nat : i <= m => \E e : f[i] = {e} /\ Done(i, e)}
<1>2. 0 \in T
  <2>1. Done(0, d)
    BY DEF PortedUpTo
  <2> QED
    BY <1>1, <2>1
<1>3. ASSUME NEW i \in Nat, i \in T PROVE i + 1 \in T
  <2> SUFFICES ASSUME i + 1 <= m PROVE \E e : f[i + 1] = {e} /\ Done(i + 1, e)
    OBVIOUS
  <2>1. i <= m /\ i + 1 \in 1..m /\ (i + 1) - 1 = i
    BY <1>0
  <2>2. PICK e : f[i] = {e} /\ Done(i, e)
    BY <1>3, <2>1
  <2> DEFINE block == script[i + 1]
             x == BlockResult(block, e)
  <2>3. Len(block.commands) \in Nat
    BY <2>1 DEF LocalType
  <2>4. f[i + 1] = {x}
    <3>1. f[i + 1] = RunBlock(block, f[(i + 1) - 1])
      BY <1>1, <2>1
    <3>2. RunBlock(block, {e}) = {x}
      BY <2>3, RunBlockOne
    <3> QED
      BY <2>1, <2>2, <3>1, <3>2
  <2>5. AllOn(file(i + 1), block.commands)
    BY <2>1, LocalBlocks
  <2>6. Agree(FilesIn(block), e, d)
    <3>1. \A b \in 1..i : b \in 1..m /\ b # i + 1
      BY <1>0, <2>1
    <3>2. \A g \in FilesIn(block) : \A b \in 1..i : g # file(b)
      BY <2>1, <3>1, LocalBlocks
    <3> QED
      BY <2>2, <3>2 DEF Agree, PortedUpTo
  <2>7. Part(file(i + 1), x) = Part(file(i + 1), BlockResult(block, d))
    BY <2>3, <2>5, <2>6, BlockAgree
  <2>8. \A g : g # file(i + 1) => Part(g, x) = Part(g, e)
    BY <2>3, <2>5, BlockElsewhere
  <2>9. ASSUME NEW b \in 1..(i + 1)
        PROVE  Part(file(b), x) = Part(file(b), BlockResult(script[b], d))
    <3>1. CASE b = i + 1
      BY <2>7, <3>1
    <3>2. CASE b # i + 1
      <4>1. b \in 1..i /\ b \in 1..m
        BY <1>0, <2>1, <3>2
      <4>2. file(b) # file(i + 1)
        BY <2>1, <3>2, <4>1, LocalBlocks
      <4> QED
        BY <2>2, <2>8, <4>1, <4>2 DEF PortedUpTo
    <3> QED
      BY <3>1, <3>2
  <2>10. ASSUME NEW g, \A b \in 1..(i + 1) : g # file(b)
         PROVE  Part(g, x) = Part(g, d)
    <3>1. g # file(i + 1) /\ \A b \in 1..i : g # file(b)
      BY <2>10
    <3> QED
      BY <2>2, <2>8, <3>1 DEF PortedUpTo
  <2>11. Done(i + 1, x)
    BY <2>9, <2>10 DEF PortedUpTo
  <2> QED
    BY <2>4, <2>11
<1>4. Nat \subseteq T
  <2> HIDE DEF T
  <2> QED
    BY <1>2, <1>3, InductiveSet
<1>5. PICK e : f[m] = {e} /\ Done(m, e)
  BY <1>0, <1>4
<1>6. G = e
  BY <1>1, <1>5
<1> QED
  BY <1>5, <1>6

LEMMA PortedInside ==
  ASSUME NEW script, Len(script) \in Nat,
         \A b \in 1..Len(script) : Len(script[b].commands) \in Nat,
         NEW D, \A b \in 1..Len(script) : \A k \in 1..Len(script[b].commands) :
                  \A x \in D : After(script[b].commands[k], x) \in D,
         NEW d \in D
  PROVE  Ported(script, {d}) \subseteq D
<1> DEFINE m == Len(script)
<1>1. PICK f : /\ Ported(script, {d}) = f[m]
               /\ f[0] = {d}
               /\ \A b \in 1..m : f[b] = RunBlock(script[b], f[b - 1])
  BY PortedIsPort
<1> DEFINE T == {i \in Nat : i <= m => \E e \in D : f[i] = {e}}
<1>2. 0 \in T
  BY <1>1
<1>3. ASSUME NEW i \in Nat, i \in T PROVE i + 1 \in T
  <2> SUFFICES ASSUME i + 1 <= m PROVE \E e \in D : f[i + 1] = {e}
    OBVIOUS
  <2>1. i <= m /\ i + 1 \in 1..m /\ (i + 1) - 1 = i
    OBVIOUS
  <2>2. PICK e \in D : f[i] = {e}
    BY <1>3, <2>1
  <2> DEFINE block == script[i + 1]
             x == BlockResult(block, e)
  <2>3. f[i + 1] = RunBlock(block, f[(i + 1) - 1])
    BY <1>1, <2>1
  <2>4. RunBlock(block, {e}) = {x}
    BY <2>1, RunBlockOne
  <2>5. x \in D
    <3>1. 1 \in 1..(Len(block.commands) + 1)
      BY <2>1
    <3>2. Result(block.commands, 1, e) \in D
      BY <2>1, <3>1, ResultInside
    <3> QED
      BY <3>2 DEF BlockResult
  <2> QED
    BY <2>1, <2>2, <2>3, <2>4, <2>5
<1>4. Nat \subseteq T
  <2> HIDE DEF T
  <2> QED
    BY <1>2, <1>3, InductiveSet
<1>5. PICK e \in D : f[m] = {e}
  BY <1>4
<1> QED
  BY <1>1, <1>5

-----------------------------------------------------------------------------
(* Compound commands that ship their file.                                 *)

Ships(block, k, d) == block.commands[k].op = "ship" /\ AllHold(block.commands[k].when, d)

\* A file that is shipped holds the same whatever it held before.
LEMMA ShippedPart ==
  ASSUME NEW c, c.op = "ship", NEW d, NEW e, AllHold(c.when, d), AllHold(c.when, e)
  PROVE  Part(c.file, After(c, d)) = Part(c.file, After(c, e))
<1>1. InPlace(c) /\ CanRun(c, d) /\ CanRun(c, e)
  BY DEF InPlace, CanRun
<1>2. After(c, d) = Effect(c, d) /\ After(c, e) = Effect(c, e)
  BY <1>1 DEF After
<1>3. Writes(c, d) = Writes(c, e)
  BY DEF Writes
<1>4. \A x : x[1] = c.file => Erases(c, x)
  BY DEF Erases
<1>5. /\ c.file \in Effect(c, d).there /\ c.file \in Effect(c, e).there
      /\ \A x : x[1] = c.file => /\ x \in Effect(c, d).has <=> x \in Effect(c, e).has
                                 /\ x \in Effect(c, d).twice <=> x \in Effect(c, e).twice
  BY <1>1, <1>3, <1>4, InPlaceEffect
<1> QED
  BY <1>2, <1>5, PartEqual

\* When one of the commands ships the file, the outcome does not depend on
\* what the file held.
LEMMA RebuildingForgets ==
  ASSUME NEW block, Len(block.commands) \in Nat, AllOn(FileOf(block), block.commands),
         \A t \in TestsIn(block) : FileOf(block) \notin t.files,
         NEW d, NEW e, \A g : g # FileOf(block) => Part(g, d) = Part(g, e),
         NEW i \in 1..Len(block.commands), Ships(block, i, d)
  PROVE  Part(FileOf(block), Result(block.commands, 1, d))
           = Part(FileOf(block), Result(block.commands, 1, e))
<1> DEFINE q == block.commands
           f == FileOf(block)
           n == Len(q)
           Off(x, y) == \A g : g # f => Part(g, x) = Part(g, y)
           T == {j \in 1..n : \A x, y : Off(x, y) /\ (\E k \in j..n : Ships(block, k, x)) =>
                                Part(f, Result(q, j, x)) = Part(f, Result(q, j, y))}
<1>1. ASSUME NEW j \in 1..n, j + 1 \in T \/ j = n PROVE j \in T
  <2> SUFFICES ASSUME NEW x, NEW y, Off(x, y), NEW k \in j..n, Ships(block, k, x)
               PROVE  Part(f, Result(q, j, x)) = Part(f, Result(q, j, y))
    OBVIOUS
  <2> DEFINE x1 == After(q[j], x)
             y1 == After(q[j], y)
  <2>1. Result(q, j, x) = Result(q, j + 1, x1) /\ Result(q, j, y) = Result(q, j + 1, y1)
    BY ResultStep
  <2>2. InPlace(q[j]) /\ q[j].file = f
    BY DEF AllOn
  <2>3. Off(x1, x) /\ Off(y1, y) /\ Off(x1, y1)
    <3>1. \A g : g # f => Part(g, x1) = Part(g, x)
      BY <2>2, AfterElsewhere
    <3>2. \A g : g # f => Part(g, y1) = Part(g, y)
      BY <2>2, AfterElsewhere
    <3> QED
      BY <3>1, <3>2
  <2>4. \A tests : tests \subseteq TestsIn(block) => \A u, v : Off(u, v) =>
          (AllHold(tests, u) <=> AllHold(tests, v))
    <3> SUFFICES ASSUME NEW tests, tests \subseteq TestsIn(block), NEW u, NEW v, Off(u, v)
                 PROVE  AllHold(tests, u) <=> AllHold(tests, v)
      OBVIOUS
    <3>1. \A t \in tests : Agree(t.files, u, v)
      BY DEF Agree
    <3> QED
      BY <3>1, AllHoldAgree
  <2>5. CASE \E l \in (j + 1)..n : Ships(block, l, x)
    <3>1. PICK l \in (j + 1)..n : Ships(block, l, x)
      BY <2>5
    <3>2. l \in 1..n /\ j + 1 \in 1..n /\ j # n
      OBVIOUS
    <3>3. q[l].when \subseteq TestsIn(block)
      BY <3>2, BlockFiles
    <3>4. Ships(block, l, x1)
      <4>1. AllHold(q[l].when, x1) <=> AllHold(q[l].when, x)
        BY <2>3, <2>4, <3>3
      <4> QED
        BY <3>1, <4>1 DEF Ships
    <3>5. j + 1 \in T
      <4> HIDE DEF T
      <4> QED
        BY <1>1, <3>2
    <3> QED
      BY <2>1, <2>3, <3>4, <3>5
  <2>6. CASE ~\E l \in (j + 1)..n : Ships(block, l, x)
    <3>1. k = j /\ Ships(block, j, x)
      BY <2>6
    <3>2. AllHold(q[j].when, y)
      BY <2>4, <3>1, BlockFiles DEF Ships
    <3>3. Part(f, x1) = Part(f, y1)
      BY <2>2, <3>1, <3>2, ShippedPart DEF Ships
    <3>4. Agree(FilesIn(block), x1, y1)
      BY <2>3, <3>3 DEF Agree
    <3>5. j + 1 \in 1..(n + 1)
      OBVIOUS
    <3> QED
      BY <2>1, <3>4, <3>5, BlockFiles, ResultWithin
  <2> QED
    BY <2>5, <2>6
<1>2. n \in T
  BY <1>1
<1>3. 1..n \subseteq T
  <2> HIDE DEF T
  <2> QED
    BY <1>1, <1>2, DownwardSet
<1>4. 1 \in T /\ \E k \in 1..n : Ships(block, k, d)
  BY <1>3
<1>5. Off(d, e)
  OBVIOUS
<1> QED
  BY <1>4, <1>5

\* When none does, none of its commands applies.
LEMMA RebuildingIdle ==
  ASSUME NEW block, Len(block.commands) \in Nat, Rebuilding(block), NEW d,
         \A i \in 1..Len(block.commands) : ~Ships(block, i, d)
  PROVE  /\ \A k \in 1..Len(block.commands) : ~AllHold(block.commands[k].when, d)
         /\ Result(block.commands, 1, d) = d
<1> DEFINE n == Len(block.commands)
<1>1. ASSUME NEW k \in 1..n PROVE ~AllHold(block.commands[k].when, d)
  <2>1. CASE block.commands[k].op = "ship"
    BY <2>1 DEF Ships
  <2>2. CASE block.commands[k].op # "ship"
    <3>1. PICK i \in 1..(k - 1) : block.commands[i].op = "ship" /\ block.commands[i].when = {}
      BY <2>2 DEF Rebuilding
    <3>2. i \in 1..n /\ Ships(block, i, d)
      BY <3>1 DEF Ships, AllHold
    <3> QED
      BY <3>2
  <2> QED
    BY <2>1, <2>2
<1>2. \A k \in 1..((n + 1) - 1) : After(block.commands[k], d) = d
  BY <1>1 DEF After
<1>3. Result(block.commands, 1, d) = Result(block.commands, n + 1, d)
  BY <1>2, ResultSettled
<1> QED
  BY <1>1, <1>3, ResultEnd

LEMMA RebuildingHeals ==
  ASSUME NEW block, Len(block.commands) \in Nat, AllOn(FileOf(block), block.commands),
         Rebuilding(block), NEW d, AllHold(block.guard, d),
         NEW e, \A g : g # FileOf(block) => Part(g, d) = Part(g, e),
         e = d \/ \E k \in 1..Len(block.commands) : AllHold(block.commands[k].when, d)
  PROVE  /\ AllHold(block.guard, e)
         /\ Part(FileOf(block), BlockResult(block, e)) = Part(FileOf(block), BlockResult(block, d))
<1>1. AllHold(block.guard, e)
  <2>1. \A t \in block.guard : Agree(t.files, d, e)
    BY BlockFiles DEF Rebuilding, Agree
  <2> QED
    BY <2>1, AllHoldAgree
<1>2. CASE e = d
  BY <1>1, <1>2
<1>3. CASE \E k \in 1..Len(block.commands) : AllHold(block.commands[k].when, d)
  <2>1. PICK i \in 1..Len(block.commands) : Ships(block, i, d)
    BY <1>3, RebuildingIdle
  <2>2. Part(FileOf(block), Result(block.commands, 1, d))
          = Part(FileOf(block), Result(block.commands, 1, e))
    BY <2>1, RebuildingForgets DEF Rebuilding
  <2> QED
    BY <1>1, <2>2 DEF BlockResult
<1> QED
  BY <1>2, <1>3

-----------------------------------------------------------------------------
(* In the middle of a compound command.                                    *)

\* A mark that it looks for is there.
Blocked(block, d) == \E t \in Marks(block) : ~Holds(t, d)

\* The commands before the k-th have nothing left to do.
Settled(block, k, d) == \A j \in 1..(k - 1) : After(block.commands[j], d) = d

\* What a run has established before the k-th command.
Mid(block, k, d) ==
  /\ Marked(block) => Blocked(block, d) \/ (AllHold(block.guard, d) /\ Settled(block, k, d))
  /\ Settling(block) => AllHold(block.guard, d) /\ Settled(block, k, d)
  /\ Rebuilding(block) => AllHold(block.guard, d)

\* When the mark is there, no command is left that applies.
Spent(block, k, d) ==
  Blocked(block, d) =>
    \A j \in k..Len(block.commands) : ~AllHold(block.commands[j].when, d)

LEMMA BlockedGuard ==
  ASSUME NEW block, NEW d, Blocked(block, d)
  PROVE  ~AllHold(block.guard, d)
BY DEF Blocked, Marks, AllHold

LEMMA MidEnter ==
  ASSUME NEW block, NEW d, AllHold(block.guard, d)
  PROVE  Mid(block, 1, d) /\ Spent(block, 1, d)
<1>1. Settled(block, 1, d)
  BY DEF Settled
<1> QED
  BY <1>1, BlockedGuard DEF Mid, Spent

\* A mark stays, and an edit that changes something puts them all there.
LEMMA MarkStays ==
  ASSUME NEW block, Len(block.commands) \in Nat, AllOn(FileOf(block), block.commands),
         Marked(block), NEW d, Proper(d), NEW k \in 1..Len(block.commands),
         Blocked(block, d) \/ After(block.commands[k], d) # d
  PROVE  Blocked(block, After(block.commands[k], d))
<1> DEFINE c == block.commands[k]
           f == FileOf(block)
           x == After(c, d)
<1>1. c \in CommandsIn(block) /\ InPlace(c) /\ c.file = f /\ c.op # "ship"
  BY BlockFiles DEF AllOn, Marked
<1>2. \A t \in Marks(block) : /\ t.kind = "lacks" /\ t.files = {f} /\ t.word \in c.new
  BY <1>1 DEF Marks
<1>3. \A t \in Marks(block) : \A e : ~Holds(t, e) <=> <<f, t.word>> \in e.has
  BY <1>2 DEF Holds
<1>4. CASE x = d
  BY <1>4
<1>5. CASE x # d
  <2>1. {c.file} \X c.new \subseteq x.has
    BY <1>1, <1>5, IdleOrWrites
  <2>2. PICK t \in Marks(block) : TRUE
    BY DEF Marked
  <2> QED
    BY <1>1, <1>2, <1>3, <2>1, <2>2 DEF Blocked
<1> QED
  BY <1>4, <1>5

\* A substitution changes none of the tests of a settling compound command.
LEMMA SettlingTests ==
  ASSUME NEW block, Len(block.commands) \in Nat, AllOn(FileOf(block), block.commands),
         Settling(block), NEW d, NEW k \in 1..Len(block.commands)
  PROVE  /\ After(block.commands[k], d).there = d.there
         /\ \A tests : tests \subseteq TestsIn(block) =>
              (AllHold(tests, After(block.commands[k], d)) <=> AllHold(tests, d))
<1> DEFINE c == block.commands[k]
           f == FileOf(block)
           x == After(c, d)
<1>1. c \in CommandsIn(block) /\ InPlace(c) /\ c.file = f /\ c.op = "subst"
  BY BlockFiles DEF AllOn, Settling
<1>2. x.there = d.there
  <2>1. CanRun(c, d) => f \in d.there
    BY <1>1 DEF CanRun
  <2>2. Effect(c, d).there = d.there \cup {f}
    BY <1>1, InPlaceEffect
  <2>3. f \in d.there => (\A g : g \in d.there \cup {f} <=> g \in d.there)
    OBVIOUS
  <2>4. f \in d.there => Effect(c, d).there = d.there
    BY <2>2, <2>3
  <2> QED
    BY <2>1, <2>4 DEF After
<1>3. ASSUME NEW t \in TestsIn(block) PROVE Holds(t, x) <=> Holds(t, d)
  <2>1. CASE t.kind \in {"has", "lacks"}
    <3>1. f \notin t.files
      BY <2>1 DEF Settling
    <3>2. Agree(t.files, x, d)
      BY <1>1, <3>1, AfterElsewhere DEF Agree
    <3> QED
      BY <3>2, HoldsAgree
  <2>2. CASE t.kind \notin {"has", "lacks"}
    BY <1>2, <2>2 DEF Holds
  <2> QED
    BY <2>1, <2>2
<1> QED
  BY <1>2, <1>3 DEF AllHold

\* Its edits leave each other settled.
LEMMA SettlingSettled ==
  ASSUME NEW block, Len(block.commands) \in Nat, AllOn(FileOf(block), block.commands),
         Settling(block), NEW d, Proper(d), NEW k \in 1..Len(block.commands),
         Settled(block, k, d)
  PROVE  Settled(block, k + 1, After(block.commands[k], d))
<1> DEFINE c == block.commands[k]
           f == FileOf(block)
           x == After(c, d)
<1>1. /\ InPlace(c) /\ c.file = f /\ c.op = "subst"
      /\ \A j \in 1..Len(block.commands) : /\ block.commands[j].op = "subst"
                                           /\ block.commands[j].file = f
                                           /\ block.commands[j].at \notin c.new
                                           /\ block.commands[j].at \notin block.commands[j].new
                                           /\ block.commands[j].when \subseteq TestsIn(block)
  BY BlockFiles DEF AllOn, Settling
<1>2. Proper(x)
  BY <1>1, AfterProper
<1>3. ASSUME NEW j \in 1..k PROVE After(block.commands[j], x) = x
  <2> DEFINE e == block.commands[j]
  <2>0. j \in 1..Len(block.commands)
    OBVIOUS
  <2>1. After(e, x) = x <=>
          ~(AllHold(e.when, x) /\ f \in x.there /\ <<f, e.at>> \in x.has)
    BY <1>1, <1>2, <2>0, SettledSubst
  <2>2. AllHold(e.when, x) <=> AllHold(e.when, d)
    BY <1>1, <2>0, SettlingTests
  <2>3. x.there = d.there
    BY SettlingTests
  <2>4. <<f, e.at>> \in x.has => <<f, e.at>> \in d.has
    <3>1. <<f, e.at>> \notin Writes(c, d)
      BY <1>1, <2>0 DEF Writes
    <3>2. <<f, e.at>> \in Effect(c, d).has => <<f, e.at>> \in d.has
      BY <1>1, <3>1, InPlaceEffect
    <3> QED
      BY <3>2 DEF After
  <2>5. CASE j = k
    <3> SUFFICES ASSUME AllHold(e.when, x), f \in x.there, <<f, e.at>> \in x.has
                 PROVE  FALSE
      BY <2>1
    <3>1. CanRun(c, d)
      BY <1>1, <2>3 DEF CanRun
    <3>2. x = Effect(c, d)
      BY <2>2, <2>5, <3>1 DEF After
    <3>3. Erases(c, <<f, c.at>>) /\ <<f, c.at>> \notin Writes(c, d)
      BY <1>1 DEF Erases, Writes
    <3>4. <<f, c.at>> \notin x.has
      BY <1>1, <3>2, <3>3, InPlaceEffect
    <3> QED
      BY <2>5, <3>4
  <2>6. CASE j # k
    <3>1. j \in 1..(k - 1)
      BY <2>6
    <3>2. After(e, d) = d
      BY <3>1 DEF Settled
    <3>3. ~(AllHold(e.when, d) /\ f \in d.there /\ <<f, e.at>> \in d.has)
      BY <1>1, <2>0, <3>2, SettledSubst
    <3> QED
      BY <2>1, <2>2, <2>3, <2>4, <3>3
  <2> QED
    BY <2>5, <2>6
<1>4. (k + 1) - 1 = k
  OBVIOUS
<1> QED
  BY <1>3, <1>4 DEF Settled

\* A command keeps what the run has established.
LEMMA MidStep ==
  ASSUME NEW block, Len(block.commands) \in Nat, AllOn(FileOf(block), block.commands),
         NEW d, Proper(d), NEW k \in 1..Len(block.commands), Mid(block, k, d)
  PROVE  Mid(block, k + 1, After(block.commands[k], d))
<1> DEFINE c == block.commands[k]
           x == After(c, d)
<1>1. ASSUME Marked(block)
      PROVE  Blocked(block, x) \/ (AllHold(block.guard, x) /\ Settled(block, k + 1, x))
  <2>1. CASE Blocked(block, d) \/ x # d
    BY <1>1, <2>1, MarkStays
  <2>2. CASE ~Blocked(block, d) /\ x = d
    <3>1. AllHold(block.guard, x) /\ Settled(block, k, d)
      BY <1>1, <2>2 DEF Mid
    <3>2. \A j \in 1..((k + 1) - 1) : j \in 1..(k - 1) \/ j = k
      OBVIOUS
    <3>3. Settled(block, k + 1, x)
      BY <2>2, <3>1, <3>2 DEF Settled
    <3> QED
      BY <3>1, <3>3
  <2> QED
    BY <2>1, <2>2
<1>2. ASSUME Settling(block) PROVE AllHold(block.guard, x) /\ Settled(block, k + 1, x)
  BY <1>2, SettlingTests, SettlingSettled, BlockFiles DEF Mid
<1>3. ASSUME Rebuilding(block) PROVE AllHold(block.guard, x)
  <2>1. InPlace(c) /\ c.file = FileOf(block)
    BY DEF AllOn
  <2>2. \A t \in block.guard : Agree(t.files, d, x)
    BY <1>3, <2>1, AfterElsewhere, BlockFiles DEF Rebuilding, Agree
  <2> QED
    BY <1>3, <2>2, AllHoldAgree DEF Mid
<1> QED
  BY <1>1, <1>2, <1>3 DEF Mid

\* Past the last command, the compound command has nothing left to do.
LEMMA MidLeave ==
  ASSUME NEW block, Len(block.commands) \in Nat, Marked(block) \/ Settling(block),
         NEW d, Mid(block, Len(block.commands) + 1, d)
  PROVE  BlockResult(block, d) = d
<1> DEFINE q == block.commands
           n == Len(q) + 1
<1>1. CASE Blocked(block, d)
  BY <1>1, BlockedGuard DEF BlockResult
<1>2. CASE AllHold(block.guard, d) /\ Settled(block, n, d)
  <2>1. Result(q, 1, d) = Result(q, n, d)
    <3>1. 1 \in 1..(Len(q) + 1) /\ n \in 1..(Len(q) + 1)
      OBVIOUS
    <3>2. \A j \in 1..(n - 1) : After(q[j], d) = d
      BY <1>2 DEF Settled
    <3> QED
      BY <3>1, <3>2, ResultSettled
  <2> QED
    BY <2>1, ResultEnd DEF BlockResult
<1> QED
  BY <1>1, <1>2 DEF Mid

\* Run again from its beginning, it does what is left to do.
LEMMA MidHeals ==
  ASSUME NEW block, Len(block.commands) \in Nat, Marked(block) \/ Settling(block),
         NEW k \in 1..(Len(block.commands) + 1), NEW d,
         Mid(block, k, d), Spent(block, k, d)
  PROVE  BlockResult(block, d) = Result(block.commands, k, d)
<1> DEFINE q == block.commands
           n == Len(q) + 1
<1>1. CASE Blocked(block, d)
  <2>1. BlockResult(block, d) = d
    BY <1>1, BlockedGuard DEF BlockResult
  <2>2. \A j \in k..(n - 1) : After(q[j], d) = d
    BY <1>1 DEF Spent, After
  <2>3. n \in k..(Len(q) + 1)
    OBVIOUS
  <2>4. Result(q, k, d) = Result(q, n, d)
    BY <2>2, <2>3, ResultSettled
  <2> QED
    BY <2>1, <2>4, ResultEnd
<1>2. CASE AllHold(block.guard, d) /\ Settled(block, k, d)
  <2>1. 1 \in 1..(Len(q) + 1) /\ k \in 1..(Len(q) + 1)
    OBVIOUS
  <2>2. Result(q, 1, d) = Result(q, k, d)
    BY <1>2, <2>1, ResultSettled DEF Settled
  <2> QED
    BY <1>2, <2>2 DEF BlockResult
<1> QED
  BY <1>1, <1>2 DEF Mid

\* After the one variant, the test of the other still fails.
LEMMA ExclusiveAfter ==
  ASSUME NEW c, NEW e, InPlace(c), c.op # "ship", Exclusive(c, e),
         NEW d, AllHold(c.when, d)
  PROVE  ~AllHold(e.when, Effect(c, d))
<1> DEFINE x == Effect(c, d)
<1>1. PICK t \in c.when, u \in e.when :
        /\ t.files = u.files /\ t.word = u.word
        /\ {t.kind, u.kind} \in {{"has", "lacks"}, {"exists", "missing"}}
        /\ c.file \in u.files => u.kind \in {"has", "lacks"} /\ u.word \notin c.new \cup {c.at}
  BY DEF Exclusive
<1>2. ~Holds(u, d)
  <2>1. Holds(t, d)
    BY DEF AllHold
  <2>2. \/ t.kind = "has" /\ u.kind = "lacks"
        \/ t.kind = "lacks" /\ u.kind = "has"
        \/ t.kind = "exists" /\ u.kind = "missing"
        \/ t.kind = "missing" /\ u.kind = "exists"
    BY <1>1
  <2> QED
    BY <1>1, <2>1, <2>2 DEF Holds
<1>3. ~Holds(u, x)
  <2>1. CASE c.file \notin u.files
    <3>1. \A g \in u.files : Part(g, x) = Part(g, d)
      BY <2>1, InPlaceEffect, PartEqual
    <3> QED
      BY <1>2, <3>1, HoldsAgree DEF Agree
  <2>2. CASE c.file \in u.files
    <3>1. u.kind \in {"has", "lacks"} /\ u.word \notin c.new \cup {c.at}
      BY <1>1, <2>2
    <3>2. \A g : /\ ~Erases(c, <<g, u.word>>)
                 /\ <<g, u.word>> \notin Writes(c, d)
      BY <3>1 DEF InPlace, Erases, Writes
    <3>3. \A g : <<g, u.word>> \in x.has <=> <<g, u.word>> \in d.has
      BY <3>2, InPlaceEffect
    <3>4. (u.files \X {u.word}) \cap x.has = (u.files \X {u.word}) \cap d.has
      BY <3>3
    <3> QED
      BY <1>2, <3>1, <3>4 DEF Holds
  <2> QED
    BY <2>1, <2>2
<1> QED
  BY <1>3 DEF AllHold

\* What a resumable script asks of a compound command.
OneMarks(block) ==
  \/ Settling(block) \/ Rebuilding(block)
  \/ /\ Marked(block)
     /\ \A k \in 1..Len(block.commands) : \A j \in 1..(k - 1) :
          Exclusive(block.commands[j], block.commands[k])

\* The command that puts the mark there is the last one that applies.
LEMMA SpentStep ==
  ASSUME NEW block, Len(block.commands) \in Nat, AllOn(FileOf(block), block.commands),
         OneMarks(block), NEW d, Proper(d), NEW k \in 1..Len(block.commands),
         Spent(block, k, d)
  PROVE  Spent(block, k + 1, After(block.commands[k], d))
<1> DEFINE c == block.commands[k]
           x == After(c, d)
<1>1. CASE Settling(block) \/ Rebuilding(block)
  <2>1. Marks(block) = {}
    BY <1>1 DEF Marks, Settling, Rebuilding, TestsIn
  <2> QED
    BY <2>1 DEF Spent, Blocked
<1>2. CASE Blocked(block, d)
  <2>1. \A j \in k..Len(block.commands) : ~AllHold(block.commands[j].when, d)
    BY <1>2 DEF Spent
  <2>2. k \in k..Len(block.commands) /\ \A j \in (k + 1)..Len(block.commands) : j \in k..Len(block.commands)
    OBVIOUS
  <2>3. x = d
    BY <2>1, <2>2 DEF After
  <2> QED
    BY <2>1, <2>2, <2>3 DEF Spent
<1>3. CASE /\ ~Blocked(block, d)
           /\ Marked(block)
           /\ \A l \in 1..Len(block.commands) : \A j \in 1..(l - 1) :
                Exclusive(block.commands[j], block.commands[l])
  <2> SUFFICES ASSUME Blocked(block, x), NEW j \in (k + 1)..Len(block.commands)
               PROVE  ~AllHold(block.commands[j].when, x)
    BY DEF Spent
  <2>1. x # d
    BY <1>3
  <2>2. InPlace(c) /\ c.op # "ship"
    BY <1>3, BlockFiles DEF AllOn, Marked
  <2>3. AllHold(c.when, d) /\ x = Effect(c, d)
    BY <2>1, <2>2, IdleOrWrites
  <2>4. j \in 1..Len(block.commands) /\ k \in 1..(j - 1)
    OBVIOUS
  <2>5. Exclusive(c, block.commands[j])
    BY <1>3, <2>4
  <2> QED
    BY <2>2, <2>3, <2>5, ExclusiveAfter
<1> QED
  BY <1>1, <1>2, <1>3 DEF OneMarks

\* Only a file that is being shipped can be cut short.
LEMMA TornPart ==
  ASSUME NEW c, InPlace(c), NEW d
  PROVE  /\ c.op # "ship" => Torn(c, d) = d
         /\ \A g : g # c.file => Part(g, Torn(c, d)) = Part(g, d)
         /\ Proper(d) => Proper(Torn(c, d))
<1>1. c.op # "ship" => Torn(c, d) = d
  BY DEF Torn, InPlace
<1>2. ASSUME NEW g, g # c.file PROVE Part(g, Torn(c, d)) = Part(g, d)
  BY <1>2, PartEqual DEF Torn
<1>3. Proper(d) => Proper(Torn(c, d))
  BY DEF Proper, Torn
<1> QED
  BY <1>1, <1>2, <1>3

-----------------------------------------------------------------------------
(* What a run of a compound command makes.                                 *)

\* The directory calls for the command.
Called(c, d) ==
  /\ AllHold(c.when, d) /\ CanRun(c, d)
  /\ c.op \in {"after", "subst"} => <<c.file, c.at>> \in d.has

LEMMA SparedStays ==
  ASSUME NEW d, InPlace(d), NEW w, Spares(d, w), NEW x, <<d.file, w>> \in x.has
  PROVE  <<d.file, w>> \in After(d, x).has
<1> SUFFICES <<d.file, w>> \in Effect(d, x).has
  BY DEF After
<1>1. CASE ~Erases(d, <<d.file, w>>)
  BY <1>1, InPlaceEffect
<1>2. CASE Erases(d, <<d.file, w>>)
  <2>1. w \in d.new
    BY <1>2 DEF Erases, Spares, InPlace
  <2>2. Writes(d, x) = {d.file} \X d.new
    BY <1>2 DEF Erases, Writes, InPlace
  <2> QED
    BY <2>1, <2>2, InPlaceEffect
<1> QED
  BY <1>1, <1>2

LEMMA ContraryTests ==
  ASSUME NEW c, NEW d, Contrary(d, c), NEW x, AllHold(c.when, x)
  PROVE  After(d, x) = x
<1>1. PICK t \in d.when, u \in c.when :
        /\ t.files = u.files /\ t.word = u.word
        /\ {t.kind, u.kind} \in {{"has", "lacks"}, {"exists", "missing"}}
  BY DEF Contrary
<1>2. Holds(u, x)
  BY DEF AllHold
<1>3. \/ t.kind = "has" /\ u.kind = "lacks"
      \/ t.kind = "lacks" /\ u.kind = "has"
      \/ t.kind = "exists" /\ u.kind = "missing"
      \/ t.kind = "missing" /\ u.kind = "exists"
  BY <1>1
<1>4. ~Holds(t, x)
  BY <1>1, <1>2, <1>3 DEF Holds
<1> QED
  BY <1>4 DEF AllHold, After

\* A command that lets another one run leaves it called for.
LEMMA StaysCalled ==
  ASSUME NEW c, InPlace(c), NEW d, InPlace(d), d.file = c.file, LetsRun(d, c),
         NEW x, Called(c, x)
  PROVE  Called(c, After(d, x))
<1> DEFINE e == After(d, x)
<1>1. CASE Contrary(d, c)
  BY <1>1, ContraryTests DEF Called
<1>2. CASE ~Contrary(d, c)
  <2>1. /\ c.op \in {"after", "subst"} => Spares(d, c.at)
        /\ \A t \in c.when : d.file \in t.files =>
             /\ t.kind # "missing"
             /\ t.kind = "has"   => Spares(d, t.word)
             /\ t.kind = "lacks" => t.word \notin d.new
    BY <1>2 DEF LetsRun
  <2>2. /\ x.there \subseteq e.there /\ e.there \subseteq x.there \cup {d.file}
        /\ \A y \in e.has : y \in x.has \/ y \in {d.file} \X d.new
        /\ \A y \in x.has : y[1] # d.file => y \in e.has
    <3>1. Effect(d, x).there = x.there \cup {d.file}
      BY InPlaceEffect
    <3>2. \A y : y \in Effect(d, x).has => y \in x.has \/ y \in Writes(d, x)
      BY InPlaceEffect
    <3>3. \A y \in x.has : y[1] # d.file => y \in Effect(d, x).has
      BY InPlaceEffect
    <3>4. Writes(d, x) \subseteq {d.file} \X d.new
      BY DEF Writes
    <3>5. CASE e = x
      BY <3>5
    <3>6. CASE e = Effect(d, x)
      BY <3>1, <3>2, <3>3, <3>4, <3>6
    <3> QED
      BY <3>5, <3>6 DEF After
  <2>3. CanRun(c, e)
    BY <2>2 DEF Called, CanRun, InPlace
  <2>4. c.op \in {"after", "subst"} => <<c.file, c.at>> \in e.has
    BY <2>1, SparedStays DEF Called
  <2>5. ASSUME NEW t \in c.when PROVE Holds(t, e)
    <3>0. Holds(t, x)
      BY DEF Called, AllHold
    <3>1. t.kind = "exists" => t.files \cap e.there # {}
      BY <2>2, <3>0 DEF Holds
    <3>2. t.kind = "missing" => t.files \cap e.there = {}
      BY <2>1, <2>2, <3>0 DEF Holds
    <3>3. ASSUME t.kind = "has" PROVE (t.files \X {t.word}) \cap e.has # {}
      <4>1. PICK g \in t.files : <<g, t.word>> \in x.has
        BY <3>0, <3>3 DEF Holds
      <4>2. ASSUME g = d.file PROVE <<d.file, t.word>> \in e.has
        <5>1. Spares(d, t.word)
          BY <2>1, <3>3, <4>1, <4>2
        <5>2. <<d.file, t.word>> \in x.has
          BY <4>1, <4>2
        <5> QED
          BY <5>1, <5>2, SparedStays
      <4>3. ASSUME g # d.file PROVE <<g, t.word>> \in e.has
        <5>1. <<g, t.word>>[1] # d.file
          BY <4>3
        <5> QED
          BY <2>2, <4>1, <5>1
      <4>4. <<g, t.word>> \in e.has
        BY <4>2, <4>3
      <4> QED
        BY <4>1, <4>4
    <3>4. ASSUME t.kind = "lacks" PROVE (t.files \X {t.word}) \cap e.has = {}
      <4> SUFFICES ASSUME NEW g \in t.files, <<g, t.word>> \in e.has PROVE FALSE
        OBVIOUS
      <4>1. <<g, t.word>> \notin x.has
        BY <3>0, <3>4 DEF Holds
      <4>2. g = d.file /\ t.word \in d.new
        BY <2>2, <4>1
      <4> QED
        BY <2>1, <3>4, <4>2
    <3> QED
      BY <3>1, <3>2, <3>3, <3>4 DEF Holds
  <2> QED
    BY <2>3, <2>4, <2>5 DEF Called, AllHold
<1> QED
  BY <1>1, <1>2

\* Behind the first j - 1 commands, the work of the k-th is there, or that of
\* another one that ships the same file; and its pattern is gone.
Work(q, k, j, d) ==
  /\ \E i \in 1..(j - 1) :
       /\ i = k \/ {q[i].op, q[k].op} = {"ship"}
       /\ <<q[i].file, q[i].text>> \in d.has
  /\ q[k].op = "subst" /\ ~Grows(q[k]) => <<q[k].file, q[k].at>> \notin d.has

LEMMA CalledWorks ==
  ASSUME NEW q, NEW k \in Nat, k > 0, InPlace(q[k]), q[k].text \in q[k].new,
         NEW x, Called(q[k], x)
  PROVE  Work(q, k, k + 1, After(q[k], x))
<1> DEFINE c == q[k]
           e == After(c, x)
<1>1. e = Effect(c, x) /\ Writes(c, x) = {c.file} \X c.new
  BY DEF Called, After, Writes
<1>2. <<c.file, c.text>> \in e.has
  BY <1>1, InPlaceEffect
<1>3. c.op = "subst" /\ ~Grows(c) => <<c.file, c.at>> \notin e.has
  BY <1>1, InPlaceEffect DEF Grows, Erases
<1>4. k \in 1..((k + 1) - 1)
  OBVIOUS
<1> QED
  BY <1>2, <1>3, <1>4 DEF Work

LEMMA WorkStays ==
  ASSUME NEW f, NEW q, AllOn(f, q), Len(q) \in Nat,
         NEW k \in 1..Len(q), NEW j \in (k + 1)..Len(q),
         q[j].text \in q[j].new,
         \A i \in 1..(j - 1) : LeavesWork(q[j], q[i]),
         NEW x, Work(q, k, j, x)
  PROVE  Work(q, k, j + 1, After(q[j], x))
<1> DEFINE d == q[j]
           e == After(d, x)
<1>1. j \in 1..Len(q) /\ k \in 1..(j - 1) /\ j - 1 \in Nat
  OBVIOUS
<1>2. /\ InPlace(d) /\ d.file = f
      /\ \A i \in 1..Len(q) : InPlace(q[i]) /\ q[i].file = f
  BY <1>1 DEF AllOn
<1>3. PICK i \in 1..(j - 1) :
        /\ i = k \/ {q[i].op, q[k].op} = {"ship"}
        /\ <<q[i].file, q[i].text>> \in x.has
  BY DEF Work
<1>4. i \in 1..Len(q) /\ i \in 1..j /\ j \in 1..j
  BY <1>1
<1>5. \E n \in 1..j :
        /\ n = k \/ {q[n].op, q[k].op} = {"ship"}
        /\ <<q[n].file, q[n].text>> \in e.has
  <2>1. CASE e = x
    BY <1>3, <1>4, <2>1
  <2>2. CASE e # x /\ {q[i].op, d.op} = {"ship"}
    <3>1. e = Effect(d, x) /\ Writes(d, x) = {d.file} \X d.new
      BY <2>2 DEF After, Writes
    <3>2. <<d.file, d.text>> \in e.has
      BY <1>2, <3>1, InPlaceEffect
    <3>3. {d.op, q[k].op} = {"ship"}
      BY <1>3, <2>2
    <3> QED
      BY <1>4, <3>2, <3>3
  <2>3. CASE {q[i].op, d.op} # {"ship"}
    <3>1. Spares(d, q[i].text)
      BY <2>3 DEF LeavesWork
    <3>2. <<q[i].file, q[i].text>> \in e.has
      BY <1>2, <1>3, <1>4, <3>1, SparedStays
    <3> QED
      BY <1>3, <1>4, <3>2
  <2> QED
    BY <2>1, <2>2, <2>3
<1>6. q[k].op = "subst" /\ ~Grows(q[k]) => <<q[k].file, q[k].at>> \notin e.has
  <2> SUFFICES ASSUME q[k].op = "subst", ~Grows(q[k])
               PROVE  <<q[k].file, q[k].at>> \notin e.has
    OBVIOUS
  <2>1. <<q[k].file, q[k].at>> \notin x.has /\ q[k].at \notin d.new
    BY <1>1 DEF Work, LeavesWork
  <2>2. <<q[k].file, q[k].at>> \notin Writes(d, x)
    BY <2>1 DEF Writes
  <2> QED
    BY <1>2, <2>1, <2>2, InPlaceEffect DEF After
<1>7. 1..((j + 1) - 1) = 1..j
  BY <1>1
<1> QED
  BY <1>5, <1>6, <1>7, Zenon DEF Work

\* A run of an orderly compound command does what its directory calls for.
LEMMA CalledIsMade ==
  ASSUME NEW block, NEW f, Len(block.commands) \in Nat, AllOn(f, block.commands), Orderly(block),
         \A j \in 1..Len(block.commands) : block.commands[j].text \in block.commands[j].new,
         NEW U, \A j \in 1..Len(block.commands) : \A x \in U : After(block.commands[j], x) \in U,
         NEW d \in U, AllHold(block.guard, d),
         NEW k \in 1..Len(block.commands), Called(block.commands[k], d)
  PROVE  Work(block.commands, k, Len(block.commands) + 1, BlockResult(block, d))
<1> DEFINE q == block.commands
           m == Len(q) + 1
           D == [j \in 1..m |-> {x \in U : IF j <= k THEN Called(q[k], x) ELSE Work(q, k, j, x)}]
<1>1. ASSUME NEW j \in 1..Len(q), NEW x \in D[j] PROVE After(q[j], x) \in D[j + 1]
  <2>0. j \in 1..m /\ j + 1 \in 1..m /\ x \in U
    BY <1>1
  <2>1. CASE j < k
    <3>1. Called(q[k], x) /\ LetsRun(q[j], q[k])
      BY <2>0, <2>1 DEF Orderly
    <3>2. Called(q[k], After(q[j], x))
      BY <3>1, StaysCalled DEF AllOn
    <3>3. j + 1 <= k
      BY <2>1
    <3> QED
      BY <2>0, <3>2, <3>3
  <2>2. CASE j = k
    <3>1. Called(q[k], x)
      BY <2>0, <2>2
    <3>2. k \in Nat /\ k > 0 /\ InPlace(q[k]) /\ q[k].text \in q[k].new
      BY DEF AllOn
    <3>4. Work(q, k, k + 1, After(q[k], x))
      <4> HIDE DEF q
      <4> QED
        BY <3>1, <3>2, CalledWorks
    <3>3. ~(j + 1 <= k)
      BY <2>2
    <3> QED
      BY <2>0, <2>2, <3>3, <3>4
  <2>3. CASE j > k
    <3>1. Work(q, k, j, x) /\ j \in (k + 1)..Len(q)
      BY <2>0, <2>3
    <3>2. \A i \in 1..(j - 1) : LeavesWork(q[j], q[i])
      BY DEF Orderly
    <3>3. Work(q, k, j + 1, After(q[j], x))
      BY <3>1, <3>2, WorkStays
    <3>4. ~(j + 1 <= k)
      BY <2>3
    <3> QED
      BY <2>0, <3>3, <3>4
  <2> QED
    BY <2>1, <2>2, <2>3
<1>2. d \in D[1]
  BY DEF Orderly
<1>3. Result(q, 1, d) \in D[m]
  <2> HIDE DEF D
  <2> QED
    BY <1>1, <1>2, ResultThrough
<1> QED
  BY <1>3 DEF BlockResult
=============================================================================
