----------------------------- MODULE EditScript -----------------------------
(***************************************************************************)
(* The vocabulary of the porters pkg/*/port.sh: the shell tests they guard *)
(* their work with, the commands that change the vendored package, and     *)
(* what each does to the directory of that package.                        *)
(*                                                                         *)
(* A directory is a record                                                 *)
(*   there : the files that exist,                                         *)
(*   has   : pairs <<file, word>>, the words that the file contains, of    *)
(*           those the porter greps for, anchors a sed script at or writes, *)
(*   twice : the pairs that were written when they were there already.     *)
(* A "word" stands for the whole pattern or the whole inserted text.       *)
(***************************************************************************)
EXTENDS Naturals, Sequences, FiniteSets

-----------------------------------------------------------------------------
(* Tests.  A test over several files is grep over a glob or [ .. -o .. ].  *)

Test(kind, files, word) == [kind |-> kind, files |-> files, word |-> word]

Exists(f)   == Test("exists",  {f}, "")      \* [ -f f ]
Missing(f)  == Test("missing", {f}, "")      \* [ ! -f f ]
Has(f, w)   == Test("has",     {f}, w)       \* [ -n "$( grep w f )" ]
Lacks(f, w) == Test("lacks",   {f}, w)       \* [ -z "$( grep w f )" ]

Holds(t, dir) ==
  /\ t.kind = "exists"  => t.files \cap dir.there # {}
  /\ t.kind = "missing" => t.files \cap dir.there = {}
  /\ t.kind = "has"     => (t.files \X {t.word}) \cap dir.has # {}
  /\ t.kind = "lacks"   => (t.files \X {t.word}) \cap dir.has = {}

AllHold(tests, dir) == \A t \in tests : Holds(t, dir)

\* What a directory holds of a file.
Part(f, dir) ==
  [there |-> f \in dir.there,
   has   |-> {x \in dir.has : x[1] = f},
   twice |-> {x \in dir.twice : x[1] = f}]

-----------------------------------------------------------------------------
(* Commands.  "text" names what the command writes and nothing else does;  *)
(* "new" adds the words another test or anchor finds in that text; "when"  *)
(* holds the tests of an inner if; "soft" says that && follows.            *)

Command(op, file, from, at, text, words) ==
  [op |-> op, file |-> file, from |-> from, at |-> at, text |-> text,
   new |-> {text} \cup words, when |-> {}, soft |-> FALSE]

AfterLine(f, at, text, words) == Command("after",  f, f, at, text, words)  \* sed -i '/at/a text' f
Subst(f, at, text, words)     == Command("subst",  f, f, at, text, words)  \* sed -i 's/at/text/' f
Delete(f, at, text)           == Command("delete", f, f, at, text, {})     \* sed -i "${START},${END}d" f
AppendTo(f, text, words)      == Command("append", f, f, "", text, words)  \* cat text >> f
Ship(f, text, words)          == Command("ship",   f, f, "", text, words)  \* cp -f $BASH_DIR/f f
CopyFile(g, f, text)          == Command("copy",   f, g, "", text, {})     \* cp -f g f
MoveFile(g, f, text)          == Command("move",   f, g, "", text, {})     \* mv g f

If(tests, c) == [c EXCEPT !.when = @ \cup tests]
AndThen(c)   == [c EXCEPT !.soft = TRUE]

\* A compound command: the tests of the outer if, evaluated once, and its body.
On(tests, commands) == [guard |-> tests, commands |-> commands]

-----------------------------------------------------------------------------
(* Effects.                                                                *)

\* sed, cp and mv fail when the file they read is not there; >> creates it.
\* A range of lines is counted from the line that grep finds: when it finds
\* none the range is "-3,11", which sed refuses.
CanRun(c, dir) ==
  /\ c.op \in {"after", "subst"} => c.file \in dir.there
  /\ c.op = "delete" => c.file \in dir.there /\ <<c.file, c.at>> \in dir.has
  /\ c.op \in {"copy", "move"}   => c.from \in dir.there

\* A sed script whose pattern matches no line succeeds and writes nothing.
Writes(c, dir) ==
  IF c.op \in {"after", "subst"} /\ <<c.file, c.at>> \notin dir.has THEN {}
  ELSE {c.file} \X c.new

Erases(c, x) ==
  \/ c.op \in {"ship", "copy", "move"} /\ x[1] = c.file
  \/ c.op = "move" /\ x[1] = c.from
  \/ c.op \in {"subst", "delete"} /\ x = <<c.file, c.at>>

Brings(c, pairs) ==
  IF c.op \in {"copy", "move"}
  THEN {<<c.file, x[2]>> : x \in {y \in pairs : y[1] = c.from}} ELSE {}

Kept(c, pairs) == {x \in pairs : ~Erases(c, x)} \cup Brings(c, pairs)

Effect(c, dir) ==
  [there |-> (dir.there \ (IF c.op = "move" THEN {c.from} ELSE {})) \cup {c.file},
   has   |-> Kept(c, dir.has) \cup Writes(c, dir),
   twice |-> Kept(c, dir.twice) \cup (Kept(c, dir.has) \cap Writes(c, dir))]

\* cp opens its target with O_TRUNC: interrupted, it leaves an empty file.
\* sed -i and mv rename, and the texts of >> fit in one write.
Torn(c, dir) ==
  IF c.op \in {"ship", "copy"}
  THEN [there |-> dir.there \cup {c.file},
        has   |-> {x \in dir.has : x[1] # c.file},
        twice |-> {x \in dir.twice : x[1] # c.file}]
  ELSE dir

-----------------------------------------------------------------------------
(* What a script mentions.                                                 *)

CommandsOf(script) ==
  UNION { {script[b].commands[k] : k \in 1..Len(script[b].commands)} : b \in 1..Len(script) }

TestsOf(script) ==
  UNION { script[b].guard : b \in 1..Len(script) }
    \cup UNION { c.when : c \in CommandsOf(script) }

FilesOf(script) ==
  UNION { {c.file, c.from} : c \in CommandsOf(script) }
    \cup UNION { t.files : t \in TestsOf(script) }

TextsOf(script) == { c.text : c \in CommandsOf(script) }

WordsOf(script) ==
  UNION { c.new \cup {c.at} : c \in CommandsOf(script) }
    \cup { t.word : t \in TestsOf(script) }

\* The commands of a chain c1 && c2 && ...; after ck fails, the next command
\* the shell runs is the one behind the chain's last.
BehindChain(commands, k) ==
  { j \in (k + 1)..(Len(commands) + 1) :
      /\ ~commands[j - 1].soft
      /\ \A i \in k..(j - 2) : commands[i].soft }

-----------------------------------------------------------------------------
(* Big-step meaning: what a run without failure makes of each directory of *)
(* a set.                                                                  *)

After(c, dir) == IF AllHold(c.when, dir) /\ CanRun(c, dir) THEN Effect(c, dir) ELSE dir

RunCommand(c, dirs) == {After(c, d) : d \in dirs}

\* The commands from the k-th on.
RunFrom(commands, k, dirs) ==
  LET after[j \in k..(Len(commands) + 1)] ==
        IF j = k THEN dirs ELSE RunCommand(commands[j - 1], after[j - 1])
  IN  after[Len(commands) + 1]

RunBlock(block, dirs) ==
  UNION {IF AllHold(block.guard, d) THEN RunFrom(block.commands, 1, {d}) ELSE {d} : d \in dirs}

Ported(script, dirs) ==
  LET after[b \in 0..Len(script)] == IF b = 0 THEN dirs ELSE RunBlock(script[b], after[b - 1])
  IN  after[Len(script)]

-----------------------------------------------------------------------------
(* Discipline of a script: what makes a second run harmless.               *)

\* A command that may write its text again, whatever it has written before.
Grows(c) ==
  \/ c.op \in {"after", "append"}
  \/ c.op = "subst" /\ c.at \in c.new

\* The outer if looks for a word that the command writes and nothing removes.
MarkedBy(script, b, c, m) ==
  /\ m \in c.new
  /\ Lacks(c.file, m) \in script[b].guard
  /\ \A d \in CommandsOf(script) :
       /\ d.file = c.file => /\ d.op \in {"after", "append", "subst"}
                             /\ d.op = "subst" /\ d.at = m => m \in d.new
       /\ d.op = "move" => d.from # c.file

\* Command i of the compound command writes the file of command k anew,
\* without a test and outside of any chain.
ResetBy(script, b, i, k) ==
  LET reset == script[b].commands[i]
      c     == script[b].commands[k]
  IN  /\ reset.op = "ship" /\ reset.file = c.file
      /\ reset.when = {} /\ ~reset.soft
      /\ i > 1 => ~script[b].commands[i - 1].soft
      /\ c.text \notin reset.new

ResetBefore(script, b, k) == \E i \in 1..(k - 1) : ResetBy(script, b, i, k)

\* Nothing else writes the command's text to its file, or to one it is a
\* copy of.
OwnText(script, b, k) ==
  LET c == script[b].commands[k]
  IN  \A i \in 1..Len(script) : \A j \in 1..Len(script[i].commands) :
        LET d == script[i].commands[j]
        IN  d.file = c.file /\ <<i, j>> # <<b, k>> =>
              /\ c.text \notin d.new
              /\ d.op # "move"
              /\ d.op = "copy" => \A e \in CommandsOf(script) :
                                    e.file = d.from => /\ c.text \notin e.new
                                                       /\ e.op \notin {"copy", "move"}

Disciplined(script) ==
  \A b \in 1..Len(script) : \A k \in 1..Len(script[b].commands) :
    LET c == script[b].commands[k]
    IN  Grows(c) => /\ OwnText(script, b, k)
                    /\ \/ \E m \in c.new : MarkedBy(script, b, c, m)
                       \/ Missing(c.file) \in script[b].guard
                       \/ ResetBefore(script, b, k)

(* What makes a porter end in the same directory however often it is run:  *)
(* its compound commands work independently, and each finds out by itself  *)
(* what is left to do.                                                     *)

CommandsIn(block) == {block.commands[k] : k \in 1..Len(block.commands)}

TestsIn(block) == block.guard \cup UNION {c.when : c \in CommandsIn(block)}

FileOf(block) == block.commands[1].file

FilesIn(block) == {FileOf(block)} \cup UNION {t.files : t \in TestsIn(block)}

InPlace(c) == c.op \in {"after", "append", "subst", "ship"}

\* Each compound command edits or ships a file that no other one looks at.
Local(script) ==
  \A b \in 1..Len(script) :
    /\ script[b].commands # <<>>
    /\ \A c \in CommandsIn(script[b]) : InPlace(c) /\ c.file = FileOf(script[b])
    /\ \A i \in 1..Len(script) : i # b => FileOf(script[b]) \notin FilesIn(script[i])

\* The words whose absence it asks for and that each of its commands writes.
Marks(block) ==
  {t \in block.guard : /\ t.kind = "lacks" /\ t.files = {FileOf(block)}
                       /\ \A c \in CommandsIn(block) : t.word \in c.new}

Marked(block) == Marks(block) # {} /\ \A c \in CommandsIn(block) : c.op # "ship"

\* Substitutions none of which writes what one of them looks for.
Settling(block) ==
  /\ \A c, d \in CommandsIn(block) : c.op = "subst" /\ c.at \notin d.new
  /\ \A t \in TestsIn(block) : t.kind \in {"has", "lacks"} => FileOf(block) \notin t.files

\* The file is shipped before it is edited, whatever it holds.
Rebuilding(block) ==
  /\ \A t \in TestsIn(block) : FileOf(block) \notin t.files
  /\ \A k \in 1..Len(block.commands) :
       \/ block.commands[k].op = "ship"
       \/ \E i \in 1..(k - 1) : block.commands[i].op = "ship" /\ block.commands[i].when = {}

Convergent(script) ==
  /\ Local(script)
  /\ \A b \in 1..Len(script) :
       Marked(script[b]) \/ Settling(script[b]) \/ Rebuilding(script[b])

\* Two variants of which at most one runs: opposite tests, and the first
\* variant leaves alone what the second one tests.
Exclusive(c, d) ==
  \E t \in c.when, u \in d.when :
    /\ t.files = u.files /\ t.word = u.word
    /\ {t.kind, u.kind} \in {{"has", "lacks"}, {"exists", "missing"}}
    /\ c.file \in u.files => u.kind \in {"has", "lacks"} /\ u.word \notin c.new \cup {c.at}

(* What makes a run complete the work of one that was interrupted: the     *)
(* marker is written by the last command of its block that runs, and no    *)
(* failure is passed over.                                                 *)
SelfRepairing(block) ==
  /\ \A c \in CommandsIn(block) : ~c.soft
  /\ \/ Settling(block) \/ Rebuilding(block)
     \/ \A k \in 1..Len(block.commands) : \A j \in 1..(k - 1) :
          Exclusive(block.commands[j], block.commands[k])

Resumable(script) ==
  Convergent(script) /\ \A b \in 1..Len(script) : SelfRepairing(script[b])

\* No inner test asks for a file that the script itself makes, and none is
\* moved away: the files that an interrupted run has left are not taken for
\* those of another version of the package.
TellsVersions(script) ==
  \A c \in CommandsOf(script) :
    /\ c.op # "move"
    /\ \A t \in c.when : t.kind \in {"exists", "missing"} =>
         \A d \in CommandsOf(script) : d.file \notin t.files

(* What makes a run do everything that the vendored package calls for: of  *)
(* two commands on a file, the first one takes nothing away that the       *)
(* second one waits for, and the second one nothing that the first has     *)
(* made.                                                                   *)

\* Where the word was there before the edit it is there behind it.
Spares(d, word) ==
  /\ d.op = "ship" => word \in d.new
  /\ d.op = "subst" /\ d.at = word => word \in d.new

\* Tests that no directory passes both of.
Contrary(c, d) ==
  \E t \in c.when, u \in d.when :
    /\ t.files = u.files /\ t.word = u.word
    /\ {t.kind, u.kind} \in {{"has", "lacks"}, {"exists", "missing"}}

LetsRun(d, c) ==
  \/ Contrary(d, c)
  \/ /\ c.op \in {"after", "subst"} => Spares(d, c.at)
     /\ \A t \in c.when : d.file \in t.files =>
          /\ t.kind # "missing"
          /\ t.kind = "has"   => Spares(d, t.word)
          /\ t.kind = "lacks" => t.word \notin d.new

LeavesWork(d, c) ==
  /\ {c.op, d.op} # {"ship"} => Spares(d, c.text)
  /\ c.op = "subst" /\ ~Grows(c) => c.at \notin d.new

Orderly(block) ==
  \A k \in 1..Len(block.commands) : \A j \in 1..(k - 1) :
    /\ LetsRun(block.commands[j], block.commands[k])
    /\ LeavesWork(block.commands[k], block.commands[j])
=============================================================================
