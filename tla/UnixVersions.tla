---------------------------- MODULE UnixVersions ----------------------------
(***************************************************************************)
(* The versions of golang.org/x/sys/unix, as far as its porters tell them  *)
(* apart: for each change in the package's history that they react to, the *)
(* version has what was declared before it or what is declared since.  And *)
(* what the fate of a word depends on when a version is ported: so little  *)
(* that a few versions show it for all.                                    *)
(***************************************************************************)
EXTENDS UnixPort

CONSTANTS
  Lasting,    \* what every version has that a porter is used for
  Changes,   \* for a porter, the changes: pairs of what is declared before and after
  Headers,   \* the build lines that a version may have
  Others     \* for a porter, versions that are no mixture of changes

Mixture(p, pick, lines) ==
  [there |-> AllFiles \ Sw64Files,
   has   |-> Lasting[p] \cup lines \cup UNION {Changes[p][i][pick[i]] : i \in DOMAIN Changes[p]},
   twice |-> {}]

\* Before or after each change, in any combination.
Picks(p) == [DOMAIN Changes[p] -> 1..2]

\* Before or after all changes, but for one.
NearPicks(p) ==
  {[i \in DOMAIN Changes[p] |-> IF i = odd THEN side ELSE base] :
     odd \in DOMAIN Changes[p] \cup {0}, side \in 1..2, base \in 1..2}

Vendorable(p) == {Mixture(p, pick, lines) : pick \in Picks(p), lines \in Headers} \cup Others[p]
Samples(p) == {Mixture(p, pick, lines) : pick \in NearPicks(p), lines \in Headers} \cup Others[p]

-----------------------------------------------------------------------------
(* What a word depends on.                                                 *)

\* The commands that fit the shipped files to the version; the words whose
\* presence one may change, and those that it looks for.
Fitters(p) == {c \in CommandsIn(Script[p][1]) : c.op # "ship"}

Affects(c) == c.new \cup (IF c.op \in {"subst", "delete"} THEN {c.at} ELSE {})

LooksFor(c) ==
  {t.word : t \in c.when} \cup (IF c.op \in {"after", "subst", "delete"} THEN {c.at} ELSE {})

\* With W, what is looked for by the commands that may change a word of W.
Grown(p, W) == W \cup UNION {LooksFor(c) : c \in {e \in Fitters(p) : Affects(e) \cap W # {}}}

Slice(p, V) == Grown(p, Grown(p, Grown(p, V \cup BuildLines)))

\* The same files, with the same words of W.
Alike(W, d, e) ==
  /\ d.there = e.there
  /\ \A x \in (d.has \ e.has) \cup (e.has \ d.has) : x[2] \notin W

\* The words that are at issue, of each statement about a ported version.
Questions(p) ==
  {{w} : w \in SymbolsOf(Script[p])} \cup {{u[1], u[2]} : u \in TypeOfFunction}
    \cup {{"errors", "fchmodat2"}, {"NoError", RawSyscallPair, SyscallPair}, {OldFutimesat}, {}}

\* The changes that W is about.
Touching(p, W) == {i \in DOMAIN Changes[p] : \E k \in 1..2 : \E x \in Changes[p][i][k] : x[2] \in W}

\* Each question is about no more than two changes, and no word that decides
\* it depends on others.
Separable(p) ==
  \A V \in Questions(p) :
    LET W == Slice(p, V)
    IN  /\ Grown(p, W) = W
        /\ \E i, j \in DOMAIN Changes[p] \cup {0} : Touching(p, W) \subseteq {i, j}

SamplesRight(p) ==
  \A s \in Samples(p) : \A d \in Ported(Script[p], {s}) :
    DeclaresAllOnce(p, s, d) /\ FindsWhatItUses(s, d)

SampledPorters == {p \in Packages : Separable(p) /\ SamplesRight(p)}
=============================================================================
