------------------------------- MODULE CpuInfo -------------------------------
(***************************************************************************)
(* parseCPUInfoSW64, which the porter of procfs appends to cpuinfo.go: one *)
(* pass over the lines of /proc/cpuinfo that starts a new CPUInfo at each  *)
(* line "processor" and gives every other line to the one started last.    *)
(* The value of a field is the number of the line that it was taken from.  *)
(***************************************************************************)
EXTENDS Integers, Sequences

CONSTANTS
  TextFields,     \* "vendor_id", "model", ...: taken as they are
  NumericFields,  \* "cpu MHz", "bogomips", "cache_alignment": parsed
  OtherKeys,      \* keys the switch does not know
  Infos           \* the contents of /proc/cpuinfo: sequences of lines

Fields == TextFields \cup NumericFields

\* "processors" stands for a key that has "processor" as a proper prefix.
Keys == {"", "processor", "processors"} \cup Fields \cup OtherKeys

\* A line: its key, whether it contains ": ", only ":", or no colon, whether
\* a number follows, and whether it is longer than bufio.Scanner reads.
Line == [key : Keys, colon : {"split", "bare", "none"}, number : BOOLEAN, long : BOOLEAN]

ASSUME InfoAssumption ==
  /\ Infos \subseteq Seq(Line)
  /\ {"", "processor", "processors"} \cap (Fields \cup OtherKeys) = {}
  /\ Fields \cap OtherKeys = {}

VARIABLES
  info,     \* the input
  read,     \* how many of its lines have been scanned
  pc,       \* "first", "scan", "returned", "failed" or "panicked"
  cpuinfo,  \* the CPUInfos: where each starts and what its fields hold
  i         \* index of the current one, from 0

vars == <<info, read, pc, cpuinfo, i>>

Blank(l) == l.key = "" /\ l.colon = "none"

\* A CPUInfo as append makes it: no field set.
NewCPU(k) == [start |-> k, field |-> [f \in Fields |-> 0]]

Init ==
  /\ info \in Infos
  /\ read = 0 /\ pc = "first"
  /\ cpuinfo = <<>> /\ i = 0

-----------------------------------------------------------------------------

\* scanner.Scan() is false at the end and at a line that is too long.
More == read < Len(info) /\ ~info[read + 1].long

Next1 == info[read + 1]

Fail == pc' = "failed" /\ cpuinfo' = <<>> /\ UNCHANGED <<info, i>>

\* firstNonEmptyLine.
SkipBlank ==
  /\ pc = "first" /\ More /\ Blank(Next1)
  /\ read' = read + 1
  /\ UNCHANGED <<info, pc, cpuinfo, i>>

NoFirstLine ==
  /\ pc = "first" /\ ~More
  /\ Fail /\ UNCHANGED read

First == pc = "first" /\ More /\ ~Blank(Next1) /\ read' = read + 1

StartsWell(l) == l.key \in {"processor", "processors"} /\ l.colon # "none"

FirstInvalid ==
  /\ First /\ ~StartsWell(Next1)
  /\ Fail

\* field[1] of a line without ": ".
FirstUnsplit ==
  /\ First /\ StartsWell(Next1) /\ Next1.colon = "bare"
  /\ pc' = "panicked"
  /\ UNCHANGED <<info, cpuinfo, i>>

FirstUnparsed ==
  /\ First /\ StartsWell(Next1) /\ Next1.colon = "split" /\ ~Next1.number
  /\ Fail

FirstProcessor ==
  /\ First /\ StartsWell(Next1) /\ Next1.colon = "split" /\ Next1.number
  /\ cpuinfo' = <<NewCPU(read + 1)>>
  /\ i' = 0 /\ pc' = "scan"
  /\ UNCHANGED info

-----------------------------------------------------------------------------
(* The loop.                                                               *)

Scan == pc = "scan" /\ More /\ read' = read + 1

\* Without ": ", field[0] is the whole line: no case of the switch has a colon.
Switch(keys) == Next1.colon = "split" /\ Next1.key \in keys

Ignore ==
  /\ Scan /\ ~Switch({"processor"} \cup Fields)
  /\ UNCHANGED <<info, pc, cpuinfo, i>>

\* Mutant: a number that does not parse is passed over.
UnparsedSkipped ==
  /\ Scan /\ Switch({"processor"} \cup NumericFields) /\ ~Next1.number
  /\ UNCHANGED <<info, pc, cpuinfo, i>>

Unparsed ==
  /\ Scan /\ Switch({"processor"} \cup NumericFields) /\ ~Next1.number
  /\ Fail

\* Mutant: the index stays where it was.
NextProcessorSameIndex ==
  /\ Scan /\ Switch({"processor"}) /\ Next1.number
  /\ cpuinfo' = Append(cpuinfo, NewCPU(read + 1))
  /\ UNCHANGED <<info, pc, i>>

\* Mutant: the next CPUInfo begins as a copy of the one before.
NextProcessorCarriesOver ==
  /\ Scan /\ Switch({"processor"}) /\ Next1.number
  /\ cpuinfo' = Append(cpuinfo, [cpuinfo[i + 1] EXCEPT !.start = read + 1])
  /\ i' = i + 1
  /\ UNCHANGED <<info, pc>>

NextProcessor ==
  /\ Scan /\ Switch({"processor"}) /\ Next1.number
  /\ cpuinfo' = Append(cpuinfo, NewCPU(read + 1))
  /\ i' = i + 1
  /\ UNCHANGED <<info, pc>>

SetField ==
  /\ Scan /\ Switch(Fields)
  /\ Next1.key \in NumericFields => Next1.number
  /\ cpuinfo' = [cpuinfo EXCEPT ![i + 1].field[Next1.key] = read + 1]
  /\ UNCHANGED <<info, pc, i>>

\* The loop's end does not ask scanner.Err().
Return ==
  /\ pc = "scan" /\ ~More
  /\ pc' = "returned"
  /\ UNCHANGED <<info, read, cpuinfo, i>>

Next ==
  \/ SkipBlank \/ NoFirstLine \/ FirstInvalid \/ FirstUnsplit \/ FirstUnparsed \/ FirstProcessor
  \/ Ignore \/ Unparsed \/ NextProcessor \/ SetField \/ Return

Spec == Init /\ [][Next]_vars

-----------------------------------------------------------------------------
(* Properties.                                                             *)

Parsed == pc \in {"scan", "returned"}

\* Types; and the index that the loop counts beside the list is that of its
\* last element, so that cpuinfo[i] never panics.
TypeOK ==
  /\ info \in Seq(Line)
  /\ read \in 0..Len(info)
  /\ pc \in {"first", "scan", "returned", "failed", "panicked"}
  /\ cpuinfo \in Seq([start : Nat, field : [Fields -> Nat]])
  /\ i \in Nat
  /\ Parsed => Len(cpuinfo) = i + 1

IsProcessor(l) == l.key = "processor" /\ l.colon = "split"

\* Where the lines of CPU j end.
EndOf(j) == IF j < Len(cpuinfo) THEN cpuinfo[j + 1].start - 1 ELSE read

\* The CPUInfos are those of the lines "processor", in their order: none is
\* lost, made up or swapped.
EveryProcessorInOrder ==
  Parsed =>
    /\ \A j \in 1..Len(cpuinfo) : cpuinfo[j].start \in 1..read /\ cpuinfo[j].start <= EndOf(j)
    /\ \A k \in 1..read : IsProcessor(info[k]) => \E j \in 1..Len(cpuinfo) : cpuinfo[j].start = k
    /\ \A j \in 2..Len(cpuinfo) : IsProcessor(info[cpuinfo[j].start])

Sets(k, f) == info[k].key = f /\ info[k].colon = "split"

OwnLines(j, f) == {k \in 1..read : cpuinfo[j].start < k /\ k <= EndOf(j) /\ Sets(k, f)}

\* What a processor is said to have was read between its own line and that
\* of the next: a field is that of the last such line, and unset when there
\* is none; no field is carried over from the processor before.
FieldsOfOwnLines ==
  Parsed =>
    \A j \in 1..Len(cpuinfo) : \A f \in Fields :
      IF OwnLines(j, f) = {} THEN cpuinfo[j].field[f] = 0
      ELSE /\ cpuinfo[j].field[f] \in OwnLines(j, f)
           /\ \A k \in OwnLines(j, f) : k <= cpuinfo[j].field[f]
=============================================================================
