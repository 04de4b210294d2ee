---------------------------- MODULE CpuInfo_proofs ----------------------------
(***************************************************************************)
(* For every set of fields and every input: the parser's index is in range, *)
(* each processor of the input is listed in its place, and its fields are  *)
(* those of its own lines.                                                 *)
(***************************************************************************)
EXTENDS CpuInfo, Integers, TLAPS

CPU == [start : Nat, field : [Fields -> Nat]]

\* Only empty lines come before the first processor.
BlankBefore == pc = "first" => \A k \in 1..read : Blank(info[k])

IInv == TypeOK /\ BlankBefore /\ EveryProcessorInOrder /\ FieldsOfOwnLines

\* A CPUInfo that append makes.
LEMMA NewCPUType ==
  ASSUME NEW k \in Nat
  PROVE  NewCPU(k) \in CPU /\ NewCPU(k).start = k /\ \A f \in Fields : NewCPU(k).field[f] = 0
BY DEF NewCPU, CPU

\* The line at hand.
LEMMA NextLine ==
  ASSUME TypeOK, More
  PROVE  /\ read \in Nat /\ Len(info) \in Nat
         /\ read + 1 \in 1..Len(info)
         /\ Next1 = info[read + 1] /\ Next1 \in Line
<1>1. read \in Nat /\ Len(info) \in Nat /\ read < Len(info)
  BY DEF TypeOK, More
<1>2. read + 1 \in 1..Len(info)
  BY <1>1
<1>3. info[read + 1] \in Line
  BY <1>2 DEF TypeOK
<1> QED
  BY <1>1, <1>2, <1>3 DEF Next1

-----------------------------------------------------------------------------
(* What the assignment to a field changes.                                 *)

LEMMA SetFieldEffect ==
  ASSUME TypeOK, SetField
  PROVE  /\ cpuinfo' \in Seq(CPU) /\ Len(cpuinfo') = Len(cpuinfo) /\ i + 1 \in 1..Len(cpuinfo)
         /\ \A j \in 1..Len(cpuinfo) : cpuinfo'[j].start = cpuinfo[j].start
         /\ Next1.key \in Fields
         /\ \A j \in 1..Len(cpuinfo), f \in Fields :
              cpuinfo'[j].field[f] =
                IF j = i + 1 /\ f = Next1.key THEN read + 1 ELSE cpuinfo[j].field[f]
<1>1. /\ cpuinfo \in Seq(CPU) /\ i \in Nat /\ Len(cpuinfo) = i + 1
      /\ Next1.key \in Fields
      /\ cpuinfo' = [cpuinfo EXCEPT ![i + 1].field[Next1.key] = read + 1]
  BY DEF TypeOK, SetField, Scan, Switch, CPU, Parsed
<1>2. read + 1 \in Nat
  BY NextLine DEF SetField, Scan
<1>3. i + 1 \in 1..Len(cpuinfo)
  BY <1>1
<1> DEFINE k   == Next1.key
           old == cpuinfo[i + 1]
           new == [old EXCEPT !.field[k] = read + 1]
<1>4. old \in CPU
  BY <1>1, <1>3
<1>5. new \in CPU /\ new.start = old.start
      /\ \A f \in Fields : new.field[f] = IF f = k THEN read + 1 ELSE old.field[f]
  BY <1>1, <1>2, <1>4 DEF CPU
<1>6. cpuinfo' = [cpuinfo EXCEPT ![i + 1] = new]
  BY <1>1
<1>7. cpuinfo' \in Seq(CPU) /\ Len(cpuinfo') = Len(cpuinfo)
      /\ \A j \in 1..Len(cpuinfo) : cpuinfo'[j] = IF j = i + 1 THEN new ELSE cpuinfo[j]
  <2> HIDE DEF new
  <2> QED
    BY <1>1, <1>3, <1>5, <1>6
<1> QED
  BY <1>1, <1>3, <1>5, <1>7

-----------------------------------------------------------------------------
(* Types.                                                                  *)

LEMMA InitInv == Init => IInv
<1> SUFFICES ASSUME Init PROVE IInv
  OBVIOUS
<1>1. info \in Seq(Line)
  BY InfoAssumption DEF Init, InfoAssumption
<1>2. TypeOK
  BY <1>1 DEF Init, TypeOK, Parsed
<1> QED
  BY <1>2 DEF Init, IInv, BlankBefore, EveryProcessorInOrder, FieldsOfOwnLines, Parsed

LEMMA NextType == TypeOK /\ [Next]_vars => TypeOK'
<1> SUFFICES ASSUME TypeOK, [Next]_vars PROVE TypeOK'
  OBVIOUS
<1>0. /\ info \in Seq(Line) /\ read \in 0..Len(info) /\ i \in Nat
      /\ cpuinfo \in Seq(CPU) /\ Len(info) \in Nat
  BY DEF TypeOK, CPU
<1>a. More => read + 1 \in 0..Len(info)
  BY NextLine
<1>1. CASE SkipBlank
  BY <1>1, <1>a DEF SkipBlank, TypeOK, Parsed
<1>2. CASE NoFirstLine \/ FirstInvalid \/ FirstUnparsed \/ Unparsed
  <2>1. read' \in 0..Len(info)
    BY <1>2, <1>0, <1>a DEF NoFirstLine, FirstInvalid, FirstUnparsed, Unparsed, First, Scan
  <2>2. Fail
    BY <1>2 DEF NoFirstLine, FirstInvalid, FirstUnparsed, Unparsed
  <2> QED
    BY <2>1, <2>2 DEF Fail, TypeOK, Parsed
<1>3. CASE FirstUnsplit
  BY <1>3, <1>a DEF FirstUnsplit, First, TypeOK, Parsed
<1>4. CASE FirstProcessor
  <2>1. read + 1 \in Nat
    BY <1>4, NextLine DEF FirstProcessor, First
  <2>2. cpuinfo' \in Seq(CPU) /\ Len(cpuinfo') = 1
    BY <1>4, <2>1, NewCPUType DEF FirstProcessor
  <2> QED
    BY <1>4, <1>0, <1>a, <2>2 DEF FirstProcessor, First, TypeOK, Parsed, CPU
<1>5. CASE Ignore
  BY <1>5, <1>a DEF Ignore, Scan, TypeOK, Parsed
<1>6. CASE NextProcessor
  <2>1. read + 1 \in Nat
    BY <1>6, NextLine DEF NextProcessor, Scan
  <2>2. cpuinfo' \in Seq(CPU) /\ Len(cpuinfo') = Len(cpuinfo) + 1
    BY <1>6, <1>0, <2>1, NewCPUType DEF NextProcessor
  <2>3. Len(cpuinfo) = i + 1
    BY <1>6 DEF NextProcessor, Scan, TypeOK, Parsed
  <2> QED
    BY <1>6, <1>0, <1>a, <2>2, <2>3 DEF NextProcessor, Scan, TypeOK, CPU
<1>7. CASE SetField
  <2>1. Len(cpuinfo) = i + 1 /\ pc = "scan"
    BY <1>7 DEF SetField, Scan, TypeOK, Parsed
  <2> QED
    BY <1>7, <1>0, <1>a, <2>1, SetFieldEffect DEF SetField, Scan, TypeOK, CPU
<1>8. CASE Return
  BY <1>8 DEF Return, TypeOK, Parsed
<1>9. CASE UNCHANGED vars
  BY <1>9 DEF vars, TypeOK, Parsed
<1> QED
  BY <1>1, <1>2, <1>3, <1>4, <1>5, <1>6, <1>7, <1>8, <1>9 DEF Next

\* Types, and the index of the current CPUInfo is that of the last.
THEOREM CpuTypeCorrect == Spec => []TypeOK
<1>1. Init => TypeOK
  BY InitInv DEF IInv
<1> QED
  BY <1>1, NextType, PTL DEF Spec

-----------------------------------------------------------------------------
(* The order of the processors and their fields.                           *)

LEMMA NextBlank == TypeOK /\ BlankBefore /\ [Next]_vars => BlankBefore'
<1> SUFFICES ASSUME TypeOK, BlankBefore, [Next]_vars, pc' = "first"
             PROVE  \A k \in 1..(read') : Blank(info'[k])
  BY DEF BlankBefore, Blank
<1>1. CASE SkipBlank
  <2>1. pc = "first" /\ read' = read + 1 /\ info' = info /\ More /\ Blank(Next1)
    BY <1>1 DEF SkipBlank
  <2>2. read \in Nat /\ Next1 = info[read + 1]
    BY <2>1, NextLine
  <2>3. \A k \in 1..(read + 1) : k \in 1..read \/ k = read + 1
    BY <2>2
  <2> QED
    BY <2>1, <2>2, <2>3 DEF BlankBefore
<1>2. CASE UNCHANGED vars
  BY <1>2 DEF vars, BlankBefore
<1>3. CASE Next /\ ~SkipBlank
  BY <1>3 DEF Next, NoFirstLine, FirstInvalid, FirstUnsplit, FirstUnparsed, FirstProcessor,
              Ignore, Unparsed, NextProcessor, SetField, Return, Scan, Fail
<1> QED
  BY <1>1, <1>2, <1>3

\* The first processor: only empty lines come before it, none after.
LEMMA FirstInv ==
  ASSUME IInv, FirstProcessor
  PROVE  EveryProcessorInOrder' /\ FieldsOfOwnLines'
<1>1. /\ read \in Nat /\ read' = read + 1 /\ info' = info /\ pc' = "scan"
      /\ cpuinfo' = <<NewCPU(read + 1)>>
      /\ \A k \in 1..read : Blank(info[k])
  BY NextLine DEF FirstProcessor, First, IInv, BlankBefore
<1>2. /\ Len(cpuinfo') = 1 /\ cpuinfo'[1].start = read + 1
      /\ \A f \in Fields : cpuinfo'[1].field[f] = 0
  BY <1>1, NewCPUType
<1>3. EndOf(1)' = read + 1
  BY <1>1, <1>2 DEF EndOf
<1>4. EveryProcessorInOrder'
  <2>1. \A k \in 1..(read') : k \in 1..read \/ k = read + 1
    BY <1>1
  <2>2. \A k \in 1..(read') : IsProcessor(info'[k]) => k = read + 1
    BY <1>1, <2>1 DEF IsProcessor, Blank
  <2>3. cpuinfo'[1].start \in 1..(read') /\ cpuinfo'[1].start <= EndOf(1)'
    BY <1>1, <1>2, <1>3
  <2> QED
    BY <1>2, <2>2, <2>3 DEF EveryProcessorInOrder, IsProcessor
<1>5. \A f \in Fields : OwnLines(1, f)' = {}
  BY <1>1, <1>2, <1>3 DEF OwnLines
<1> QED
  BY <1>2, <1>4, <1>5 DEF FieldsOfOwnLines

\* A line is read and the list stays: what that does to the bounds.
LEMMA SameStarts ==
  ASSUME IInv, Scan, info' = info, pc' = pc,
         cpuinfo' \in Seq(CPU), Len(cpuinfo') = Len(cpuinfo),
         \A j \in 1..Len(cpuinfo) : cpuinfo'[j].start = cpuinfo[j].start,
         ~IsProcessor(Next1)
  PROVE  /\ EveryProcessorInOrder'
         /\ \A j \in 1..Len(cpuinfo) :
              EndOf(j)' = IF j = Len(cpuinfo) THEN read + 1 ELSE EndOf(j)
<1>1. /\ read \in Nat /\ read' = read + 1 /\ Next1 = info[read + 1] /\ Parsed /\ TypeOK
      /\ Len(cpuinfo) \in Nat
  BY NextLine DEF Scan, IInv, Parsed, TypeOK
<1>2. \A j \in 1..Len(cpuinfo) : EndOf(j)' = IF j = Len(cpuinfo) THEN read + 1 ELSE EndOf(j)
  BY <1>1 DEF EndOf
<1>3. \A j \in 1..Len(cpuinfo) : cpuinfo[j].start \in 1..read /\ cpuinfo[j].start <= EndOf(j)
  BY <1>1 DEF IInv, EveryProcessorInOrder
<1>4. \A j \in 1..Len(cpuinfo) : cpuinfo[j].start \in 1..(read + 1) /\ cpuinfo[j].start <= EndOf(j)'
  BY <1>1, <1>2, <1>3
<1>5. \A k \in 1..(read + 1) : IsProcessor(info[k]) => \E j \in 1..Len(cpuinfo) : cpuinfo[j].start = k
  BY <1>1 DEF IInv, EveryProcessorInOrder
<1>6. \A j \in 2..Len(cpuinfo) : IsProcessor(info[cpuinfo[j].start])
  BY <1>1 DEF IInv, EveryProcessorInOrder
<1>7. EveryProcessorInOrder'
  <2>1. \A j \in 1..Len(cpuinfo') :
          cpuinfo'[j].start \in 1..(read') /\ cpuinfo'[j].start <= EndOf(j)'
    BY <1>1, <1>4
  <2>2. \A k \in 1..(read') : IsProcessor(info'[k]) => \E j \in 1..Len(cpuinfo') : cpuinfo'[j].start = k
    BY <1>1, <1>5
  <2>3. \A j \in 2..Len(cpuinfo') : IsProcessor(info'[cpuinfo'[j].start])
    <3>1. \A j \in 2..Len(cpuinfo) : j \in 1..Len(cpuinfo)
      BY <1>1
    <3> QED
      BY <1>6, <3>1
  <2> QED
    BY <2>1, <2>2, <2>3 DEF EveryProcessorInOrder, IsProcessor
<1> QED
  BY <1>2, <1>7

\* A line that no case of the switch takes.
LEMMA IgnoreInv ==
  ASSUME IInv, Ignore
  PROVE  EveryProcessorInOrder' /\ FieldsOfOwnLines'
<1>1. /\ Scan /\ info' = info /\ pc' = pc /\ cpuinfo' = cpuinfo /\ cpuinfo \in Seq(CPU)
      /\ read \in Nat /\ read' = read + 1 /\ Next1 = info[read + 1] /\ Parsed
      /\ Len(cpuinfo) \in Nat
  BY NextLine DEF Ignore, Scan, IInv, TypeOK, CPU, Parsed
<1>2. ~IsProcessor(Next1) /\ \A f \in Fields : ~Sets(read + 1, f)
  BY <1>1 DEF Ignore, Switch, IsProcessor, Sets
<1>3. /\ EveryProcessorInOrder'
      /\ \A j \in 1..Len(cpuinfo) : EndOf(j)' = IF j = Len(cpuinfo) THEN read + 1 ELSE EndOf(j)
  BY <1>1, <1>2, SameStarts
<1>4. EndOf(Len(cpuinfo)) = read
  BY <1>1 DEF EndOf
<1>5. ASSUME NEW j \in 1..Len(cpuinfo), NEW f \in Fields
      PROVE  OwnLines(j, f)' = OwnLines(j, f)
  <2>1. \A k : k \in 1..(read + 1) <=> k \in 1..read \/ k = read + 1
    BY <1>1
  <2>2. \A k \in 1..read : k <= EndOf(j)' <=> k <= EndOf(j)
    BY <1>1, <1>3, <1>4
  <2> QED
    BY <1>1, <1>2, <2>1, <2>2 DEF OwnLines, Sets
<1> QED
  BY <1>1, <1>3, <1>5 DEF IInv, FieldsOfOwnLines

\* The bounds of the processors before the current one lie behind the line
\* at hand.
LEMMA EarlierEnds ==
  ASSUME IInv, Parsed
  PROVE  \A j \in 1..Len(cpuinfo) : EndOf(j) \in Int /\ EndOf(j) <= read
                                      /\ (j = Len(cpuinfo) => EndOf(j) = read)
<1>1. /\ Len(cpuinfo) \in Nat /\ read \in Nat
      /\ \A j \in 1..Len(cpuinfo) : cpuinfo[j].start \in 1..read
  BY DEF IInv, TypeOK, EveryProcessorInOrder
<1>2. ASSUME NEW j \in 1..Len(cpuinfo), j < Len(cpuinfo)
      PROVE  EndOf(j) \in Int /\ EndOf(j) <= read
  <2>1. cpuinfo[j + 1].start \in 1..read
    BY <1>1, <1>2
  <2> QED
    BY <1>1, <1>2, <2>1 DEF EndOf
<1> QED
  BY <1>1, <1>2 DEF EndOf

\* A line that sets a field of the current processor.
LEMMA SetFieldInv ==
  ASSUME IInv, SetField
  PROVE  EveryProcessorInOrder' /\ FieldsOfOwnLines'
<1>0. PICK last, key : last = Len(cpuinfo) /\ key = Next1.key
  OBVIOUS
<1>1. /\ Scan /\ info' = info /\ pc' = pc
      /\ read \in Nat /\ read' = read + 1 /\ Next1 = info[read + 1] /\ Parsed
      /\ last \in Nat /\ last = i + 1
  BY <1>0, NextLine DEF SetField, Scan, IInv, TypeOK, Parsed
<1>2. /\ cpuinfo' \in Seq(CPU) /\ Len(cpuinfo') = last
      /\ \A j \in 1..last : cpuinfo'[j].start = cpuinfo[j].start
      /\ key \in Fields
      /\ \A j \in 1..last, f \in Fields :
           cpuinfo'[j].field[f] = IF j = i + 1 /\ f = key THEN read + 1 ELSE cpuinfo[j].field[f]
  BY <1>0, SetFieldEffect DEF IInv
<1>3. ~IsProcessor(Next1) /\ \A f \in Fields : Sets(read + 1, f) <=> f = key
  BY <1>0, <1>1, <1>2, InfoAssumption DEF SetField, Switch, IsProcessor, Sets, InfoAssumption
<1>4. /\ EveryProcessorInOrder'
      /\ \A j \in 1..last : EndOf(j)' = IF j = last THEN read + 1 ELSE EndOf(j)
  BY <1>0, <1>1, <1>2, <1>3, SameStarts
<1>5. \A j \in 1..last : EndOf(j) \in Int /\ EndOf(j) <= read /\ (j = last => EndOf(j) = read)
  BY <1>0, <1>1, EarlierEnds
<1>6. \A k : k \in 1..(read + 1) <=> k \in 1..read \/ k = read + 1
  BY <1>0, <1>1
<1>7. ASSUME NEW j \in 1..last, NEW f \in Fields, ~(j = last /\ f = key)
      PROVE  OwnLines(j, f)' = OwnLines(j, f)
  <2>1. \A k \in 1..read : k <= EndOf(j)' <=> k <= EndOf(j)
    BY <1>0, <1>1, <1>4, <1>5
  <2>2. ~(read + 1 <= EndOf(j)' /\ Sets(read + 1, f))
    BY <1>0, <1>1, <1>3, <1>4, <1>5, <1>7
  <2> QED
    BY <1>0, <1>1, <1>2, <1>6, <2>1, <2>2 DEF OwnLines, Sets
<1>8. ASSUME last \in 1..last
      PROVE  /\ read + 1 \in OwnLines(last, key)'
             /\ \A k \in OwnLines(last, key)' : k <= read + 1
  <2>1. cpuinfo'[last].start < read + 1
    BY <1>0, <1>1, <1>2, <1>8 DEF IInv, EveryProcessorInOrder
  <2>2. info'[read + 1].key = key /\ info'[read + 1].colon = "split"
    BY <1>0, <1>1, <1>2, <1>3 DEF Sets
  <2>3. read + 1 \in 1..(read') /\ read + 1 <= EndOf(last)'
    BY <1>0, <1>1, <1>4, <1>8
  <2>4. read + 1 \in OwnLines(last, key)'
    BY <2>1, <2>2, <2>3 DEF OwnLines, Sets
  <2> QED
    BY <1>0, <1>1, <2>4 DEF OwnLines
<1>9. ASSUME NEW j \in 1..last, NEW f \in Fields
      PROVE  IF OwnLines(j, f)' = {} THEN cpuinfo'[j].field[f] = 0
             ELSE /\ cpuinfo'[j].field[f] \in OwnLines(j, f)'
                  /\ \A k \in OwnLines(j, f)' : k <= cpuinfo'[j].field[f]
  <2>1. CASE j = last /\ f = key
    <3>1. cpuinfo'[j].field[f] = read + 1
      BY <1>0, <1>1, <1>2, <2>1
    <3> QED
      BY <1>0, <1>8, <2>1, <3>1
  <2>2. CASE ~(j = last /\ f = key)
    <3>1. cpuinfo'[j].field[f] = cpuinfo[j].field[f] /\ OwnLines(j, f)' = OwnLines(j, f)
      BY <1>0, <1>1, <1>2, <1>7, <2>2
    <3> QED
      BY <1>0, <1>1, <3>1 DEF IInv, FieldsOfOwnLines
  <2> QED
    BY <2>1, <2>2
<1> QED
  BY <1>0, <1>2, <1>4, <1>9 DEF FieldsOfOwnLines

\* A line that starts the next processor.
LEMMA NextProcessorInv ==
  ASSUME IInv, NextProcessor
  PROVE  EveryProcessorInOrder' /\ FieldsOfOwnLines'
<1>0. PICK last : last = Len(cpuinfo)
  OBVIOUS
<1>1. /\ info' = info /\ read \in Nat /\ read' = read + 1 /\ Next1 = info[read + 1]
      /\ Parsed /\ last \in Nat /\ cpuinfo \in Seq(CPU) /\ IsProcessor(Next1)
  BY <1>0, NextLine DEF NextProcessor, Scan, Switch, IInv, TypeOK, Parsed, IsProcessor, CPU
<1>2. /\ NewCPU(read + 1) \in CPU /\ NewCPU(read + 1).start = read + 1
      /\ \A f \in Fields : NewCPU(read + 1).field[f] = 0
  BY <1>0, <1>1, NewCPUType
<1>3. cpuinfo' = Append(cpuinfo, NewCPU(read + 1))
  BY DEF NextProcessor
<1>4. /\ Len(cpuinfo') = last + 1 /\ cpuinfo'[last + 1] = NewCPU(read + 1)
      /\ \A j \in 1..last : cpuinfo'[j] = cpuinfo[j]
  BY <1>0, <1>1, <1>2, <1>3
<1>5. \A j \in 1..last : EndOf(j) \in Int /\ EndOf(j) <= read /\ (j = last => EndOf(j) = read)
  BY <1>0, <1>1, EarlierEnds
<1>6. EndOf(last + 1)' = read + 1
  BY <1>0, <1>1, <1>4 DEF EndOf
<1>7. \A j \in 1..last : EndOf(j)' = EndOf(j)
  <2>1. \A j \in 1..last : j < last => j + 1 \in 1..last
    BY <1>0, <1>1
  <2>2. \A j \in 1..last : j < last => EndOf(j)' = EndOf(j)
    BY <1>0, <1>1, <1>4, <2>1 DEF EndOf
  <2>3. 1 <= last => EndOf(last)' = read
    BY <1>0, <1>1, <1>2, <1>4 DEF EndOf
  <2> QED
    BY <1>0, <1>1, <1>5, <2>2, <2>3
<1>8. \A j \in 1..Len(cpuinfo') : j \in 1..last \/ j = last + 1
  BY <1>0, <1>1, <1>4
<1>9. EveryProcessorInOrder'
  <2>1. \A j \in 1..Len(cpuinfo') :
          cpuinfo'[j].start \in 1..(read') /\ cpuinfo'[j].start <= EndOf(j)'
    <3>1. \A j \in 1..last : cpuinfo[j].start \in 1..read /\ cpuinfo[j].start <= EndOf(j)
      BY <1>0, <1>1 DEF IInv, EveryProcessorInOrder
    <3>2. \A j \in 1..last : cpuinfo'[j].start \in 1..(read') /\ cpuinfo'[j].start <= EndOf(j)'
      BY <1>0, <1>1, <1>4, <1>7, <3>1
    <3>3. cpuinfo'[last + 1].start \in 1..(read') /\ cpuinfo'[last + 1].start <= EndOf(last + 1)'
      BY <1>0, <1>1, <1>2, <1>4, <1>6
    <3> QED
      BY <1>0, <1>8, <3>2, <3>3
  <2>2. \A k \in 1..(read') : IsProcessor(info'[k]) => \E j \in 1..Len(cpuinfo') : cpuinfo'[j].start = k
    <3>1. \A k \in 1..read : IsProcessor(info[k]) => \E j \in 1..last : cpuinfo[j].start = k
      BY <1>0, <1>1 DEF IInv, EveryProcessorInOrder
    <3>2. \A k \in 1..(read') : k \in 1..read \/ k = read + 1
      BY <1>0, <1>1
    <3>3. 1..last \subseteq 1..Len(cpuinfo') /\ last + 1 \in 1..Len(cpuinfo')
      BY <1>0, <1>1, <1>4
    <3> QED
      BY <1>0, <1>1, <1>2, <1>4, <3>1, <3>2, <3>3
  <2>3. \A j \in 2..Len(cpuinfo') : IsProcessor(info'[cpuinfo'[j].start])
    <3>1. \A j \in 2..last : IsProcessor(info[cpuinfo[j].start])
      BY <1>0, <1>1 DEF IInv, EveryProcessorInOrder
    <3>2. \A j \in 2..Len(cpuinfo') : (j \in 2..last /\ j \in 1..last) \/ j = last + 1
      BY <1>0, <1>1, <1>4
    <3> QED
      BY <1>0, <1>1, <1>2, <1>4, <3>1, <3>2
  <2> QED
    BY <2>1, <2>2, <2>3 DEF EveryProcessorInOrder, IsProcessor
<1>10. \A k : k \in 1..(read + 1) <=> k \in 1..read \/ k = read + 1
  BY <1>0, <1>1
<1>11. ASSUME NEW j \in 1..last, NEW f \in Fields
       PROVE  OwnLines(j, f)' = OwnLines(j, f)
  <2>1. ~(read + 1 <= EndOf(j)')
    BY <1>0, <1>1, <1>5, <1>7
  <2> QED
    BY <1>0, <1>1, <1>4, <1>7, <1>10, <2>1 DEF OwnLines, Sets
<1>12. \A f \in Fields : OwnLines(last + 1, f)' = {}
  BY <1>0, <1>1, <1>2, <1>4, <1>6 DEF OwnLines
<1>13. \A j \in 1..last, f \in Fields : cpuinfo'[j].field[f] = cpuinfo[j].field[f]
  BY <1>0, <1>4
<1> QED
  BY <1>0, <1>1, <1>2, <1>4, <1>8, <1>9, <1>11, <1>12, <1>13 DEF IInv, FieldsOfOwnLines

LEMMA NextInv == IInv /\ [Next]_vars => IInv'
<1> SUFFICES ASSUME IInv, [Next]_vars PROVE IInv'
  OBVIOUS
<1>1. TypeOK' /\ BlankBefore'
  BY NextType, NextBlank DEF IInv
<1>2. CASE FirstProcessor \/ Ignore \/ SetField \/ NextProcessor
  BY <1>1, <1>2, FirstInv, IgnoreInv, SetFieldInv, NextProcessorInv DEF IInv
<1>3. CASE SkipBlank \/ NoFirstLine \/ FirstInvalid \/ FirstUnsplit \/ FirstUnparsed \/ Unparsed
  <2>1. ~Parsed'
    BY <1>3 DEF SkipBlank, NoFirstLine, FirstInvalid, FirstUnsplit, FirstUnparsed, Unparsed,
                Fail, Parsed
  <2> QED
    BY <1>1, <2>1 DEF IInv, EveryProcessorInOrder, FieldsOfOwnLines
<1>4. CASE Return
  <2>1. Parsed /\ info' = info /\ read' = read /\ cpuinfo' = cpuinfo
    BY <1>4 DEF Return, Parsed
  <2> QED
    BY <1>1, <2>1 DEF IInv, EveryProcessorInOrder, FieldsOfOwnLines, OwnLines, EndOf, Sets, IsProcessor
<1>5. CASE UNCHANGED vars
  BY <1>1, <1>5 DEF vars, IInv, EveryProcessorInOrder, FieldsOfOwnLines, OwnLines, EndOf, Sets,
                   IsProcessor, Parsed
<1> QED
  BY <1>2, <1>3, <1>4, <1>5 DEF Next

\* Every processor line of the input makes one record, and the records are in
\* the order of the lines.
THEOREM CpuOrderCorrect == Spec => []EveryProcessorInOrder
<1>1. IInv => EveryProcessorInOrder
  BY DEF IInv
<1> QED
  BY InitInv, NextInv, <1>1, PTL DEF Spec

\* A record holds the last value that the lines of its own processor give to
\* each field, and nothing of its neighbours.
THEOREM CpuFieldsCorrect == Spec => []FieldsOfOwnLines
<1>1. IInv => FieldsOfOwnLines
  BY DEF IInv
<1> QED
  BY InitInv, NextInv, <1>1, PTL DEF Spec
=============================================================================
