-------------------------- MODULE JmpDirective_proofs --------------------------
(***************************************************************************)
(* The code that buildJmpDirective builds jumps through the given address, *)
(* for every address and every width of a half.                            *)
(*                                                                         *)
(* The loop keeps target equal to the sum of the signed halves split off,  *)
(* each at its place, and of what is left of double at the next place;     *)
(* register 25 is congruent modulo the word to the sum of the halves added *)
(* so far.  What is left after the fourth half is a multiple of the word.  *)
(***************************************************************************)
EXTENDS JmpDirective, TLAPS

K2 == Base * Base
K3 == Base * Base * Base

Cong(a, b) == \E q \in Int : a = b + (Word * q)

-----------------------------------------------------------------------------
(* Arithmetic.                                                             *)

LEMMA Sizes ==
  /\ Base \in Nat /\ Base >= 2
  /\ Base \div 2 \in 1..(Base - 1)
  /\ K2 \in Nat /\ K3 \in Nat /\ Word \in Nat
  /\ Word = Base * K3 /\ K3 = Base * K2 /\ K2 = Base * Base
  /\ K3 >= 1 /\ K3 < Word
<1>1. Base \in Nat /\ Base > 0 /\ Base % 2 = 0
  BY JmpAssumption DEF JmpAssumption
<1>2. Base >= 2 /\ Base \div 2 \in 1..(Base - 1)
  BY <1>1
<1>3. K2 \in Nat /\ K3 \in Nat /\ K2 >= 1 /\ K3 >= 1
  BY <1>1, SMT DEF K2, K3
<1>4. Word = Base * K3 /\ K3 = Base * K2 /\ K2 = Base * Base
  BY <1>1, SMT DEF Word, K2, K3
<1>5. Word \in Nat /\ K3 < Word
  BY <1>1, <1>2, <1>3, <1>4, SMT
<1> QED
  BY <1>1, <1>2, <1>3, <1>4, <1>5

\* A remainder is a word and congruent to what it is the remainder of.
LEMMA Remainder ==
  ASSUME NEW x \in Int
  PROVE  x % Word \in 0..(Word - 1) /\ Cong(x % Word, x)
<1>1. Word \in Nat /\ Word > 0
  BY Sizes
<1>2. x % Word \in 0..(Word - 1) /\ x \div Word \in Int
  BY <1>1, SMT
<1>3. x = (Word * (x \div Word)) + (x % Word)
  BY <1>1, SMT
<1>4. x % Word = x + (Word * (-(x \div Word)))
  BY <1>1, <1>2, <1>3, SMT
<1> QED
  BY <1>2, <1>4 DEF Cong

\* Adding and multiplying in a register.
LEMMA RegisterSum ==
  ASSUME NEW a \in Int, NEW b \in Int, NEW c \in Int, Cong(a, b)
  PROVE  Cong((a + c) % Word, b + c)
<1>1. PICK q \in Int : a = b + (Word * q)
  BY DEF Cong
<1>2. PICK r \in Int : (a + c) % Word = (a + c) + (Word * r)
  BY Remainder DEF Cong
<1>3. Word \in Int
  BY Sizes
<1>4. (a + c) % Word = (b + c) + (Word * (q + r))
  BY <1>1, <1>2, <1>3, SMT
<1> QED
  BY <1>4 DEF Cong

LEMMA RegisterProduct ==
  ASSUME NEW a \in Int, NEW b \in Int, NEW c \in Int, Cong(a, b)
  PROVE  Cong((a * c) % Word, b * c)
<1>1. PICK q \in Int : a = b + (Word * q)
  BY DEF Cong
<1>2. PICK r \in Int : (a * c) % Word = (a * c) + (Word * r)
  BY Remainder DEF Cong
<1>3. Word \in Int
  BY Sizes
<1>4. a * c = (b * c) + (Word * (q * c))
  BY <1>1, <1>3, SMT
<1>5. (a * c) % Word = (b * c) + (Word * ((q * c) + r))
  BY <1>2, <1>3, <1>4, SMT
<1>6. (q * c) + r \in Int
  OBVIOUS
<1> QED
  BY <1>5, <1>6 DEF Cong

\* Two congruent words are equal.
LEMMA CongruentWords ==
  ASSUME NEW a \in 0..(Word - 1), NEW b \in 0..(Word - 1), NEW c \in Int, NEW d \in Int,
         Cong(a, c), b = c + (Word * d)
  PROVE  a = b
<1>1. PICK q \in Int : a = c + (Word * q)
  BY DEF Cong
<1>2. Word \in Nat
  BY Sizes
<1>3. a = b + (Word * (q - d))
  BY <1>1, <1>2, SMT
<1>4. q - d = 0
  BY <1>2, <1>3, SMT
<1> QED
  BY <1>2, <1>3, <1>4, SMT

LEMMA SignedType ==
  ASSUME NEW h \in Halves
  PROVE  Signed(h) \in Int /\ Signed(0) = 0
BY Sizes DEF Signed, Halves

\* One round of the loop splits the number exactly.
LEMMA SplitExact ==
  ASSUME NEW d \in 0..(Word - 1), NEW e,
         e = IF d % Base >= Base \div 2 THEN (d \div Base + 1) % Word ELSE d \div Base
  PROVE  /\ d % Base \in Halves
         /\ e \in 0..(Word - 1)
         /\ d = Signed(d % Base) + (Base * e)
<1>1. /\ Base \in Nat /\ Base >= 2 /\ K3 \in Nat /\ Word \in Nat
      /\ Word = Base * K3 /\ K3 >= 1 /\ K3 < Word
  BY Sizes
<1>2. d % Base \in Halves /\ d \div Base \in Nat
  BY <1>1, SMT DEF Halves
<1>3. d = (Base * (d \div Base)) + (d % Base)
  BY <1>1, SMT
<1>4. d \div Base <= K3 - 1
  BY <1>1, SMT
<1>5. CASE d % Base >= Base \div 2
  <2>1. d \div Base + 1 \in 0..(Word - 1)
    BY <1>1, <1>2, <1>4
  <2>2. (d \div Base + 1) % Word = d \div Base + 1
    BY <1>1, <2>1, SMT
  <2>3. e = d \div Base + 1
    BY <1>5, <2>2
  <2>4. Signed(d % Base) = (d % Base) - Base
    BY <1>5 DEF Signed
  <2>5. d = ((d % Base) - Base) + (Base * (d \div Base + 1))
    BY <1>1, <1>2, <1>3, SMT DEF Halves
  <2> QED
    BY <1>2, <2>1, <2>3, <2>4, <2>5
<1>6. CASE ~(d % Base >= Base \div 2)
  <2>1. e = d \div Base /\ Signed(d % Base) = d % Base
    BY <1>6 DEF Signed
  <2>2. d = (d % Base) + (Base * (d \div Base))
    BY <1>1, <1>2, <1>3, SMT DEF Halves
  <2> QED
    BY <1>1, <1>2, <1>4, <2>1, <2>2
<1> QED
  BY <1>5, <1>6
-----------------------------------------------------------------------------
(* The invariant.                                                          *)

Half(j) == Signed(bits[j])

High == (Half(3) * Base) + Half(2)
Low  == (Half(1) * Base) + Half(0)

SplitInv ==
  /\ i = 0 => target = double
  /\ i = 1 => target = Half(0) + (Base * double)
  /\ i = 2 => target = Low + (K2 * double)
  /\ i = 3 => target = Low + (K2 * Half(2)) + (K3 * double)
  /\ i = 4 => target = (High * K2) + Low + (Word * double)

RunInv ==
  /\ code # <<>> => i = 4 /\ code = Program(bits)
  /\ ip = 2 => Cong(r25, Half(3) * Base)
  /\ ip = 3 => Cong(r25, High)
  /\ ip = 4 => Cong(r25, High * K2)
  /\ ip = 5 => Cong(r25, (High * K2) + (Half(1) * Base))
  /\ ip = 6 => Cong(r25, (High * K2) + Low)
  /\ ip \in {7, 8} => r27 = target

JmpInv == TypeOK /\ SplitInv /\ RunInv

LEMMA HalfType ==
  ASSUME TypeOK
  PROVE  /\ \A j \in 0..3 : bits[j] \in Halves /\ Half(j) \in Int
         /\ High \in Int /\ Low \in Int
<1>1. \A j \in 0..3 : bits[j] \in Halves /\ Half(j) \in Int
  BY SignedType DEF TypeOK, Half
<1> QED
  BY <1>1, Sizes DEF High, Low

\* What the instructions are.
LEMMA ProgramFields ==
  ASSUME NEW b \in [0..3 -> Halves]
  PROVE  /\ Len(Program(b)) = 7 /\ Program(b) # <<>>
         /\ Program(b)[1] = [op |-> "ldih", ra |-> R25, rb |-> R31, disp |-> b[3]]
         /\ Program(b)[2] = [op |-> "ldi",  ra |-> R25, rb |-> R25, disp |-> b[2]]
         /\ Program(b)[3] = [op |-> "sll",  ra |-> R25, rb |-> R25, disp |-> 2]
         /\ Program(b)[4] = [op |-> "ldih", ra |-> R25, rb |-> R25, disp |-> b[1]]
         /\ Program(b)[5] = [op |-> "ldi",  ra |-> R25, rb |-> R25, disp |-> b[0]]
         /\ Program(b)[6] = [op |-> "ldl",  ra |-> R27, rb |-> R25, disp |-> 0]
         /\ Program(b)[7] = [op |-> "jmp",  ra |-> R31, rb |-> R27, disp |-> 0]
<1>1. \A h \in Halves : h % Base = h
  BY Sizes, SMT DEF Halves
<1>2. 0 \in Halves
  BY Sizes DEF Halves
<1>3. b[0] \in Halves /\ b[1] \in Halves /\ b[2] \in Halves /\ b[3] \in Halves
  OBVIOUS
<1>4. \A op, ra, rb, disp : disp \in Halves =>
        encodeInstMem(op, ra, rb, disp) = [op |-> op, ra |-> ra, rb |-> rb, disp |-> disp]
  BY <1>1 DEF encodeInstMem
<1> QED
  BY <1>2, <1>3, <1>4 DEF Program, encodeInstArith_Imm

LEMMA JmpInit == Init => JmpInv
<1> SUFFICES ASSUME Init PROVE JmpInv
  OBVIOUS
<1>1. TypeOK
  BY Sizes, JmpAssumption DEF Init, TypeOK, Halves, JmpAssumption
<1>2. SplitInv /\ RunInv
  BY DEF Init, SplitInv, RunInv
<1> QED
  BY <1>1, <1>2 DEF JmpInv

LEMMA SplitStep == JmpInv /\ Split => JmpInv'
<1> SUFFICES ASSUME JmpInv, Split PROVE JmpInv'
  OBVIOUS
<1>1. TypeOK /\ SplitInv /\ RunInv
  BY DEF JmpInv
<1>2. /\ Base \in Nat /\ Word \in Nat /\ K2 \in Nat /\ K3 \in Nat
      /\ Word = Base * K3 /\ K3 = Base * K2 /\ K2 = Base * Base
  BY Sizes
<1>3. /\ double % Base \in Halves /\ double' \in 0..(Word - 1)
      /\ double = Signed(double % Base) + (Base * double')
  BY <1>1, SplitExact DEF TypeOK, Split
<1>4. i \in 0..3 /\ i' = i + 1 /\ code = <<>> /\ ip = 1
  BY <1>1 DEF TypeOK, Split
<1>5. TypeOK'
  BY <1>1, <1>3, <1>4 DEF TypeOK, Split, processor
<1>6. \A j \in 0..3 : Half(j)' = IF j = i THEN Signed(double % Base) ELSE Half(j)
  BY <1>1, <1>4 DEF TypeOK, Split, Half, Signed
<1>7. \A j \in 0..3 : Half(j) \in Int /\ Half(j)' \in Int
  BY <1>1, <1>3, <1>4, <1>6, HalfType, SignedType
<1>8. target' = target /\ target \in Int /\ double \in Int /\ double' \in Int
  BY <1>1, <1>2, <1>3 DEF TypeOK, Split
<1>9. SplitInv'
  <2>0. \A j \in 0..3 : j = i => double = Half(j)' + (Base * double')
    BY <1>3, <1>6
  <2>1. CASE i = 0
    BY <1>1, <1>2, <1>4, <1>8, <2>0, <2>1 DEF SplitInv
  <2>2. CASE i = 1
    <3>1. target = Half(0) + (Base * double) /\ Half(0)' = Half(0)
      BY <1>1, <1>6, <2>2 DEF SplitInv
    <3>2. double = Half(1)' + (Base * double')
      BY <2>0, <2>2
    <3>3. target = ((Half(1)' * Base) + Half(0)') + (K2 * double')
      BY <1>2, <1>7, <1>8, <3>1, <3>2, SMT
    <3> QED
      BY <1>4, <1>8, <2>2, <3>3 DEF SplitInv, Low
  <2>3. CASE i = 2
    <3>1. target = Low + (K2 * double) /\ Low' = Low
      BY <1>1, <1>6, <2>3 DEF SplitInv, Low
    <3>2. double = Half(2)' + (Base * double')
      BY <2>0, <2>3
    <3>3. Low \in Int
      BY <1>1, HalfType
    <3>4. target = Low + (K2 * Half(2)') + (K3 * double')
      BY <1>2, <1>7, <1>8, <3>1, <3>2, <3>3, SMT
    <3> QED
      BY <1>4, <1>8, <2>3, <3>1, <3>4 DEF SplitInv
  <2>4. CASE i = 3
    <3>1. target = Low + (K2 * Half(2)) + (K3 * double) /\ Low' = Low /\ Half(2)' = Half(2)
      BY <1>1, <1>6, <2>4 DEF SplitInv, Low
    <3>2. double = Half(3)' + (Base * double')
      BY <2>0, <2>4
    <3>3. Low \in Int
      BY <1>1, HalfType
    <3>4. target = Low + (K2 * Half(2)') + (K3 * Half(3)') + (Word * double')
      BY <1>2, <1>7, <1>8, <3>1, <3>2, <3>3, SMT
    <3>5. (K2 * Half(2)') + (K3 * Half(3)') = ((Half(3)' * Base) + Half(2)') * K2
      BY <1>2, <1>7, SMT
    <3>6. target = (((Half(3)' * Base) + Half(2)') * K2) + Low + (Word * double')
      BY <1>2, <1>7, <1>8, <3>3, <3>4, <3>5, SMT
    <3> QED
      BY <1>4, <1>8, <2>4, <3>1, <3>6 DEF SplitInv, High
  <2> QED
    BY <1>4, <2>1, <2>2, <2>3, <2>4
<1>10. RunInv'
  BY <1>4 DEF RunInv, Split, processor
<1> QED
  BY <1>5, <1>9, <1>10 DEF JmpInv

LEMMA BuildStep == JmpInv /\ Build => JmpInv'
<1> SUFFICES ASSUME JmpInv, Build PROVE JmpInv'
  OBVIOUS
<1>1. TypeOK /\ SplitInv /\ RunInv /\ bits \in [0..3 -> Halves]
  BY DEF JmpInv, TypeOK
<1>2. Len(code') = 7 /\ code' # <<>>
  BY <1>1, ProgramFields DEF Build
<1>3. ip = 1
  BY <1>1 DEF TypeOK, Build
<1>4. TypeOK'
  BY <1>1, <1>2 DEF TypeOK, Build, processor
<1>5. SplitInv'
  BY <1>1 DEF SplitInv, Build, High, Low, Half, Signed
<1>6. RunInv'
  BY <1>2, <1>3 DEF RunInv, Build, processor
<1> QED
  BY <1>4, <1>5, <1>6 DEF JmpInv

\* Where the processor is when it executes an instruction of each kind, and the
\* fields of the instruction there.
LEMMA WhereItIs ==
  ASSUME JmpInv, Step
  PROVE  /\ bits \in [0..3 -> Halves] /\ code = Program(bits) /\ i = 4 /\ ip \in 1..7
         /\ Instruction.op = "ldih" => ip \in {1, 4}
         /\ Instruction.op = "ldi"  => ip \in {2, 5}
         /\ Instruction.op = "sll"  => ip = 3
         /\ Instruction.op = "ldl"  => ip = 6
         /\ Instruction.op = "jmp"  => ip = 7
         /\ ip = 1 => Instruction.rb = R31
         /\ ip \in 2..6 => Instruction.rb = R25
         /\ ip = 1 => Instruction.disp = bits[3]
         /\ ip = 2 => Instruction.disp = bits[2]
         /\ ip = 4 => Instruction.disp = bits[1]
         /\ ip = 5 => Instruction.disp = bits[0]
         /\ ip = 6 => Instruction.disp = 0
<1>1. bits \in [0..3 -> Halves]
  BY DEF JmpInv, TypeOK
<1>2. code # <<>>
  BY DEF Step
<1>3. code = Program(bits) /\ i = 4 /\ ip \in 1..7
  BY <1>1, <1>2, ProgramFields DEF JmpInv, RunInv, TypeOK, Step
<1>4. ip = 1 \/ ip = 2 \/ ip = 3 \/ ip = 4 \/ ip = 5 \/ ip = 6 \/ ip = 7
  BY <1>3
<1>5. CASE ip = 1
  <2>1. Instruction = [op |-> "ldih", ra |-> R25, rb |-> R31, disp |-> bits[3]]
    BY <1>1, <1>3, <1>5, ProgramFields DEF Instruction
  <2> QED
    BY <1>1, <1>3, <1>5, <2>1
<1>6. CASE ip = 2
  <2>1. Instruction = [op |-> "ldi", ra |-> R25, rb |-> R25, disp |-> bits[2]]
    BY <1>1, <1>3, <1>6, ProgramFields DEF Instruction
  <2> QED
    BY <1>1, <1>3, <1>6, <2>1
<1>7. CASE ip = 3
  <2>1. Instruction = [op |-> "sll", ra |-> R25, rb |-> R25, disp |-> 2]
    BY <1>1, <1>3, <1>7, ProgramFields DEF Instruction
  <2> QED
    BY <1>1, <1>3, <1>7, <2>1
<1>8. CASE ip = 4
  <2>1. Instruction = [op |-> "ldih", ra |-> R25, rb |-> R25, disp |-> bits[1]]
    BY <1>1, <1>3, <1>8, ProgramFields DEF Instruction
  <2> QED
    BY <1>1, <1>3, <1>8, <2>1
<1>9. CASE ip = 5
  <2>1. Instruction = [op |-> "ldi", ra |-> R25, rb |-> R25, disp |-> bits[0]]
    BY <1>1, <1>3, <1>9, ProgramFields DEF Instruction
  <2> QED
    BY <1>1, <1>3, <1>9, <2>1
<1>10. CASE ip = 6
  <2>1. Instruction = [op |-> "ldl", ra |-> R27, rb |-> R25, disp |-> 0]
    BY <1>1, <1>3, <1>10, ProgramFields DEF Instruction
  <2> QED
    BY <1>1, <1>3, <1>10, <2>1
<1>11. CASE ip = 7
  <2>1. Instruction = [op |-> "jmp", ra |-> R31, rb |-> R27, disp |-> 0]
    BY <1>1, <1>3, <1>11, ProgramFields DEF Instruction
  <2> QED
    BY <1>1, <1>3, <1>11, <2>1
<1> QED
  BY <1>4, <1>5, <1>6, <1>7, <1>8, <1>9, <1>10, <1>11

\* A step of the processor leaves what was built, and keeps the invariant if
\* it leaves the right value in the register it writes.
LEMMA ProcessorStep ==
  ASSUME JmpInv, Step, r25' \in 0..(Word - 1), r27' \in -1..(Word - 1),
         ip = 1 => Cong(r25', Half(3) * Base),
         ip = 2 => Cong(r25', High),
         ip = 3 => Cong(r25', High * K2),
         ip = 4 => Cong(r25', (High * K2) + (Half(1) * Base)),
         ip = 5 => Cong(r25', (High * K2) + Low),
         ip \in {6, 7} => r27' = target
  PROVE  JmpInv'
<1>1. code = Program(bits) /\ i = 4 /\ ip \in 1..7 /\ code # <<>>
  BY WhereItIs DEF Step
<1>2. UNCHANGED <<target, double, i, bits, code>> /\ ip' = ip + 1
  BY DEF Step, built
<1>3. /\ High' = High /\ Low' = Low
      /\ \A j \in 0..3 : Half(j)' = Half(j)
  BY <1>2 DEF High, Low, Half, Signed
<1>4. TypeOK'
  BY <1>1, <1>2 DEF JmpInv, TypeOK
<1>5. SplitInv'
  BY <1>2, <1>3 DEF JmpInv, SplitInv
<1>6. \A a, b : Cong(a, b)' <=> Cong(a, b)
  BY DEF Cong, Word
<1>7. (code # <<>> => i = 4 /\ code = Program(bits))'
  BY <1>1, <1>2 DEF Program, encodeInstMem, encodeInstArith_Imm
<1>8. RunInv'
  <2>1. ip' \in 2..8 /\ ip = ip' - 1
    BY <1>1, <1>2
  <2>2. /\ ip' = 2 => Cong(r25', Half(3)' * Base)
        /\ ip' = 3 => Cong(r25', High')
        /\ ip' = 4 => Cong(r25', High' * K2)
        /\ ip' = 5 => Cong(r25', (High' * K2) + (Half(1)' * Base))
        /\ ip' = 6 => Cong(r25', (High' * K2) + Low')
        /\ ip' \in {7, 8} => r27' = target'
    BY <1>2, <1>3, <2>1
  <2> QED
    BY <1>7, <2>2 DEF RunInv, Cong, Word, K2
<1> QED
  BY <1>4, <1>5, <1>8 DEF JmpInv

LEMMA LoadHighStep == JmpInv /\ LoadHigh => JmpInv'
<1> SUFFICES ASSUME JmpInv, LoadHigh PROVE JmpInv'
  OBVIOUS
<1>1. TypeOK /\ RunInv /\ Step /\ Instruction.op = "ldih"
  BY DEF JmpInv, LoadHigh
<1>2. ip \in {1, 4} /\ code = Program(bits) /\ bits \in [0..3 -> Halves]
  BY <1>1, WhereItIs
<1>3. /\ Half(1) \in Int /\ Half(3) \in Int /\ High \in Int
      /\ Base \in Nat /\ K2 \in Nat /\ r25 \in Int
  BY <1>1, HalfType, Sizes DEF TypeOK
<1>4. CASE ip = 1
  <2>1. Instruction.rb = R31 /\ Instruction.disp = bits[3]
    BY <1>1, <1>4, WhereItIs
  <2>2. r25' = (0 + (Half(3) * Base)) % Word
    BY <2>1 DEF LoadHigh, Register, Half
  <2>3. Cong(0, 0)
    BY Sizes DEF Cong
  <2>4. Cong(r25', 0 + (Half(3) * Base))
    <3>1. Half(3) * Base \in Int
      BY <1>3
    <3>2. Cong((0 + (Half(3) * Base)) % Word, 0 + (Half(3) * Base))
      BY <3>1, <2>2, <2>3, RegisterSum
    <3> QED
      BY <3>2, <2>2, <2>3
  <2>5. 0 + (Half(3) * Base) = Half(3) * Base
    BY <1>3
  <2>6. r25' \in 0..(Word - 1)
    BY <1>3, <2>2, Remainder
  <2>7. r27' \in -1..(Word - 1)
    BY <1>1 DEF TypeOK, LoadHigh
  <2> QED
    BY <1>1, <1>4, <2>4, <2>5, <2>6, <2>7, ProcessorStep
<1>5. CASE ip = 4
  <2>1. Instruction.rb = R25 /\ Instruction.disp = bits[1]
    BY <1>1, <1>5, WhereItIs
  <2>2. r25' = (r25 + (Half(1) * Base)) % Word
    BY <2>1 DEF LoadHigh, Register, Half, R25, R31
  <2>3. Cong(r25, High * K2)
    BY <1>1, <1>5 DEF RunInv
  <2>4. Cong(r25', (High * K2) + (Half(1) * Base))
    <3>1. r25 \in Int /\ High * K2 \in Int /\ Half(1) * Base \in Int
      BY <1>3
    <3>2. Cong((r25 + (Half(1) * Base)) % Word, (High * K2) + (Half(1) * Base))
      BY <3>1, <2>2, <2>3, RegisterSum
    <3> QED
      BY <3>2, <2>2, <2>3
  <2>5. r25' \in 0..(Word - 1)
    BY <1>3, <2>2, Remainder
  <2>6. r27' \in -1..(Word - 1)
    BY <1>1 DEF TypeOK, LoadHigh
  <2> QED
    BY <1>1, <1>5, <2>4, <2>5, <2>6, ProcessorStep
<1> QED
  BY <1>2, <1>4, <1>5

LEMMA LoadImmediateStep == JmpInv /\ LoadImmediate => JmpInv'
<1> SUFFICES ASSUME JmpInv, LoadImmediate PROVE JmpInv'
  OBVIOUS
<1>1. TypeOK /\ RunInv /\ Step /\ Instruction.op = "ldi"
  BY DEF JmpInv, LoadImmediate
<1>2. ip \in {2, 5} /\ code = Program(bits) /\ bits \in [0..3 -> Halves]
  BY <1>1, WhereItIs
<1>3. /\ \A j \in 0..3 : Half(j) \in Int
      /\ High \in Int /\ Base \in Nat /\ K2 \in Nat /\ r25 \in Int
  BY <1>1, HalfType, Sizes DEF TypeOK
<1>4. r27' \in -1..(Word - 1)
  BY <1>1 DEF TypeOK, LoadImmediate
<1>5. CASE ip = 2
  <2>1. Instruction.rb = R25 /\ Instruction.disp = bits[2]
    BY <1>1, <1>5, WhereItIs
  <2>2. r25' = (r25 + Half(2)) % Word
    BY <2>1 DEF LoadImmediate, Register, Half, R25, R31
  <2>3. Cong(r25, Half(3) * Base)
    BY <1>1, <1>5 DEF RunInv
  <2>4. Cong(r25', (Half(3) * Base) + Half(2))
    <3>1. r25 \in Int /\ Half(3) * Base \in Int /\ Half(2) \in Int
      BY <1>3
    <3>2. Cong((r25 + Half(2)) % Word, (Half(3) * Base) + Half(2))
      BY <3>1, <2>2, <2>3, RegisterSum
    <3> QED
      BY <3>2, <2>2, <2>3
  <2>5. r25' \in 0..(Word - 1)
    BY <1>3, <2>2, Remainder
  <2> QED
    BY <1>1, <1>4, <1>5, <2>4, <2>5, ProcessorStep DEF High
<1>6. CASE ip = 5
  <2>1. Instruction.rb = R25 /\ Instruction.disp = bits[0]
    BY <1>1, <1>6, WhereItIs
  <2>2. r25' = (r25 + Half(0)) % Word
    BY <2>1 DEF LoadImmediate, Register, Half, R25, R31
  <2>3. Cong(r25, (High * K2) + (Half(1) * Base))
    BY <1>1, <1>6 DEF RunInv
  <2>4. Cong(r25', ((High * K2) + (Half(1) * Base)) + Half(0))
    <3>1. r25 \in Int /\ (High * K2) + (Half(1) * Base) \in Int /\ Half(0) \in Int
      BY <1>3
    <3>2. Cong((r25 + Half(0)) % Word, ((High * K2) + (Half(1) * Base)) + Half(0))
      BY <3>1, <2>2, <2>3, RegisterSum
    <3> QED
      BY <3>2, <2>2, <2>3
  <2>5. ((High * K2) + (Half(1) * Base)) + Half(0) = (High * K2) + Low
    BY <1>3 DEF Low
  <2>6. r25' \in 0..(Word - 1)
    BY <1>3, <2>2, Remainder
  <2> QED
    BY <1>1, <1>4, <1>6, <2>4, <2>5, <2>6, ProcessorStep
<1> QED
  BY <1>2, <1>5, <1>6

LEMMA ShiftLeftStep == JmpInv /\ ShiftLeft => JmpInv'
<1> SUFFICES ASSUME JmpInv, ShiftLeft PROVE JmpInv'
  OBVIOUS
<1>1. TypeOK /\ RunInv /\ Step /\ Instruction.op = "sll"
  BY DEF JmpInv, ShiftLeft
<1>2. ip = 3 /\ code = Program(bits) /\ bits \in [0..3 -> Halves]
  BY <1>1, WhereItIs
<1>3. High \in Int /\ K2 \in Nat /\ r25 \in Int
  BY <1>1, HalfType, Sizes DEF TypeOK
<1>4. Instruction.rb = R25
  BY <1>1, <1>2, WhereItIs
<1>5. r25' = (r25 * K2) % Word
  BY <1>4 DEF ShiftLeft, Register, K2, R25, R31
<1>6. Cong(r25', High * K2)
  <2>1. r25 \in Int /\ High \in Int /\ K2 \in Int /\ Cong(r25, High)
    BY <1>1, <1>2, <1>3 DEF RunInv
  <2>2. Cong((r25 * K2) % Word, High * K2)
    BY <2>1, <1>5, RegisterProduct
  <2> QED
    BY <2>2, <1>5
<1>7. r25' \in 0..(Word - 1)
  BY <1>3, <1>5, Remainder
<1>8. r27' \in -1..(Word - 1)
  BY <1>1 DEF TypeOK, ShiftLeft
<1> QED
  BY <1>1, <1>2, <1>6, <1>7, <1>8, ProcessorStep

LEMMA LoadWordStep == JmpInv /\ LoadWord => JmpInv'
<1> SUFFICES ASSUME JmpInv, LoadWord PROVE JmpInv'
  OBVIOUS
<1>1. TypeOK /\ SplitInv /\ RunInv /\ Step /\ Instruction.op = "ldl"
  BY DEF JmpInv, LoadWord
<1>2. ip = 6 /\ i = 4 /\ code = Program(bits) /\ bits \in [0..3 -> Halves]
  BY <1>1, WhereItIs
<1>3. /\ High \in Int /\ Low \in Int /\ K2 \in Nat /\ Word \in Nat
      /\ r25 \in 0..(Word - 1) /\ target \in 0..(Word - 1) /\ double \in Int
  BY <1>1, HalfType, Sizes DEF TypeOK
<1>4. Instruction.rb = R25 /\ Instruction.disp = 0
  BY <1>1, <1>2, WhereItIs
<1>5. Signed(0) = 0
  BY Sizes DEF Signed
<1>6. r27' = (r25 + 0) % Word
  BY <1>4, <1>5 DEF LoadWord, Register, R25, R31
<1>7. Cong(r25, (High * K2) + Low)
  BY <1>1, <1>2 DEF RunInv
<1>8. target = ((High * K2) + Low) + (Word * double)
  BY <1>1, <1>2 DEF SplitInv
<1>9. (High * K2) + Low \in Int
  BY <1>3
<1>10. r25 = target
  BY <1>3, <1>7, <1>8, <1>9, CongruentWords
<1>11. r27' = target
  BY <1>3, <1>6, <1>10, SMT
<1>12. r25' \in 0..(Word - 1) /\ r27' \in -1..(Word - 1)
  BY <1>3, <1>11 DEF LoadWord
<1> QED
  BY <1>1, <1>2, <1>11, <1>12, ProcessorStep

LEMMA JumpStep == JmpInv /\ Jump => JmpInv'
<1> SUFFICES ASSUME JmpInv, Jump PROVE JmpInv'
  OBVIOUS
<1>1. TypeOK /\ RunInv /\ Step /\ Instruction.op = "jmp"
  BY DEF JmpInv, Jump
<1>2. ip = 7
  BY <1>1, WhereItIs
<1>3. r25' \in 0..(Word - 1) /\ r27' \in -1..(Word - 1) /\ r27' = target
  BY <1>1, <1>2 DEF TypeOK, RunInv, Jump
<1> QED
  BY <1>1, <1>2, <1>3, ProcessorStep

LEMMA JmpNext == JmpInv /\ [Next]_vars => JmpInv'
<1> SUFFICES ASSUME JmpInv, [Next]_vars PROVE JmpInv'
  OBVIOUS
<1>1. CASE Split
  BY <1>1, SplitStep
<1>2. CASE Build
  BY <1>2, BuildStep
<1>3. CASE LoadHigh
  BY <1>3, LoadHighStep
<1>4. CASE LoadImmediate
  BY <1>4, LoadImmediateStep
<1>5. CASE ShiftLeft
  BY <1>5, ShiftLeftStep
<1>6. CASE LoadWord
  BY <1>6, LoadWordStep
<1>7. CASE Jump
  BY <1>7, JumpStep
<1>8. CASE UNCHANGED vars
  <2>1. UNCHANGED <<target, double, i, bits, code, ip, r25, r27>>
    BY <1>8 DEF vars, built, processor
  <2>2. UNCHANGED <<High, Low>> /\ \A j \in 0..3 : Half(j)' = Half(j)
    BY <2>1 DEF High, Low, Half, Signed
  <2>3. TypeOK' /\ SplitInv'
    BY <2>1, <2>2 DEF JmpInv, TypeOK, SplitInv
  <2>4. RunInv'
    BY <2>1, <2>2 DEF JmpInv, RunInv, Program, encodeInstMem, encodeInstArith_Imm, Cong, Word, K2
  <2> QED
    BY <2>3, <2>4 DEF JmpInv
<1> QED
  BY <1>1, <1>2, <1>3, <1>4, <1>5, <1>6, <1>7, <1>8 DEF Next

-----------------------------------------------------------------------------

\* The halves are halves and the registers words, whatever the address: the
\* loop of buildJmpDirective never yields a displacement wider than its field.
THEOREM JmpTypeCorrect == Spec => []TypeOK
<1>1. JmpInv => TypeOK
  BY DEF JmpInv
<1> QED
  BY <1>1, JmpInit, JmpNext, PTL DEF Spec

\* For every address and whatever register 25 held, the instructions built by
\* buildJmpDirective jump through the word at that address.
THEOREM JumpsCorrect == Spec => []JumpsThroughTarget
<1>1. JmpInv => JumpsThroughTarget
  BY DEF JmpInv, RunInv, JumpsThroughTarget
<1> QED
  BY <1>1, JmpInit, JmpNext, PTL DEF Spec
=============================================================================
