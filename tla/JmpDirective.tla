----------------------------- MODULE JmpDirective -----------------------------
(***************************************************************************)
(* buildJmpDirective of gomonkey's jmp_sw64.go, the seven instructions it  *)
(* builds, and a processor that executes them.  The instructions load a    *)
(* 64-bit address in four halves, each of which the processor extends by   *)
(* its sign.                                                               *)
(***************************************************************************)
EXTENDS Integers, Sequences

CONSTANTS
  Base,     \* the number of values of a half; 2^16
  Garbage   \* what register 25 may hold before

\* A word has four halves.
Word == Base * Base * Base * Base

ASSUME JmpAssumption ==
  /\ Base \in Nat /\ Base > 0 /\ Base % 2 = 0
  /\ Garbage \subseteq 0..(Word - 1)

VARIABLES
  target,   \* the argument of buildJmpDirective
  double,   \* its local copy, shifted
  i,        \* the loop's index
  bits,     \* the halves
  code,     \* the instructions built
  ip,       \* the next instruction to execute
  r25,      \* register 25
  r27       \* the address of the word in register 27; -1 at first

built == <<target, double, i, bits, code>>
processor == <<ip, r25, r27>>
vars == <<built, processor>>

R25 == 25
R27 == 27
R31 == 31   \* reads as 0

\* The fields of an instruction; a displacement has the width of a half.
encodeInstMem(op, ra, rb, disp) == [op |-> op, ra |-> ra, rb |-> rb, disp |-> disp % Base]
encodeInstArith_Imm(op, ra, rc, imm) == [op |-> op, ra |-> ra, rb |-> rc, disp |-> imm]

Init ==
  /\ target \in 0..(Word - 1)
  /\ double = target /\ i = 0 /\ bits = [j \in 0..3 |-> 0] /\ code = <<>>
  /\ ip = 1 /\ r25 \in Garbage /\ r27 = -1

-----------------------------------------------------------------------------
(* buildJmpDirective.                                                      *)

\* Mutant: the sign of a half is not made up for in the next.
SplitNoCarry ==
  /\ i < 4
  /\ bits' = [bits EXCEPT ![i] = double % Base]
  /\ double' = double \div Base
  /\ i' = i + 1
  /\ UNCHANGED <<target, code, processor>>

\* Mutant: the half keeps the bits above it.
SplitUnmasked ==
  /\ i < 4
  /\ bits' = [bits EXCEPT ![i] = double]
  /\ double' = IF double % Base >= Base \div 2
               THEN (double \div Base + 1) % Word
               ELSE double \div Base
  /\ i' = i + 1
  /\ UNCHANGED <<target, code, processor>>

\* A half whose top bit is set will be added as a negative number.
Split ==
  /\ i < 4
  /\ bits' = [bits EXCEPT ![i] = double % Base]
  /\ double' = IF double % Base >= Base \div 2
               THEN (double \div Base + 1) % Word
               ELSE double \div Base
  /\ i' = i + 1
  /\ UNCHANGED <<target, code, processor>>

\* The shift by 32 is one by two halves.
Program(b) ==
  <<encodeInstMem("ldih", R25, R31, b[3]),
    encodeInstMem("ldi",  R25, R25, b[2]),
    encodeInstArith_Imm("sll", R25, R25, 2),
    encodeInstMem("ldih", R25, R25, b[1]),
    encodeInstMem("ldi",  R25, R25, b[0]),
    encodeInstMem("ldl",  R27, R25, 0),
    encodeInstMem("jmp",  R31, R27, 0)>>

Build ==
  /\ i = 4 /\ code = <<>>
  /\ code' = Program(bits)
  /\ UNCHANGED <<target, double, i, bits, processor>>

-----------------------------------------------------------------------------
(* The processor.                                                          *)

Instruction == code[ip]

Signed(half) == IF half >= Base \div 2 THEN half - Base ELSE half

Register == IF Instruction.rb = R31 THEN 0 ELSE r25

Step ==
  /\ ip \in 1..Len(code)
  /\ ip' = ip + 1
  /\ UNCHANGED built

LoadHigh ==
  /\ Step /\ Instruction.op = "ldih"
  /\ r25' = (Register + Signed(Instruction.disp) * Base) % Word
  /\ UNCHANGED r27

LoadImmediate ==
  /\ Step /\ Instruction.op = "ldi"
  /\ r25' = (Register + Signed(Instruction.disp)) % Word
  /\ UNCHANGED r27

ShiftLeft ==
  /\ Step /\ Instruction.op = "sll"
  /\ r25' = (Register * (Base * Base)) % Word
  /\ UNCHANGED r27

LoadWord ==
  /\ Step /\ Instruction.op = "ldl"
  /\ r27' = (Register + Signed(Instruction.disp)) % Word
  /\ UNCHANGED r25

\* To the address that the word in register 27 holds.
Jump ==
  /\ Step /\ Instruction.op = "jmp"
  /\ UNCHANGED <<r25, r27>>

Next == Split \/ Build \/ LoadHigh \/ LoadImmediate \/ ShiftLeft \/ LoadWord \/ Jump

Spec == Init /\ [][Next]_vars

-----------------------------------------------------------------------------

Halves == 0..(Base - 1)

\* Types: the halves are halves, the shifted address and register 25 words.
TypeOK ==
  /\ target \in 0..(Word - 1) /\ double \in 0..(Word - 1)
  /\ i \in 0..4 /\ bits \in [0..3 -> Halves]
  /\ code = <<>> \/ (i = 4 /\ Len(code) = 7)
  /\ ip \in 1..8 /\ (code = <<>> => ip = 1)
  /\ r25 \in 0..(Word - 1) /\ r27 \in -1..(Word - 1)

\* Whatever address it is given and whatever the register held, the code
\* jumps through the word at that address and no other.
JumpsThroughTarget == ip = 8 => r27 = target
=============================================================================
