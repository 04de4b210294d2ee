------------------------------ MODULE MCCpuInfo ------------------------------
(***************************************************************************)
(* Instances of CpuInfo: every file of at most MaxLines lines, each of one *)
(* of the kinds that the parser tells apart.                               *)
(***************************************************************************)
EXTENDS CpuInfo

CONSTANT MaxLines

L(key, colon, number, long) == [key |-> key, colon |-> colon, number |-> number, long |-> long]

MCLines ==
  {L("", "none", FALSE, FALSE),                  \* an empty line
   L("processor", "split", TRUE, FALSE),         \* "processor : 0"
   L("processor", "split", FALSE, FALSE),        \* "processor : x"
   L("processor", "bare", FALSE, FALSE),         \* "processor :"
   L("processors", "split", TRUE, FALSE),        \* "processors : 4"
   L("model", "split", FALSE, FALSE),            \* "model : SW3231"
   L("model", "bare", FALSE, FALSE),             \* "model:"
   L("cpu MHz", "split", TRUE, FALSE),           \* "cpu MHz : 2400.00"
   L("cpu MHz", "split", FALSE, FALSE),          \* "cpu MHz : unknown"
   L("icache", "split", FALSE, FALSE),           \* a key of no case
   L("model", "split", FALSE, TRUE)}             \* a line of 64 KiB

MCInfos == UNION {[1..n -> MCLines] : n \in 0..MaxLines}
=============================================================================
