SPECIFICATION Spec
CONSTANTS
  Packages <- AllPorters
  Script <- MCScript
  Upstream <- MCUpstream
  MaxOdd <- MoreOdd
  MaxRuns <- MoreRuns
INVARIANTS IInv Converging TypeOK AtMostOnce CleanRunComplete RerunStable RepairedByRerun DamageConfined Underway
CHECK_DEADLOCK FALSE
