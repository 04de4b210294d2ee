SPECIFICATION Spec
CONSTANTS
  Packages = {"Sif"}
  Script <- MCScript
  Upstream <- MCUpstream
  MaxOdd <- OneOdd
  MaxRuns <- TwoRuns
INVARIANT SifNamesDeclared
CHECK_DEADLOCK FALSE
