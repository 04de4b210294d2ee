SPECIFICATION Spec
CONSTANTS
  Packages = {"Sif"}
  Script <- MCScript
  Upstream <- MCUpstream
  MaxOdd <- NoOdd
  MaxRuns <- TwoRuns
INVARIANT NoRepeat
CHECK_DEADLOCK FALSE
