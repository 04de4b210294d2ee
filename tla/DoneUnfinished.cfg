SPECIFICATION Spec
CONSTANTS
  Packages = {"ContainersCompletion", "ContainerdFifo"}
  Script <- MCScript
  Upstream <- MCUpstream
  MaxOdd <- NoOdd
  MaxRuns <- TwoRuns
INVARIANT DoneMeansComplete
CHECK_DEADLOCK FALSE
