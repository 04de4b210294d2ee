SPECIFICATION FairSpec
CONSTANTS
  Packages <- PromisePorters
  Script <- MCScript
  Upstream <- MCUpstream
  MaxOdd <- OneOdd
  MaxRuns <- TwoRuns
PROPERTIES KeepsPromise Terminates
CHECK_DEADLOCK FALSE
