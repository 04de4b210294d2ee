SPECIFICATION FairSpec
CONSTANTS
  Pkgs <- MCPkgs
  Repairable <- MCRepairable
  Idempotent <- MCIdempotent
  Arguments <- UnspacedArguments
  MaxSessions = 2
INVARIANT SummaryTruthful
CHECK_DEADLOCK FALSE
