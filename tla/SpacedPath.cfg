SPECIFICATION FairSpec
CONSTANTS
  Pkgs <- MCPkgs
  Repairable <- MCRepairable
  Idempotent <- MCIdempotent
  Arguments <- ArgumentKinds
  MaxSessions = 2
INVARIANT OnlyTheGivenModule
CHECK_DEADLOCK FALSE
