SPECIFICATION FairSpec
CONSTANTS
  Pkgs <- MCPkgs
  Repairable <- MCRepairable
  Idempotent <- MCIdempotent
  Arguments <- ArgumentKinds
  MaxSessions = 2
INVARIANTS IInv TypeOK Heals ListsThePresent FailedDownloadStops
PROPERTIES OnlyWhenConfirmed KeepsPromises SessionEnds
CHECK_DEADLOCK FALSE
