SPECIFICATION SpecOfOneDownload
CONSTANTS
  Packages = {"UnixV1", "UnixV2"}
  Script <- MCScript
  Upstream <- MCUpstream
  Lasting <- Always
  Changes <- ChangesOf
  Headers <- MCHeaders
  Others <- Oldest
  MaxRuns <- TwoRuns
INVARIANTS DeclaredOnce UsesDeclared RemovalsFindTheirFunction RerunRepairs Course
CHECK_DEADLOCK FALSE
