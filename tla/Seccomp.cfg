SPECIFICATION Spec
CONSTANTS
  Names <- MCNames
  DISABLED = {"mount", "osf_mount", "settimeofday", "osf_settimeofday"}
  NIMPD = {"vserver"}
  Headers <- MCHeaders
  Profiles <- MCProfiles
INVARIANTS NothingWithheld NothingForgotten
CHECK_DEADLOCK FALSE
