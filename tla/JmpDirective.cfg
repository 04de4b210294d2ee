SPECIFICATION Spec
CONSTANTS
  Base = 4
  Garbage = {0, 90, 255}
INVARIANTS TypeOK JumpsThroughTarget
CHECK_DEADLOCK FALSE
