\* One child whose two units fit its pipe and one read.
SPECIFICATION Spec
CONSTANTS
  N = 1
  Units = 2
  Cap = 2
  Chunk = 2
  SpawnMayFail = FALSE
INVARIANTS OutputIsComplete
CHECK_DEADLOCK FALSE
