\* One Command spawned twice.
SPECIFICATION Spec
CONSTANTS
  MaxPipes = 3
  MaxSpawns = 2
  MaxFiles = 1
  Kinds = {"null", "inherit", "piped", "file"}
  AsInTests = TRUE
INVARIANTS SpawnsAlike
CHECK_DEADLOCK FALSE
