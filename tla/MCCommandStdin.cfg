\* stdin() with every kind.
SPECIFICATION Spec
CONSTANTS
  MaxPipes = 3
  MaxSpawns = 1
  MaxFiles = 1
  Kinds = {"null", "inherit", "piped", "file"}
  AsInTests = TRUE
INVARIANTS StdinAsAsked
CHECK_DEADLOCK FALSE
