\* Three stages, pipes that fill up, spawns that fail.
SPECIFICATION Spec
CONSTANTS
  N = 3
  Units = 3
  Cap = 1
  Chunk = 1
  SpawnMayFail = TRUE
INVARIANTS TypeOK OutputIsPrefix OutputsInOrder
PROPERTIES JobCompletes FailedSpawnWindsDown
\* The job ends.
CHECK_DEADLOCK FALSE
