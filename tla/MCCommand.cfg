\* The builder calls in the order of the tests, every combination of kinds; one command after the
\* other, two files whose Stdios may be copied, and numbers that are used again.
SPECIFICATION Spec
CONSTANTS
  MaxPipes = 3
  MaxSpawns = 1
  MaxFiles = 2
  Kinds = {"null", "inherit", "piped", "file"}
  AsInTests = TRUE
INVARIANTS TypeOK ReadsItsOwnChild OwnsItsStreams
