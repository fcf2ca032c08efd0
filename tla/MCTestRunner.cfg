\* Three resources, three calls of run; every setup, test and teardown may fail. A child writes
\* up to two units more than its pipe holds. The defaults of setup, in ticks of 250 ms; a sleep
\* may take twice as long.
SPECIFICATION Spec
CONSTANTS
  N = 3
  MaxRuns = 3
  Cap = 1
  MaxSize = 3
  MaxWait = 12
  ConnectTimeout = 4
  Pause = 1
  Late = 1
  Horizon = 24
INVARIANTS TypeOK ResourcesOfThisRun TornDown OutputCollected DeadlineKept WaitBounded
PROPERTIES RunReturns PoisonedStartsNothing
\* Nobody calls run again.
CHECK_DEADLOCK FALSE
