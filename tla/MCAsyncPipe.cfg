\* Two pipes in turn on the same descriptors. More is written than the pipe holds and than the
\* reader waits for, so both would-block and the broken pipe happen; an EPOLL_CTL_ADD may fail,
\* which ends the writer early and leaves the reader at end of file.
SPECIFICATION Spec
CONSTANTS
  MaxGen = 2
  CtlMayFail = TRUE
  Cap = 3
  ReadMax = 2
  Writes = 5
  Want = 4
INVARIANTS TypeOK NoLostWakeup EphIsRegistered FifoOrder
PROPERTIES TasksReturn EofKeepsPolling ChannelSpec
\* The tasks return and nothing is left to do.
CHECK_DEADLOCK FALSE
