\* send and send_all in batches of up to three, some larger than the queue; an EPOLL_CTL_ADD may
\* fail, and the receiver may leave before the last item.
SPECIFICATION Spec
CONSTANTS
  MaxGen = 1
  CtlMayFail = TRUE
  Cap = 2
  ReadMax = 2
  Items = 4
  Long = {2, 3}
  Batch = 3
  MaxQueue = 2
  Want = 5
INVARIANTS TypeOK OnlyTailsCut DoneMeansHanded
PROPERTIES SleepsOnlyUnregistered SenderReturns
\* The tasks return, or the sender waits for ever, and nothing is left to do.
CHECK_DEADLOCK FALSE
