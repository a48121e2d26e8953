\* Two tailers, small channels, a backend that may fail but answers, a stop at any time.
\* Deadlock is off: a draining batcher may spin, and the agent ends.
SPECIFICATION LiveSpec
CONSTANTS
  t1 = t1
  t2 = t2
  Tailer <- TwoTailers
  Cap <- SmallCaps
  BatchCap = 1
  BatchSize = 2
  MaxRetries = 1
  MaxRecords = 3
  Failing = TRUE
INVARIANTS
  TypeOK
  NoSendOnClosed
  InOrder
  NoneMissing
  BatchBound
PROPERTIES
  ImplementsFifo
  EventuallySettled
  StopReturnsOrSpins
CHECK_DEADLOCK FALSE
