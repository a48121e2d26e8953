\* Whether Stop returns, with a backend that answers every call.  Deadlock is off: the
\* agent ends.
SPECIFICATION LiveSpec
CONSTANTS
  t1 = t1
  t2 = t2
  Tailer <- OneTailer
  Cap <- SmallCaps
  BatchCap = 1
  BatchSize = 2
  MaxRetries = 1
  MaxRecords = 2
  Failing = FALSE
PROPERTY StopReturns
CHECK_DEADLOCK FALSE
