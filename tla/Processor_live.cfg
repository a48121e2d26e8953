\* Liveness, and what acknowledged messages come to, with two faults of any kind.
\* Deadlock is off: after Stop the consumer may block in iter.Next() for ever.
SPECIFICATION FairSpec
CONSTANTS
  w1 = w1
  w2 = w2
  m1 = m1
  m2 = m2
  m3 = m3
  t1 = t1
  t2 = t2
  none = none
  Worker <- OneWorker
  Msg <- TwoMsgs
  Bad <- NoBad
  Size <- Sizes
  MaxSize = 2
  PullMax = 2
  TimerRoutine <- OneTimer
  Faults <- AllFaults
  MaxFaults = 2
  NoMsg = none
INVARIANT AckedAccounted
PROPERTIES
  BufferDrains
  PublishedStored
CHECK_DEADLOCK FALSE
