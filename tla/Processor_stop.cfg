\* One processor is stopped; nothing fails.
SPECIFICATION Spec
CONSTANTS
  w1 = w1
  w2 = w2
  m1 = m1
  m2 = m2
  m3 = m3
  t1 = t1
  t2 = t2
  none = none
  Worker <- OneWorker
  Msg <- TwoMsgs
  Bad <- NoBad
  Size <- Sizes
  MaxSize = 2
  PullMax = 2
  TimerRoutine <- OneTimer
  Faults <- SignalFaults
  MaxFaults = 1
  NoMsg = none
INVARIANT AckedKept
CHECK_DEADLOCK FALSE
