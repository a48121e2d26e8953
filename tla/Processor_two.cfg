\* Two processors, two timer callbacks, a message that does not unmarshal, one fault of
\* any kind but MaxAge and disconnection.  Deadlock is off: after Stop the consumer
\* may block in iter.Next() for ever.
SPECIFICATION Spec
CONSTANTS
  w1 = w1
  w2 = w2
  m1 = m1
  m2 = m2
  m3 = m3
  t1 = t1
  t2 = t2
  none = none
  Worker <- TwoWorkers
  Msg <- ThreeMsgs
  Bad <- BadOne
  Size <- Sizes
  MaxSize = 2
  PullMax = 1
  TimerRoutine <- TwoTimers
  Faults <- ServiceFaults
  MaxFaults = 1
  NoMsg = none
SYMMETRY ProcessSymmetry
INVARIANTS
  TypeOK
  AckedAccounted
  WholeMessages
  CopiesBounded
  FullMeansFlushing
  TimerAlive
CHECK_DEADLOCK FALSE
