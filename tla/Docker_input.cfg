\* One container, its log rotated twice in either way, and room for a tailer to replace
\* one that failed.  Deadlock is off: the agent ends.
SPECIFICATION FairSpec
CONSTANTS
  g1 = g1
  g2 = g2
  none = none
  NoTailer = none
  Tailer <- TwoTailers
  MaxFiles = 3
  MaxPieces = 3
  MaxFaults <- FewFaults
INVARIANTS
  TypeOK
  InOrder
  NothingSkipped
  OneTailer
PROPERTIES
  Followed
  CatchesUp
  StopReturns
CHECK_DEADLOCK FALSE
