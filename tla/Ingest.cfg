\* Batches of two agents, one of them too large for NATS, one retry, two faults.
SPECIFICATION FairSpec
CONSTANTS
  good = good
  big = big
  Batch <- TwoBatches
  Valid <- TwoBatches
  Fits <- FittingOne
  MaxRetries = 1
  MaxFaults = 2
INVARIANTS
  TypeOK
  OnceUnlessFault
  DroppedForCause
PROPERTIES
  ImplementsAtLeastOnce
  Settles
  StopEnds
