CONSTANTS
  Workers = {w1, w2}
  MaxMessages = 4
  Undecodable = {}
  NotObjects = {4}
SPECIFICATION FairSpec
INVARIANTS TypeOK NoLoss OneInHand
PROPERTIES AtLeastOnceSpec EverySettled
