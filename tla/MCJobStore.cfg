CONSTANTS
  Sessions = {s1, s2}
  Urls = {u1}
  Texts = {t1, t2}
  MaxCalls = 3
SPECIFICATION FairSpec
INVARIANTS
  TypeOK
  KnownIsStored
  MissNeedsLostMark
  SomeoneMoves
PROPERTIES
  EverySessionEnds
CHECK_DEADLOCK FALSE
