CONSTANTS
  Workers = {w1}
  MaxMessages = 2
  BatchSize = 2
  Unparsable = {}
  NotObjects = {}
  Undecodable = {}
SPECIFICATION FairSpec
PROPERTY BatchTimeout
