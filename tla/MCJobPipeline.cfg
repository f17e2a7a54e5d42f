CONSTANTS
  Workers = {w1, w2}
  MaxMessages = 4
  BatchSize = 2
  Unparsable = {1}
  NotObjects = {3}
  Undecodable = {4}
SPECIFICATION FairSpec
INVARIANTS TypeOK BatchCoversGap LossOnlyBySwallowing AnnouncedIndexed
PROPERTIES AtLeastOnceSpec BacklogDrains
