CONSTANTS
  Matches = {m1}
  Workers = {w1, w2}
SPECIFICATION Spec
INVARIANTS TypeOK MissedOnlyInGap UpdateIsReadable CompletionOrder NodesFindTheirKeys
PROPERTIES DoneStays
SYMMETRY Symmetry
CHECK_DEADLOCK FALSE
