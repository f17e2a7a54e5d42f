CONSTANTS
  Matches = {m1}
  Workers = {w1}
SPECIFICATION Spec
INVARIANTS CandidatesAreRanked
CHECK_DEADLOCK FALSE
