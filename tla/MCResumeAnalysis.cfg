CONSTANTS
  Runs = {w1, w2}
  TTL = 3
  MaxRun = 2
SPECIFICATION Spec
INVARIANTS Fresh
