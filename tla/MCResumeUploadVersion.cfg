CONSTANTS
  r1 = r1  r2 = r2  r3 = r3  f1 = f1  f2 = f2
  Requests = {r1, r2, r3}
  Files = {f1, f2}
  FileOf <- MCFileOf
SPECIFICATION Spec
PROPERTY NextVersionFresh
CHECK_DEADLOCK FALSE
