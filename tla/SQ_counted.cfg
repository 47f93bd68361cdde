CONSTANTS
  Block = {b1, b2, b3}
  Subscriber = {s1}
  Kreq = {k1, k2}
  NULL = NULL
  SqEntries = 1
  CqEntries = 2
  Result = {1}
  Flags = {"none"}
  PushedOps = {"READ_MULTISHOT", "WRITE"}
  MaxCancels = 0
  Refuses = TRUE
SYMMETRY MCSymmetry
SPECIFICATION SQSpec
PROPERTY CountedIsPrepared
