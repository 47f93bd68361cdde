CONSTANTS
  Block = {b1, b2}
  Subscriber = {s1}
  Kreq = {k1, k2}
  NULL = NULL
  SqEntries = 2
  CqEntries = 4
  Result = {1}
  Flags = {"none"}
  PushedOps = {"WRITE"}
  MaxCancels = 2
  Refuses = TRUE
SPECIFICATION SQSpec
CHECK_DEADLOCK FALSE
INVARIANT NoCrash
