CONSTANTS
  Block = {b1, b2}
  Subscriber = {s1}
  Kreq = {k1, k2}
  NULL = NULL
  SqEntries = 1
  CqEntries = 2
  Result <- MCResult
  Flags <- MCFlags
  PushedOps = {"READ_MULTISHOT", "WRITE"}
  MaxCancels = 0
  Refuses = FALSE
  NBuffers = 1
  TailMod = 2
  MaxCompletions = 9
SPECIFICATION ELFairSpec
PROPERTIES StopReturns NotifiedUnlessOverflow
