CONSTANTS
  Block = {b1, b2}
  Subscriber = {s1, NULL}
  Kreq = {k1, k2}
  NULL = NULL
  SqEntries = 1
  CqEntries = 2
  Result <- MCResult
  Flags <- MCFlags
  PushedOps = {"READ_MULTISHOT", "WRITE"}
  MaxCancels = 1
  Refuses = TRUE
  NBuffers = 1
  TailMod = 2
  MaxCompletions = 9
SYMMETRY MCSymmetry
SPECIFICATION ELSpec
CONSTRAINT UntilCancelled
INVARIANTS ELTypeOK RightEvent
PROPERTY UsesBufferRing
