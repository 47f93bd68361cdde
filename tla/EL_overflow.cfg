CONSTANTS
  Block = {b1, b2, b3}
  Subscriber = {s1}
  Kreq = {k1, k2, k3}
  NULL = NULL
  SqEntries = 1
  CqEntries = 2
  Result = {1}
  Flags <- MCFlags
  PushedOps = {"WRITE"}
  MaxCancels = 0
  Refuses = FALSE
  NBuffers = 1
  TailMod = 2
  MaxCompletions = 9
SPECIFICATION ELFairSpec
PROPERTY Notified
