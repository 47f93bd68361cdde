CONSTANTS
  NBuffers = 4
  TailMod = 8
  MaxCompletions = 5
  Peer = {p1, p2}
  Data = {x, y}
  NULL = NULL
SYMMETRY MCSymmetry
SPECIFICATION RSSpec
CONSTRAINT UntilSpurious
INVARIANTS BRTypeOK OneOwner NoBufferLost RingBeforeBuffers
PROPERTY ReadsStream
