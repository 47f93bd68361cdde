CONSTANTS
  NBuffers = 4
  TailMod = 8
  MaxCompletions = 5
SPECIFICATION BRSpec
INVARIANT OfferedOnce
