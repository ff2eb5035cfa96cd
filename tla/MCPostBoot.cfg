CONSTANTS
  ENTRY_COUNT = 3
  PAGE_SIZE = 2
  NumFrames <- MCPostNumFrames
  TlbPages <- MCPostTlbPages
  ClientPages <- MCPostClientPages
  MaxCalls = 2
  BootMem <- MCPostBootMem
  BootP4 = 3
  BootFree = {9, 10, 11, 12, 13, 14, 15, 16, 17, 18, 19}
  StackSizes = {1, 2}
  StackStart = 29
  StackEnd = 34

SPECIFICATION PostSpec
INVARIANT StacksIsolated
PROPERTY MapperRefined
