CONSTANTS
  ENTRY_COUNT = 3
  NumFrames <- MCNumFrames
  TlbPages <- MCTlbPages
  ClientPages <- MCClientPages
  MaxCalls = 6
  BootMem <- MCBootMem
  BootP4 = 3
  BootFree = {9, 10, 11, 12, 13}

SPECIFICATION Spec
INVARIANT TranslateIsWalk
PROPERTY CallsHonoured
INVARIANT TlbCoherent
PROPERTY MapperRefined
