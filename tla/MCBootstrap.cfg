CONSTANTS
  ENTRY_COUNT = 3
  PAGE_SIZE = 2
  NumFrames <- MCNumFrames
  TlbPages <- MCTlbPages
  StackSizes = {0, 1, 2}
  ElfSections <- MCElfSections
  VGA_BUFFER = 2
  MultibootStart = 12
  MultibootEnd = 13
  HEAP_START = 14
  HEAP_SIZE = 4
  STACK_RANGE = 4
  TEMPORARY_PAGE = 40
  BootMem <- MCBootMem
  BootP4 = 3
  BootFree = {9, 10, 11, 12, 13, 14, 15, 16, 17, 18, 19, 20, 21, 22, 23, 24, 25, 26, 27}
  DropPanics = FALSE
  KERNEL_STACK = 4

SPECIFICATION Spec
INVARIANT TypeOK
INVARIANT RecursiveMappingIntact
INVARIANT TlbCoherent
INVARIANT OnlyTheNullReadHalts
INVARIANT BootLayout
INVARIANT StacksGuarded
INVARIANT StackSizeHonoured
INVARIANT RangeAccountsForStacks
PROPERTY AddressSpaceRefined
