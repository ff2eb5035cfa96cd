CONSTANTS
  HeapStart = 0
  HeapSize = 16
  KALLOC_LIMIT = 16
  Sizes = {0, 1, 2, 4, 6, 32}

SPECIFICATION Spec
INVARIANT KallocReservesRequest
