------------------------------- MODULE Kalloc -------------------------------
(***************************************************************************)
(* klib::kalloc(size): build a Layout, refuse requests above 100 KiB, and *)
(* take a zeroed block from hole_list_allocator's HEAP.  The block is     *)
(* never returned (kalloc returns ()), so blocks only accumulate.         *)
(*                                                                         *)
(* The heap allocator is an external crate: it is modelled as first fit   *)
(* over [HeapStart, HeapStart + HeapSize) honouring the layout's          *)
(* alignment, which is what the spec asks of it (allocate a region).      *)
(* Whether HEAP was initialised is outside this repository, so both       *)
(* cases are initial states.                                               *)
(***************************************************************************)
EXTENDS Integers, FiniteSets, FiniteSetsExt

CONSTANTS
  HeapStart, HeapSize,  \* the region HEAP manages
  KALLOC_LIMIT,         \* 100 * 1024 in the code
  Sizes                 \* sizes callers pass

VARIABLES
  heapReady,  \* HEAP.lock().as_mut() is Some
  blocks,     \* blocks handed out: [addr, size, align, request]
  panic       \* "none", or why the kernel halted

vars == <<heapReady, blocks, panic>>

IsPowerOfTwo(n) == \E k \in 0 .. n : 2 ^ k = n

(* Layout::from_size_align(size, align): Some only for a power-of-two     *)
(* alignment; kalloc passes 2 as the size and its argument as the align.  *)
from_size_align(size, align) ==
  IF IsPowerOfTwo(align) THEN {[size |-> size, align |-> align]} ELSE {}

Disjoint(a, n, b) == a + n <= b.addr \/ b.addr + b.size <= a

(* Heap::alloc_zeroed: the lowest aligned address whose block fits in the *)
(* heap and overlaps no block handed out; none means Err.                 *)
alloc_zeroed(l) ==
  {a \in HeapStart .. HeapStart + HeapSize - l.size :
     a % l.align = 0 /\ \A b \in blocks : Disjoint(a, l.size, b)}

Init ==
  /\ heapReady \in BOOLEAN
  /\ blocks = {}
  /\ panic = "none"

Kalloc(size) ==
  /\ panic = "none"
  /\ LET layout == from_size_align(2, size)
     IN CASE layout = {}        -> panic' = "invalid_layout" /\ UNCHANGED blocks
          [] size > KALLOC_LIMIT -> panic' = "too_large" /\ UNCHANGED blocks
          [] ~heapReady         -> panic' = "unwrap_none" /\ UNCHANGED blocks
          [] OTHER ->
               LET l == CHOOSE x \in layout : TRUE
                   fits == alloc_zeroed(l)
               IN IF fits = {}
                  THEN panic' = "alloc_failed" /\ UNCHANGED blocks
                  ELSE /\ blocks' = blocks \cup
                            {[addr |-> Min(fits), size |-> l.size,
                              align |-> l.align, request |-> size]}
                       /\ UNCHANGED panic
  /\ UNCHANGED heapReady

Halted == panic # "none" /\ UNCHANGED vars

Next == (\E size \in Sizes : Kalloc(size)) \/ Halted

Spec == Init /\ [][Next]_vars

(* The comment above kalloc ("Size must be 2-aligned") means a block of   *)
(* size bytes aligned to 2: every block kalloc takes is at least as large *)
(* as the size asked for.                                                  *)
KallocReservesRequest == \A b \in blocks : b.size >= b.request
=============================================================================
