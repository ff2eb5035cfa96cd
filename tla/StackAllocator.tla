--------------------------- MODULE StackAllocator ---------------------------
(***************************************************************************)
(* arch/x86_64/memory/stack_allocator.rs: carves stacks out of a page     *)
(* range.  alloc_stack reserves a guard page and size_in_pages stack      *)
(* pages from a clone of the range, writes the clone back only when all   *)
(* three were available, then maps and flushes each stack page in the     *)
(* active table.  The mapping loop is one step per page, so the TLB can   *)
(* act between the pages.                                                 *)
(***************************************************************************)
EXTENDS Paging, Sequences

CONSTANTS
  PAGE_SIZE,   \* bytes per page (4096)
  StackSizes   \* size_in_pages arguments passed to alloc_stack

VARIABLES
  stackRange,    \* the allocator's PageIter: [start, end], inclusive
  allocating,    \* stack pages alloc_stack has yet to map
  pendingStack,  \* the Stack alloc_stack returns when the mapping is done,
                 \* with the size_in_pages it was asked for (history only)
  stacks,        \* the stacks handed out so far
  allocResult    \* "idle", or "none" after a call that returned None

stackVars == <<stackRange, allocating, pendingStack, stacks, allocResult>>

NoPage == -1
NoStack == [top |-> 0, bottom |-> 0, pages |-> 0]

(* PageIter::next on the iterator it: the item and the advanced iterator. *)
PageIterNext(it) ==
  IF it.start <= it.end
  THEN [item |-> it.start, it |-> [it EXCEPT !.start = @ + 1]]
  ELSE [item |-> NoPage, it |-> it]

(* Iterator::nth(n): skip n items, then next.                             *)
PageIterNth(it, n) ==
  PageIterNext([it EXCEPT !.start = IF @ + n <= it.end + 1 THEN @ + n
                                    ELSE IF @ <= it.end THEN it.end + 1 ELSE @])

(* Mutant: no guard page taken; the stack starts at the range's start.    *)
ReserveStackWithoutGuard(range, size_in_pages) ==
  LET stack_start == PageIterNext(range)
      stack_end == IF size_in_pages = 1 THEN stack_start
                   ELSE PageIterNth(stack_start.it, size_in_pages - 2)
  IN [guard |-> range.start, start |-> stack_start.item,
      end |-> stack_end.item, range |-> stack_end.it]

(* Mutant: the last stack page taken with nth(size_in_pages - 1).         *)
ReserveStackNthOffByOne(range, size_in_pages) ==
  LET guard_page == PageIterNext(range)
      stack_start == PageIterNext(guard_page.it)
      stack_end == IF size_in_pages = 1 THEN stack_start
                   ELSE PageIterNth(stack_start.it, size_in_pages - 1)
  IN [guard |-> guard_page.item, start |-> stack_start.item,
      end |-> stack_end.item, range |-> stack_end.it]

(* The guard page, first and last stack page, and the cloned range after  *)
(* the three calls in alloc_stack.                                         *)
ReserveStack(range, size_in_pages) ==
  LET guard_page == PageIterNext(range)
      stack_start == PageIterNext(guard_page.it)
      stack_end == IF size_in_pages = 1 THEN stack_start
                   ELSE PageIterNth(stack_start.it, size_in_pages - 2)
  IN [guard |-> guard_page.item, start |-> stack_start.item,
      end |-> stack_end.item, range |-> stack_end.it]

\* Page::start_address: the address of the page's first byte.
start_address(page) == page * PAGE_SIZE

Reserved(r) == r.guard # NoPage /\ r.start # NoPage /\ r.end # NoPage

\* The pages start .. end of Page::range_inclusive, in order.
PageRange(start, end) == [k \in 1 .. end - start + 1 |-> start + k - 1]

(* Mutant: the advanced clone written back even when alloc_stack fails.    *)
AllocStackNoneWriteBack(size_in_pages) ==
  /\ allocating = <<>> /\ pendingStack = NoStack
  /\ size_in_pages = 0 \/ ~Reserved(ReserveStack(stackRange, size_in_pages))
  /\ allocResult' = "none"
  /\ stackRange' = IF size_in_pages = 0 THEN stackRange
                   ELSE ReserveStack(stackRange, size_in_pages).range
  /\ UNCHANGED <<allocating, pendingStack, stacks>>
  /\ UNCHANGED pagingVars

(* alloc_stack, up to the write-back: a zero size or a range too short    *)
(* returns None and leaves the allocator unchanged.                        *)
AllocStackNone(size_in_pages) ==
  /\ allocating = <<>> /\ pendingStack = NoStack
  /\ size_in_pages = 0 \/ ~Reserved(ReserveStack(stackRange, size_in_pages))
  /\ allocResult' = "none"
  /\ UNCHANGED <<stackRange, allocating, pendingStack, stacks>>
  /\ UNCHANGED pagingVars

(* Mutant: the match on (Some, Some, Some) dropped; whatever the three    *)
(* calls returned is used.                                                 *)
AllocStackReserveUnchecked(size_in_pages) ==
  LET r == ReserveStack(stackRange, size_in_pages)
  IN /\ allocating = <<>> /\ pendingStack = NoStack
     /\ size_in_pages # 0
     /\ stackRange' = r.range
     /\ allocating' = PageRange(r.start, r.end)
     /\ pendingStack' = [top |-> start_address(r.end) + PAGE_SIZE,
                         bottom |-> start_address(r.start),
                         pages |-> size_in_pages]
     /\ allocResult' = "idle"
     /\ UNCHANGED stacks
     /\ UNCHANGED pagingVars

(* alloc_stack on success: write the advanced clone back, and the pages   *)
(* start .. end still to map; top_of_stack is one page past end's start   *)
(* address, the bottom start's start address.                             *)
AllocStackReserve(size_in_pages) ==
  LET r == ReserveStack(stackRange, size_in_pages)
  IN /\ allocating = <<>> /\ pendingStack = NoStack
     /\ size_in_pages # 0
     /\ Reserved(r)
     /\ stackRange' = r.range
     /\ allocating' = PageRange(r.start, r.end)
     /\ pendingStack' = [top |-> start_address(r.end) + PAGE_SIZE,
                         bottom |-> start_address(r.start),
                         pages |-> size_in_pages]
     /\ allocResult' = "idle"
     /\ UNCHANGED stacks
     /\ UNCHANGED pagingVars

(* active_table.map(page, PRESENT) and result.flush(active_table).        *)
AllocStackMapPage ==
  /\ allocating # <<>>
  /\ Commit(FlushPage(map(machine, Head(allocating), {"PRESENT"}),
                      Head(allocating)))
  /\ allocating' = Tail(allocating)
  /\ UNCHANGED <<stackRange, pendingStack, stacks, allocResult>>
  /\ UNCHANGED cr3

(* Stack::new asserts top > bottom; the stack is returned.                *)
AllocStackReturn ==
  /\ allocating = <<>> /\ pendingStack # NoStack
  /\ IF pendingStack.top > pendingStack.bottom
     THEN stacks' = stacks \cup {pendingStack} /\ UNCHANGED panic
     ELSE panic' = "stack_top_below_bottom" /\ UNCHANGED stacks
  /\ pendingStack' = NoStack
  /\ UNCHANGED <<stackRange, allocating, allocResult>>
  /\ UNCHANGED <<mem, free, tlb, cr3>>

\* The pages of a stack, from bottom to the page below top.
StackPages(st) == (st.bottom \div PAGE_SIZE) .. (st.top \div PAGE_SIZE - 1)

\* What the CPU reaches at a page now: the TLB, else the walk from CR3.
CpuFrame(page) == Resolve(machine, page)
=============================================================================
