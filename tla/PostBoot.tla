------------------------------ MODULE PostBoot ------------------------------
(***************************************************************************)
(* The kernel after paging::init returns: later kernel code holds the     *)
(* ActivePageTable and the StackAllocator together.  It makes Mapper      *)
(* calls on its own pages and alloc_stack calls, in any order, on the     *)
(* same tables, the same frame allocator and the same TLB.  A call runs   *)
(* to its end before the next starts (one CPU, nothing in this code       *)
(* calls the Mapper from an interrupt handler); the TLB acts in between,  *)
(* also between the pages of alloc_stack's mapping loop.                  *)
(***************************************************************************)
EXTENDS Mapper, StackAllocator

CONSTANT StackStart, StackEnd  \* the allocator's range, pages after the heap

ASSUME ClientPages \cap StackStart .. StackEnd = {}

postVars == <<pagingVars, batch, callCount, lastCall, stackVars>>

\* No alloc_stack call is under way.
StackIdle == allocating = <<>> /\ pendingStack = NoStack

PostInit ==
  /\ Init
  /\ stackRange = [start |-> StackStart, end |-> StackEnd]
  /\ allocating = <<>>
  /\ pendingStack = NoStack
  /\ stacks = {}
  /\ allocResult = "idle"

\* A Mapper call, or an action on the caller's MapperFlushAll.
ClientStep(A) == StackIdle /\ A /\ UNCHANGED stackVars

\* A step of alloc_stack.
StackStep(A) == Running /\ A /\ UNCHANGED <<batch, callCount, lastCall>>

PostNext ==
  \/ \E p \in ClientPages, how \in Disposals : ClientStep(MapPage(p, how))
  \/ \E p \in ClientPages, how \in Disposals : ClientStep(UnmapPage(p, how))
  \/ ClientStep(NewFlushAll)
  \/ ClientStep(FlushAllBatch)
  \/ ClientStep(ForgetFlushAll)
  \/ ClientStep(DropFlushAll)
  \/ \E n \in StackSizes : StackStep(AllocStackNone(n))
  \/ \E n \in StackSizes : StackStep(AllocStackReserve(n))
  \/ StackStep(AllocStackMapPage)
  \/ StackStep(AllocStackReturn)
  \/ \E p \in TlbPages : TlbStep(TlbFill(p)) /\ UNCHANGED stackVars
  \/ \E p \in TlbPages : TlbStep(TlbEvict(p)) /\ UNCHANGED stackVars
  \/ Halted /\ UNCHANGED stackVars

PostSpec == PostInit /\ [][PostNext]_postVars

(***************************************************************************)
(* Properties.                                                            *)
(***************************************************************************)
(* Every stack alloc_stack returned owns its pages while the Mapper's     *)
(* callers and later alloc_stack calls share its tables and its frame     *)
(* allocator: each stack page reaches a frame that backs no other page    *)
(* and holds no table, the page below bottom is an unreachable guard,     *)
(* through the TLB too, and no two stacks overlap.                        *)
StacksIsolated ==
  \A st \in stacks :
    /\ \A p \in StackPages(st) :
         LET f == Walk(cr3, mem, p)
         IN /\ f \in Frames
            /\ f \notin TableFrames(cr3)
            /\ \A q \in NormalPages \ {p} : Walk(cr3, mem, q) # f
    /\ CpuFrame(st.bottom \div PAGE_SIZE - 1) = NoFrame
    /\ \A other \in stacks \ {st} : StackPages(st) \cap StackPages(other) = {}
=============================================================================
