------------------------------- MODULE Mapper -------------------------------
(***************************************************************************)
(* The Mapper API in use after boot: a kernel caller makes any sequence   *)
(* of map and unmap calls on a few pages of the active table and disposes *)
(* of each MapperFlush it gets back in one of the three ways mapper.rs    *)
(* offers: flush it at once, ignore it, or consume it into a              *)
(* MapperFlushAll that is flushed (or forgotten) later.                   *)
(*                                                                         *)
(* The tables start as boot.asm leaves them (huge pages over low memory), *)
(* the TLB acts between calls, and the frame allocator may run dry in the *)
(* middle of a call, after it has already created an intermediate table.  *)
(***************************************************************************)
EXTENDS Paging, TLC

CONSTANTS
  ClientPages,  \* pages the caller maps and unmaps
  MaxCalls,     \* bound on the number of map and unmap calls
  BootMem,      \* the tables boot.asm built
  BootP4,       \* their P4 frame, in CR3
  BootFree      \* frames the allocator manages

ASSUME ClientPages \subseteq NormalPages /\ MaxCalls \in Nat

VARIABLES
  batch,      \* the caller's MapperFlushAll: <<>>, or <<its bool field>>
  callCount,  \* map and unmap calls made so far
  lastCall    \* history: [op, page] of the latest call, for CallsHonoured

vars == <<pagingVars, batch, callCount, lastCall>>

Running == panic = "none"

Init ==
  /\ mem = BootMem
  /\ free = BootFree
  /\ tlb = [p \in TlbPages |-> NoFrame]
  /\ cr3 = BootP4
  /\ panic = "none"
  /\ batch = <<>>
  /\ callCount = 0
  /\ lastCall = [op |-> "none", page |-> 0]

(* What the caller does with the MapperFlush of a call.  flush:           *)
(* table.flush(page) (tlb::flush); ignore: mem::forget; consume:          *)
(* MapperFlushAll::consume sets its bool and forgets the token.           *)
Disposals == {"flush", "ignore", "consume"}

Dispose(s, page, how) == IF how = "flush" THEN FlushPage(s, page) ELSE s

\* One Mapper call followed by the disposal of its token.
MapperCall(s, op, page, how) ==
  /\ Running /\ callCount < MaxCalls
  /\ how = "consume" => batch # <<>>
  /\ Commit(Dispose(s, page, how))
  /\ batch' = IF how = "consume" THEN <<TRUE>> ELSE batch
  /\ callCount' = callCount + 1
  /\ lastCall' = [op |-> op, page |-> page]
  /\ UNCHANGED cr3

MapPage(page, how) ==
  MapperCall(map(machine, page, {"WRITABLE"}), "map", page, how)

UnmapPage(page, how) == MapperCall(unmap(machine, page), "unmap", page, how)

(* MapperFlushAll::new(): MapperFlushAll(false).                           *)
NewFlushAll ==
  /\ Running /\ batch = <<>>
  /\ batch' = <<FALSE>>
  /\ UNCHANGED <<pagingVars, callCount, lastCall>>

(* MapperFlushAll::flush: flush_all only if a token was consumed.          *)
FlushAllBatch ==
  /\ Running /\ batch # <<>>
  /\ Commit(IF batch[1] THEN FlushAll(machine) ELSE machine)
  /\ batch' = <<>>
  /\ UNCHANGED <<cr3, callCount, lastCall>>

(* MapperFlushAll::forget: the batch dropped without a flush.              *)
ForgetFlushAll ==
  /\ Running /\ batch # <<>>
  /\ batch' = <<>>
  /\ UNCHANGED <<pagingVars, callCount, lastCall>>

(* Drop for MapperFlushAll: the batch goes out of scope unconsumed and    *)
(* panics ("FlushAll not consumed!").                                      *)
DropFlushAll ==
  /\ Running /\ batch # <<>>
  /\ Commit(Halt(machine, "flush_not_consumed"))
  /\ batch' = <<>>
  /\ UNCHANGED <<cr3, callCount, lastCall>>

TlbStep(A) == Running /\ A /\ UNCHANGED <<batch, callCount, lastCall>>

Halted == ~Running /\ UNCHANGED vars

Next ==
  \/ \E p \in ClientPages, how \in Disposals : MapPage(p, how)
  \/ \E p \in ClientPages, how \in Disposals : UnmapPage(p, how)
  \/ NewFlushAll
  \/ FlushAllBatch
  \/ ForgetFlushAll
  \/ DropFlushAll
  \/ \E p \in TlbPages : TlbStep(TlbFill(p))
  \/ \E p \in TlbPages : TlbStep(TlbEvict(p))
  \/ Halted

Spec == Init /\ [][Next]_vars

(***************************************************************************)
(* Properties.                                                            *)
(***************************************************************************)
(* Mapper::translate_page, which reads the tables through the recursive   *)
(* slot and the TLB and honours huge pages, returns the frame the MMU's   *)
(* own walk reaches, for every page, after any sequence of calls.         *)
TranslateIsWalk ==
  Running => \A p \in NormalPages : translate_page(machine, p) = Walk(cr3, mem, p)

\* Frames of the tables reachable from the root, the recursive slot aside.
TableFrames(root) ==
  LET Child(f, i) == IF Present(mem[f][i]) /\ ~IsHuge(mem[f][i])
                     THEN {mem[f][i].frame} ELSE {}
      Below(fs) == UNION {Child(f, i) : f \in fs, i \in Idx \ {RECURSIVE_INDEX}}
      l3 == Below({root})
      l2 == Below(l3)
  IN {root} \cup l3 \cup l2 \cup Below(l2)

(* Each call does what it was asked, or panics for a reason the tables   *)
(* give: a map of an unmapped page leaves it mapped to a frame that was   *)
(* free, unless the allocator ran dry; an unmap of a mapped page leaves   *)
(* it unmapped, unless it lies in a huge page.  A call on a page in the   *)
(* other state panics, by map_to's is_unused assert or unmap's translate  *)
(* assert.  Every other page keeps its frame.                             *)
CallsHonoured ==
  [][callCount' = callCount + 1 =>
       LET p == lastCall'.page
           before == Walk(cr3, mem, p)
           after == Walk(cr3, mem', p)
       IN /\ lastCall'.op = "map" /\ before = NoFrame =>
               \/ after \in free
               \/ panic' = "out_of_memory" /\ free' = {}
          /\ lastCall'.op = "unmap" /\ before \in Frames =>
               \/ after = NoFrame
               \/ panic' \in {"huge_page", "huge_alignment"}
          /\ before # NoFrame /\ lastCall'.op = "map" => panic' # "none"
          /\ before = NoFrame /\ lastCall'.op = "unmap" => panic' # "none"
          /\ \A q \in NormalPages \ {p} : Walk(cr3, mem', q) = Walk(cr3, mem, q)]_vars

(* unmap invalidates the page itself, so the TLB never holds a stale      *)
(* translation, whichever way the caller disposes of its MapperFlush      *)
(* tokens: ignoring one, or forgetting a MapperFlushAll, loses nothing.   *)
TlbCoherent ==
  \A p \in TlbPages : tlb[p] \in {NoFrame, Walk(cr3, mem, p)}

AS == INSTANCE AddressSpace WITH
        space <- (cr3 :> [p \in NormalPages |-> Walk(cr3, mem, p)]),
        active <- cr3,
        Pages <- NormalPages, FrameIds <- Frames,
        BootRoot <- BootP4,
        BootSpace <- [p \in NormalPages |-> Walk(BootP4, BootMem, p)]

(* Each call changes at most one page of the address space, mapping an    *)
(* unmapped one or unmapping a mapped one; a call that panics half-way    *)
(* (no frame left for the next table) changes no page at all.             *)
MapperRefined == AS!Spec
=============================================================================
