------------------------------- MODULE Paging -------------------------------
(***************************************************************************)
(* The x86_64 paging core of lambdaOS (arch/x86_64/memory/paging): the    *)
(* four-level page tables in physical memory, the CR3 register, the TLB,  *)
(* the frame allocator, and the Mapper operations that reach the tables   *)
(* through the recursive slot 511 of the table CR3 names.                 *)
(*                                                                         *)
(* A Mapper call is one atomic step: the kernel runs single-threaded with *)
(* interrupts off.  The TLB is the one other actor: between two steps it  *)
(* may cache the current translation of any page it watches, or drop one. *)
(* Every table access of a Mapper call goes through the TLB, so a missing *)
(* invalidation makes a later access land in a stale frame.               *)
(*                                                                         *)
(* Operations are operators from a machine record                         *)
(*   [mem, free, tlb, panic]                                               *)
(* to the machine after the call; callers commit it with Commit.  A panic *)
(* (failed assert!, expect, or a page fault with no handler yet) sets     *)
(* panic once and the rest of the call does nothing.                      *)
(***************************************************************************)
EXTENDS Integers, FiniteSets, FiniteSetsExt

CONSTANTS
  ENTRY_COUNT,  \* entries per table (512 in the code)
  NumFrames,    \* physical frames are 0 .. NumFrames-1
  TlbPages      \* virtual pages whose translation the TLB may cache

ASSUME ENTRY_COUNT \in Nat /\ ENTRY_COUNT >= 3
ASSUME NumFrames \in Nat \ {0}

VARIABLES
  mem,    \* mem[f][i]: entry i of physical frame f read as a table
  free,   \* frames the frame allocator has not handed out
  tlb,    \* tlb[p]: the frame cached for virtual page p, or NoFrame
  cr3,    \* frame of the P4 table the MMU walks
  panic   \* "none", or why the kernel halted

pagingVars == <<mem, free, tlb, cr3, panic>>

\* Why the kernel halted; "none" while it runs.
PanicReasons ==
  {"none", "page_fault", "huge_page", "out_of_memory", "map_to_in_use",
   "huge_alignment", "unmap_unmapped", "unwrap_none", "flush_not_consumed",
   "section_unaligned", "stack_top_below_bottom", "null_read_trap"}

Frames == 0 .. NumFrames - 1
NoFrame == -1
\* translate_page's result when a huge-page alignment assert! fails.
AlignmentFails == -2
Idx == 0 .. ENTRY_COUNT - 1
\* Index of the recursive slot: 511.
RECURSIVE_INDEX == ENTRY_COUNT - 1
\* Virtual page numbers of the 48-bit address space (upper bits are the
\* sign extension, dropped here).
PageNumbers == 0 .. ENTRY_COUNT ^ 4 - 1

Flag == {"PRESENT", "WRITABLE", "HUGE_PAGE", "NO_EXECUTE"}
Entry == [frame : Frames, flags : SUBSET Flag]
Table == [Idx -> Entry]

(* entry.rs: an entry is a frame address or'ed with flag bits.            *)
Unused == [frame |-> 0, flags |-> {}]
set(frame, flags) == [frame |-> frame, flags |-> flags]
is_unused(e) == e = Unused
Present(e) == "PRESENT" \in e.flags
IsHuge(e) == "HUGE_PAGE" \in e.flags
pointed_frame(e) == IF Present(e) THEN e.frame ELSE NoFrame
ZeroTable == [i \in Idx |-> Unused]
TableEntry(f) == set(f, {"PRESENT", "WRITABLE"})

(* Page::p4_index .. p1_index: level 4 is the top nine bits.              *)
LevelIndex(page, level) == (page \div ENTRY_COUNT ^ (level - 1)) % ENTRY_COUNT

(* table::P4 = 0xffff_ffff_ffff_f000: all four indices are 511.           *)
P4 == LET R == RECURSIVE_INDEX
      IN ((R * ENTRY_COUNT + R) * ENTRY_COUNT + R) * ENTRY_COUNT + R

(* Table::next_table_address: (table_address << 9) | (index << 12), the   *)
(* virtual page of the child table reached through the recursive slot.    *)
NextTableAddress(table, index) ==
  (table * ENTRY_COUNT + index) % (ENTRY_COUNT ^ 4)

(* Pages outside the recursive region, which hold code and data.          *)
NormalPages == {p \in PageNumbers : LevelIndex(p, 4) # RECURSIVE_INDEX}

(***************************************************************************)
(* The MMU: the hardware walk from a root, honouring 1GiB and 2MiB pages. *)
(***************************************************************************)
Walk(root, m, page) ==
  LET e4 == m[root][LevelIndex(page, 4)]
      e3 == m[e4.frame][LevelIndex(page, 3)]
      e2 == m[e3.frame][LevelIndex(page, 2)]
      e1 == m[e2.frame][LevelIndex(page, 1)]
  IN CASE ~Present(e4)            -> NoFrame
       [] ~Present(e3)            -> NoFrame
       [] IsHuge(e3)              -> e3.frame + (page % (ENTRY_COUNT ^ 2))
       [] ~Present(e2)            -> NoFrame
       [] IsHuge(e2)              -> e2.frame + LevelIndex(page, 1)
       [] ~Present(e1)            -> NoFrame
       [] OTHER                   -> e1.frame

\* The entries the walk of a mapped page goes through, down to its leaf.
WalkPath(root, m, page) ==
  LET e4 == m[root][LevelIndex(page, 4)]
      e3 == m[e4.frame][LevelIndex(page, 3)]
      e2 == m[e3.frame][LevelIndex(page, 2)]
      e1 == m[e2.frame][LevelIndex(page, 1)]
  IN IF IsHuge(e3) THEN {e4, e3}
     ELSE IF IsHuge(e2) THEN {e4, e3, e2} ELSE {e4, e3, e2, e1}

\* A write through the page is allowed only if every level is WRITABLE.
WalkWritable(root, m, page) ==
  /\ Walk(root, m, page) # NoFrame
  /\ \A e \in WalkPath(root, m, page) : "WRITABLE" \in e.flags

(* A supervisor write to the page: it must be mapped; with EFER.NXE clear  *)
(* bit 63 (NO_EXECUTE) is reserved and any entry that has it faults; with *)
(* CR0.WP set a read-only page faults even in ring 0.                     *)
CpuCanWrite(root, m, page, nxe, wp) ==
  /\ Walk(root, m, page) # NoFrame
  /\ nxe \/ \A e \in WalkPath(root, m, page) : "NO_EXECUTE" \notin e.flags
  /\ ~wp \/ WalkWritable(root, m, page)

(* A CPU access to virtual page p: the TLB if it holds p, else the walk.  *)
Resolve(s, page) ==
  IF page \in TlbPages /\ s.tlb[page] # NoFrame
  THEN s.tlb[page]
  ELSE Walk(cr3, s.mem, page)

machine == [mem |-> mem, free |-> free, tlb |-> tlb, panic |-> panic]

Commit(s) ==
  /\ mem' = s.mem
  /\ free' = s.free
  /\ tlb' = s.tlb
  /\ panic' = s.panic

Halt(s, why) == IF s.panic = "none" THEN [s EXCEPT !.panic = why] ELSE s

(* tlb::flush(addr) and tlb::flush_all().                                  *)
FlushPage(s, page) ==
  IF page \in TlbPages THEN [s EXCEPT !.tlb[page] = NoFrame] ELSE s
FlushAll(s) == [s EXCEPT !.tlb = [p \in TlbPages |-> NoFrame]]

(* The frame allocator hands out the lowest free frame (AreaFrameAllocator *)
(* walks the memory areas upwards).                                        *)
allocate_frame(s) == Min(s.free)

(***************************************************************************)
(* Table::next_table_create: child of entry i of the table at virtual     *)
(* page t, allocated, linked PRESENT|WRITABLE and zeroed if absent.       *)
(***************************************************************************)
next_table_create(s, t, i) ==
  LET f == Resolve(s, t)
  IN CASE s.panic # "none"           -> s
       [] f \notin Frames            -> Halt(s, "page_fault")
       [] Present(s.mem[f][i]) /\ ~IsHuge(s.mem[f][i]) -> s
       [] IsHuge(s.mem[f][i])        -> Halt(s, "huge_page")
       [] s.free = {}                -> Halt(s, "out_of_memory")
       [] OTHER ->
            LET n  == allocate_frame(s)
                s1 == [s EXCEPT !.mem[f][i] = TableEntry(n), !.free = @ \ {n}]
                c  == Resolve(s1, NextTableAddress(t, i))
            IN IF c \in Frames THEN [s1 EXCEPT !.mem[c] = ZeroTable]
                               ELSE Halt(s1, "page_fault")

\* Virtual page of the table at a level of the 4KiB path of a page: the
\* P4 at P4, each child through next_table_address.
RECURSIVE TableAddress(_, _)
TableAddress(page, level) ==
  IF level = 4 THEN P4
  ELSE NextTableAddress(TableAddress(page, level + 1), LevelIndex(page, level + 1))

\* Virtual page of the P1 table that holds the entry of a page.
P1Address(page) == TableAddress(page, 1)

\* Op(s), with the machine s computed once before Op reads it.
Once(Op(_), s) == CHOOSE r \in {Op(x) : x \in {s}} : TRUE

(* map_to's three next_table_create calls, P4 down to the page's P1,     *)
(* each on the machine the previous one left.                             *)
CreateTables(s, page) ==
  LET Create(s0, level) ==
        Once(LAMBDA x : next_table_create(x, TableAddress(page, level),
                                             LevelIndex(page, level)), s0)
  IN Create(Create(Create(s, 4), 3), 2)

(* Mutant: map_to without its assert!(p1[page.p1_index()].is_unused()).   *)
map_to_overwrites(s, page, frame, flags) ==
  LET s1 == CreateTables(s, page)
      p1 == Resolve(s1, P1Address(page))
  IN CASE s1.panic # "none"  -> s1
       [] p1 \notin Frames   -> Halt(s1, "page_fault")
       [] OTHER -> [s1 EXCEPT !.mem[p1][LevelIndex(page, 1)] =
                                set(frame, flags \cup {"PRESENT"})]

(* Mutant: map_to sets the entry at the page's P2 index in its P1.        *)
map_to_wrong_index(s, page, frame, flags) ==
  Once(LAMBDA s1 :
         LET p1 == Resolve(s1, P1Address(page))
             i1 == LevelIndex(page, 2)
         IN CASE s1.panic # "none"           -> s1
              [] p1 \notin Frames            -> Halt(s1, "page_fault")
              [] ~is_unused(s1.mem[p1][i1])  -> Halt(s1, "map_to_in_use")
              [] OTHER -> [s1 EXCEPT !.mem[p1][i1] =
                                      set(frame, flags \cup {"PRESENT"})],
       CreateTables(s, page))

(***************************************************************************)
(* Mapper::map_to: create the missing tables, assert the P1 slot unused,  *)
(* set it to the frame with the flags plus PRESENT.                       *)
(***************************************************************************)
map_to(s, page, frame, flags) ==
  Once(LAMBDA s1 :
         LET p1 == Resolve(s1, P1Address(page))
             i1 == LevelIndex(page, 1)
         IN CASE s1.panic # "none"           -> s1
              [] p1 \notin Frames            -> Halt(s1, "page_fault")
              [] ~is_unused(s1.mem[p1][i1])  -> Halt(s1, "map_to_in_use")
              [] OTHER -> [s1 EXCEPT !.mem[p1][i1] =
                                      set(frame, flags \cup {"PRESENT"})],
       CreateTables(s, page))

(* Mutant: the frame allocator hands out a frame without taking it off   *)
(* its free list.                                                          *)
map_keeps_frame(s, page, flags) ==
  IF s.free = {} THEN Halt(s, "out_of_memory")
  ELSE map_to(s, page, allocate_frame(s), flags)

(* Mapper::map: allocate_frames(1).expect("out of memory"), then map_to.  *)
map(s, page, flags) ==
  IF s.free = {} THEN Halt(s, "out_of_memory")
  ELSE LET n == allocate_frame(s)
       IN map_to([s EXCEPT !.free = @ \ {n}], page, n, flags)

(* Mapper::identity_map: the page whose number is the frame's number.     *)
identity_map(s, frame, flags) == map_to(s, frame, frame, flags)

\* The table at virtual page t, read through the TLB.
TableAt(s, t) == s.mem[Resolve(s, t)]

\* next_table: the entry leads to a child table.
HasNextTable(e) == Present(e) /\ ~IsHuge(e)

\* The entry of a page at a level of its 4KiB path.
PathEntry(s, page, level) ==
  TableAt(s, TableAddress(page, level))[LevelIndex(page, level)]

(* translate_page's huge_page closure: a 1GiB entry in the P3, else a     *)
(* 2MiB entry in the P2, its frame asserted aligned.                       *)
TranslateHuge(s, page) ==
  LET E(l) == PathEntry(s, page, l)
  IN CASE ~HasNextTable(E(4)) -> NoFrame
       [] Present(E(3)) /\ IsHuge(E(3)) ->
            IF E(3).frame % (ENTRY_COUNT * ENTRY_COUNT) = 0
            THEN E(3).frame + LevelIndex(page, 2) * ENTRY_COUNT + LevelIndex(page, 1)
            ELSE AlignmentFails
       [] HasNextTable(E(3)) /\ Present(E(2)) /\ IsHuge(E(2)) ->
            IF E(2).frame % ENTRY_COUNT = 0
            THEN E(2).frame + LevelIndex(page, 1) ELSE AlignmentFails
       [] OTHER -> NoFrame

\* The 4KiB path reaches a P1 table.
HasP1(s, page) ==
  /\ HasNextTable(PathEntry(s, page, 4))
  /\ HasNextTable(PathEntry(s, page, 3))
  /\ HasNextTable(PathEntry(s, page, 2))

(* Mutant: the P1 entry's frame taken without pointed_frame's PRESENT    *)
(* check.                                                                  *)
translate_page_unchecked(s, page) ==
  IF HasP1(s, page) THEN PathEntry(s, page, 1).frame ELSE TranslateHuge(s, page)

(***************************************************************************)
(* Mapper::translate_page through the recursive mapping: the 4KiB path    *)
(* first, or_else the huge_page closure.  Returns a frame, NoFrame, or    *)
(* AlignmentFails when an alignment assertion fails.                      *)
(***************************************************************************)
translate_page(s, page) ==
  IF HasP1(s, page) /\ Present(PathEntry(s, page, 1))
  THEN PathEntry(s, page, 1).frame ELSE TranslateHuge(s, page)

(***************************************************************************)
(* Mapper::unmap up to the TLB flush: assert the page translates, walk to *)
(* its P1 table (expect: no huge pages), clear the entry.  The frame is   *)
(* not given back to the allocator (the TODO in the code).                *)
(***************************************************************************)
unmap_entry(s, page) ==
  LET tr == translate_page(s, page)
      p1 == Resolve(s, P1Address(page))
      i1 == LevelIndex(page, 1)
  IN CASE s.panic # "none"                 -> s
       [] tr = AlignmentFails              -> Halt(s, "huge_alignment")
       [] tr = NoFrame                     -> Halt(s, "unmap_unmapped")
       [] ~HasP1(s, page)                  -> Halt(s, "huge_page")
       [] ~Present(s.mem[p1][i1])          -> Halt(s, "unwrap_none")
       [] OTHER -> [s EXCEPT !.mem[p1][i1] = Unused]

(* Mutant: unmap without its tlb::flush.                                   *)
unmap_without_flush(s, page) == unmap_entry(s, page)

(* Mapper::unmap: the entry cleared, then tlb::flush(page).               *)
unmap(s, page) == FlushPage(unmap_entry(s, page), page)

(***************************************************************************)
(* The TLB as an actor: it may cache the current translation of a page it *)
(* watches at any time, and may drop any entry at any time.               *)
(***************************************************************************)
TlbFill(p) ==
  /\ tlb[p] = NoFrame
  /\ Walk(cr3, mem, p) \in Frames
  /\ tlb' = [tlb EXCEPT ![p] = Walk(cr3, mem, p)]
  /\ UNCHANGED <<mem, free, cr3, panic>>

TlbEvict(p) ==
  /\ tlb[p] # NoFrame
  /\ tlb' = [tlb EXCEPT ![p] = NoFrame]
  /\ UNCHANGED <<mem, free, cr3, panic>>

PagingTypeOK ==
  /\ mem \in [Frames -> Table]
  /\ free \subseteq Frames
  /\ tlb \in [TlbPages -> Frames \cup {NoFrame}]
  /\ cr3 \in Frames
  /\ panic \in PanicReasons
=============================================================================
