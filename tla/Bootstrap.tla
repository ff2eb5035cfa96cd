----------------------------- MODULE Bootstrap -----------------------------
(***************************************************************************)
(* paging::init (arch/x86_64/memory/paging/mod.rs): build a new P4 in a   *)
(* fresh frame through the temporary page, fill it inside                 *)
(* ActivePageTable::with (identity-map the kernel's ELF sections, the VGA *)
(* buffer and the multiboot information, map the heap, initialise the    *)
(* heap allocator and the stack allocator), switch CR3 to it, and unmap   *)
(* the old P4's page as a guard page.  After init the kernel allocates    *)
(* stacks from the returned StackAllocator.                               *)
(*                                                                         *)
(* Each statement of init that touches the machine is one step, in the   *)
(* order of the code; the TLB may act between any two of them.            *)
(***************************************************************************)
EXTENDS StackAllocator, SequencesExt

CONSTANTS
  ElfSections,       \* <<[start, end, allocated, writable, executable]>>
  VGA_BUFFER,        \* 0xb8000
  MultibootStart,    \* boot_info.start_address()
  MultibootEnd,      \* boot_info.end_address()
  HEAP_START,
  HEAP_SIZE,
  STACK_RANGE,       \* the + 100 of stack_alloc_end
  TEMPORARY_PAGE,    \* Page { number: 0xcafebabe }
  BootMem,           \* the tables boot.asm leaves in memory
  BootP4,            \* the frame CR3 names at entry
  BootFree,          \* the frames the frame allocator manages
  DropPanics,        \* MapperFlush's Drop panics (mapper.rs), as written
  KERNEL_STACK       \* a page of the boot stack, in .bss

VARIABLES
  pc,         \* the statement of init to run next
  newTable,   \* InactivePageTable::p4_frame of new_table
  backup,     \* with's backup: the frame CR3 named on entry
  oldTable,   \* the InactivePageTable switch returned
  calls,      \* the Mapper calls the with-closure has yet to make
  efer_nxe,   \* IA32_EFER.NXE
  cr0_wp      \* CR0.WRITE_PROTECT

regs == <<efer_nxe, cr0_wp>>
bootVars == <<pc, newTable, backup, oldTable, calls, regs>>
vars == <<pagingVars, stackVars, bootVars>>

(* A StackAllocator read from address 0: bytes of the real-mode IVT.      *)
GarbageRange == [start |-> 0, end |-> 0]

(* Mutant: the ELF WRITE bit tested with the wrong mask, so every loaded *)
(* section is mapped writable.                                             *)
from_elf_section_flags_allwritable(sec) ==
  (IF sec.allocated THEN {"PRESENT", "WRITABLE"} ELSE {}) \cup
  (IF sec.executable THEN {} ELSE {"NO_EXECUTE"})

(* EntryFlags::from_elf_section_flags (entry.rs).                         *)
from_elf_section_flags(sec) ==
  (IF sec.allocated THEN {"PRESENT"} ELSE {}) \cup
  (IF sec.writable THEN {"WRITABLE"} ELSE {}) \cup
  (IF sec.executable THEN {} ELSE {"NO_EXECUTE"})

Call(op, arg, flags) == [op |-> op, arg |-> arg, flags |-> flags]

(* Mutant: the last frame taken as the one holding end, not end - 1.      *)
IdentityMapCallsThroughEnd(start, end, flags) ==
  [k \in 1 .. (end \div PAGE_SIZE - start \div PAGE_SIZE + 1) |->
     Call("identity_map", start \div PAGE_SIZE + k - 1, flags)]

\* identity_map of every frame from the one holding start to the one
\* holding end - 1.
IdentityMapCalls(start, end, flags) ==
  [k \in 1 .. ((end - 1) \div PAGE_SIZE - start \div PAGE_SIZE + 1) |->
     Call("identity_map", start \div PAGE_SIZE + k - 1, flags)]

(* The loop over elf_sections_tag.sections(): skip sections not loaded,   *)
(* assert the start page aligned, identity-map its frames.                *)
SectionCalls(sec) ==
  IF ~sec.allocated THEN <<>>
  ELSE << Call("assert_aligned", sec.start, {}) >>
       \o IdentityMapCalls(sec.start, sec.end, from_elf_section_flags(sec))

HeapStartPage == HEAP_START \div PAGE_SIZE
HeapEndPage == (HEAP_START + HEAP_SIZE - 1) \div PAGE_SIZE

(* The calls the closure passed to with makes, in order.                  *)
ClosureCalls ==
  FlattenSeq([i \in 1 .. Len(ElfSections) |-> SectionCalls(ElfSections[i])])
  \o << Call("identity_map", VGA_BUFFER \div PAGE_SIZE, {"WRITABLE"}) >>
  \o IdentityMapCalls(MultibootStart, MultibootEnd, {"PRESENT"})
  \o [k \in 1 .. HeapEndPage - HeapStartPage + 1 |->
        Call("map", HeapStartPage + k - 1, {"WRITABLE"})]
  \o << Call("heap_init", HEAP_START, {}), Call("stack_init", 0, {}) >>

(* A MapperFlush returned by a call statement and dropped unconsumed.     *)
DropToken(s) == IF DropPanics THEN Halt(s, "flush_not_consumed") ELSE s

(* TemporaryPage::map_table_frame: map the page to the frame WRITABLE; the *)
(* page was unmapped (and flushed) before, so the MapperFlush is ignored. *)
map_table_frame(s, frame) == map_to(s, TEMPORARY_PAGE, frame, {"WRITABLE"})

(* TemporaryPage::unmap: active_table.unmap(page), the change flushed.    *)
temporary_unmap(s) == unmap(s, TEMPORARY_PAGE)

Running == panic = "none"

Init ==
  /\ mem = BootMem
  /\ free = BootFree
  /\ tlb = [p \in TlbPages |-> NoFrame]
  /\ cr3 = BootP4
  /\ panic = "none"
  /\ stackRange = GarbageRange
  /\ allocating = <<>>
  /\ pendingStack = NoStack
  /\ stacks = {}
  /\ allocResult = "idle"
  /\ pc = "enable_nxe"
  /\ efer_nxe = FALSE
  /\ cr0_wp = FALSE
  /\ newTable = NoFrame
  /\ backup = NoFrame
  /\ oldTable = NoFrame
  /\ calls = ClosureCalls

\* A statement of paging::init: only arch init writes the registers.
Goto(from, to) == Running /\ pc = from /\ pc' = to /\ UNCHANGED regs

(* arch init: enable_nxe_bit(): wrmsr(IA32_EFER, efer | 1 << 11).        *)
EnableNxe ==
  /\ Running /\ pc = "enable_nxe" /\ pc' = "enable_wp"
  /\ efer_nxe' = TRUE
  /\ UNCHANGED <<cr0_wp, newTable, backup, oldTable, calls>>
  /\ UNCHANGED pagingVars /\ UNCHANGED stackVars

(* enable_write_protect_bit(): cr0_write(cr0() | WRITE_PROTECT); then    *)
(* memory::init runs paging::init.                                         *)
EnableWp ==
  /\ Running /\ pc = "enable_wp" /\ pc' = "start"
  /\ cr0_wp' = TRUE
  /\ UNCHANGED <<efer_nxe, newTable, backup, oldTable, calls>>
  /\ UNCHANGED pagingVars /\ UNCHANGED stackVars

(* let mut stack_allocator = *(&*(0 as *const StackAllocator)): a read    *)
(* through the null pointer, undefined behaviour.  The build either loads *)
(* whatever address 0 holds (the value is overwritten in the closure) or  *)
(* compiles the read to a trap.                                            *)
ReadNullStackAllocator ==
  /\ Goto("start", "new_table")
  /\ \/ stackRange' = GarbageRange /\ UNCHANGED panic
     \/ panic' = "null_read_trap" /\ UNCHANGED stackRange
  /\ UNCHANGED <<mem, free, tlb, cr3, allocating, pendingStack, stacks,
                 allocResult, newTable, backup, oldTable, calls>>

(* allocate_frames(1).expect("out of memory"), then InactivePageTable::new *)
(* maps the temporary page to that frame.                                  *)
AllocateNewTable ==
  /\ Goto("new_table", "new_table_init")
  /\ IF free = {}
     THEN Commit(Halt(machine, "out_of_memory")) /\ UNCHANGED newTable
     ELSE LET frame == allocate_frame(machine)
          IN /\ newTable' = frame
             /\ Commit(map_table_frame([machine EXCEPT !.free = @ \ {frame}],
                                       frame))
  /\ UNCHANGED <<cr3, backup, oldTable, calls>> /\ UNCHANGED stackVars

(* Mutant: the new table not zeroed, only its slot 511 written.            *)
InitNewTableWithoutZero ==
  /\ Goto("new_table_init", "new_table_unmap")
  /\ LET f == Resolve(machine, TEMPORARY_PAGE)
     IN IF f \in Frames
        THEN /\ mem' = [mem EXCEPT ![f][RECURSIVE_INDEX] = TableEntry(newTable)]
             /\ UNCHANGED panic
        ELSE panic' = "page_fault" /\ UNCHANGED mem
  /\ UNCHANGED <<free, tlb, cr3, newTable, backup, oldTable, calls>>
  /\ UNCHANGED stackVars

(* table.zero(); table[511].set(frame, PRESENT | WRITABLE), through the   *)
(* temporary page.                                                         *)
InitNewTable ==
  /\ Goto("new_table_init", "new_table_unmap")
  /\ LET f == Resolve(machine, TEMPORARY_PAGE)
     IN IF f \in Frames
        THEN /\ mem' = [mem EXCEPT ![f] = [ZeroTable EXCEPT
                          ![RECURSIVE_INDEX] = TableEntry(newTable)]]
             /\ UNCHANGED panic
        ELSE panic' = "page_fault" /\ UNCHANGED mem
  /\ UNCHANGED <<free, tlb, cr3, newTable, backup, oldTable, calls>>
  /\ UNCHANGED stackVars

UnmapTemporaryPage(from, to) ==
  /\ Goto(from, to)
  /\ Commit(temporary_unmap(machine))
  /\ UNCHANGED <<cr3, newTable, backup, oldTable, calls>> /\ UNCHANGED stackVars

(* with: backup = the frame in cr3; map the temporary page to it.         *)
WithMapBackup ==
  /\ Goto("with_backup", "with_overwrite")
  /\ backup' = cr3
  /\ Commit(map_table_frame(machine, cr3))
  /\ UNCHANGED <<cr3, newTable, oldTable, calls>> /\ UNCHANGED stackVars

(* self.p4_mut()[511].set(table.p4_frame, ...); tlb::flush_all().         *)
WithOverwrite ==
  /\ Goto("with_overwrite", "closure")
  /\ LET f == Resolve(machine, P4)
     IN IF f \in Frames
        THEN Commit(FlushAll([machine EXCEPT
                   !.mem[f][RECURSIVE_INDEX] = TableEntry(newTable)]))
        ELSE Commit(Halt(machine, "page_fault"))
  /\ UNCHANGED <<cr3, newTable, backup, oldTable, calls>> /\ UNCHANGED stackVars

ClosureCall(op) == Running /\ pc = "closure" /\ calls # <<>> /\ Head(calls).op = op

ClosureStep(s) ==
  /\ Commit(s)
  /\ calls' = Tail(calls)
  /\ pc' = IF Tail(calls) = <<>> THEN "with_restore" ELSE "closure"
  /\ UNCHANGED <<cr3, newTable, backup, oldTable>> /\ UNCHANGED regs

(* assert!(section.start_address() % PAGE_SIZE == 0).                     *)
AssertSectionAligned ==
  /\ ClosureCall("assert_aligned")
  /\ ClosureStep(IF Head(calls).arg % PAGE_SIZE = 0 THEN machine
                 ELSE Halt(machine, "section_unaligned"))
  /\ UNCHANGED stackVars

(* mapper.identity_map(frame, flags); with the MapperFlush dropped.       *)
IdentityMapStep ==
  /\ ClosureCall("identity_map")
  /\ ClosureStep(DropToken(identity_map(machine, Head(calls).arg,
                                        Head(calls).flags)))
  /\ UNCHANGED stackVars

(* mapper.map(page, EntryFlags::WRITABLE); with the MapperFlush dropped.  *)
MapHeapPage ==
  /\ ClosureCall("map")
  /\ ClosureStep(DropToken(map(machine, Head(calls).arg, Head(calls).flags)))
  /\ UNCHANGED stackVars

(* HEAP_ALLOCATOR.init(HEAP_START, HEAP_SIZE) writes the first hole's     *)
(* header at HEAP_START: a CPU write through CR3, which still names the   *)
(* old table.  Its contents are data and are not modelled.                *)
HeapInit ==
  /\ ClosureCall("heap_init")
  /\ ClosureStep(IF /\ Resolve(machine, HeapStartPage) \in Frames
                    /\ CpuCanWrite(cr3, mem, HeapStartPage, efer_nxe, cr0_wp)
                 THEN machine ELSE Halt(machine, "page_fault"))
  /\ UNCHANGED stackVars

(* stack_allocator = StackAllocator::new(range_inclusive(heap_end_page+1, *)
(* heap_end_page + 1 + 100)).                                              *)
StackAllocatorNew ==
  /\ ClosureCall("stack_init")
  /\ ClosureStep(machine)
  /\ stackRange' = [start |-> HeapEndPage + 1, end |-> HeapEndPage + 1 + STACK_RANGE]
  /\ UNCHANGED <<allocating, pendingStack, stacks, allocResult>>

(* Mutant: slot 511 restored through self.p4_mut(), which still reaches   *)
(* the new table, instead of through the temporary page.                  *)
WithRestoreThroughP4 ==
  /\ Goto("with_restore", "with_unmap")
  /\ LET f == Resolve(machine, P4)
     IN IF f \in Frames
        THEN Commit(FlushAll([machine EXCEPT
                   !.mem[f][RECURSIVE_INDEX] = TableEntry(backup)]))
        ELSE Commit(Halt(machine, "page_fault"))
  /\ UNCHANGED <<cr3, newTable, backup, oldTable, calls>> /\ UNCHANGED stackVars

(* p4_table[511].set(backup, ...) through the temporary page;             *)
(* tlb::flush_all().                                                       *)
WithRestore ==
  /\ Goto("with_restore", "with_unmap")
  /\ LET f == Resolve(machine, TEMPORARY_PAGE)
     IN IF f \in Frames
        THEN Commit(FlushAll([machine EXCEPT
                   !.mem[f][RECURSIVE_INDEX] = TableEntry(backup)]))
        ELSE Commit(Halt(machine, "page_fault"))
  /\ UNCHANGED <<cr3, newTable, backup, oldTable, calls>> /\ UNCHANGED stackVars

(* ActivePageTable::switch: old_table from cr3, cr3_write(new p4_frame).  *)
(* Writing CR3 drops every TLB entry (no page is GLOBAL).  The next       *)
(* instruction (switch returning old_table) uses the boot stack in .bss   *)
(* through the new table: a page fault there has no handler yet.          *)
Switch ==
  /\ Goto("switch", "guard")
  /\ oldTable' = cr3
  /\ cr3' = newTable
  /\ tlb' = [p \in TlbPages |-> NoFrame]
  /\ panic' = IF CpuCanWrite(newTable, mem, KERNEL_STACK, efer_nxe, cr0_wp)
              THEN panic ELSE "page_fault"
  /\ UNCHANGED <<mem, free, newTable, backup, calls>>
  /\ UNCHANGED stackVars

(* active_table.unmap(old_p4_page), the MapperFlush dropped.              *)
GuardPage ==
  /\ Goto("guard", "done")
  /\ Commit(DropToken(unmap(machine, (oldTable * PAGE_SIZE) \div PAGE_SIZE)))
  /\ UNCHANGED <<cr3, newTable, backup, oldTable, calls>> /\ UNCHANGED stackVars

BootNext ==
  \/ EnableNxe
  \/ EnableWp
  \/ ReadNullStackAllocator
  \/ AllocateNewTable
  \/ InitNewTable
  \/ UnmapTemporaryPage("new_table_unmap", "with_backup")
  \/ WithMapBackup
  \/ WithOverwrite
  \/ AssertSectionAligned
  \/ IdentityMapStep
  \/ MapHeapPage
  \/ HeapInit
  \/ StackAllocatorNew
  \/ WithRestore
  \/ UnmapTemporaryPage("with_unmap", "switch")
  \/ Switch
  \/ GuardPage

(* A halted kernel stays halted.                                           *)
Halted == panic # "none" /\ UNCHANGED vars

\* Once init has returned, kernel code calls alloc_stack.
AfterInit(A) == Running /\ pc = "done" /\ A /\ UNCHANGED bootVars

\* The TLB acts between any two steps of the kernel.
TlbStep(A) == Running /\ A /\ UNCHANGED <<stackVars, bootVars>>

Next ==
  \/ BootNext
  \/ \E n \in StackSizes : AfterInit(AllocStackNone(n))
  \/ \E n \in StackSizes : AfterInit(AllocStackReserve(n))
  \/ AfterInit(AllocStackMapPage)
  \/ AfterInit(AllocStackReturn)
  \/ \E p \in TlbPages : TlbStep(TlbFill(p))
  \/ \E p \in TlbPages : TlbStep(TlbEvict(p))
  \/ Halted

(* init is straight-line code on the one CPU, with interrupts off: each   *)
(* enabled step of it is eventually taken.  So is each step of an         *)
(* alloc_stack call under way: its mapping loop and its return.  The TLB  *)
(* and the kernel's choice to call alloc_stack get no fairness.           *)
Fairness ==
  /\ WF_vars(BootNext)
  /\ WF_vars(AfterInit(AllocStackMapPage))
  /\ WF_vars(AfterInit(AllocStackReturn))

Spec == Init /\ [][Next]_vars /\ Fairness

TypeOK ==
  /\ PagingTypeOK
  /\ pc \in {"enable_nxe", "enable_wp", "start", "new_table", "new_table_init", "new_table_unmap",
             "with_backup", "with_overwrite", "closure", "with_restore",
             "with_unmap", "switch", "guard", "done"}
  /\ newTable \in Frames \cup {NoFrame}
  /\ backup \in Frames \cup {NoFrame}
  /\ oldTable \in Frames \cup {NoFrame}
  /\ stackRange \in [start : Int, end : Int]
  /\ allocating \in Seq(PageNumbers)
  /\ pendingStack \in [top : Nat, bottom : Nat, pages : Nat]
  /\ stacks \subseteq [top : Nat, bottom : Nat, pages : Nat]
  /\ allocResult \in {"idle", "none"}
  /\ efer_nxe \in BOOLEAN /\ cr0_wp \in BOOLEAN

(***************************************************************************)
(* Properties                                                              *)
(***************************************************************************)

\* Statements before InactivePageTable::new has written new_table.
BeforeNewTable == {"enable_nxe", "enable_wp", "start", "new_table", "new_table_init"}

\* Between the overwrite of slot 511 and its restore, the closure's
\* Mapper calls reach the new table.
WithContext == {"closure", "with_restore"}

(* The recursive mapping that every Mapper call relies on.  Outside the   *)
(* with-context slot 511 of the table CR3 names points back to that table; *)
(* inside it points to new_table; and once InactivePageTable::new has     *)
(* run, new_table's own slot 511 points to itself.  Breaking it takes a   *)
(* write through a stale TLB entry of the temporary page or of the P4     *)
(* page, a missing restore, or a switch to a table never initialised.     *)
RecursiveMappingIntact ==
  Running =>
    /\ mem[cr3][RECURSIVE_INDEX]
         = TableEntry(IF pc \in WithContext THEN newTable ELSE cr3)
    /\ pc \notin BeforeNewTable
         => mem[newTable][RECURSIVE_INDEX] = TableEntry(newTable)

(* Every translation the TLB holds is the one the page tables give now:   *)
(* each change to a mapping the TLB may hold (unmap, the two writes of    *)
(* slot 511 in with, the CR3 write) invalidates it before the next step.  *)
TlbCoherent ==
  \A p \in TlbPages : tlb[p] \in {NoFrame, Walk(cr3, mem, p)}

(* The bootstrap and the stack allocator never panic: no assert! of       *)
(* map_to, unmap, translate_page or next_table_create fails, no table     *)
(* access faults and the allocator never runs out, over the whole boot.   *)
(* The null read of the StackAllocator may trap; nothing else halts.      *)
OnlyTheNullReadHalts == panic \in {"none", "null_read_trap"}

(* After init, the loaded image is where the ELF headers put it: every    *)
(* frame of a loaded section translates to itself in the active table,    *)
(* writable exactly when the section is, the VGA frame writable and the   *)
(* multiboot frames read-only; the old P4's page, which one of them may   *)
(* hold, is the guard no access reaches; every heap page is writable.     *)
SectionFrames(sec) == (sec.start \div PAGE_SIZE) .. ((sec.end - 1) \div PAGE_SIZE)
LoadedSections ==
  {ElfSections[i] : i \in {j \in 1 .. Len(ElfSections) : ElfSections[j].allocated}}
ImageFrames ==
  UNION {{[f |-> f, w |-> sec.writable] : f \in SectionFrames(sec)} :
           sec \in LoadedSections}
  \cup {[f |-> VGA_BUFFER \div PAGE_SIZE, w |-> TRUE]}
  \cup {[f |-> f, w |-> FALSE] : f \in SectionFrames([start |-> MultibootStart,
                                                     end |-> MultibootEnd])}
BootLayout ==
  (pc = "done" /\ Running) =>
    /\ \A x \in ImageFrames :
         x.f # oldTable =>
           /\ Walk(cr3, mem, x.f) = x.f
           /\ WalkWritable(cr3, mem, x.f) = x.w
    /\ CpuFrame(oldTable) = NoFrame
    /\ \A p \in HeapStartPage .. HeapEndPage : WalkWritable(cr3, mem, p)

(* The stacks alloc_stack returned are pairwise disjoint, all their pages *)
(* are mapped, and the page just below each bottom is its guard: no      *)
(* access reaches it.                                                      *)
StacksGuarded ==
  \A st \in stacks :
    /\ \A p \in StackPages(st) : CpuFrame(p) \in Frames
    /\ CpuFrame(st.bottom \div PAGE_SIZE - 1) = NoFrame
    /\ \A other \in stacks \ {st} : StackPages(st) \cap StackPages(other) = {}

(* Every page alloc_stack has taken from its range is a page of a stack  *)
(* it returned (or is returning) or that stack's guard: a call that       *)
(* returns None consumes nothing, a successful one guard + size pages     *)
(* (spec: no partial allocation is committed, no page is reused).        *)
RangeAccountsForStacks ==
  LET Issued == stacks \cup ({pendingStack} \ {NoStack})
      Taken(st) == (st.top - st.bottom) \div PAGE_SIZE + 1
  IN pc = "done" =>
       stackRange.start - (HeapEndPage + 1) = MapThenSumSet(Taken, Issued)

(* alloc_stack(size_in_pages) hands out a stack of exactly size_in_pages *)
(* pages: top - bottom is size_in_pages pages, for every size and however *)
(* little of the range is left (spec: N calls with sizes s1..sN).         *)
StackSizeHonoured ==
  \A st \in stacks : st.top - st.bottom = st.pages * PAGE_SIZE

(***************************************************************************)
(* Refinement: the page tables, read through the MMU walk from each root  *)
(* init has built, implement AddressSpace.  new_table joins once          *)
(* InactivePageTable::new has written it.                                  *)
(***************************************************************************)
Roots ==
  IF pc \in BeforeNewTable THEN {BootP4}
  ELSE {BootP4, newTable}

AbstractSpace == [r \in Roots |-> [p \in NormalPages |-> Walk(r, mem, p)]]

AS == INSTANCE AddressSpace WITH
        space <- AbstractSpace, active <- cr3,
        Pages <- NormalPages, FrameIds <- Frames,
        BootRoot <- BootP4,
        BootSpace <- [p \in NormalPages |-> Walk(BootP4, BootMem, p)]

(* Every step of init and of alloc_stack changes at most one page of one  *)
(* address space, only by mapping an unmapped page or unmapping a mapped  *)
(* one; new_table starts empty; only switch changes the active space.    *)
(* Table creation, zeroing and the slot-511 writes in with must leave     *)
(* every code and data page of every space as it was.                     *)
AddressSpaceRefined == AS!Spec

(* HEAP_ALLOCATOR.init's write at HEAP_START lands in the frame mapped    *)
(* for the heap's first page (spec: the heap allocator is initialised     *)
(* only after the heap's pages are mapped).                                *)
HeapInitWritesHeap ==
  [][ClosureCall("heap_init") =>
       Resolve(machine, HeapStartPage) = Walk(newTable, mem, HeapStartPage)]_vars

(* Every MapperFlush init receives is consumed (flushed or ignored): the  *)
(* #[must_use] token's Drop impl panics otherwise.                        *)
FlushTokensConsumed == panic # "flush_not_consumed"

(* Stack pages are writable by the kernel, under the EFER.NXE and CR0.WP  *)
(* arch init set: a stack grows downward from top.                         *)
StackPagesWritable ==
  \A st \in stacks : \A p \in StackPages(st) :
    CpuCanWrite(cr3, mem, p, efer_nxe, cr0_wp)

=============================================================================
