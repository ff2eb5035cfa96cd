# TLA+ models of the lambdaOS virtual-memory core

This directory holds TLA+ models of the x86_64 paging core of lambdaOS (`src/src/arch/x86_64/memory`) and the TLC configurations that check them. It covers the page tables reached through the recursive slot 511, the Mapper API and its flush tokens, the `with`/`switch` protocol that builds and activates a second address space, the bootstrap in `paging::init` with the register setup before it, the stack allocator, and `klib::kalloc`.

## 1. The system (inventory)

| Part | Source | State | Operations that change state |
|---|---|---|---|
| Page tables and entries | `table.rs`, `entry.rs` (not in `src/`) | physical frames read as 512-entry tables | `set`, `set_unused`, `zero`, `next_table_create` |
| Mapper | `paging/mapper.rs` | the tables reachable from CR3 through slot 511 | `map_to`, `map`, `identity_map`, `unmap` (`translate_page` reads only) |
| MapperFlush tokens | `paging/mapper.rs:125-181` | one pending invalidation per call | `flush` (invalidates the page), `ignore`, `Drop` (panics) |
| TemporaryPage | `temporary_page.rs` (not in `src/`) | one scratch virtual page | `map_table_frame`, `unmap` |
| Active/Inactive table | `paging/mod.rs:124-233` | CR3, slot 511 of the active P4 | `InactivePageTable::new`, `with`, `switch` |
| Bootstrap | `paging/mod.rs:239-363` | all of the above plus the frame allocator | `init` |
| StackAllocator | `memory/stack_allocator.rs` | a `PageIter` range | `new`, `alloc_stack` |
| CPU registers | `init/mod.rs` | EFER.NXE, CR0.WP | `enable_nxe_bit`, `enable_write_protect_bit` |
| kalloc | `klib/mod.rs` | blocks taken from the external `HEAP` | `kalloc` |
| Interrupts, port I/O | `interrupts/`, `device/io/` | PIC/IDT hardware | not modelled (section 6) |

How the parts interact. Arch init sets EFER.NXE and CR0.WP, then calls `memory::init`, which runs `paging::init`. `init` allocates a frame for a new P4. `InactivePageTable::new` maps the TemporaryPage to that frame, zeroes it, and points its slot 511 at itself. `with` maps the TemporaryPage to the current P4 (the backup) and rewrites the current P4's slot 511 to the new table. It then flushes the whole TLB and runs the closure, so every Mapper call inside the closure edits the new table. After the closure it restores slot 511 through the TemporaryPage, flushes again and unmaps the TemporaryPage. `switch` writes CR3. `init` then unmaps the old P4's page to make the guard page. Later code calls `alloc_stack`, which maps stack pages in the active table.

The behaviours that make this hard are these:
- The TLB caches translations. Every edit of a table that the TLB may have cached must be invalidated before the next access, and that includes the recursive table pages themselves.
- Slot 511 is rewritten while the running code depends on it.
- A `MapperFlush` dropped without being consumed panics.
- The frame allocator can run out in the middle of a call.
- Asserts in `map_to` and `unmap` fire if a page is mapped twice or unmapped twice.
- Page ranges have off-by-one edges: `end_address - 1` and `nth(size - 2)`.
- `alloc_stack` writes its range back only when all three reservations succeed.
- `init` reads the StackAllocator through a null pointer, which is undefined behaviour.
- Right after `switch` writes CR3, the kernel uses its boot stack through the new table. With CR0.WP set and EFER.NXE needed for `NO_EXECUTE` entries, that stack must be mapped writable and NXE must already be on.
- After boot, callers may map and unmap in any order. They may flush, ignore or batch the tokens, and `map_to` can run out of frames after it has created a table.

## 2. Modules

| Module | Models | Contents |
|---|---|---|
| `Paging.tla` | `mapper.rs`, Page indices, tables/entries, frame allocator, TLB, CR3 | VARIABLES `mem`, `free`, `tlb`, `cr3`, `panic`. The MMU walk `Walk`, a CPU access `Resolve` (TLB first, else the walk), `next_table_create`, `map_to`, `map`, `identity_map`, `translate_page`, `unmap`. The TLB actor is `TlbFill` and `TlbEvict`. |
| `StackAllocator.tla` (extends Paging) | `stack_allocator.rs`, `PageIter` | VARIABLES `stackRange`, `allocating`, `pendingStack`, `stacks`, `allocResult`. Actions `AllocStackNone` (the `None` returns), `AllocStackReserve` (the write-back), `AllocStackMapPage` (one iteration of the map-and-flush loop) and `AllocStackReturn` (`Stack::new`). |
| `Bootstrap.tla` (extends StackAllocator) | `paging::init`, `with`, `switch`, `InactivePageTable::new`, TemporaryPage | A program counter `pc` over the statements of `init`. `calls` holds the closure's Mapper calls, built from the ELF sections, VGA, multiboot and heap constants in code order. There is one action per statement that changes state, and all the properties live here. |
| `Mapper.tla` (extends Paging) | `mapper.rs` after boot, `MapperFlush`, `MapperFlushAll` | VARIABLES `batch` (the caller's `MapperFlushAll`: `<<>>`, or `<<its bool>>`), `callCount`, and the history variable `lastCall` (the operation and page of the latest call, read only by `CallsHonoured`). A caller makes `MapPage`/`UnmapPage` calls and disposes of each token: `flush`, `ignore`, or `consume` into the batch. `NewFlushAll`, `FlushAllBatch`, `ForgetFlushAll` and `DropFlushAll` (the `Drop` panic) act on the batch. The TLB acts between calls. |
| `PostBoot.tla` (extends Mapper, StackAllocator) | the kernel after `init` returns `(active_table, stack_allocator)` | The composition of the two. Callers reach the Mapper through `ActivePageTable`'s `Deref` (`ClientStep`), and `alloc_stack` runs on the same table (`StackStep`). A client call starts only when no `alloc_stack` call is under way (`StackIdle`). The TLB acts between any two steps, including between the pages of `alloc_stack`'s loop. The stack range and the client pages are disjoint (an `ASSUME`). |
| `Kalloc.tla` | `klib::kalloc` | VARIABLES `heapReady`, `blocks`, `panic`. One action per call: `from_size_align(2, size)`, the 100 KiB limit, the `HEAP` unwrap, then `alloc_zeroed`. The external heap is modelled as first fit with alignment. |
| `AddressSpace.tla` | the promise of the paging core | The abstract state is a map from each root to a page→frame function, plus the active root. Each step maps one unmapped page, unmaps one mapped page, creates an empty space or switches. |
| `MCBootstrap.tla` | — | A concrete boot image: the bootloader's tables (P4 in frame 3, 2 MiB huge pages identity-mapping low memory), free frames 9..27, ELF sections and TLB-watched pages. |
| `MCMapper.tla` | — | The same bootloader tables, 16 frames with 9..13 free, the client pages and the TLB-watched pages. |
| `MCPostBoot.tla` | — | MCMapper's tables on 20 frames with 9..19 free, the stack range 29..34 and the client pages 28 and 35. |

How the models are built:
- A Mapper call is an operator from the record `[mem, free, tlb, panic]` to the record after the call. An action commits that record. A whole call is therefore one step, which the code justifies: one core, interrupts off, nothing yields.
- Every table access inside a call goes through `Resolve`. A missing invalidation therefore makes the model write into a stale frame, just as the CPU would.
- Between any two steps, the TLB may cache the current translation of a watched page or drop one.
- The register writes are the first two boot actions (`EnableNxe`, `EnableWp`). `CpuCanWrite` reads them: with NXE clear, an entry with `NO_EXECUTE` has a reserved bit set and faults. With WP set, a write to a read-only page faults. `Switch` performs the first stack access through the new table (`KERNEL_STACK`, a page of .bss).
- Each panic (`assert!`, `expect`, `unwrap`, a page fault with no handler) sets `panic` to its reason. After that only stuttering (`Halted`) is possible.
- The closure's calls run one per step, so the TLB can act between them.

Abstraction. Tables have `ENTRY_COUNT = 3` entries instead of 512, so slot 2 plays the part of slot 511. The virtual address space is then 3^4 = 81 pages, and page 80 is the recursive P4 address. The code's `(addr << 9) | (idx << 12)` becomes `(t * E + i) % E^4`. Flags are a set. Frame contents other than tables (code, data, the heap) are not modelled.

Refinement. Both Bootstrap and Mapper refine `AddressSpace`. In Mapper, the map is the single space of CR3, read with the MMU walk (`MapperRefined`). The map `AbstractSpace` reads the page→frame function of each root built so far: the bootloader's P4 always, and `new_table` once `InactivePageTable::new` has written it. It reads it with the MMU walk over every page outside the recursive region. `AS == INSTANCE AddressSpace WITH space <- AbstractSpace, active <- cr3, ...` and `AddressSpaceRefined == AS!Spec` is a PROPERTY of the `boot` run. It says that table creation, zeroing and the slot-511 edits never disturb a code or data page of any space, and that each Mapper call changes exactly one page of one space.

## 3. Runs

| Run | Config | Expect | Shows |
|---|---|---|---|
| `boot` | `MCBootstrap.cfg` | pass | The whole boot, then any sequence of `alloc_stack(0/1/2)` calls, with the TLB interleaved everywhere. The invariants hold: `TypeOK`, `RecursiveMappingIntact`, `TlbCoherent`, `OnlyTheNullReadHalts`, `BootLayout` and `StacksGuarded`. Two invariants tie the stacks to the request and to the range. Every stack has exactly the `size_in_pages` it was asked for (`StackSizeHonoured`). Every page the allocator took from its range belongs to a returned stack or is its guard, so a `None` consumes nothing (`RangeAccountsForStacks`). The property `AddressSpaceRefined` holds as well. Dropped `MapperFlush` tokens are taken as harmless (`DropPanics = FALSE`); this is the repair of finding 1. |
| `mapper` | `MCMapper.cfg` | pass | After boot, a caller makes any six map or unmap calls. Its pages lie inside a huge page (4), under boot's P3 (9), and under an empty P4 slot (28, 29, which share a P1). It disposes of tokens in every way, with the TLB interleaved. The run shows four things. `translate_page`, which reads the tables through the recursive slot and the TLB, equals the MMU walk for every page (`TranslateIsWalk`). Each call does what it was asked (`CallsHonoured`, an action property over the latest call, which the history variable `lastCall` names). A map of an unmapped page maps it to a frame that was free, unless the allocator ran dry. An unmap of a mapped page unmaps it, unless the page lies in a huge page. A call on a page in the other state panics. No other page changes. The TLB is coherent even when tokens are ignored or a batch is forgotten, because `unmap` flushes by itself (`TlbCoherent`). Each call maps or unmaps one page, and a call that runs out of frames after creating a table changes no page (`MapperRefined`). The run reaches every panic a caller can cause: `map_to_in_use`, `unmap_unmapped`, `huge_page` and `out_of_memory` part-way through a call. |
| `post_boot` | `MCPostBoot.cfg` | pass | After `init`, two client Mapper calls (on pages 28 and 35, which share P1 tables with the stack range) and `alloc_stack(1/2)` calls run in any order on the same tables, frame allocator and TLB. Every stack keeps frames no other page uses and no table holds. Its guard page stays unreachable, through the TLB too, and no two stacks overlap (`StacksIsolated`). Together the calls still change one page at a time (`MapperRefined`). |
| `kalloc_swapped_layout` | `MCKallocLayout.cfg` | violation | `kalloc(4)` takes a 2-byte block aligned to 4 (`KallocReservesRequest`). |
| `flush_token_dropped` | `MCBootstrapDropPanics.cfg` | violation | With the `Drop` impl as written, `init` panics at its first `identity_map` (`FlushTokensConsumed`). |
| `heap_init_old_table` | `MCBootstrapHeapInit.cfg` | violation | `HEAP_ALLOCATOR.init` runs before `switch`, so its write at `HEAP_START` goes through the old table. That table maps `HEAP_START`'s page to another frame, the bootloader's identity huge page, not to the frame `new_table` gives the heap (`HeapInitWritesHeap`). |
| `stack_pages_read_only` | `MCBootstrapStackWritable.cfg` | violation | Stacks are mapped `PRESENT` only, which is not writable under CR0.WP (`StackPagesWritable`). |

Each property of the passing runs has a mutant in `PROJECT.json`: a plausible bug in the mapped code under which TLC finds the property violated. For example, `unmap` without its `tlb::flush` breaks `TlbCoherent`, and a restore through the P4 address instead of the temporary page breaks `RecursiveMappingIntact`. A `translate_page` that skips the P1 entry's PRESENT check breaks `TranslateIsWalk`, and `map_to` without its `is_unused` assert breaks `MapperRefined`.

The register setup is covered by `OnlyTheNullReadHalts`: with `nxe_bit` wrong (EFER.NXE left clear), `switch` faults on its first stack access, and TLC reports the invariant violated.

Findings:
1. The dropped `MapperFlush` tokens panic: `mod.rs:289, 296, 305, 317, 355`.
2. The heap is initialised before its pages are active: `mod.rs:331`.
3. Stack pages are read-only: `stack_allocator.rs:49`.
4. `kalloc` passes size and alignment to `Layout::from_size_align` in the wrong order: `klib/mod.rs:11`. The comment above it asks for a 2-aligned size. Instead, `kalloc(4)` gets 2 bytes and `kalloc(6)` panics with `Invalid layout`.

One more defect sits in the source outside what TLC can show: `MapperFlush::flush` and `MapperFlushAll::flush` call `table.flush` and `table.flush_all`, and `ActivePageTable` defines neither. The model takes them as `tlb::flush(page)` and `tlb::flush_all()`.

## 4. Bounds and why they are enough

Memory:
- 28 frames.
- The bootloader tables use frames 3–5.
- Frames 9–27 are free, enough for `new_table`, the three intermediate tables it needs, the heap and the stacks. The allocator never runs dry in `boot`, and a mutant that maps one frame too many does reach a panic.
- Every frame that is not a table holds garbage entries (present and writable, pointing at frame 0). A missing `zero` is therefore visible.

Image and bootstrap regions:
- Two loaded ELF sections (text read-only and executable; bss writable) and one section that is not loaded.
- The bss section holds frame 3, the old P4, so the guard page falls inside the image. This is the case the spec calls out.
- The VGA frame, one multiboot frame and a two-page heap. `HEAP_START` is not under `src/`. Here the heap lies inside the bootloader's identity map, so in `boot` the write by `HEAP_ALLOCATOR.init` lands in the wrong frame instead of faulting. `OnlyTheNullReadHalts` passes partly for that reason, and `heap_init_old_table` reports the misplaced write.
- A stack range of 5 pages with sizes 0, 1 and 2. This reaches both success and the `None` on exhaustion, including a `None` after a partial reservation.

TLB:
- The TLB watches the P4 page, one P3 table page, the temporary page, and one page each of the text, bss and VGA regions. That set includes every recursive page whose stale entry would misdirect a write in `with`.

Mapper:
- Five free frames. A map of page 9 needs three (P2, P1, data) and a map of page 28 needs four (P3, P2, P1, data), so mapping both runs out part-way through `map_to`, after a table is already linked in.
- Six calls are enough to map, unmap and map again, and to fill a P1 shared by two pages. Three already exhaust the frames through the leak of `unmap`: map 9, unmap 9, then map 28 runs out with no client page mapped. Beyond six the state count hardly grows, because every path has run the allocator dry by then.
- The TLB watches the P4 page, the P3 page of slot 1, the P1 page of pages 28–29, and the pages 4 and 28.

Post-boot composition:
- The stack range 29..34 lies in the P4 slot boot left empty. Two stacks of two pages, or three of one page, fill it; the next call returns `None`.
- Page 28 shares a P1 with the first guard page. Page 35 shares a P1 with the second stack. So clients and stacks create tables the other reuses.
- Eleven free frames cover the stacks and both clients. Some orders still run dry.
- Two client calls and three TLB-watched pages (the first guard and a page of each stack) keep the run near 45 s. Three calls and five pages give 52,328 states in 9 minutes, with the same result.

kalloc: a 16-byte heap and the sizes 0, 1, 2, 4, 6 and 32. These reach each branch: an invalid layout, the limit, a fit and a full heap.

Size: `boot` reaches 992 distinct states in about 20 s, `mapper` 6176 in about 45 s, and `post_boot` 6841 in about 50 s.

## 5. Fairness

`Bootstrap`'s `Spec` has three weak-fairness conjuncts (`Fairness`):
- `WF_vars(BootNext)`. `init` is straight-line code on one CPU with interrupts disabled (`init/mod.rs:12`), so its next statement always runs.
- `WF_vars(AfterInit(AllocStackMapPage))` and `WF_vars(AfterInit(AllocStackReturn))`. Once a call of `alloc_stack` has reserved its pages, its loop and its return run the same way.

Nothing else is fair. The TLB may cache or drop entries as it likes. The kernel may never call `alloc_stack`, and a caller in `Mapper` may stop at any point. Nothing in the code forces them to act.

No liveness property is checked. Termination holds by the structure of the code: every step of `init` and of `alloc_stack` is total on its guard (a failing `assert!`, `expect` or access halts, it never blocks), and every loop runs over a finite, precomputed list. A property such as "init returns" would therefore hold whatever the code does. A stack call that halts part-way is already excluded by `OnlyTheNullReadHalts`. The fairness stays in `Spec` as the statement of how the code is scheduled. `Paging` still evaluates each `next_table_create` of `map_to` once, with `Once(Op, s)` (a `CHOOSE` over the singleton `{Op(s)}`), so that `ENABLED` of these actions stays cheap.

## 6. Not modelled

- **Page-table, entry and TemporaryPage code and the frame allocator.** These files are not in `src/`. They are modelled from `spec.md` and marked `spec_modelled` in the map.
- **The canonical-address assert in `Page::containing_address` and physical/virtual address wrappers.** All page numbers in the model are canonical.
- **`println!`, ELF and multiboot parsing.** They become constants.
- **GDT, IDT, PIC, ACPI and port I/O (`interrupts/`, `device/io/cpuio.rs`).** These load descriptor tables and read and write I/O ports. They hold no state that this core reads, and their effect is on hardware outside the model.
- **The rest of arch init** (`interrupts::init`, `device::init`, `acpi::init`, enabling interrupts). These are calls into the parts above.
- **The hole-list heap behind `kalloc`.** It is an external crate, modelled only as first fit. Whether its `HEAP` was initialised is outside this repository, so both cases are initial states.

## 7. Plan for later work

1. A second boot image in which the multiboot region shares a frame with the kernel image, to show `map_to`'s assert firing.
2. `alloc_stack` after `switch` with a TLB that watches the stack pages.
3. A post-boot caller that may map into the stack range, once the kernel reserves that range in some form.
