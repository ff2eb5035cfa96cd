---------------------------- MODULE MCBootstrap ----------------------------
(***************************************************************************)
(* A machine for TLC: 512-entry tables shrunk to 3 entries (indices 0, 1  *)
(* and the recursive slot 2), 4KiB pages to 2 bytes, 28 frames.           *)
(*                                                                         *)
(* Physical layout: frame 0 real-mode IVT, 1 the VGA buffer, 2 the        *)
(* kernel's .text, 3-5 its .bss holding boot.asm's P4, P3 and P2, 6 the   *)
(* multiboot information, 7-8 a reserved area, 9-27 managed by the frame  *)
(* allocator.  boot.asm's tables identity-map pages 0-8 with three 2MiB   *)
(* (here: 3-page) huge entries, like its 512 2MiB entries for 1GiB.       *)
(***************************************************************************)
EXTENDS Bootstrap

MCNumFrames == 28

\* Memory not yet written by the kernel: stale, non-zero entries.
Garbage == [i \in Idx |-> set(0, {"PRESENT", "WRITABLE"})]

MCBootMem ==
  [f \in 0 .. MCNumFrames - 1 |->
     CASE f = 3 -> [i \in Idx |-> CASE i = 0 -> TableEntry(4)
                                    [] i = RECURSIVE_INDEX -> TableEntry(3)
                                    [] OTHER -> Unused]
       [] f = 4 -> [i \in Idx |-> IF i = 0 THEN TableEntry(5) ELSE Unused]
       [] f = 5 -> [i \in Idx |->
                     set(ENTRY_COUNT * i, {"PRESENT", "WRITABLE", "HUGE_PAGE"})]
       [] OTHER -> Garbage]

MCElfSections ==
  << [start |-> 4, end |-> 6, allocated |-> TRUE,
      writable |-> FALSE, executable |-> TRUE],          \* .text
     [start |-> 6, end |-> 12, allocated |-> TRUE,
      writable |-> TRUE, executable |-> FALSE],          \* .bss
     [start |-> 0, end |-> 1, allocated |-> FALSE,
      writable |-> FALSE, executable |-> FALSE] >>       \* .comment

\* The recursive P4 page, the P3 of index 0, the temporary page, the old
\* P4's page, a heap page and a stack page.
MCTlbPages == {P4, NextTableAddress(P4, 0), 40, 3, 7, 10}
=============================================================================
