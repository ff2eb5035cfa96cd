------------------------------ MODULE MCMapper ------------------------------
(***************************************************************************)
(* The Mapper after boot on 3-entry tables (slot 2 recursive), 16 frames. *)
(* boot.asm's tables: P4 in frame 3, P3 in 4, P2 in 5 with three 2MiB     *)
(* (3-page) huge entries identity-mapping pages 0-8.  Frames 9-13 are     *)
(* free: a map into a fresh P4 slot takes four of them, so a second such  *)
(* map runs dry after creating a table.                                    *)
(***************************************************************************)
EXTENDS Mapper

MCNumFrames == 16

\* Memory not yet written by the kernel: stale, non-zero entries.
Garbage == [i \in Idx |-> set(0, {"PRESENT", "WRITABLE"})]

MCBootMem ==
  [f \in 0 .. MCNumFrames - 1 |->
     CASE f = 3 -> [i \in Idx |-> CASE i = 0 -> TableEntry(4)
                                    [] i = RECURSIVE_INDEX -> TableEntry(3)
                                    [] OTHER -> Unused]
       [] f = 4 -> [i \in Idx |-> IF i = 0 THEN TableEntry(5) ELSE Unused]
       [] f = 5 -> [i \in Idx |->
                     set(ENTRY_COUNT * i, {"PRESENT", "WRITABLE", "HUGE_PAGE"})]
       [] OTHER -> Garbage]

\* Page 4 sits in a huge page; 9 needs a P2 and a P1 under boot's P3;
\* 28 and 29 share a P1 under a P4 slot boot left empty.
MCClientPages == {4, 9, 28, 29}

\* The recursive P4 page, the P3 page of slot 1, the P1 page holding 28
\* and 29, and the client pages 4 and 28.
MCTlbPages == {P4, NextTableAddress(P4, 1), P1Address(28), 4, 28}
=============================================================================
