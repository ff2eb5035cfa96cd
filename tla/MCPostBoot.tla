----------------------------- MODULE MCPostBoot -----------------------------
(***************************************************************************)
(* After boot on the tables of MCMapper, 20 frames with 9-19 free.  The   *)
(* stack range 29-34 lies in the P4 slot boot left empty, beside the      *)
(* client pages 28 and 35: 28 shares its P1 with the first guard page,    *)
(* 35 shares its P1 with the pages of the second stack.                   *)
(***************************************************************************)
EXTENDS MCMapper, PostBoot

MCPostNumFrames == 20

MCPostBootMem ==
  [f \in 0 .. MCPostNumFrames - 1 |->
     IF f < MCNumFrames THEN MCBootMem[f] ELSE Garbage]

MCPostClientPages == {28, 35}

\* The TLB watches the first guard page and a page of each stack.
MCPostTlbPages == {29, 30, 33}
=============================================================================
