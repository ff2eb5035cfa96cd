---------------------------- MODULE AddressSpace ----------------------------
(***************************************************************************)
(* What the paging layer promises, seen from the pages that hold code and *)
(* data: a set of address spaces, each a function from page to frame, and *)
(* the one CR3 names.  A step maps one unmapped page of one space, unmaps *)
(* one mapped page, creates an empty space, or makes another space        *)
(* active.  No step changes two pages, or a space it does not name.       *)
(*                                                                         *)
(* Each action takes the next mapping as the argument after, so that a    *)
(* refinement mapping that is costly to evaluate is evaluated once a step *)
(* (Next binds after to space').                                           *)
(***************************************************************************)
EXTENDS TLC

CONSTANTS
  Pages,      \* pages outside the recursive region
  FrameIds,   \* physical frames
  NoFrame,    \* an unmapped page
  BootRoot,   \* the space the boot loader left active
  BootSpace   \* its mapping

VARIABLES
  space,      \* space[r][p]: the frame page p maps to in the space of root r
  active      \* the root CR3 names

Init ==
  /\ space = (BootRoot :> BootSpace)
  /\ active = BootRoot

MapPage(after, r, p) ==
  /\ space[r][p] = NoFrame
  /\ after[r][p] \in FrameIds
  /\ after = [space EXCEPT ![r][p] = after[r][p]]
  /\ UNCHANGED active

UnmapPage(after, r, p) ==
  /\ space[r][p] # NoFrame
  /\ after = [space EXCEPT ![r][p] = NoFrame]
  /\ UNCHANGED active

CreateSpace(after, r) ==
  /\ r \notin DOMAIN space
  /\ after = space @@ (r :> [p \in Pages |-> NoFrame])
  /\ UNCHANGED active

SwitchTo(after, r) ==
  /\ r \in DOMAIN space
  /\ active' = r
  /\ after = space

Next ==
  LET after == space'
  IN \/ \E r \in DOMAIN space, p \in Pages :
          \/ MapPage(after, r, p)
          \/ UnmapPage(after, r, p)
     \/ \E r \in FrameIds : CreateSpace(after, r) \/ SwitchTo(after, r)

Spec == Init /\ [][Next]_<<space, active>>
=============================================================================
