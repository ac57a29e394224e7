------------------------------ MODULE FramePool ------------------------------
(***************************************************************************)
(* What a physical-frame allocator promises its callers.                   *)
(*                                                                         *)
(* A pool of `obj_count` frames hands out blocks of 2^order frames.  The   *)
(* only state a caller can observe is the set of blocks it has been given  *)
(* and has not returned.  The pool may refuse any request; what it may     *)
(* never do is hand out a frame that does not exist or that somebody       *)
(* already holds, or take a block back that was not returned to it.        *)
(*                                                                         *)
(* A pool may break.  From then on it promises nothing; until then all of  *)
(* the above.  BuddyAllocator is shown to implement this specification,    *)
(* broken by the first buddy that free merges out of the wrong list.       *)
(***************************************************************************)
EXTENDS Integers

CONSTANTS
  MAX_ORDER,  \* orders are 0 .. MAX_ORDER - 1
  obj_count   \* number of frames in the pool

VARIABLES
  alloc,      \* the set of blocks <<first frame, order>> in callers' hands
  broken      \* whether the pool has broken

(* The frames of a block of 2^o frames that begins at frame h. *)
Extent(h, o) == h .. (h + 2^o - 1)

Init == alloc = {} /\ broken = FALSE

(***************************************************************************)
(* Hand out the block of order o at h: every frame of it exists and none   *)
(* of them is in a block already handed out.                               *)
(***************************************************************************)
Grant(h, o) ==
  /\ ~broken /\ broken' = broken
  /\ Extent(h, o) \subseteq 0 .. (obj_count - 1)
  /\ \A b \in alloc : Extent(h, o) \cap Extent(b[1], b[2]) = {}
  /\ alloc' = alloc \cup {<<h, o>>}

(* Take back a block that had been handed out. *)
Return(b) ==
  /\ ~broken /\ broken' = broken
  /\ b \in alloc
  /\ alloc' = alloc \ {b}

(* The pool breaks, and whatever a broken pool does to its callers. *)
Break == broken' = TRUE

Next ==
  \/ \E h \in 0 .. (obj_count - 1), o \in 0 .. (MAX_ORDER - 1) : Grant(h, o)
  \/ \E b \in alloc : Return(b)
  \/ Break

Spec == Init /\ [][Next]_<<alloc, broken>>
==============================================================================
