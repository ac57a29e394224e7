-------------------------- MODULE MCBuddyAllocator --------------------------
(* Instances of BuddyAllocator for TLC; the .cfg files give the sizes. *)
EXTENDS BuddyAllocator

(* An uninitialized Cell: an order that a block may or may not have. *)
MCGarbage == {1}
==============================================================================
