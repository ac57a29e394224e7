---------------------------- MODULE BuddyAllocator ----------------------------
(***************************************************************************)
(* The buddy allocator of physical frames,                                 *)
(* src/src/memory/buddy_system/allocator.rs, over the Frame objects of     *)
(* src/src/memory/frame.rs.                                                *)
(*                                                                         *)
(* An object is its index in the array `obj_ptr`.  The two Cells of a      *)
(* Frame are the functions `order` and `state`; a free list is a sequence  *)
(* of indices.  `allocate` is one step.  The loops of `new` and `free` are *)
(* taken one iteration at a time, with the loop's registers in `obj` and   *)
(* `i`: every intermediate state of a merge can then be inspected.         *)
(*                                                                         *)
(* Build modelled: the dev profile, the one the Makefile builds, in which  *)
(* integer overflow and failed debug assertions panic.                     *)
(***************************************************************************)
EXTENDS Integers, Sequences, FiniteSets, FiniteSetsExt, SequencesExt

CONSTANTS
  MAX_ORDER,     \* number of free lists (15 in the source)
  obj_count,     \* number of objects handed to `new`
  GarbageOrder   \* values the uninitialized `order` Cell may hold

ASSUME MaxOrderAssumption == MAX_ORDER \in Nat \ {0}
ASSUME ObjCountAssumption == obj_count \in Nat \ {0}
ASSUME GarbageAssumption  == GarbageOrder \subseteq Nat /\ GarbageOrder # {}

(***************************************************************************)
(* `1 << (o + 1)` is twice `1 << o`.  A fact of arithmetic; it is stated   *)
(* because the provers have no theory of exponentiation.                   *)
(***************************************************************************)
ASSUME ShiftDoubles == \A o \in 0 .. MAX_ORDER : 2^(o + 1) = 2 * 2^o

Orders == 0 .. (MAX_ORDER - 1)
Objs   == 0 .. (obj_count - 1)
State  == {"Used", "Free"}

VARIABLES
  free_lists,   \* [Orders -> Seq(Objs)], front of the list first
  free_counts,  \* [Orders -> Nat]
  order,        \* Frame.order of every object
  state,        \* Frame.state of every object
  held,         \* the objects callers got from allocate and did not free
  pc,           \* "new", "idle" or "merging" (inside the loop of free)
  obj,          \* `index` in new, `obj` in free; 0 when idle
  i,            \* the loop variable of new and of free; 0 when idle
  fault,        \* "none", or how the allocator stopped
  misled        \* history: free has merged a buddy out of another order's list

vars == <<free_lists, free_counts, order, state, held, pc, obj, i, fault, misled>>

Pcs    == {"new", "idle", "merging"}
Faults == {"none", "underflow", "not_linked", "dangling", "linked", "no_list"}

-------------------------------------------------------------------------------
(* An object passed to `is_managed_obj` lies inside the array. *)
is_managed_obj(x) == 0 <= x /\ x <= obj_count - 1

(* `index ^ (1 << order)`: flip bit o of x. *)
FlipBit(x, o) == IF (x \div 2^o) % 2 = 0 THEN x + 2^o ELSE x - 2^o

(* `buddy` returns Some: the order has a list and the buddy is managed. *)
HasBuddy(x, o) == o < MAX_ORDER /\ is_managed_obj(FlipBit(x, o))

(* The objects linked in the list l. *)
Elems(l) == {l[k] : k \in 1 .. Len(l)}

(* Where x sits in the list l, for a cursor made from its pointer. *)
Position(l, x) == CHOOSE k \in 1 .. Len(l) : l[k] = x

(* `remove` of a cursor on x, for a list l in which x is linked. *)
Unlinked(l, x) == RemoveAt(l, Position(l, x))

(* x is linked in l, and neither its head nor its tail. *)
Inside(l, x) == \E k \in 2 .. (Len(l) - 1) : l[k] = x

(* x is linked in a list; push_back of such an object panics. *)
Linked(x) == \E o \in Orders : x \in Elems(free_lists[o])

PushBack(lists, o, x) == [lists EXCEPT ![o] = Append(@, x)]

(***************************************************************************)
(* new(): before its main loop.  The lists are empty.  Nobody has written  *)
(* the Cells of the objects yet (reset_link touches the link only), so     *)
(* they hold whatever the memory held.                                     *)
(***************************************************************************)
Init ==
  /\ free_lists  = [o \in Orders |-> << >>]
  /\ free_counts = [o \in Orders |-> 0]
  /\ order \in [Objs -> GarbageOrder]
  /\ state \in [Objs -> State]
  /\ held  = {}
  /\ pc    = "new"
  /\ obj   = 0
  /\ i     = MAX_ORDER - 1
  /\ fault = "none"
  /\ misled = FALSE

(* The condition of the while loop of new. *)
FitsOffByOne == 2^i <= obj_count - obj + 1  \* mutant
Fits == 2^i <= obj_count - obj

(* One iteration of the while loop of new: a block of order i at `index`. *)
NewBlock ==
  /\ pc = "new"
  /\ Fits
  /\ order' = [order EXCEPT ![obj] = i]
  /\ state' = [state EXCEPT ![obj] = "Free"]
  /\ free_lists'  = PushBack(free_lists, i, obj)
  /\ free_counts' = [free_counts EXCEPT ![i] = @ + 1]
  /\ obj' = obj + 2^i
  /\ UNCHANGED <<held, pc, i, fault, misled>>

(* The while loop ends at this order; new continues with the next lower    *)
(* one, and returns the allocator after order 0.                           *)
NewNextOrder ==
  /\ pc = "new"
  /\ ~Fits
  /\ IF i > 0 THEN i' = i - 1 /\ UNCHANGED <<pc, obj>>
              ELSE i' = 0 /\ pc' = "idle" /\ obj' = 0
  /\ UNCHANGED <<free_lists, free_counts, order, state, held, fault, misled>>

-------------------------------------------------------------------------------
(***************************************************************************)
(* allocate(request_order).  The first non-empty list at or above the      *)
(* requested order gives the block; its upper halves go back to the lists  *)
(* below, until a half without a managed object stops the loop.            *)
(***************************************************************************)
NonEmptyFrom(r) == {o \in Orders : r <= o /\ free_lists[o] # << >>}

(* mutant: the lowest half is forgotten *)
SplitOrdersSkipFirst(x, r, o) ==
  {k \in (r + 1) .. (o - 1) : \A j \in r .. k : HasBuddy(x, j)}

SplitOrders(x, r, o) ==
  {k \in r .. (o - 1) : \A j \in r .. k : HasBuddy(x, j)}

AllocateFrom(r, o) ==
  LET x      == Head(free_lists[o])
      halves == SplitOrders(x, r, o)
      half(n) == {k \in halves : FlipBit(x, k) = n}
  IN
    /\ free_lists' =
         [k \in Orders |->
            IF k = o THEN Tail(free_lists[k])
            ELSE IF k \in halves THEN Append(free_lists[k], FlipBit(x, k))
            ELSE free_lists[k]]
    /\ free_counts' =
         [k \in Orders |->
            IF k = o THEN free_counts[k] - 1
            ELSE IF k \in halves THEN free_counts[k] + 1
            ELSE free_counts[k]]
    /\ order' =
         [n \in Objs |->
            IF n = x THEN r
            ELSE IF half(n) # {} THEN CHOOSE k \in half(n) : TRUE
            ELSE order[n]]
    /\ state' =
         [n \in Objs |->
            IF n = x THEN "Used"
            ELSE IF half(n) # {} THEN "Free"
            ELSE state[n]]
    /\ held' = held \cup {x}

(* What allocate asserts of the block x of list o on the way: that the counter
   is not below zero, and that no half is linked.  It fails only if misled. *)
AllocatePanic(x, r, o) ==
  CASE free_counts[o] = 0 -> "underflow"
    [] \E k \in SplitOrders(x, r, o) : Linked(FlipBit(x, k)) -> "linked"
    [] OTHER -> "none"

Allocate(r) ==
  /\ pc = "idle" /\ fault = "none"
  /\ NonEmptyFrom(r) # {}
  /\ LET o == Min(NonEmptyFrom(r))
         panic == AllocatePanic(Head(free_lists[o]), r, o)
     IN  /\ fault' = panic
         /\ IF panic = "none" THEN AllocateFrom(r, o)
            ELSE UNCHANGED <<free_lists, free_counts, order, state, held>>
  /\ UNCHANGED <<pc, obj, i, misled>>

(* allocate returns None: an order without a list, or nothing left. *)
AllocateNone(r) ==
  /\ pc = "idle" /\ fault = "none"
  /\ NonEmptyFrom(r) = {}
  /\ UNCHANGED vars

-------------------------------------------------------------------------------
(* mutant: no mark_free *)
FreeStillUsed(x) ==
  /\ pc = "idle" /\ fault = "none"
  /\ x \in held
  /\ held' = held \ {x}
  /\ pc'   = "merging"
  /\ obj'  = x
  /\ i'    = order[x]
  /\ UNCHANGED <<free_lists, free_counts, order, state, fault, misled>>

(* free(obj) up to its loop.  Callers free what they hold, once. *)
Free(x) ==
  /\ pc = "idle" /\ fault = "none"
  /\ x \in held
  /\ held'  = held \ {x}
  /\ state' = [state EXCEPT ![x] = "Free"]
  /\ pc'    = "merging"
  /\ obj'   = x
  /\ i'     = order[x]
  /\ UNCHANGED <<free_lists, free_counts, order, fault, misled>>

Merging == pc = "merging" /\ fault = "none" /\ i < MAX_ORDER

(* The buddy exists and is_used() is false: it is to be taken out. *)
MergeWanted == HasBuddy(obj, i) /\ state[FlipBit(obj, i)] # "Used"

(* mutant: the object at the lower address is not selected *)
MergeFromUpper(o) ==
  LET b == FlipBit(obj, i) IN
    /\ free_counts[i] > 0
    /\ free_lists'  = [free_lists EXCEPT ![o] = Unlinked(@, b)]
    /\ free_counts' = [free_counts EXCEPT ![i] = @ - 1]
    /\ order' = [order EXCEPT ![obj] = i + 1]
    /\ i'     = i + 1
    /\ UNCHANGED <<obj, state, held, pc, fault>>

(***************************************************************************)
(* One iteration that merges, where the buddy is linked in list o.  The    *)
(* buddy is unlinked, the lower of the two becomes `obj`, one order up.    *)
(* The counter that goes down is that of order i, whatever o is.           *)
(***************************************************************************)
MergeFrom(o) ==
  LET b     == FlipBit(obj, i)
      lower == IF b < obj THEN b ELSE obj
  IN
    /\ free_counts[i] > 0
    /\ free_lists'  = [free_lists EXCEPT ![o] = Unlinked(@, b)]
    /\ free_counts' = [free_counts EXCEPT ![i] = @ - 1]
    /\ obj'   = lower
    /\ state' = [state EXCEPT ![lower] = "Free"]
    /\ order' = [order EXCEPT ![lower] = i + 1]
    /\ i'     = i + 1
    /\ UNCHANGED <<held, pc, fault>>

(* The buddy is a block of order i. *)
Merge ==
  /\ Merging /\ MergeWanted
  /\ FlipBit(obj, i) \in Elems(free_lists[i])
  /\ MergeFrom(i)
  /\ UNCHANGED misled

(***************************************************************************)
(* The code asks whether the buddy is used, never whether its order is i.  *)
(* A free buddy that was split, or that was never a whole block, is linked *)
(* in another list, and `remove` unlinks it there.  Inside that list the   *)
(* links stay well formed and free goes on: it merges the frames behind    *)
(* the buddy as well, whoever holds them.                                  *)
(***************************************************************************)
MergeWrongList ==
  /\ Merging /\ MergeWanted
  /\ \E o \in Orders \ {i} :
       Inside(free_lists[o], FlipBit(obj, i)) /\ MergeFrom(o)
  /\ misled' = TRUE

(***************************************************************************)
(* The iteration that does not come to its end: the buddy is linked in no  *)
(* list, and following its links faults; or the counter of order i is 0,   *)
(* and decrementing it panics; or the buddy was the head or the tail of    *)
(* another list, which still points to it ("dangling").  The code goes on  *)
(* in the last case, with one list that is no longer a list; the model     *)
(* does not.                                                               *)
(***************************************************************************)
MergeStops ==
  LET b == FlipBit(obj, i) IN
    /\ Merging /\ MergeWanted
    /\ free_counts[i] = 0 \/ ~(b \in Elems(free_lists[i])
                                \/ \E o \in Orders : Inside(free_lists[o], b))
    /\ fault' = CASE ~Linked(b) -> "not_linked"
                  [] free_counts[i] = 0 -> "underflow"
                  [] OTHER -> "dangling"
    /\ misled' = TRUE
    /\ UNCHANGED <<free_lists, free_counts, order, state, held, pc, obj, i>>

(* mutant: free_counts is not incremented *)
PushFreedUncounted ==
  /\ Merging /\ ~MergeWanted /\ ~Linked(obj)
  /\ free_lists' = PushBack(free_lists, order[obj], obj)
  /\ pc' = "idle" /\ obj' = 0 /\ i' = 0
  /\ UNCHANGED <<free_counts, order, state, held, fault, misled>>

(* The loop breaks; the object goes to the list of its order. *)
PushFreed ==
  /\ Merging /\ ~MergeWanted /\ ~Linked(obj)
  /\ free_lists'  = PushBack(free_lists, order[obj], obj)
  /\ free_counts' = [free_counts EXCEPT ![order[obj]] = @ + 1]
  /\ pc' = "idle" /\ obj' = 0 /\ i' = 0
  /\ UNCHANGED <<order, state, held, fault, misled>>

(***************************************************************************)
(* The push that panics.  The loop ran out of orders, since two blocks of  *)
(* the top order were merged: free_lists[MAX_ORDER] is out of bounds.  Or  *)
(* the object is linked already, which needs a misled allocator.           *)
(***************************************************************************)
PushPanics ==
  /\ pc = "merging" /\ fault = "none"
  /\ i >= MAX_ORDER \/ (~MergeWanted /\ Linked(obj))
  /\ fault' = IF i >= MAX_ORDER THEN "no_list" ELSE "linked"
  /\ UNCHANGED <<free_lists, free_counts, order, state, held, pc, obj, i, misled>>

FreeLoop == Merge \/ MergeWrongList \/ MergeStops \/ PushFreed \/ PushPanics
NewLoop  == NewBlock \/ NewNextOrder

Next ==
  \/ NewLoop
  \/ \E r \in 0 .. MAX_ORDER : Allocate(r) \/ AllocateNone(r)
  \/ \E x \in Objs : Free(x)
  \/ FreeLoop

Spec == Init /\ [][Next]_vars

-------------------------------------------------------------------------------
(***************************************************************************)
(* Properties.  What the allocator promises ends with the first buddy that *)
(* free merges out of another order's list (`misled`, which                *)
(* BuddyTakenIsInList denies and TLC reaches): from there on a frame may   *)
(* be handed out twice.  All but TypeOK therefore say `~misled`.  Panics   *)
(* freeze the state, so the invariants also speak of the state before one. *)
(***************************************************************************)

(* The values the variables range over. *)
TypeOK ==
  /\ free_lists  \in [Orders -> Seq(Objs)]
  /\ free_counts \in [Orders -> Int]
  /\ order \in [Objs -> Nat]
  /\ state \in [Objs -> State]
  /\ held  \subseteq Objs
  /\ pc    \in Pcs
  /\ obj   \in 0 .. obj_count
  /\ i     \in 0 .. MAX_ORDER
  /\ fault \in Faults
  /\ misled \in BOOLEAN

Extent(h, o) == h .. (h + 2^o - 1)
Listed(o)    == Elems(free_lists[o])

(* The blocks the objects are divided into, each named by its first object:
   the ones callers hold, the free ones, and the one `free` is merging. *)
Heads == held \cup (UNION {Listed(o) : o \in Orders})
              \cup (IF pc = "merging" THEN {obj} ELSE {})

(***************************************************************************)
(* No object is in two blocks: whatever sequence of splits and merges led  *)
(* here, a frame that a caller holds is in no free list and in no other    *)
(* caller's block, no block is linked in two lists, and no block reaches   *)
(* past the array.                                                         *)
(***************************************************************************)
NoOverlap ==
  ~misled =>
    /\ \A h \in Heads : Extent(h, order[h]) \subseteq Objs
    /\ \A g, h \in Heads :
         g # h => Extent(g, order[g]) \cap Extent(h, order[h]) = {}
    /\ \A o \in Orders : IsInjective(free_lists[o])
    /\ \A o, q \in Orders : o # q => Listed(o) \cap Listed(q) = {}

(* No object is lost: splitting and merging keep every object in a block.
   While new runs, this is so of the objects below `index`. *)
NothingLost ==
  ~misled =>
    UNION {Extent(h, order[h]) : h \in Heads} =
      IF pc = "new" THEN 0 .. (obj - 1) ELSE Objs

(* count_free_objs() tells the truth: each counter is its list's length. *)
CountsAgree ==
  ~misled => \A o \in Orders : free_counts[o] = Len(free_lists[o])

(* Below the top order two buddies are never both in the free list of their
   order: free has merged them. *)
Coalesced ==
  ~misled =>
    \A o \in Orders : o < MAX_ORDER - 1 =>
      \A h \in Listed(o) : FlipBit(h, o) \notin Listed(o)

(***************************************************************************)
(* new initializes only the first object of each block.  free reads the    *)
(* state of a buddy that it finds by arithmetic; that object is always the *)
(* first of a block, so an uninitialized Cell is never read.               *)
(***************************************************************************)
UninitNeverRead ==
  ~misled /\ Merging /\ HasBuddy(obj, i) => FlipBit(obj, i) \in Heads

(* The first objects of the blocks that new makes, by order: as many blocks
   of the top order as fit, then the binary digits of the remainder. *)
NewBlocks(o) ==
  {h \in Objs :
     /\ h % 2^o = 0
     /\ h + 2^o <= obj_count
     /\ \/ o = MAX_ORDER - 1
        \/ h + 2^(o + 1) > obj_count /\ h % 2^(o + 1) = 0}

(* When everything has been given back, in whatever order, the free lists
   hold exactly the blocks they held when new returned. *)
AllFreedRestoresNew ==
  ~misled /\ pc = "idle" /\ held = {} =>
    \A o \in Orders : Listed(o) = NewBlocks(o)

(* What callers see is a FramePool, which breaks when free is misled: no frame
   is handed out twice before that. *)
Pool == INSTANCE FramePool WITH alloc <- {<<h, order[h]>> : h \in held}, broken <- misled
ImplementsFramePool == Pool!Spec

(* free: "Take out the free buddy object" (allocator.rs:146) of the list
   free_lists[i]: the buddy that is taken out is in that list. *)
BuddyTakenIsInList == ~misled
==============================================================================
