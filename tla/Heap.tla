-------------------------------- MODULE Heap --------------------------------
(***************************************************************************)
(* The kernel heap, src/src/memory/global_allocator.rs: a GlobalAllocator, *)
(* empty until init, around the HeapAllocator, which hands out the address *)
(* range it was given from the front and never takes anything back.  The   *)
(* lock is held for the whole of each call, so that a call is one step.    *)
(***************************************************************************)
EXTENDS Integers, FiniteSets

CONSTANTS
  HeapBegin, HeapEnd,   \* the range that auto_continuous_map returned
  Sizes, Aligns,        \* the layouts that are asked for
  Slots                 \* bound: allocations alive at a time

ASSUME HeapAssumption ==
  /\ HeapBegin \in Nat /\ HeapEnd \in Nat /\ HeapBegin < HeapEnd
  /\ Sizes \subseteq Nat \ {0} /\ Aligns \subseteq Nat \ {0} /\ Slots \in Nat

VARIABLES
  inner,       \* "None", or "Some" once initialized
  addr_begin,  \* the first address not handed out
  live,        \* the allocations [addr, size, align] not freed yet
  panic        \* "none", or the message

vars == <<inner, addr_begin, live, panic>>

Init == inner = "None" /\ addr_begin = HeapBegin /\ live = {} /\ panic = "none"

(* ALLOCATOR.init(HeapAllocator::new(...)) *)
InitHeap ==
  /\ inner = "None" /\ panic = "none"
  /\ inner' = "Some"
  /\ UNCHANGED <<addr_begin, live, panic>>

(* mutant: `<` in place of `<=`, off by one further *)
FitsOffByOne(size) == addr_begin + size <= HeapEnd + 1

(* alloc returns None when addr_end <= addr_begin + size. *)
Fits(size) == addr_begin + size < HeapEnd

(* mutant: the size is not added *)
TakenToSame(size) == addr_begin

Taken(size) == addr_begin + size

(* The aligned address is computed and dropped: alloc returns addr_begin. *)
Alloc(size, align) ==
  /\ inner = "Some" /\ panic = "none"
  /\ Cardinality(live) < Slots
  /\ IF Fits(size)
       THEN /\ live' = live \cup {[addr |-> addr_begin, size |-> size, align |-> align]}
            /\ addr_begin' = Taken(size)
            /\ UNCHANGED panic
       ELSE /\ panic' = "No memory"
            /\ UNCHANGED <<addr_begin, live>>
  /\ UNCHANGED inner

Dealloc(b) ==
  /\ inner = "Some" /\ panic = "none"
  /\ b \in live
  /\ live' = live \ {b}
  /\ UNCHANGED <<inner, addr_begin, panic>>

AllocBeforeInit ==
  /\ inner = "None" /\ panic = "none"
  /\ panic' = "GlobalAllocator is not initialized yet"
  /\ UNCHANGED <<inner, addr_begin, live>>

Next ==
  \/ InitHeap \/ AllocBeforeInit
  \/ \E size \in Sizes, align \in Aligns : Alloc(size, align)
  \/ \E b \in live : Dealloc(b)

Spec == Init /\ [][Next]_vars

-------------------------------------------------------------------------------
Bytes(b) == b.addr .. (b.addr + b.size - 1)

(* The values the variables range over. *)
TypeOK ==
  /\ inner \in {"None", "Some"}
  /\ addr_begin \in HeapBegin .. HeapEnd
  /\ live \subseteq [addr : Nat, size : Sizes, align : Aligns]
  /\ panic \in {"none", "No memory", "GlobalAllocator is not initialized yet"}

(* Live allocations share no byte and lie inside the heap, whatever was
   freed in between. *)
BlocksDisjoint ==
  /\ \A b \in live : Bytes(b) \subseteq HeapBegin .. (HeapEnd - 1)
  /\ \A b, d \in live : b # d => Bytes(b) \cap Bytes(d) = {}
==============================================================================
