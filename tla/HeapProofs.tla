----------------------------- MODULE HeapProofs -----------------------------
(***************************************************************************)
(* The heap never hands out a byte twice, for every heap range and all     *)
(* layouts.  Disjointness is not inductive: a new block has to be known to *)
(* lie behind all live ones, which is what addr_begin stands for.          *)
(***************************************************************************)
EXTENDS Heap, TLAPS

(* Every live allocation ends at or before addr_begin. *)
BelowBegin ==
  \A b \in live : HeapBegin <= b.addr /\ b.addr + b.size <= addr_begin

(* The intervals themselves, without sets of bytes. *)
Apart ==
  \A b, d \in live :
    b # d => b.addr + b.size <= d.addr \/ d.addr + d.size <= b.addr

IInv == TypeOK /\ BelowBegin /\ Apart

(* An empty heap satisfies the invariant. *)
LEMMA InitIInv == Init => IInv
  BY HeapAssumption DEF Init, IInv, TypeOK, BelowBegin, Apart

(* What the type invariant says of one live allocation. *)
LEMMA LiveNumbers ==
  ASSUME TypeOK
  PROVE  /\ addr_begin \in Nat /\ HeapBegin \in Nat /\ HeapEnd \in Nat
         /\ HeapBegin <= addr_begin /\ addr_begin <= HeapEnd
         /\ \A b \in live : b.addr \in Nat /\ b.size \in Nat
<1>1. HeapBegin \in Nat /\ HeapEnd \in Nat /\ Sizes \subseteq Nat
  BY HeapAssumption
<1>2. addr_begin \in HeapBegin .. HeapEnd
  BY DEF TypeOK
<1>3. ASSUME NEW b \in live PROVE b.addr \in Nat /\ b.size \in Nat
  BY <1>1 DEF TypeOK
<1> QED BY <1>1, <1>2, <1>3

(* alloc appends a block behind all live ones, or panics. *)
LEMMA AllocIInv ==
  ASSUME IInv, NEW size \in Sizes, NEW align \in Aligns, Alloc(size, align)
  PROVE  IInv'
<1> DEFINE new == [addr |-> addr_begin, size |-> size, align |-> align]
<1>1. CASE ~Fits(size)
  BY <1>1 DEF Alloc, IInv, TypeOK, BelowBegin, Apart
<1>2. CASE Fits(size)
  <2>1. live' = live \cup {new} /\ addr_begin' = addr_begin + size
    BY <1>2 DEF Alloc, Taken
  <2>2. size \in Nat /\ addr_begin + size < HeapEnd
    BY <1>2, HeapAssumption DEF Fits
  <2>3. new.addr = addr_begin /\ new.size = size
    OBVIOUS
  <2>4. HeapBegin <= addr_begin
    BY LiveNumbers DEF IInv
  <2>5. TypeOK'
    <3>1. new \in [addr : Nat, size : Sizes, align : Aligns]
      BY LiveNumbers DEF IInv
    <3>2. addr_begin' \in HeapBegin .. HeapEnd
      BY <2>1, <2>2, <2>4, LiveNumbers DEF IInv
    <3> QED BY <1>2, <2>1, <3>1, <3>2 DEF Alloc, IInv, TypeOK
  <2> HIDE DEF new
  <2>6. ASSUME NEW b \in live' PROVE HeapBegin <= b.addr /\ b.addr + b.size <= addr_begin'
    <3>1. CASE b = new
      BY <3>1, <2>1, <2>2, <2>3, <2>4, LiveNumbers DEF IInv
    <3>2. CASE b \in live
      BY <3>2, <2>1, <2>2, LiveNumbers DEF IInv, BelowBegin
    <3> QED BY <2>1, <3>1, <3>2
  <2>7. ASSUME NEW b \in live', NEW d \in live', b # d
        PROVE  b.addr + b.size <= d.addr \/ d.addr + d.size <= b.addr
    <3>1. CASE b \in live /\ d \in live
      BY <3>1, <2>7 DEF IInv, Apart
    <3>2. CASE b = new /\ d \in live
      BY <3>2, <2>3 DEF IInv, BelowBegin
    <3>3. CASE b \in live /\ d = new
      BY <3>3, <2>3 DEF IInv, BelowBegin
    <3> QED BY <2>1, <2>7, <3>1, <3>2, <3>3
  <2> QED BY <2>5, <2>6, <2>7 DEF IInv, BelowBegin, Apart
<1> QED BY <1>1, <1>2

(* Every call of the allocator preserves the invariant. *)
LEMMA NextIInv == IInv /\ [Next]_vars => IInv'
<1> SUFFICES ASSUME IInv, [Next]_vars PROVE IInv'
  OBVIOUS
<1>1. CASE InitHeap
  BY <1>1 DEF InitHeap, IInv, TypeOK, BelowBegin, Apart
<1>2. CASE AllocBeforeInit
  BY <1>2 DEF AllocBeforeInit, IInv, TypeOK, BelowBegin, Apart
<1>3. ASSUME NEW size \in Sizes, NEW align \in Aligns, Alloc(size, align)
      PROVE  IInv'
  BY <1>3, AllocIInv
<1>4. ASSUME NEW b \in live, Dealloc(b) PROVE IInv'
  BY <1>4 DEF Dealloc, IInv, TypeOK, BelowBegin, Apart
<1>5. CASE UNCHANGED vars
  BY <1>5 DEF vars, IInv, TypeOK, BelowBegin, Apart
<1> QED BY <1>1, <1>2, <1>3, <1>4, <1>5 DEF Next

(* Intervals that are apart share no byte. *)
LEMMA IInvImplies == IInv => BlocksDisjoint
<1> SUFFICES ASSUME IInv PROVE BlocksDisjoint
  OBVIOUS
<1>1. ASSUME NEW b \in live, NEW x \in Bytes(b)
      PROVE  x \in HeapBegin .. (HeapEnd - 1)
  <2>1. b.addr + b.size <= addr_begin /\ HeapBegin <= b.addr
    BY DEF IInv, BelowBegin
  <2>2. x \in Int /\ b.addr <= x /\ x < b.addr + b.size
    BY LiveNumbers DEF Bytes, IInv
  <2> QED BY <2>1, <2>2, LiveNumbers DEF IInv
<1>2. ASSUME NEW b \in live, NEW d \in live, b # d,
             NEW x \in Bytes(b), x \in Bytes(d)
      PROVE  FALSE
  <2>1. b.addr + b.size <= d.addr \/ d.addr + d.size <= b.addr
    BY <1>2 DEF IInv, Apart
  <2>2. x \in Int /\ b.addr <= x /\ x < b.addr + b.size
    BY LiveNumbers DEF Bytes, IInv
  <2>3. d.addr <= x /\ x < d.addr + d.size
    BY <1>2, LiveNumbers DEF Bytes, IInv
  <2> QED BY <2>1, <2>2, <2>3, LiveNumbers DEF IInv
<1> QED BY <1>1, <1>2 DEF BlocksDisjoint

(* The invariant above holds in every state of the heap. *)
THEOREM HeapInvariant == Spec => []IInv
  BY InitIInv, NextIInv, PTL DEF Spec

(* The heap's bounds, the layouts and the live allocations have the values
   that the code gives them. *)
THEOREM TypeCorrect == Spec => []TypeOK
<1>1. IInv => TypeOK
  BY DEF IInv
<1> QED BY <1>1, HeapInvariant, PTL

(* GlobalAllocator: live allocations never overlap and never leave the heap,
   for every range, every set of layouts and any number of calls. *)
THEOREM AllocationsDisjoint == Spec => []BlocksDisjoint
  BY HeapInvariant, IInvImplies, PTL
==============================================================================
