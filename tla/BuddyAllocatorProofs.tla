------------------------- MODULE BuddyAllocatorProofs -------------------------
(***************************************************************************)
(* Proofs about BuddyAllocator, for every number of orders and objects.    *)
(*                                                                         *)
(* The argument is about the set of blocks.  A block is named by its first *)
(* object h; `ord[h]` is its order.  BlocksOK says that the blocks are     *)
(* aligned, inside the array and apart; Covers says that together they     *)
(* contain every object below n.  The three ways in which the allocator    *)
(* changes the set (new adds a block, allocate splits one, free merges     *)
(* two) preserve both, and everything else leaves the blocks alone.  It    *)
(* rests on facts about the operators: the powers of two that are block    *)
(* sizes, aligned addresses and the buddies of aligned blocks, and free    *)
(* lists under push, pop and removal.                                      *)
(***************************************************************************)
EXTENDS BuddyAllocator, SequenceTheorems, WellFoundedInduction, TLAPS

-------------------------------------------------------------------------------
(* Every non-empty set of naturals has a least element. *)
LEMMA LeastNat ==
  ASSUME NEW T \in SUBSET Nat, T # {}
  PROVE  \E m \in T : \A n \in T : m <= n
<1>1. IsWellFoundedOn(OpToRel(<, Nat), Nat)
  BY NatLessThanWellFounded
<1>2. PICK x \in T : \A y \in T : ~(<<y, x>> \in OpToRel(<, Nat))
  BY <1>1, WFMin
<1>3. \A y \in T : ~(y < x)
  BY <1>2 DEF OpToRel
<1> QED
  BY <1>3

(* Induction over an initial segment of the naturals, for sets: a set with 0
   that is closed under successor up to n contains 0 .. n. *)
LEMMA SegmentInduction ==
  ASSUME NEW n \in Nat, NEW S, 0 \in S,
         \A k \in 0 .. (n - 1) : k \in S => k + 1 \in S
  PROVE  \A k \in 0 .. n : k \in S
<1> DEFINE T == {k \in 0 .. n : k \notin S}
<1>1. SUFFICES ASSUME T # {} PROVE FALSE
  OBVIOUS
<1>2. T \in SUBSET Nat
  OBVIOUS
<1>3. PICK m \in T : \A k \in T : m <= k
  BY <1>1, <1>2, LeastNat
<1>4. m # 0 /\ m - 1 \in 0 .. (n - 1) /\ m - 1 \notin T
  BY <1>3
<1>5. m - 1 \in S
  BY <1>4
<1>6. (m - 1) + 1 \in S
  BY <1>4, <1>5
<1> QED
  BY <1>3, <1>6

(* The size 2^o of a block is a positive natural number. *)
LEMMA PowPositive == \A o \in 0 .. (MAX_ORDER + 1) : 2^o \in Nat \ {0}
<1> DEFINE S == {o \in 0 .. (MAX_ORDER + 1) : 2^o \in Nat \ {0}}
<1>0. MAX_ORDER \in Nat /\ MAX_ORDER + 1 \in Nat
  BY MaxOrderAssumption
<1>1. 0 \in S
  BY <1>0
<1>2. \A k \in 0 .. ((MAX_ORDER + 1) - 1) : k \in S => k + 1 \in S
  <2> SUFFICES ASSUME NEW k \in 0 .. MAX_ORDER, k \in S PROVE k + 1 \in S
    BY <1>0
  <2>1. 2^(k + 1) = 2 * 2^k
    BY ShiftDoubles
  <2> QED
    BY <1>0, <2>1
<1>3. \A k \in 0 .. (MAX_ORDER + 1) : k \in S
  <2> HIDE DEF S
  <2> QED BY <1>0, <1>1, <1>2, SegmentInduction
<1> QED
  BY <1>3

(* A larger block is a whole number of pairs of smaller ones. *)
LEMMA PowDivides ==
  ASSUME NEW a \in 0 .. MAX_ORDER
  PROVE  \A b \in 0 .. MAX_ORDER : a < b => \E m \in Nat \ {0} : 2^b = m * (2 * 2^a)
<1> DEFINE S == {b \in 0 .. MAX_ORDER : a < b => \E m \in Nat \ {0} : 2^b = m * (2 * 2^a)}
<1>0. MAX_ORDER \in Nat
  BY MaxOrderAssumption
<1>1. 0 \in S
  BY <1>0
<1>2. \A k \in 0 .. (MAX_ORDER - 1) : k \in S => k + 1 \in S
  <2> SUFFICES ASSUME NEW k \in 0 .. (MAX_ORDER - 1), k \in S, a < k + 1
               PROVE  \E m \in Nat \ {0} : 2^(k + 1) = m * (2 * 2^a)
    BY <1>0
  <2>1. 2^(k + 1) = 2 * 2^k /\ 2^a \in Nat /\ 2^k \in Nat
    BY <1>0, ShiftDoubles, PowPositive
  <2>2. CASE a = k
    BY <2>1, <2>2
  <2>3. CASE a < k
    <3>1. PICK m \in Nat \ {0} : 2^k = m * (2 * 2^a)
      BY <2>3
    <3>2. 2^(k + 1) = (2 * m) * (2 * 2^a)
      BY <2>1, <3>1
    <3>3. 2 * m \in Nat \ {0}
      OBVIOUS
    <3> QED
      BY <3>2, <3>3, Zenon
  <2> QED
    BY <1>0, <2>2, <2>3
<1>3. \A b \in 0 .. MAX_ORDER : b \in S
  <2> HIDE DEF S
  <2> QED BY <1>0, <1>1, <1>2, SegmentInduction
<1> QED
  BY <1>3

(* The sizes grow with the order, at least doubling at each step. *)
LEMMA PowMonotonic ==
  ASSUME NEW a \in 0 .. MAX_ORDER, NEW b \in 0 .. MAX_ORDER, a < b
  PROVE  2 * 2^a <= 2^b
<1>1. PICK m \in Nat \ {0} : 2^b = m * (2 * 2^a)
  BY PowDivides
<1>2. 2^a \in Nat
  BY PowPositive, MaxOrderAssumption
<1> QED
  BY <1>1, <1>2

-------------------------------------------------------------------------------
(* x is a multiple of the size of a block of order o. *)
Aligned(x, o) == \E q \in 0 .. x : x = q * 2^o

(* Any multiple is aligned. *)
LEMMA AlignedIntro ==
  ASSUME NEW o \in 0 .. MAX_ORDER, NEW q \in Nat, NEW x, x = q * 2^o
  PROVE  Aligned(x, o) /\ x \in Nat
<1>1. 2^o \in Nat \ {0}
  BY PowPositive, MaxOrderAssumption
<1>2. x \in Nat /\ q <= x
  BY <1>1
<1>3. q \in 0 .. x
  BY <1>2
<1> QED
  BY <1>2, <1>3, Zenon DEF Aligned

(* The buddy of an aligned block is above it or below it, according to the
   parity of its position. *)
LEMMA FlipAligned ==
  ASSUME NEW o \in 0 .. MAX_ORDER, NEW q \in Nat, NEW x, x = q * 2^o
  PROVE  FlipBit(x, o) = IF q % 2 = 0 THEN x + 2^o ELSE x - 2^o
<1>1. 2^o \in Nat \ {0}
  BY PowPositive, MaxOrderAssumption
<1>2. (q * 2^o) \div 2^o = q
  BY <1>1
<1> QED
  BY <1>2 DEF FlipBit

(* Splitting: below its own order, a block's buddy is its upper half. *)
LEMMA SplitAligned ==
  ASSUME NEW o \in 0 .. MAX_ORDER, NEW k \in 0 .. MAX_ORDER, k < o,
         NEW x, Aligned(x, o)
  PROVE  /\ FlipBit(x, k) = x + 2^k
         /\ Aligned(x + 2^k, k)
         /\ Aligned(x, k)
<1>1. PICK q \in 0 .. x : x = q * 2^o
  BY DEF Aligned
<1>2. PICK m \in Nat \ {0} : 2^o = m * (2 * 2^k)
  BY PowDivides
<1>3. 2^k \in Nat \ {0} /\ q \in Nat
  BY PowPositive, MaxOrderAssumption
<1> DEFINE p == q * m
<1>4. p \in Nat
  BY <1>3
<1>5. x = p * (2 * 2^k)
  <2>1. q * (m * (2 * 2^k)) = (q * m) * (2 * 2^k)
    BY <1>2, <1>3
  <2> QED
    BY <1>1, <1>2, <2>1
<1> HIDE DEF p
<1>6. x = (2 * p) * 2^k /\ x + 2^k = (2 * p + 1) * 2^k
  BY <1>3, <1>4, <1>5
<1>7. 2 * p \in Nat /\ 2 * p + 1 \in Nat /\ (2 * p) % 2 = 0
  BY <1>4
<1>8. FlipBit(x, k) = x + 2^k
  BY <1>6, <1>7, FlipAligned
<1> QED
  BY <1>6, <1>7, <1>8, AlignedIntro

(* Merging: a block and its buddy are the halves of an aligned block of the
   next order, which begins at the lower of the two. *)
LEMMA MergeAligned ==
  ASSUME NEW o \in 0 .. (MAX_ORDER - 1), NEW x, Aligned(x, o)
  PROVE  LET b == FlipBit(x, o) IN
         \/ /\ b = x + 2^o
            /\ Aligned(x, o + 1)
         \/ /\ x = b + 2^o
            /\ b \in Nat
            /\ Aligned(b, o + 1)
<1>0. MAX_ORDER \in Nat /\ o \in 0 .. MAX_ORDER /\ o + 1 \in 0 .. MAX_ORDER
  BY MaxOrderAssumption
<1>1. PICK q \in 0 .. x : x = q * 2^o
  BY DEF Aligned
<1>2. 2^o \in Nat \ {0} /\ 2^(o + 1) = 2 * 2^o /\ q \in Nat /\ x \in Nat
  BY <1>0, <1>1, PowPositive, ShiftDoubles
<1>3. PICK h \in Nat : q = 2 * h \/ q = 2 * h + 1
  <2>1. q \div 2 \in Nat /\ (q = 2 * (q \div 2) \/ q = 2 * (q \div 2) + 1)
    BY <1>2
  <2> QED
    BY <2>1
<1>4. CASE q = 2 * h
  <2>1. q % 2 = 0
    BY <1>4
  <2>2. FlipBit(x, o) = x + 2^o
    BY <1>0, <1>1, <1>2, <2>1, FlipAligned
  <2>3. x = h * 2^(o + 1)
    BY <1>1, <1>2, <1>4
  <2> QED
    BY <1>0, <2>2, <2>3, AlignedIntro
<1>5. CASE q = 2 * h + 1
  <2>1. q % 2 # 0
    BY <1>5
  <2>2. FlipBit(x, o) = x - 2^o
    BY <1>0, <1>1, <1>2, <2>1, FlipAligned
  <2>3. x - 2^o = h * 2^(o + 1) /\ x = (x - 2^o) + 2^o
    BY <1>1, <1>2, <1>5
  <2> QED
    BY <1>0, <2>2, <2>3, AlignedIntro
<1> QED
  BY <1>3, <1>4, <1>5

-------------------------------------------------------------------------------
(* The list l has no object twice. *)
NoDup(l) == \A j, k \in 1 .. Len(l) : l[j] = l[k] => j = k

(* push_back adds the object, and keeps the list free of duplicates. *)
LEMMA PushBackList ==
  ASSUME NEW S, NEW l \in Seq(S), NEW x \in S, x \notin Elems(l), NoDup(l)
  PROVE  /\ Append(l, x) \in Seq(S)
         /\ Len(Append(l, x)) = Len(l) + 1
         /\ Elems(Append(l, x)) = Elems(l) \cup {x}
         /\ NoDup(Append(l, x))
<1> DEFINE t == Append(l, x)
<1>1. /\ t \in Seq(S) /\ Len(t) = Len(l) + 1 /\ Len(l) \in Nat
      /\ \A k \in 1 .. Len(l) : t[k] = l[k]
      /\ t[Len(l) + 1] = x
  BY AppendProperties, LenProperties
<1> HIDE DEF t
<1>2. Elems(t) = Elems(l) \cup {x}
  BY <1>1 DEF Elems
<1>3. NoDup(t)
  BY <1>1 DEF Elems, NoDup
<1> QED
  BY <1>1, <1>2, <1>3 DEF t

(* Popping the front takes out the front object and no other. *)
LEMMA PopFrontList ==
  ASSUME NEW S, NEW l \in Seq(S), l # << >>, NoDup(l)
  PROVE  /\ Head(l) \in Elems(l)
         /\ Tail(l) \in Seq(S)
         /\ Len(Tail(l)) = Len(l) - 1
         /\ Elems(Tail(l)) = Elems(l) \ {Head(l)}
         /\ NoDup(Tail(l))
<1> DEFINE t == Tail(l)
<1>1. /\ t \in Seq(S) /\ Len(t) = Len(l) - 1 /\ Len(l) \in Nat \ {0}
      /\ \A k \in 1 .. Len(t) : t[k] = l[k + 1]
      /\ Head(l) = l[1]
  BY HeadTailProperties, LenProperties, EmptySeq
<1> HIDE DEF t
<1>2. Head(l) \in Elems(l)
  BY <1>1 DEF Elems
<1>3. Elems(t) = Elems(l) \ {Head(l)}
  <2>1. \A k \in 1 .. Len(l) : k # 1 => k - 1 \in 1 .. Len(t) /\ l[k] = t[k - 1]
    BY <1>1
  <2> QED
    BY <1>1, <2>1 DEF Elems, NoDup
<1>4. NoDup(t)
  <2> SUFFICES ASSUME NEW j \in 1 .. Len(t), NEW k \in 1 .. Len(t), t[j] = t[k]
               PROVE  j = k
    BY DEF NoDup
  <2>1. j + 1 \in 1 .. Len(l) /\ k + 1 \in 1 .. Len(l) /\ l[j + 1] = l[k + 1]
    BY <1>1
  <2>2. j + 1 = k + 1
    BY <2>1 DEF NoDup
  <2> QED
    BY <2>2
<1> QED
  BY <1>1, <1>2, <1>3, <1>4 DEF t

(* A cursor's remove takes out the object it points to and no other. *)
LEMMA RemoveList ==
  ASSUME NEW S, NEW l \in Seq(S), NEW x \in Elems(l), NoDup(l)
  PROVE  LET t == RemoveAt(l, Position(l, x)) IN
         /\ t \in Seq(S)
         /\ Len(t) = Len(l) - 1
         /\ Elems(t) = Elems(l) \ {x}
         /\ NoDup(t)
<1> DEFINE p == Position(l, x)
           a == SubSeq(l, 1, p - 1)
           b == SubSeq(l, p + 1, Len(l))
           t == RemoveAt(l, p)
<1>1. p \in 1 .. Len(l) /\ l[p] = x
  BY DEF Elems, Position
<1> HIDE DEF p
<1>2. Len(l) \in Nat /\ \A k \in 1 .. Len(l) : l[k] \in S
  BY LenProperties, ElementOfSeq
<1>3. /\ a \in Seq(S) /\ Len(a) = p - 1
      /\ \A k \in 1 .. (p - 1) : a[k] = l[k]
  <2>1. \A k \in 1 .. (p - 1) : l[k] \in S
    BY <1>1, <1>2
  <2> QED
    BY <1>1, <1>2, <2>1, SubSeqProperties
<1>4. /\ b \in Seq(S) /\ Len(b) = Len(l) - p
      /\ \A k \in 1 .. (Len(l) - p) : b[k] = l[p + k]
  <2>1. \A k \in (p + 1) .. Len(l) : l[k] \in S
    BY <1>1, <1>2
  <2>2. /\ b \in Seq(S)
        /\ Len(b) = IF p + 1 <= Len(l) THEN Len(l) - (p + 1) + 1 ELSE 0
        /\ \A k \in 1 .. (Len(l) - (p + 1) + 1) : b[k] = l[p + 1 + k - 1]
    BY <1>1, <1>2, <2>1, SubSeqProperties
  <2> QED
    BY <1>1, <1>2, <2>2
<1>5. t = a \o b
  BY DEF RemoveAt
<1> HIDE DEF a, b, t
<1>6. /\ t \in Seq(S) /\ Len(t) = Len(l) - 1
      /\ \A k \in 1 .. Len(t) : t[k] = IF k < p THEN l[k] ELSE l[k + 1]
  <2>1. /\ t \in Seq(S) /\ Len(t) = Len(a) + Len(b)
        /\ \A k \in 1 .. (Len(a) + Len(b)) :
             t[k] = IF k <= Len(a) THEN a[k] ELSE b[k - Len(a)]
    BY <1>3, <1>4, <1>5, ConcatProperties
  <2>2. Len(t) = Len(l) - 1
    BY <1>1, <1>2, <1>3, <1>4, <2>1
  <2>3. ASSUME NEW k \in 1 .. Len(t), k < p
        PROVE  t[k] = l[k]
    BY <1>1, <1>2, <1>3, <1>4, <2>1, <2>2, <2>3
  <2>4. ASSUME NEW k \in 1 .. Len(t), ~(k < p)
        PROVE  t[k] = l[k + 1]
    <3>1. k - (p - 1) \in 1 .. (Len(l) - p) /\ p + (k - (p - 1)) = k + 1
      BY <1>1, <1>2, <2>2, <2>4
    <3>2. t[k] = b[k - (p - 1)]
      BY <1>1, <1>2, <1>3, <1>4, <2>1, <2>2, <2>4
    <3>3. b[k - (p - 1)] = l[p + (k - (p - 1))]
      BY <1>4, <3>1
    <3> QED
      BY <3>1, <3>2, <3>3
  <2> QED
    BY <2>1, <2>2, <2>3, <2>4
<1>7. Elems(t) = Elems(l) \ {x}
  <2>1. ASSUME NEW y \in Elems(t) PROVE y \in Elems(l) /\ y # x
    <3>1. PICK k \in 1 .. Len(t) : y = t[k]
      BY DEF Elems
    <3>2. PICK j \in 1 .. Len(l) : j # p /\ y = l[j]
      BY <1>1, <1>2, <1>6, <3>1
    <3> QED
      BY <1>1, <3>2 DEF Elems, NoDup
  <2>2. ASSUME NEW y \in Elems(l), y # x PROVE y \in Elems(t)
    <3>1. PICK j \in 1 .. Len(l) : y = l[j]
      BY DEF Elems
    <3>2. PICK k \in 1 .. Len(t) : y = t[k]
      <4>1. j # p
        BY <1>1, <2>2, <3>1
      <4>2. CASE j < p
        BY <1>1, <1>2, <1>6, <3>1, <4>2
      <4>3. CASE p < j
        <5>1. j - 1 \in 1 .. Len(t) /\ ~(j - 1 < p) /\ (j - 1) + 1 = j
          BY <1>1, <1>2, <1>6, <4>3
        <5>2. t[j - 1] = l[j]
          BY <1>6, <5>1
        <5> QED
          BY <3>1, <5>1, <5>2
      <4> QED
        BY <1>1, <4>1, <4>2, <4>3
    <3> QED
      BY <3>2 DEF Elems
  <2> QED
    BY <2>1, <2>2
<1>8. NoDup(t)
  <2> SUFFICES ASSUME NEW j \in 1 .. Len(t), NEW k \in 1 .. Len(t), t[j] = t[k]
               PROVE  j = k
    BY DEF NoDup
  <2> DEFINE up(n) == IF n < p THEN n ELSE n + 1
  <2>1. up(j) \in 1 .. Len(l) /\ up(k) \in 1 .. Len(l) /\ l[up(j)] = l[up(k)]
    BY <1>1, <1>2, <1>6
  <2>2. up(j) = up(k)
    <3> HIDE DEF up
    <3> QED BY <2>1 DEF NoDup
  <2> QED
    BY <1>1, <2>2
<1> QED
  BY <1>6, <1>7, <1>8 DEF t, p

(* A push adds its object to a list. *)
LEMMA ElemsAppend ==
  ASSUME NEW S, NEW l \in Seq(S), NEW x \in S
  PROVE  Elems(Append(l, x)) = Elems(l) \cup {x}
<1> DEFINE t == Append(l, x)
<1>1. /\ Len(t) = Len(l) + 1 /\ Len(l) \in Nat
      /\ \A k \in 1 .. Len(l) : t[k] = l[k]
      /\ t[Len(l) + 1] = x
  BY AppendProperties, LenProperties
<1> HIDE DEF t
<1>2. Elems(t) = Elems(l) \cup {x}
  BY <1>1 DEF Elems
<1> QED
  BY <1>2 DEF t

(* Two aligned blocks of one order are each other's buddies, or neither is
   the other's. *)
LEMMA FlipInvolution ==
  ASSUME NEW o \in 0 .. MAX_ORDER, NEW x, Aligned(x, o)
  PROVE  FlipBit(x, o) # x /\ FlipBit(FlipBit(x, o), o) = x
<1>1. PICK q \in Nat : x = q * 2^o
  BY DEF Aligned
<1>2. 2^o \in Nat \ {0} /\ x \in Nat
  BY <1>1, PowPositive, MaxOrderAssumption
<1>3. CASE q % 2 = 0
  <2>1. FlipBit(x, o) = x + 2^o
    BY <1>1, <1>3, FlipAligned
  <2>2. q + 1 \in Nat /\ (q + 1) % 2 # 0 /\ x + 2^o = (q + 1) * 2^o
    BY <1>1, <1>2, <1>3
  <2>3. FlipBit(x + 2^o, o) = (x + 2^o) - 2^o
    BY <2>2, FlipAligned
  <2> QED
    BY <1>2, <2>1, <2>3
<1>4. CASE q % 2 # 0
  <2>1. FlipBit(x, o) = x - 2^o
    BY <1>1, <1>4, FlipAligned
  <2>2. q - 1 \in Nat /\ (q - 1) % 2 = 0 /\ x - 2^o = (q - 1) * 2^o
    BY <1>1, <1>2, <1>4
  <2>3. FlipBit(x - 2^o, o) = (x - 2^o) + 2^o
    BY <2>2, FlipAligned
  <2> QED
    BY <1>2, <2>1, <2>3
<1> QED
  BY <1>3, <1>4

(* An aligned object is a multiple. *)
LEMMA AlignedElim ==
  ASSUME NEW o, NEW x, Aligned(x, o)
  PROVE  \E q \in Nat : x = q * 2^o
<1>1. PICK q \in 0 .. x : x = q * 2^o
  BY DEF Aligned
<1>2. q \in Nat
  OBVIOUS
<1> QED
  BY <1>1, <1>2, Zenon

(* Aligned is divisibility. *)
LEMMA AlignedMod ==
  ASSUME NEW o \in 0 .. MAX_ORDER, NEW x \in Nat
  PROVE  x % 2^o = 0 <=> Aligned(x, o)
<1> DEFINE s == 2^o
<1>1. s \in Nat \ {0}
  BY PowPositive, MaxOrderAssumption
<1> HIDE DEF s
<1>2. ASSUME x % s = 0 PROVE \E q \in Nat : x = q * s
  <2>1. x \div s \in Nat /\ x = (x \div s) * s
    BY <1>1, <1>2
  <2> QED
    BY <2>1
<1>3. ASSUME NEW q \in Nat, x = q * s PROVE x % s = 0
  BY <1>1, <1>3
<1>4. ASSUME x % 2^o = 0 PROVE Aligned(x, o)
  <2>1. PICK q \in Nat : x = q * 2^o
    BY <1>2, <1>4 DEF s
  <2> QED
    BY <2>1, AlignedIntro
<1>5. ASSUME Aligned(x, o) PROVE x % 2^o = 0
  <2>1. PICK q \in Nat : x = q * 2^o
    BY <1>5 DEF Aligned
  <2> QED
    BY <1>3, <2>1 DEF s
<1> QED
  BY <1>4, <1>5

(* A block that begins in a larger one, or in one of its own size, ends in it:
   aligned blocks never straddle a boundary of larger ones. *)
LEMMA AlignedEnd ==
  ASSUME NEW a \in 0 .. MAX_ORDER, NEW b \in 0 .. MAX_ORDER, a <= b,
         NEW x \in Nat, NEW y \in Nat, Aligned(x, a), Aligned(y, b), x < y + 2^b
  PROVE  x + 2^a <= y + 2^b
<1>1. 2^a \in Nat \ {0} /\ 2^b \in Nat \ {0}
  BY PowPositive, MaxOrderAssumption
<1>2. PICK d \in Nat : y + 2^b = d * 2^a
  <2>1. PICK q \in Nat : y = q * 2^b
    BY DEF Aligned
  <2>2. q + 1 \in Nat /\ y + 2^b = (q + 1) * 2^b
    BY <1>1, <2>1
  <2>3. Aligned(y + 2^b, b)
    BY <2>2, AlignedIntro
  <2>4. Aligned(y + 2^b, a)
    <3>1. CASE a = b
      BY <2>3, <3>1
    <3>2. CASE a < b
      BY <2>3, <3>2, SplitAligned
    <3> QED
      BY <3>1, <3>2
  <2> QED
    BY <2>4 DEF Aligned
<1>3. PICK e \in Nat : x = e * 2^a
  BY AlignedElim
<1> DEFINE s == 2^a
<1>4. s \in Nat \ {0} /\ e * s < d * s
  BY <1>1, <1>2, <1>3
<1>5. (e + 1) * s <= d * s
  <2> HIDE DEF s
  <2>1. e < d
    BY <1>4
  <2> QED
    BY <1>4, <2>1
<1>6. (e + 1) * s = x + 2^a
  BY <1>1, <1>3
<1> QED
  BY <1>2, <1>5, <1>6

(* A block that begins inside one that is no larger begins with it. *)
LEMMA AlignedStart ==
  ASSUME NEW a \in 0 .. MAX_ORDER, NEW b \in 0 .. MAX_ORDER, a <= b,
         NEW x \in Nat, NEW y \in Nat, Aligned(x, a), Aligned(y, b),
         x <= y, y < x + 2^a
  PROVE  x = y
<1>1. 2^a \in Nat \ {0}
  BY PowPositive, MaxOrderAssumption
<1>2. Aligned(y, a)
  <2>1. CASE a = b
    BY <2>1
  <2>2. CASE a < b
    BY <2>2, SplitAligned
  <2> QED
    BY <2>1, <2>2
<1>3. PICK d \in Nat : y = d * 2^a
  BY <1>2, AlignedElim
<1>4. PICK e \in Nat : x = e * 2^a
  BY AlignedElim
<1> DEFINE s == 2^a
<1>5. s \in Nat \ {0} /\ e * s <= d * s /\ d * s < (e + 1) * s
  BY <1>1, <1>3, <1>4
<1>6. d = e
  <2> HIDE DEF s
  <2>1. e <= d /\ d < e + 1
    BY <1>5
  <2> QED
    BY <2>1
<1> QED
  BY <1>3, <1>4, <1>6

-------------------------------------------------------------------------------

Apart(g, h, ord) == g + 2^ord[g] <= h \/ h + 2^ord[h] <= g

BlocksOK(H, ord) ==
  /\ \A h \in H : /\ h \in Objs
                  /\ ord[h] \in 0 .. MAX_ORDER
                  /\ Aligned(h, ord[h])
                  /\ h + 2^ord[h] <= obj_count
  /\ \A g, h \in H : g # h => Apart(g, h, ord)

Covers(H, ord, n) ==
  \A y \in 0 .. (n - 1) : \E h \in H : h <= y /\ y < h + 2^ord[h]

(* new: a block added above all the others. *)
LEMMA BlocksAdd ==
  ASSUME NEW H, NEW ord, NEW ord2, NEW x \in Objs, NEW o \in 0 .. MAX_ORDER,
         BlocksOK(H, ord), Covers(H, ord, x),
         \A h \in H : h + 2^ord[h] <= x,
         Aligned(x, o), x + 2^o <= obj_count,
         ord2[x] = o, \A h \in H : ord2[h] = ord[h]
  PROVE  /\ BlocksOK(H \cup {x}, ord2)
         /\ Covers(H \cup {x}, ord2, x + 2^o)
         /\ \A h \in H \cup {x} : h + 2^ord2[h] <= x + 2^o
<1>1. MAX_ORDER \in Nat /\ obj_count \in Nat /\ \A k \in 0 .. MAX_ORDER : 2^k \in Nat \ {0}
  BY MaxOrderAssumption, ObjCountAssumption, PowPositive
<1>2. BlocksOK(H \cup {x}, ord2)
  BY <1>1 DEF BlocksOK, Apart, Objs
<1>3. \A h \in H \cup {x} : h + 2^ord2[h] <= x + 2^o
  BY <1>1 DEF BlocksOK, Objs
<1>4. Covers(H \cup {x}, ord2, x + 2^o)
  <2> SUFFICES ASSUME NEW y \in 0 .. ((x + 2^o) - 1)
               PROVE  \E h \in H \cup {x} : h <= y /\ y < h + 2^ord2[h]
    BY DEF Covers
  <2>1. CASE y < x
    <3>1. y \in 0 .. (x - 1)
      BY <1>1, <2>1 DEF Objs
    <3>2. PICK h \in H : h <= y /\ y < h + 2^ord[h]
      BY <3>1 DEF Covers
    <3> QED
      BY <3>2
  <2>2. CASE x <= y
    BY <1>1, <2>2 DEF Objs
  <2> QED
    BY <1>1, <2>1, <2>2 DEF Objs
<1> QED
  BY <1>2, <1>3, <1>4

(* allocate: below its order, the buddies of a block are objects in the array
   that are not themselves blocks. *)
LEMMA SplitFresh ==
  ASSUME NEW H, NEW ord, NEW x \in H, BlocksOK(H, ord),
         NEW k \in 0 .. (ord[x] - 1)
  PROVE  /\ FlipBit(x, k) = x + 2^k
         /\ HasBuddy(x, k)
         /\ x + 2^k \in Objs
         /\ x + 2^k \notin H
         /\ x + 2^k # x
<1> DEFINE o == ord[x]
<1>1. MAX_ORDER \in Nat /\ obj_count \in Nat /\ \A j \in 0 .. MAX_ORDER : 2^j \in Nat \ {0}
  BY MaxOrderAssumption, ObjCountAssumption, PowPositive
<1>2. x \in Nat /\ o \in 0 .. MAX_ORDER /\ x + 2^o <= obj_count /\ Aligned(x, o)
  BY <1>1 DEF BlocksOK, Objs
<1>3. k \in 0 .. MAX_ORDER /\ k < o /\ k < MAX_ORDER
  BY <1>1, <1>2
<1>4. 2 * 2^k <= 2^o /\ 2^k \in Nat \ {0} /\ 2^o \in Nat
  BY <1>1, <1>2, <1>3, PowMonotonic
<1>5. FlipBit(x, k) = x + 2^k
  BY <1>2, <1>3, SplitAligned
<1>6. x + 2^k \in Objs /\ x + 2^k # x
  BY <1>1, <1>2, <1>4 DEF Objs
<1>7. x + 2^k \notin H
  <2> SUFFICES ASSUME x + 2^k \in H PROVE FALSE
    OBVIOUS
  <2>1. ord[x + 2^k] \in 0 .. MAX_ORDER /\ Apart(x, x + 2^k, ord)
    BY <1>6 DEF BlocksOK
  <2>2. 2^ord[x + 2^k] \in Nat \ {0}
    BY <1>1, <2>1
  <2> QED
    BY <1>2, <1>4, <2>1, <2>2 DEF Apart
<1> QED
  BY <1>1, <1>3, <1>5, <1>6, <1>7 DEF HasBuddy, is_managed_obj, Objs

(* allocate: the block x is split into one of order r and its upper halves of
   the orders r .. ord[x] - 1; the blocks H become G, with orders ord2. *)
IsSplit(H, ord, x, r, G, ord2) ==
  /\ x \in H /\ r \in 0 .. MAX_ORDER /\ r <= ord[x]
  /\ G = H \cup {x + 2^k : k \in r .. (ord[x] - 1)}
  /\ ord2[x] = r
  /\ \A k \in r .. (ord[x] - 1) : ord2[x + 2^k] = k
  /\ \A h \in H : h # x => ord2[h] = ord[h]

(* A split keeps the blocks apart and loses no object. *)
LEMMA BlocksSplit ==
  ASSUME NEW H, NEW ord, NEW x, NEW r, NEW G, NEW ord2,
         BlocksOK(H, ord), Covers(H, ord, obj_count),
         IsSplit(H, ord, x, r, G, ord2)
  PROVE  BlocksOK(G, ord2) /\ Covers(G, ord2, obj_count)
<1> DEFINE o == ord[x]
           U == {x + 2^k : k \in r .. (o - 1)}
<1>0. /\ x \in H /\ r \in 0 .. MAX_ORDER /\ r <= o
      /\ G = H \cup U
      /\ ord2[x] = r
      /\ \A k \in r .. (o - 1) : ord2[x + 2^k] = k
      /\ \A h \in H : h # x => ord2[h] = ord[h]
  BY DEF IsSplit
<1>1. MAX_ORDER \in Nat /\ obj_count \in Nat /\ \A k \in 0 .. MAX_ORDER : 2^k \in Nat \ {0}
  BY MaxOrderAssumption, ObjCountAssumption, PowPositive
<1>2. x \in Nat /\ o \in 0 .. MAX_ORDER /\ x + 2^o <= obj_count /\ Aligned(x, o)
  BY <1>0, <1>1 DEF BlocksOK, Objs
<1>3. \A k \in r .. (o - 1) : /\ k \in 0 .. MAX_ORDER
                              /\ 2^(k + 1) = 2 * 2^k
                              /\ 2 * 2^k <= 2^o
                              /\ 2^r <= 2^k
                              /\ Aligned(x + 2^k, k)
                              /\ Aligned(x, k)
  <2> SUFFICES ASSUME NEW k \in r .. (o - 1)
               PROVE  /\ k \in 0 .. MAX_ORDER
                      /\ 2^(k + 1) = 2 * 2^k
                      /\ 2 * 2^k <= 2^o
                      /\ 2^r <= 2^k
                      /\ Aligned(x + 2^k, k)
                      /\ Aligned(x, k)
    OBVIOUS
  <2>1. k \in 0 .. MAX_ORDER /\ k < o
    BY <1>0, <1>1, <1>2
  <2>2. 2^(k + 1) = 2 * 2^k /\ 2 * 2^k <= 2^o
    BY <1>0, <1>2, <2>1, ShiftDoubles, PowMonotonic
  <2>3. 2^r <= 2^k
    <3>1. CASE r = k
      BY <1>0, <1>1, <3>1
    <3>2. CASE r < k
      BY <1>0, <1>1, <2>1, <3>2, PowMonotonic
    <3> QED
      BY <1>0, <1>1, <2>1, <3>1, <3>2
  <2> QED
    BY <1>0, <1>2, <2>1, <2>2, <2>3, SplitAligned
<1>4. Aligned(x, r) /\ 2^r <= 2^o
  <2>1. CASE r = o
    BY <1>0, <1>1, <1>2, <2>1
  <2>2. CASE r < o
    BY <1>0, <1>1, <1>2, <2>2, SplitAligned, PowMonotonic
  <2> QED
    BY <1>0, <1>1, <1>2, <2>1, <2>2
<1> HIDE DEF o
<1>5. \A h \in H : h # x => h + 2^ord[h] <= x \/ x + 2^o <= h
  BY <1>0 DEF BlocksOK, Apart, o
<1>6. \A u \in U : /\ u \in Objs /\ u \notin H /\ x < u
                   /\ ord2[u] \in r .. (o - 1)
                   /\ u = x + 2^ord2[u]
                   /\ u + 2^ord2[u] <= x + 2^o
                   /\ Aligned(u, ord2[u])
                   /\ 2^r <= 2^ord2[u]
  <2> SUFFICES ASSUME NEW k \in r .. (o - 1)
               PROVE  LET u == x + 2^k IN
                      /\ u \in Objs /\ u \notin H /\ x < u
                      /\ ord2[u] = k
                      /\ u + 2^k <= x + 2^o
    BY <1>0, <1>3 DEF o
  <2>1. 2^k \in Nat \ {0} /\ 2 * 2^k <= 2^o /\ 2^o \in Nat
    BY <1>0, <1>1, <1>2, <1>3
  <2>2. x + 2^k \in Objs /\ x < x + 2^k /\ x + 2^k + 2^k <= x + 2^o
    BY <1>0, <1>1, <1>2, <2>1 DEF Objs
  <2>3. x + 2^k \notin H
    <3> SUFFICES ASSUME x + 2^k \in H PROVE FALSE
      OBVIOUS
    <3>1. ord[x + 2^k] \in 0 .. MAX_ORDER
      BY DEF BlocksOK
    <3>2. 2^ord[x + 2^k] \in Nat \ {0}
      BY <1>0, <1>1, <3>1
    <3> QED
      BY <1>0, <1>2, <1>5, <2>1, <2>2, <3>2
  <2> QED
    BY <1>0, <2>2, <2>3 DEF o
<1>7. \A u, v \in U : u # v => Apart(u, v, ord2)
  <2> SUFFICES ASSUME NEW u \in U, NEW v \in U, ord2[u] < ord2[v]
               PROVE  u + 2^ord2[u] <= v
    BY <1>0, <1>2, <1>6 DEF Apart
  <2>1. 2 * 2^ord2[u] <= 2^ord2[v]
    <3> DEFINE a == ord2[u]
               c == ord2[v]
    <3>1. a \in 0 .. MAX_ORDER /\ c \in 0 .. MAX_ORDER /\ a < c
      BY <1>0, <1>1, <1>2, <1>6
    <3> HIDE DEF a, c
    <3>2. 2 * 2^a <= 2^c
      BY <3>1, PowMonotonic
    <3> QED
      BY <3>2 DEF a, c
  <2> QED
    BY <1>0, <1>1, <1>2, <1>6, <2>1
<1>8. \A h \in H, u \in U : Apart(h, u, ord2) /\ Apart(u, h, ord2)
  <2> SUFFICES ASSUME NEW h \in H, NEW u \in U
               PROVE  h + 2^ord2[h] <= u \/ u + 2^ord2[u] <= h
    BY DEF Apart
  <2>1. CASE h = x
    BY <1>0, <1>1, <1>2, <1>6, <2>1
  <2>2. CASE h # x
    <3>1. ord2[h] = ord[h] /\ h \in Nat /\ 2^ord[h] \in Nat
      BY <1>0, <1>1, <2>2 DEF BlocksOK, Objs
    <3>2. u \in Nat /\ 2^ord2[u] \in Nat /\ x < u /\ u + 2^ord2[u] <= x + 2^o
      BY <1>0, <1>1, <1>2, <1>6 DEF Objs
    <3> QED
      BY <1>0, <1>1, <1>2, <1>5, <2>2, <3>1, <3>2
  <2> QED
    BY <2>1, <2>2
<1>9. \A g, h \in H : g # h => Apart(g, h, ord2)
  <2> SUFFICES ASSUME NEW g \in H, NEW h \in H, g # h
               PROVE  Apart(g, h, ord2)
    OBVIOUS
  <2>1. Apart(g, h, ord) /\ g \in Nat /\ h \in Nat
    BY DEF BlocksOK, Objs
  <2>2. 2^r \in Nat /\ 2^o \in Nat /\ 2^ord[g] \in Nat /\ 2^ord[h] \in Nat
    BY <1>0, <1>1, <1>2 DEF BlocksOK
  <2> QED
    BY <1>0, <1>2, <1>4, <2>1, <2>2 DEF Apart, o
<1>10. \A h \in H : /\ h \in Objs /\ ord2[h] \in 0 .. MAX_ORDER
                    /\ Aligned(h, ord2[h]) /\ h + 2^ord2[h] <= obj_count
  <2> SUFFICES ASSUME NEW h \in H
               PROVE  /\ h \in Objs /\ ord2[h] \in 0 .. MAX_ORDER
                      /\ Aligned(h, ord2[h]) /\ h + 2^ord2[h] <= obj_count
    OBVIOUS
  <2>1. CASE h = x
    BY <1>0, <1>1, <1>2, <1>4, <2>1 DEF BlocksOK
  <2>2. CASE h # x
    BY <1>0, <2>2 DEF BlocksOK
  <2> QED
    BY <2>1, <2>2
<1>11. BlocksOK(G, ord2)
  <2>1. \A h \in G : /\ h \in Objs /\ ord2[h] \in 0 .. MAX_ORDER
                     /\ Aligned(h, ord2[h]) /\ h + 2^ord2[h] <= obj_count
    <3>1. \A u \in U : /\ u \in Objs /\ ord2[u] \in 0 .. MAX_ORDER
                       /\ Aligned(u, ord2[u]) /\ u + 2^ord2[u] <= obj_count
      BY <1>0, <1>1, <1>2, <1>6 DEF Objs
    <3> QED
      BY <1>0, <1>10, <3>1
  <2>2. \A g, h \in G : g # h => Apart(g, h, ord2)
    <3> HIDE DEF U
    <3> QED
      BY <1>0, <1>7, <1>8, <1>9
  <2> QED
    BY <2>1, <2>2 DEF BlocksOK
<1>12. Covers(G, ord2, obj_count)
  <2> SUFFICES ASSUME NEW y \in 0 .. (obj_count - 1)
               PROVE  \E h \in G : h <= y /\ y < h + 2^ord2[h]
    BY DEF Covers
  <2>1. PICK h \in H : h <= y /\ y < h + 2^ord[h]
    BY DEF Covers
  <2>2. CASE h # x
    BY <1>0, <2>1, <2>2
  <2>3. CASE h = x
    <3> DEFINE T == {k \in r .. o : y < x + 2^k}
    <3>1. T \in SUBSET Nat /\ o \in T
      BY <1>0, <1>2, <2>1, <2>3 DEF o
    <3>2. PICK k \in T : \A j \in T : k <= j
      BY <3>1, LeastNat
    <3>3. CASE k = r
      BY <1>0, <2>1, <2>3, <3>2, <3>3
    <3>4. CASE k # r
      <4>1. k - 1 \in r .. (o - 1) /\ k - 1 \notin T
        BY <1>0, <1>2, <3>2, <3>4
      <4>2. ~(y < x + 2^(k - 1)) /\ 2^(k - 1) \in Nat
        BY <1>0, <1>1, <1>2, <4>1
      <4>3. 2^((k - 1) + 1) = 2 * 2^(k - 1) /\ (k - 1) + 1 = k
        BY <1>0, <1>3, <3>2, <4>1
      <4>4. x + 2^(k - 1) \in G /\ ord2[x + 2^(k - 1)] = k - 1
        BY <1>0, <4>1 DEF o
      <4>5. x + 2^(k - 1) <= y /\ y < x + 2^(k - 1) + 2^(k - 1)
        BY <1>0, <1>1, <1>2, <3>2, <4>2, <4>3
      <4> QED
        BY <4>4, <4>5
    <3> QED
      BY <3>3, <3>4
  <2> QED
    BY <2>2, <2>3
<1> QED
  BY <1>0, <1>11, <1>12 DEF o

(* free: the block x and its buddy b of the same order are merged into the
   block of the next order that begins at the lower of the two. *)
IsMerge(H, ord, x, b, lower, G, ord2) ==
  /\ x \in H /\ b \in H
  /\ ord[x] \in 0 .. (MAX_ORDER - 1) /\ ord[b] = ord[x]
  /\ b = FlipBit(x, ord[x])
  /\ lower = IF b < x THEN b ELSE x
  /\ G = H \ ({x, b} \ {lower})
  /\ ord2[lower] = ord[x] + 1
  /\ \A h \in H : h # lower => ord2[h] = ord[h]

(* A merge keeps the blocks apart and loses no object. *)
LEMMA BlocksMerge ==
  ASSUME NEW H, NEW ord, NEW x, NEW b, NEW lower, NEW G, NEW ord2,
         BlocksOK(H, ord), Covers(H, ord, obj_count),
         IsMerge(H, ord, x, b, lower, G, ord2)
  PROVE  BlocksOK(G, ord2) /\ Covers(G, ord2, obj_count)
<1> DEFINE o == ord[x]
<1>0. /\ x \in H /\ b \in H
      /\ o \in 0 .. (MAX_ORDER - 1) /\ ord[b] = o
      /\ b = FlipBit(x, o)
      /\ lower = IF b < x THEN b ELSE x
      /\ G = H \ ({x, b} \ {lower})
      /\ ord2[lower] = o + 1
      /\ \A h \in H : h # lower => ord2[h] = ord[h]
  BY DEF IsMerge
<1>1. MAX_ORDER \in Nat /\ obj_count \in Nat /\ \A k \in 0 .. MAX_ORDER : 2^k \in Nat \ {0}
  BY MaxOrderAssumption, ObjCountAssumption, PowPositive
<1>2. /\ o \in 0 .. MAX_ORDER /\ o + 1 \in 0 .. MAX_ORDER
      /\ 2^(o + 1) = 2 * 2^o /\ 2^o \in Nat \ {0}
  BY <1>0, <1>1, ShiftDoubles
<1>3. /\ x \in Nat /\ b \in Nat
      /\ x + 2^o <= obj_count /\ b + 2^o <= obj_count /\ Aligned(x, o)
  BY <1>0 DEF BlocksOK, Objs
<1>4. PICK upper \in {x, b} : /\ upper = lower + 2^o
                              /\ {x, b} = {lower, upper}
                              /\ lower \in {x, b}
                              /\ Aligned(lower, o + 1)
  BY <1>0, <1>2, <1>3, MergeAligned
<1>5. /\ lower \in Nat /\ lower \in Objs /\ lower \in H /\ upper \in H /\ upper # lower
      /\ lower + 2^(o + 1) = upper + 2^o /\ upper + 2^o <= obj_count
      /\ G = H \ {upper} /\ ord[lower] = o /\ ord[upper] = o
  BY <1>0, <1>2, <1>3, <1>4 DEF BlocksOK
<1> HIDE DEF o
<1>6. \A h \in G : h # lower => /\ h \in H /\ h # upper /\ ord2[h] = ord[h]
                                /\ h \in Nat /\ 2^ord[h] \in Nat
                                /\ h + 2^ord[h] <= lower \/ upper + 2^o <= h
  <2> SUFFICES ASSUME NEW h \in G, h # lower
               PROVE  /\ h \in H /\ h # upper /\ ord2[h] = ord[h]
                      /\ h \in Nat /\ 2^ord[h] \in Nat
                      /\ h + 2^ord[h] <= lower \/ upper + 2^o <= h
    OBVIOUS
  <2>1. h \in H /\ h # upper /\ ord2[h] = ord[h]
    BY <1>0, <1>5
  <2>2. h \in Nat /\ 2^ord[h] \in Nat \ {0}
    BY <1>0, <1>1, <2>1 DEF BlocksOK, Objs
  <2>3. h + 2^ord[h] <= lower \/ lower + 2^o <= h
    BY <1>0, <1>5, <2>1 DEF BlocksOK, Apart
  <2>4. h + 2^ord[h] <= upper \/ upper + 2^o <= h
    BY <1>0, <1>5, <2>1 DEF BlocksOK, Apart
  <2> QED
    BY <1>0, <1>2, <1>4, <1>5, <2>1, <2>2, <2>3, <2>4
<1>7. BlocksOK(G, ord2)
  <2>1. \A h \in G : /\ h \in Objs /\ ord2[h] \in 0 .. MAX_ORDER
                     /\ Aligned(h, ord2[h]) /\ h + 2^ord2[h] <= obj_count
    <3> SUFFICES ASSUME NEW h \in G
                 PROVE  /\ h \in Objs /\ ord2[h] \in 0 .. MAX_ORDER
                        /\ Aligned(h, ord2[h]) /\ h + 2^ord2[h] <= obj_count
      OBVIOUS
    <3>1. CASE h = lower
      BY <1>0, <1>2, <1>4, <1>5, <3>1 DEF o
    <3>2. CASE h # lower
      BY <1>0, <1>6, <3>2 DEF BlocksOK
    <3> QED
      BY <3>1, <3>2
  <2>2. \A g, h \in G : g # h => Apart(g, h, ord2)
    <3> SUFFICES ASSUME NEW g \in G, NEW h \in G, g # h
                 PROVE  Apart(g, h, ord2)
      OBVIOUS
    <3>1. CASE g = lower
      BY <1>0, <1>2, <1>5, <1>6, <3>1 DEF Apart, o
    <3>2. CASE h = lower
      BY <1>0, <1>2, <1>5, <1>6, <3>2 DEF Apart, o
    <3>3. CASE g # lower /\ h # lower
      BY <1>0, <1>6, <3>3 DEF Apart, BlocksOK
    <3> QED
      BY <3>1, <3>2, <3>3
  <2> QED
    BY <2>1, <2>2 DEF BlocksOK
<1>8. Covers(G, ord2, obj_count)
  <2> SUFFICES ASSUME NEW y \in 0 .. (obj_count - 1)
               PROVE  \E h \in G : h <= y /\ y < h + 2^ord2[h]
    BY DEF Covers
  <2>1. PICK h \in H : h <= y /\ y < h + 2^ord[h]
    BY DEF Covers
  <2>2. CASE h \in {lower, upper}
    <3>1. lower \in G /\ lower <= y /\ y < lower + 2^(o + 1)
      BY <1>0, <1>1, <1>2, <1>4, <1>5, <2>1, <2>2
    <3> QED
      BY <1>0, <3>1 DEF o
  <2>3. CASE h \notin {lower, upper}
    BY <1>0, <1>5, <1>6, <2>1, <2>3
  <2> QED
    BY <2>2, <2>3
<1> QED
  BY <1>7, <1>8

-------------------------------------------------------------------------------
(* The inductive invariant. *)

(* The free lists: no duplicates, true counters, and every object linked in
   the list of its own order and held by nobody. *)
ListsInv ==
  \A o \in Orders :
    /\ NoDup(free_lists[o])
    /\ free_counts[o] = Len(free_lists[o])
    /\ \A h \in Listed(o) : order[h] = o /\ h \notin held

HeldInv == \A h \in held : order[h] \in Orders

(* While new runs, the blocks fill the array from the bottom up to `index`. *)
NewInv ==
  pc = "new" =>
    /\ held = {}
    /\ i \in Orders
    /\ Aligned(obj, i)
    /\ Covers(Heads, order, obj)
    /\ \A h \in Heads : h + 2^order[h] <= obj

(* While free merges, its object is a block of order i in nobody's hands. *)
MergingInv ==
  pc = "merging" =>
    /\ obj \in Objs
    /\ order[obj] = i
    /\ obj \notin held
    /\ \A o \in Orders : obj \notin Listed(o)

BlocksInv == /\ BlocksOK(Heads, order)
             /\ pc # "new" => Covers(Heads, order, obj_count)

IInv == TypeOK /\ ListsInv /\ HeldInv /\ NewInv /\ MergingInv /\ BlocksInv

(* The numbers that every step of the proof works with. *)
LEMMA Sizes ==
  /\ MAX_ORDER \in Nat \ {0} /\ obj_count \in Nat \ {0}
  /\ \A k \in 0 .. MAX_ORDER : 2^k \in Nat \ {0}
BY MaxOrderAssumption, ObjCountAssumption, PowPositive

(* A listed object is an object, and a block. *)
LEMMA ListedFacts ==
  ASSUME TypeOK, NEW o \in Orders
  PROVE  Listed(o) \subseteq Objs /\ Listed(o) \subseteq Heads
<1>1. free_lists[o] \in Seq(Objs)
  BY DEF TypeOK
<1>2. Listed(o) \subseteq Objs
  BY <1>1, ElementOfSeq DEF Listed, Elems
<1> QED
  BY <1>2 DEF Heads

(* Init establishes the invariant. *)
LEMMA InitIInv == Init => IInv
<1> SUFFICES ASSUME Init PROVE IInv
  OBVIOUS
<1>0. /\ MAX_ORDER \in Nat \ {0} /\ obj_count \in Nat \ {0}
      /\ \A k \in 0 .. MAX_ORDER : 2^k \in Nat \ {0}
  BY Sizes
<1>1. TypeOK
  <2>1. << >> \in Seq(Objs)
    BY EmptySeq
  <2>2. free_lists \in [Orders -> Seq(Objs)] /\ free_counts \in [Orders -> Int]
    BY <2>1 DEF Init
  <2>3. order \in [Objs -> Nat]
    BY GarbageAssumption DEF Init
  <2>4. misled \in BOOLEAN
    BY Zenon DEF Init
  <2> QED
    BY <1>0, <2>2, <2>3, <2>4 DEF Init, TypeOK, Pcs, Faults
<1>2. \A o \in Orders : /\ free_lists[o] = << >> /\ Len(free_lists[o]) = 0
                        /\ Listed(o) = {} /\ free_counts[o] = 0
  BY EmptySeq DEF Init, Listed, Elems
<1>3. Heads = {}
  BY <1>2 DEF Heads, Init
<1>4. ListsInv /\ HeldInv /\ MergingInv
  BY <1>2 DEF ListsInv, NoDup, HeldInv, MergingInv, Init
<1>5. NewInv
  <2>1. i \in Orders /\ i \in 0 .. MAX_ORDER
    BY <1>0 DEF Init, Orders
  <2>2. obj = 0 * 2^i
    BY <1>0, <2>1 DEF Init
  <2>3. Aligned(obj, i)
    BY <2>1, <2>2, AlignedIntro
  <2> QED
    BY <1>3, <2>1, <2>3 DEF NewInv, Covers, Init
<1>6. BlocksInv
  BY <1>3 DEF BlocksInv, BlocksOK, Init
<1> QED
  BY <1>1, <1>4, <1>5, <1>6 DEF IInv

(* new: a block of order i at `index`. *)
LEMMA NewBlockIInv == ASSUME IInv, NewBlock PROVE IInv'
<1>0. /\ MAX_ORDER \in Nat \ {0} /\ obj_count \in Nat \ {0}
      /\ \A k \in 0 .. MAX_ORDER : 2^k \in Nat \ {0}
  BY Sizes
<1> USE DEF IInv
<1>1. /\ i \in Orders /\ i \in 0 .. MAX_ORDER /\ obj \in Nat /\ obj \in Objs
      /\ obj + 2^i <= obj_count
  BY <1>0 DEF NewBlock, Fits, NewInv, TypeOK, Orders, Objs
<1>2. obj \notin Heads
  <2> SUFFICES ASSUME obj \in Heads PROVE FALSE
    OBVIOUS
  <2>1. order[obj] \in 0 .. MAX_ORDER /\ obj + 2^order[obj] <= obj
    BY DEF BlocksInv, BlocksOK, NewInv, NewBlock
  <2> QED
    BY <1>0, <1>1, <2>1
<1>3. /\ free_lists'[i] \in Seq(Objs) /\ Len(free_lists'[i]) = Len(free_lists[i]) + 1
      /\ Listed(i)' = Listed(i) \cup {obj} /\ NoDup(free_lists'[i])
  <2>1. /\ free_lists[i] \in Seq(Objs) /\ NoDup(free_lists[i]) /\ obj \notin Elems(free_lists[i])
    BY <1>1, <1>2 DEF TypeOK, ListsInv, Heads, Listed
  <2>2. free_lists'[i] = Append(free_lists[i], obj)
    BY <1>1 DEF NewBlock, PushBack, TypeOK
  <2> QED
    BY <1>1, <2>1, <2>2, PushBackList DEF Listed, NewBlock
<1>4. \A o \in Orders : o # i => free_lists'[o] = free_lists[o] /\ Listed(o)' = Listed(o)
  BY DEF NewBlock, PushBack, TypeOK, Listed
<1>5. Heads' = Heads \cup {obj}
  BY <1>1, <1>3, <1>4 DEF Heads, NewBlock
<1>6. /\ order' \in [Objs -> Nat] /\ order'[obj] = i
      /\ \A h \in Objs : h # obj => order'[h] = order[h]
  BY <1>1 DEF NewBlock, TypeOK
<1>7. \A h \in Heads : h \in Objs /\ h # obj /\ order'[h] = order[h]
  BY <1>2, <1>6 DEF BlocksInv, BlocksOK
<1>8. TypeOK'
  <2>1. free_lists' \in [Orders -> Seq(Objs)]
    BY <1>1, <1>3, <1>4 DEF NewBlock, PushBack, TypeOK
  <2>2. free_counts' \in [Orders -> Int]
    BY <1>1 DEF NewBlock, TypeOK
  <2>3. state' \in [Objs -> State]
    BY <1>1 DEF NewBlock, TypeOK, State
  <2>4. obj' \in 0 .. obj_count
    BY <1>0, <1>1 DEF NewBlock
  <2> QED
    BY <1>6, <2>1, <2>2, <2>3, <2>4 DEF NewBlock, TypeOK
<1>9. ListsInv'
  <2> SUFFICES ASSUME NEW o \in Orders
               PROVE  /\ NoDup(free_lists'[o])
                      /\ free_counts'[o] = Len(free_lists'[o])
                      /\ \A h \in Listed(o)' : order'[h] = o /\ h \notin held'
    BY DEF ListsInv
  <2>1. Listed(o) \subseteq Heads
    BY ListedFacts
  <2>2. CASE o = i
    <3>1. free_counts'[i] = free_counts[i] + 1
      BY <1>1 DEF NewBlock, TypeOK
    <3> QED
      BY <1>1, <1>3, <1>6, <1>7, <2>1, <2>2, <3>1 DEF ListsInv, NewBlock, NewInv
  <2>3. CASE o # i
    BY <1>1, <1>4, <1>7, <2>1, <2>3 DEF ListsInv, NewBlock, TypeOK
  <2> QED
    BY <2>2, <2>3
<1>10. HeldInv' /\ MergingInv'
  BY DEF HeldInv, MergingInv, NewBlock, NewInv
<1>11. /\ BlocksOK(Heads', order')
       /\ Covers(Heads', order', obj + 2^i)
       /\ \A h \in Heads' : h + 2^order'[h] <= obj + 2^i
  <2>1. /\ BlocksOK(Heads, order) /\ Covers(Heads, order, obj)
        /\ (\A h \in Heads : h + 2^order[h] <= obj) /\ Aligned(obj, i)
    BY DEF BlocksInv, NewInv, NewBlock
  <2>2. obj \in Objs /\ i \in 0 .. MAX_ORDER /\ obj + 2^i <= obj_count
    BY <1>1
  <2>3. order'[obj] = i /\ \A h \in Heads : order'[h] = order[h]
    BY <1>6, <1>7
  <2>4. /\ BlocksOK(Heads \cup {obj}, order')
        /\ Covers(Heads \cup {obj}, order', obj + 2^i)
        /\ \A h \in Heads \cup {obj} : h + 2^order'[h] <= obj + 2^i
    BY <2>1, <2>2, <2>3, BlocksAdd
  <2> QED
    BY <1>5, <2>4
<1>12. NewInv'
  <2>1. Aligned(obj + 2^i, i)
    <3>1. PICK q \in 0 .. obj : obj = q * 2^i
      BY DEF NewInv, NewBlock, Aligned
    <3>2. q + 1 \in Nat /\ obj + 2^i = (q + 1) * 2^i
      BY <1>0, <1>1, <3>1
    <3> QED
      BY <1>1, <3>2, AlignedIntro
  <2> QED
    BY <1>11, <2>1 DEF NewInv, NewBlock
<1>13. BlocksInv'
  BY <1>11 DEF BlocksInv, NewBlock
<1> QED
  BY <1>8, <1>9, <1>10, <1>12, <1>13

(* new: on to the next lower order, or done. *)
LEMMA NewNextOrderIInv == ASSUME IInv, NewNextOrder PROVE IInv'
<1>0. /\ MAX_ORDER \in Nat \ {0} /\ obj_count \in Nat \ {0}
      /\ \A k \in 0 .. MAX_ORDER : 2^k \in Nat \ {0}
  BY Sizes
<1> USE DEF IInv
<1>1. i \in Orders /\ obj \in Nat /\ obj \in 0 .. obj_count /\ Aligned(obj, i)
  BY DEF NewNextOrder, NewInv, TypeOK
<1>2. /\ \A o \in Orders : Listed(o)' = Listed(o)
      /\ Heads' = Heads
  BY DEF NewNextOrder, Listed, Heads
<1>3. TypeOK'
  <2>1. /\ pc' \in Pcs /\ obj' \in 0 .. obj_count /\ i' \in 0 .. MAX_ORDER
    <3>1. i \in 0 .. MAX_ORDER /\ (i > 0 => i - 1 \in 0 .. MAX_ORDER) /\ pc \in Pcs
      BY <1>0, <1>1 DEF Orders, TypeOK
    <3> QED
      BY <1>0, <1>1, <3>1 DEF NewNextOrder, Pcs
  <2> QED BY <2>1 DEF NewNextOrder, TypeOK
<1>4. ListsInv' /\ HeldInv' /\ MergingInv'
  BY <1>2 DEF NewNextOrder, ListsInv, HeldInv, MergingInv
<1>5. NewInv'
  <2>1. CASE i > 0
    <3>1. i - 1 \in Orders /\ i - 1 \in 0 .. MAX_ORDER /\ i \in 0 .. MAX_ORDER /\ i - 1 < i
      BY <1>0, <1>1, <2>1 DEF Orders
    <3>2. Aligned(obj, i - 1)
      BY <1>1, <3>1, SplitAligned
    <3> QED
      BY <1>2, <2>1, <3>1, <3>2 DEF NewInv, NewNextOrder
  <2>2. CASE ~(i > 0)
    BY <2>2 DEF NewInv, NewNextOrder
  <2> QED
    BY <2>1, <2>2
<1>6. BlocksInv'
  <2>1. CASE i > 0
    BY <1>2, <2>1 DEF BlocksInv, NewNextOrder
  <2>2. CASE ~(i > 0)
    <3>0. i = 0
      BY <1>0, <1>1, <2>2 DEF Orders
    <3>1. 2^i = 1
      BY <3>0
    <3>2. obj = obj_count
      BY <1>0, <1>1, <3>1 DEF NewNextOrder, Fits
    <3> QED
      BY <1>2, <3>2 DEF BlocksInv, NewNextOrder, NewInv
  <2> QED
    BY <2>1, <2>2
<1> QED
  BY <1>3, <1>4, <1>5, <1>6

(* allocate(r) takes the first block x of the list o, the lists from r up to o
   are empty, and the halves that go back are new blocks. *)
AllocateTakes(r, o) ==
  LET x == Head(free_lists[o]) IN
  /\ r <= o
  /\ free_lists[o] # << >>
  /\ \A k \in r .. (o - 1) : free_lists[k] = << >>
  /\ x \in Listed(o)
  /\ x \in Objs
  /\ order[x] = o
  /\ SplitOrders(x, r, o) = r .. (o - 1)
  /\ \A k \in r .. (o - 1) : /\ FlipBit(x, k) = x + 2^k
                             /\ x + 2^k \in Objs
                             /\ x + 2^k \notin Heads
                             /\ x + 2^k # x
  /\ AllocateFrom(r, o)
  /\ fault' = fault

(* allocate: which block is taken, and which halves go back. *)
LEMMA AllocateFacts ==
  ASSUME IInv, NEW r \in 0 .. MAX_ORDER, Allocate(r)
  PROVE  \E o \in Orders : AllocateTakes(r, o)
<1>0. /\ MAX_ORDER \in Nat \ {0} /\ obj_count \in Nat \ {0}
      /\ \A k \in 0 .. MAX_ORDER : 2^k \in Nat \ {0}
  BY Sizes
<1> USE DEF IInv
<1> DEFINE o == Min(NonEmptyFrom(r))
           x == Head(free_lists[o])
<1>1. o \in NonEmptyFrom(r) /\ \A n \in NonEmptyFrom(r) : o <= n
  <2>1. NonEmptyFrom(r) \in SUBSET Nat /\ NonEmptyFrom(r) # {}
    BY <1>0 DEF NonEmptyFrom, Orders, Allocate
  <2>2. \E m \in NonEmptyFrom(r) : \A n \in NonEmptyFrom(r) : m <= n
    BY <2>1, LeastNat
  <2> QED
    BY <2>2 DEF Min
<1>2. /\ fault' = AllocatePanic(x, r, o) /\ fault = "none"
      /\ AllocatePanic(x, r, o) = "none" => AllocateFrom(r, o)
  BY DEF Allocate
<1> HIDE DEF o
<1>3. o \in Orders /\ r <= o /\ free_lists[o] # << >>
  BY <1>1 DEF NonEmptyFrom
<1>4. x \in Listed(o)
  BY <1>3, PopFrontList DEF TypeOK, ListsInv, Listed
<1>5. x \in Objs /\ x \in Heads /\ order[x] = o
  BY <1>3, <1>4, ListedFacts DEF ListsInv
<1> HIDE DEF x
<1>6. \A k \in 0 .. (o - 1) : /\ FlipBit(x, k) = x + 2^k
                              /\ HasBuddy(x, k)
                              /\ x + 2^k \in Objs
                              /\ x + 2^k \notin Heads
                              /\ x + 2^k # x
  <2>1. BlocksOK(Heads, order)
    BY DEF BlocksInv
  <2> QED
    BY <1>5, <2>1, SplitFresh
<1>7. \A k \in r .. (o - 1) : k \in 0 .. (o - 1)
  BY <1>0, <1>3 DEF Orders
<1>8. SplitOrders(x, r, o) = r .. (o - 1)
  <2>1. \A k \in r .. (o - 1) : \A j \in r .. k : j \in 0 .. (o - 1)
    BY <1>0, <1>3 DEF Orders
  <2> QED
    BY <1>6, <2>1 DEF SplitOrders
<1>9. \A k \in r .. (o - 1) : free_lists[k] = << >>
  BY <1>0, <1>1, <1>3 DEF NonEmptyFrom, Orders
<1>10. AllocatePanic(x, r, o) = "none"
  <2>1. free_counts[o] # 0
    BY <1>3, EmptySeq DEF ListsInv, TypeOK
  <2>2. \A k \in SplitOrders(x, r, o) : ~Linked(FlipBit(x, k))
    BY <1>6, <1>7, <1>8 DEF Linked, Heads, Listed
  <2> QED
    BY <2>1, <2>2 DEF AllocatePanic
<1> QED
  BY <1>2, <1>3, <1>4, <1>5, <1>6, <1>7, <1>8, <1>9, <1>10 DEF x, AllocateTakes

(* allocate preserves the invariant. *)
LEMMA AllocateIInv ==
  ASSUME IInv, NEW r \in 0 .. MAX_ORDER, Allocate(r)
  PROVE  IInv'
<1>0. /\ MAX_ORDER \in Nat \ {0} /\ obj_count \in Nat \ {0}
      /\ \A k \in 0 .. MAX_ORDER : 2^k \in Nat \ {0}
  BY Sizes
<1>p. PICK o \in Orders : AllocateTakes(r, o)
  BY AllocateFacts
<1>1. LET x == Head(free_lists[o]) IN
      /\ r <= o
      /\ free_lists[o] # << >>
      /\ x \in Listed(o)
      /\ x \in Objs
      /\ order[x] = o
      /\ SplitOrders(x, r, o) = r .. (o - 1)
      /\ \A k \in r .. (o - 1) : /\ FlipBit(x, k) = x + 2^k
                                 /\ x + 2^k \in Objs
                                 /\ x + 2^k \notin Heads
                                 /\ x + 2^k # x
      /\ AllocateFrom(r, o)
      /\ fault' = fault
  BY <1>p DEF AllocateTakes
<1> DEFINE x == Head(free_lists[o])
           U == {x + 2^k : k \in r .. (o - 1)}
<1>2. /\ r <= o /\ r \in Orders /\ x \in Listed(o) /\ x \in Objs /\ order[x] = o
      /\ x \in Heads /\ free_lists[o] # << >>
  BY <1>0, <1>1, ListedFacts DEF IInv, Orders
<1>3. \A k \in r .. (o - 1) : /\ FlipBit(x, k) = x + 2^k
                              /\ x + 2^k \in Objs /\ x + 2^k \notin Heads /\ x + 2^k # x
                              /\ k \in Orders /\ k # o
  BY <1>0, <1>1 DEF Orders
<1>4. /\ pc = "idle" /\ pc' = pc /\ obj' = obj /\ i' = i /\ fault' = fault
      /\ misled' = misled /\ held' = held \cup {x}
  BY <1>1 DEF Allocate, AllocateFrom
<1>5. free_lists' =
         [k \in Orders |->
            IF k = o THEN Tail(free_lists[k])
            ELSE IF k \in r .. (o - 1) THEN Append(free_lists[k], x + 2^k)
            ELSE free_lists[k]]
  BY <1>1, <1>3 DEF AllocateFrom
<1>6. free_counts' =
         [k \in Orders |->
            IF k = o THEN free_counts[k] - 1
            ELSE IF k \in r .. (o - 1) THEN free_counts[k] + 1
            ELSE free_counts[k]]
  BY <1>1 DEF AllocateFrom
<1>7. /\ order' \in [Objs -> Nat]
      /\ order'[x] = r
      /\ \A k \in r .. (o - 1) : order'[x + 2^k] = k
      /\ \A h \in Objs : h # x /\ h \notin U => order'[h] = order[h]
  <2> DEFINE half(n) == {k \in SplitOrders(x, r, o) : FlipBit(x, k) = n}
  <2>1. order' = [n \in Objs |->
                    IF n = x THEN r
                    ELSE IF half(n) # {} THEN CHOOSE k \in half(n) : TRUE
                    ELSE order[n]]
    BY <1>1 DEF AllocateFrom
  <2>2. ASSUME NEW k \in r .. (o - 1), NEW j \in r .. (o - 1), x + 2^k = x + 2^j
        PROVE  k = j
    <3>1. k \in 0 .. MAX_ORDER /\ j \in 0 .. MAX_ORDER /\ 2^k \in Nat \ {0} /\ 2^j \in Nat \ {0}
      BY <1>0, <1>2 DEF Orders
    <3>2. 2^k = 2^j
      BY <1>2, <2>2, <3>1 DEF Objs
    <3>3. ~(k < j) /\ ~(j < k)
      BY <3>1, <3>2, PowMonotonic
    <3> QED
      BY <3>1, <3>3
  <2>3. \A k \in r .. (o - 1) : k \in half(x + 2^k) /\ \A j \in half(x + 2^k) : j = k
    BY <1>1, <1>3, <2>2
  <2>4. \A n \in Objs : half(n) # {} => (CHOOSE k \in half(n) : TRUE) \in half(n)
    OBVIOUS
  <2>5. \A n \in Objs : half(n) # {} <=> n \in U
    BY <1>1, <1>3
  <2>6. \A n : half(n) \subseteq Nat
    BY <1>0, <1>1 DEF Orders
  <2> HIDE DEF half, x
  <2>7. order' \in [Objs -> Nat]
    <3>1. \A n \in Objs : order[n] \in Nat
      BY DEF IInv, TypeOK
    <3>2. r \in Nat
      BY <1>0
    <3> QED
      BY <2>1, <2>4, <2>6, <3>1, <3>2
  <2>8. \A k \in r .. (o - 1) : order'[x + 2^k] = k
    BY <1>3, <2>1, <2>3, <2>4
  <2>9. order'[x] = r
    BY <1>2, <2>1
  <2>10. \A h \in Objs : h # x /\ h \notin U => order'[h] = order[h]
    BY <2>1, <2>5
  <2> QED
    BY <2>7, <2>8, <2>9, <2>10
<1>8. state' \in [Objs -> State]
  BY <1>1 DEF AllocateFrom, IInv, TypeOK, State
<1>9. \A h \in Heads : h \in Objs /\ (h # x => order'[h] = order[h])
  <2>1. \A h \in Heads : h \in Objs /\ h \notin U
    BY <1>3 DEF IInv, BlocksInv, BlocksOK
  <2> QED
    BY <1>7, <2>1
<1> USE DEF IInv
<1>10. /\ Tail(free_lists[o]) \in Seq(Objs)
       /\ Len(Tail(free_lists[o])) = Len(free_lists[o]) - 1
       /\ Elems(Tail(free_lists[o])) = Listed(o) \ {x}
       /\ NoDup(Tail(free_lists[o]))
  <2>1. free_lists[o] \in Seq(Objs) /\ NoDup(free_lists[o])
    BY DEF TypeOK, ListsInv
  <2> QED
    BY <1>2, <2>1, PopFrontList DEF Listed
<1>11. \A k \in r .. (o - 1) :
          /\ Append(free_lists[k], x + 2^k) \in Seq(Objs)
          /\ Len(Append(free_lists[k], x + 2^k)) = Len(free_lists[k]) + 1
          /\ Elems(Append(free_lists[k], x + 2^k)) = Listed(k) \cup {x + 2^k}
          /\ NoDup(Append(free_lists[k], x + 2^k))
  <2> SUFFICES ASSUME NEW k \in r .. (o - 1)
               PROVE  /\ Append(free_lists[k], x + 2^k) \in Seq(Objs)
                      /\ Len(Append(free_lists[k], x + 2^k)) = Len(free_lists[k]) + 1
                      /\ Elems(Append(free_lists[k], x + 2^k)) = Listed(k) \cup {x + 2^k}
                      /\ NoDup(Append(free_lists[k], x + 2^k))
    OBVIOUS
  <2>1. k \in Orders /\ x + 2^k \in Objs /\ x + 2^k \notin Heads
    BY <1>3
  <2>2. free_lists[k] \in Seq(Objs) /\ NoDup(free_lists[k]) /\ x + 2^k \notin Elems(free_lists[k])
    BY <2>1, ListedFacts DEF TypeOK, ListsInv, Listed
  <2> QED
    BY <2>1, <2>2, PushBackList DEF Listed
<1> HIDE DEF x, U
<1>12. TypeOK'
  <2>1. free_lists' \in [Orders -> Seq(Objs)]
    BY <1>5, <1>10, <1>11 DEF TypeOK
  <2>2. free_counts' \in [Orders -> Int]
    BY <1>6 DEF TypeOK
  <2> QED
    BY <1>2, <1>4, <1>7, <1>8, <2>1, <2>2 DEF TypeOK
<1>13. /\ Listed(o)' = Listed(o) \ {x}
       /\ \A k \in r .. (o - 1) : Listed(k)' = Listed(k) \cup {x + 2^k}
       /\ \A k \in Orders : k # o /\ k \notin r .. (o - 1) => Listed(k)' = Listed(k)
  BY <1>3, <1>5, <1>10, <1>11 DEF Listed
<1>14. \A k \in Orders : k # o => x \notin Listed(k)
  BY <1>2 DEF ListsInv
<1>15. Heads' = Heads \cup U
  <2>1. UNION {Listed(k)' : k \in Orders} = ((UNION {Listed(k) : k \in Orders}) \ {x}) \cup U
    <3>1. ASSUME NEW k \in Orders, NEW h \in Listed(k)'
          PROVE  h \in U \/ (h \in Listed(k) /\ h # x)
      BY <1>13, <1>14, <3>1 DEF U
    <3>2. ASSUME NEW k \in Orders, NEW h \in Listed(k), h # x
          PROVE  h \in Listed(k)'
      BY <1>13, <3>2
    <3>3. ASSUME NEW h \in U
          PROVE  \E k \in Orders : h \in Listed(k)'
      BY <1>3, <1>13 DEF U
    <3> QED
      BY <3>1, <3>2, <3>3
  <2>2. x \in UNION {Listed(k) : k \in Orders}
    BY <1>2
  <2> QED
    BY <1>4, <2>1, <2>2 DEF Heads
<1>16. ListsInv'
  <2> SUFFICES ASSUME NEW k \in Orders
               PROVE  /\ NoDup(free_lists'[k])
                      /\ free_counts'[k] = Len(free_lists'[k])
                      /\ \A h \in Listed(k)' : order'[h] = k /\ h \notin held'
    BY DEF ListsInv
  <2>1. Listed(k) \subseteq Heads /\ held \subseteq Heads
    BY ListedFacts DEF Heads
  <2>2. CASE k = o
    BY <1>2, <1>4, <1>5, <1>6, <1>9, <1>10, <1>13, <2>1, <2>2 DEF ListsInv
  <2>3. CASE k \in r .. (o - 1)
    <3>1. k # o /\ x + 2^k \notin Heads /\ x + 2^k # x
      BY <1>3, <2>3
    <3>2. NoDup(free_lists'[k]) /\ free_counts'[k] = Len(free_lists'[k])
      BY <1>5, <1>6, <1>11, <2>3, <3>1 DEF ListsInv
    <3>3. ASSUME NEW h \in Listed(k)' PROVE order'[h] = k /\ h \notin held'
      <4>1. CASE h = x + 2^k
        BY <1>4, <1>7, <2>1, <2>3, <3>1, <4>1
      <4>2. CASE h \in Listed(k)
        <5>1. h # x
          BY <1>14, <3>1, <4>2
        <5> QED
          BY <1>4, <1>9, <2>1, <4>2, <5>1 DEF ListsInv
      <4> QED
        BY <1>13, <2>3, <4>1, <4>2
    <3> QED
      BY <3>2, <3>3
  <2>4. CASE k # o /\ k \notin r .. (o - 1)
    <3>1. free_lists'[k] = free_lists[k] /\ free_counts'[k] = free_counts[k]
      BY <1>5, <1>6, <2>4
    <3>2. x \notin Listed(k) /\ Listed(k)' = Listed(k)
      BY <1>13, <1>14, <2>4
    <3> QED
      BY <1>4, <1>9, <2>1, <3>1, <3>2 DEF ListsInv
  <2> QED
    BY <2>2, <2>3, <2>4
<1>17. HeldInv'
  <2>1. held \subseteq Heads
    BY DEF Heads
  <2> QED
    BY <1>2, <1>4, <1>7, <1>9, <2>1 DEF HeldInv
<1>18. NewInv' /\ MergingInv'
  BY <1>4 DEF NewInv, MergingInv
<1>19. BlocksInv'
  <2>1. BlocksOK(Heads, order) /\ Covers(Heads, order, obj_count)
    BY <1>4 DEF BlocksInv
  <2>2. IsSplit(Heads, order, x, r, Heads', order')
    BY <1>2, <1>7, <1>9, <1>15 DEF IsSplit, U
  <2> QED
    BY <1>4, <2>1, <2>2, BlocksSplit DEF BlocksInv
<1> QED
  BY <1>12, <1>16, <1>17, <1>18, <1>19

(* free, before its loop: the block changes hands and stays a block. *)
LEMMA FreeIInv == ASSUME IInv, NEW x \in Objs, Free(x) PROVE IInv'
<1> USE DEF IInv
<1>1. x \in held /\ order[x] \in Orders /\ order[x] \in 0 .. MAX_ORDER
  BY Sizes DEF Free, HeldInv, Orders
<1>2. \A o \in Orders : Listed(o)' = Listed(o) /\ x \notin Listed(o)
  BY <1>1 DEF Free, Listed, ListsInv
<1>3. Heads' = Heads
  <2>1. Heads = held \cup (UNION {Listed(o) : o \in Orders}) \cup {}
    BY DEF Heads, Free
  <2>2. Heads' = held' \cup (UNION {Listed(o)' : o \in Orders}) \cup {x}
    BY DEF Heads, Free
  <2>3. UNION {Listed(o)' : o \in Orders} = UNION {Listed(o) : o \in Orders}
    BY <1>2
  <2>4. held' = held \ {x}
    BY DEF Free
  <2> QED
    BY <1>1, <2>1, <2>2, <2>3, <2>4
<1>4. TypeOK'
  BY <1>1, Sizes DEF Free, TypeOK, Pcs, State, Objs
<1>5. ListsInv' /\ HeldInv' /\ NewInv'
  BY <1>2 DEF Free, ListsInv, HeldInv, NewInv
<1>6. MergingInv'
  BY <1>2 DEF Free, MergingInv
<1>7. BlocksInv'
  BY <1>3 DEF Free, BlocksInv
<1> QED
  BY <1>4, <1>5, <1>6, <1>7

(* free: one iteration that merges. *)
LEMMA MergeIInv == ASSUME IInv, Merge PROVE IInv'
<1>0. /\ MAX_ORDER \in Nat \ {0} /\ obj_count \in Nat \ {0}
      /\ \A k \in 0 .. MAX_ORDER : 2^k \in Nat \ {0}
  BY Sizes
<1> USE DEF IInv
<1> DEFINE b == FlipBit(obj, i)
           l == free_lists[i]
           lower == IF b < obj THEN b ELSE obj
<1>1. /\ pc = "merging" /\ i \in Orders /\ i < MAX_ORDER
      /\ obj \in Objs /\ order[obj] = i /\ obj \notin held
      /\ \A o \in Orders : obj \notin Listed(o)
  BY <1>0 DEF Merge, Merging, MergingInv, TypeOK, Orders
<1>2. /\ b \in Listed(i) /\ b \in Objs /\ b \in Heads /\ order[b] = i /\ b \notin held
      /\ b # obj
  <2>1. b \in Listed(i)
    BY DEF Merge, Listed
  <2> QED
    BY <1>1, <2>1, ListedFacts DEF ListsInv
<1>3. /\ free_lists' = [free_lists EXCEPT ![i] = RemoveAt(l, Position(l, b))]
      /\ free_counts' = [free_counts EXCEPT ![i] = @ - 1]
      /\ obj' = lower /\ i' = i + 1
      /\ state' = [state EXCEPT ![lower] = "Free"]
      /\ order' = [order EXCEPT ![lower] = i + 1]
      /\ held' = held /\ pc' = pc /\ fault' = fault /\ misled' = misled
  BY DEF Merge, MergeFrom, Unlinked
<1>4. /\ RemoveAt(l, Position(l, b)) \in Seq(Objs)
      /\ Len(RemoveAt(l, Position(l, b))) = Len(l) - 1
      /\ Elems(RemoveAt(l, Position(l, b))) = Listed(i) \ {b}
      /\ NoDup(RemoveAt(l, Position(l, b)))
  <2>1. l \in Seq(Objs) /\ NoDup(l) /\ b \in Elems(l)
    BY <1>1, <1>2 DEF TypeOK, ListsInv, Listed
  <2> HIDE DEF l, b
  <2>2. /\ RemoveAt(l, Position(l, b)) \in Seq(Objs)
        /\ Len(RemoveAt(l, Position(l, b))) = Len(l) - 1
        /\ Elems(RemoveAt(l, Position(l, b))) = Elems(l) \ {b}
        /\ NoDup(RemoveAt(l, Position(l, b)))
    BY <2>1, RemoveList
  <2> QED
    BY <2>2 DEF Listed, l
<1>5. lower \in {obj, b} /\ lower \in Objs /\ lower \notin held
  BY <1>1, <1>2
<1> HIDE DEF b, l, lower
<1>6. \A o \in Orders : Listed(o)' = IF o = i THEN Listed(o) \ {b} ELSE Listed(o)
  BY <1>1, <1>3, <1>4 DEF Listed, TypeOK
<1>7. \A o \in Orders : o # i => b \notin Listed(o)
  BY <1>2 DEF ListsInv
<1>8. Heads' = Heads \ ({obj, b} \ {lower})
  <2>1. UNION {Listed(o)' : o \in Orders} = (UNION {Listed(o) : o \in Orders}) \ {b}
    BY <1>1, <1>6, <1>7
  <2>2. obj \notin UNION {Listed(o) : o \in Orders}
    BY <1>1
  <2>3. Heads = held \cup (UNION {Listed(o) : o \in Orders}) \cup {obj}
    BY <1>1 DEF Heads
  <2>4. Heads' = held \cup (UNION {Listed(o)' : o \in Orders}) \cup {lower}
    BY <1>1, <1>3 DEF Heads
  <2>5. b \in UNION {Listed(o) : o \in Orders}
    BY <1>1, <1>2
  <2>6. CASE lower = obj
    BY <1>1, <1>2, <2>1, <2>2, <2>3, <2>4, <2>5, <2>6
  <2>7. CASE lower = b
    BY <1>1, <1>2, <2>1, <2>2, <2>3, <2>4, <2>5, <2>7
  <2> QED
    BY <1>5, <2>6, <2>7
<1>9. /\ order' \in [Objs -> Nat] /\ order'[lower] = i + 1
      /\ \A h \in Objs : h # lower => order'[h] = order[h]
  BY <1>0, <1>1, <1>3, <1>5 DEF TypeOK, Orders
<1>10. TypeOK'
  <2>1. free_lists' \in [Orders -> Seq(Objs)] /\ free_counts' \in [Orders -> Int]
    BY <1>1, <1>3, <1>4 DEF TypeOK
  <2>2. state' \in [Objs -> State]
    BY <1>3 DEF TypeOK, State
  <2>3. i' \in 0 .. MAX_ORDER /\ obj' \in 0 .. obj_count
    BY <1>0, <1>1, <1>3, <1>5 DEF Orders, Objs
  <2> QED
    BY <1>3, <1>9, <2>1, <2>2, <2>3 DEF TypeOK
<1>11. ListsInv'
  <2> SUFFICES ASSUME NEW o \in Orders
               PROVE  /\ NoDup(free_lists'[o])
                      /\ free_counts'[o] = Len(free_lists'[o])
                      /\ \A h \in Listed(o)' : order'[h] = o /\ h \notin held'
    BY DEF ListsInv
  <2>1. \A h \in Listed(o)' : h \in Listed(o) /\ h # b /\ h # obj /\ h \in Objs
    BY <1>1, <1>6, <1>7, ListedFacts
  <2>2. \A h \in Listed(o)' : order'[h] = o /\ h \notin held'
    BY <1>3, <1>5, <1>9, <2>1 DEF ListsInv
  <2>3. CASE o = i
    <3>1. free_lists'[o] = RemoveAt(l, Position(l, b)) /\ free_counts'[o] = free_counts[o] - 1
      BY <1>3, <2>3 DEF TypeOK
    <3> QED
      BY <1>4, <2>2, <2>3, <3>1 DEF ListsInv, l
  <2>4. CASE o # i
    BY <1>3, <2>2, <2>4 DEF ListsInv, TypeOK
  <2> QED
    BY <2>3, <2>4
<1>12. HeldInv'
  BY <1>3, <1>5, <1>9 DEF HeldInv, TypeOK
<1>13. NewInv' /\ MergingInv'
  <2>1. \A o \in Orders : lower \notin Listed(o)'
    BY <1>1, <1>5, <1>6, <1>7
  <2> QED
    BY <1>1, <1>3, <1>5, <1>9, <2>1 DEF NewInv, MergingInv
<1>14. BlocksInv'
  <2>1. BlocksOK(Heads, order) /\ Covers(Heads, order, obj_count)
    BY <1>1 DEF BlocksInv
  <2>2. obj \in Heads /\ \A h \in Heads : h \in Objs
    <3>1. obj \in Heads
      BY <1>1 DEF Heads
    <3> QED
      BY <2>1, <3>1 DEF BlocksOK
  <2>3. lower = (IF b < obj THEN b ELSE obj) /\ b = FlipBit(obj, order[obj])
    BY <1>1 DEF lower, b
  <2>4. order[obj] \in 0 .. (MAX_ORDER - 1) /\ order[b] = order[obj]
    BY <1>1, <1>2 DEF Orders
  <2>5. IsMerge(Heads, order, obj, b, lower, Heads', order')
    BY <1>1, <1>2, <1>8, <1>9, <2>2, <2>3, <2>4 DEF IsMerge
  <2> QED
    BY <1>1, <1>3, <2>1, <2>5, BlocksMerge DEF BlocksInv
<1> QED
  BY <1>10, <1>11, <1>12, <1>13, <1>14

(* free: the object goes to the list of its order. *)
LEMMA PushFreedIInv == ASSUME IInv, PushFreed PROVE IInv'
<1>0. /\ MAX_ORDER \in Nat \ {0} /\ obj_count \in Nat \ {0}
      /\ \A k \in 0 .. MAX_ORDER : 2^k \in Nat \ {0}
  BY Sizes
<1> USE DEF IInv
<1>1. /\ pc = "merging" /\ i \in Orders /\ obj \in Objs /\ order[obj] = i /\ obj \notin held
      /\ \A o \in Orders : obj \notin Listed(o)
  BY <1>0 DEF PushFreed, Merging, MergingInv, TypeOK, Orders
<1>2. /\ free_lists' = [free_lists EXCEPT ![i] = Append(free_lists[i], obj)]
      /\ free_counts' = [free_counts EXCEPT ![i] = @ + 1]
      /\ pc' = "idle" /\ obj' = 0 /\ i' = 0
      /\ UNCHANGED <<order, state, held, fault, misled>>
  BY <1>1 DEF PushFreed, PushBack
<1>3. /\ Append(free_lists[i], obj) \in Seq(Objs)
      /\ Len(Append(free_lists[i], obj)) = Len(free_lists[i]) + 1
      /\ Elems(Append(free_lists[i], obj)) = Listed(i) \cup {obj}
      /\ NoDup(Append(free_lists[i], obj))
  <2>1. free_lists[i] \in Seq(Objs) /\ NoDup(free_lists[i]) /\ obj \notin Elems(free_lists[i])
    BY <1>1 DEF TypeOK, ListsInv, Listed
  <2> QED
    BY <1>1, <2>1, PushBackList DEF Listed
<1>4. \A o \in Orders : Listed(o)' = IF o = i THEN Listed(o) \cup {obj} ELSE Listed(o)
  BY <1>1, <1>2, <1>3 DEF Listed, TypeOK
<1>5. Heads' = Heads
  <2>1. UNION {Listed(o)' : o \in Orders} = (UNION {Listed(o) : o \in Orders}) \cup {obj}
    BY <1>1, <1>4
  <2>2. Heads = held \cup (UNION {Listed(o) : o \in Orders}) \cup {obj}
    BY <1>1 DEF Heads
  <2>3. Heads' = held \cup (UNION {Listed(o)' : o \in Orders}) \cup {}
    BY <1>2 DEF Heads
  <2> QED
    BY <2>1, <2>2, <2>3
<1>6. TypeOK'
  <2>1. free_lists' \in [Orders -> Seq(Objs)] /\ free_counts' \in [Orders -> Int]
    BY <1>1, <1>2, <1>3 DEF TypeOK
  <2> QED
    BY <1>0, <1>2, <2>1 DEF TypeOK, Pcs
<1>7. ListsInv'
  <2> SUFFICES ASSUME NEW o \in Orders
               PROVE  /\ NoDup(free_lists'[o])
                      /\ free_counts'[o] = Len(free_lists'[o])
                      /\ \A h \in Listed(o)' : order'[h] = o /\ h \notin held'
    BY DEF ListsInv
  <2>1. CASE o = i
    <3>1. /\ free_lists'[o] = Append(free_lists[i], obj)
          /\ free_counts'[o] = free_counts[o] + 1
      BY <1>2, <2>1 DEF TypeOK
    <3> QED
      BY <1>1, <1>2, <1>3, <1>4, <2>1, <3>1 DEF ListsInv
  <2>2. CASE o # i
    BY <1>2, <1>4, <2>2 DEF ListsInv, TypeOK
  <2> QED
    BY <2>1, <2>2
<1>8. HeldInv' /\ NewInv' /\ MergingInv'
  BY <1>2 DEF HeldInv, NewInv, MergingInv
<1>9. BlocksInv'
  BY <1>1, <1>2, <1>5 DEF BlocksInv
<1> QED
  BY <1>6, <1>7, <1>8, <1>9

(* A step that changes nothing but `fault`: a push that panics, a refused
   allocation, and stuttering. *)
LEMMA FaultIInv ==
  ASSUME IInv, fault' \in Faults,
         UNCHANGED <<free_lists, free_counts, order, state, held, pc, obj, i, misled>>
  PROVE  IInv'
<1> USE DEF IInv
<1>1. Heads' = Heads /\ \A o : Listed(o)' = Listed(o)
  BY DEF Heads, Listed
<1>2. TypeOK'
  BY DEF TypeOK
<1>3. ListsInv' /\ HeldInv' /\ NewInv' /\ MergingInv' /\ BlocksInv'
  BY <1>1 DEF ListsInv, HeldInv, NewInv, MergingInv, BlocksInv
<1> QED
  BY <1>2, <1>3

(* Every step preserves the invariant, unless it misleads free. *)
LEMMA NextIInv ==
  ASSUME IInv, [Next]_vars, ~misled'
  PROVE  IInv'
<1>1. CASE NewBlock
  BY <1>1, NewBlockIInv
<1>2. CASE NewNextOrder
  BY <1>2, NewNextOrderIInv
<1>3. ASSUME NEW r \in 0 .. MAX_ORDER, Allocate(r) PROVE IInv'
  BY <1>3, AllocateIInv
<1>4. ASSUME NEW r \in 0 .. MAX_ORDER, AllocateNone(r) PROVE IInv'
  BY <1>4, FaultIInv DEF AllocateNone, vars, IInv, TypeOK
<1>5. ASSUME NEW x \in Objs, Free(x) PROVE IInv'
  BY <1>5, FreeIInv
<1>6. CASE Merge
  BY <1>6, MergeIInv
<1>7. ~MergeWrongList /\ ~MergeStops
  BY DEF MergeWrongList, MergeStops
<1>8. CASE PushFreed
  BY <1>8, PushFreedIInv
<1>9. CASE PushPanics
  BY <1>9, FaultIInv DEF PushPanics, Faults
<1>10. CASE UNCHANGED vars
  BY <1>10, FaultIInv DEF vars, IInv, TypeOK
<1> QED
  BY <1>1, <1>2, <1>3, <1>4, <1>5, <1>6, <1>7, <1>8, <1>9, <1>10
     DEF Next, NewLoop, FreeLoop

-------------------------------------------------------------------------------
(* What is left of the invariant once free has been misled: the types, and
   orders that still index the lists or stand one above them. *)
MisledInv ==
  /\ TypeOK
  /\ pc # "new"
  /\ \A h \in held : order[h] \in 0 .. MAX_ORDER
  /\ pc = "merging" => obj \in Objs /\ order[obj] = i

(* A cursor's remove leaves a list of objects, duplicates or not. *)
LEMMA UnlinkedType ==
  ASSUME NEW S, NEW l \in Seq(S), NEW x \in Elems(l)
  PROVE  Unlinked(l, x) \in Seq(S)
<1> DEFINE p == Position(l, x)
<1>1. p \in 1 .. Len(l)
  BY DEF Elems, Position
<1> HIDE DEF p
<1>2. Len(l) \in Nat /\ \A k \in 1 .. Len(l) : l[k] \in S
  BY LenProperties, ElementOfSeq
<1>3. SubSeq(l, 1, p - 1) \in Seq(S)
  BY <1>1, <1>2, SubSeqProperties
<1>4. SubSeq(l, p + 1, Len(l)) \in Seq(S)
  BY <1>1, <1>2, SubSeqProperties
<1> QED
  BY <1>3, <1>4, ConcatProperties DEF Unlinked, RemoveAt, p

(* A merge out of any list keeps it. *)
LEMMA MergeFromMisled ==
  ASSUME MisledInv, Merging, MergeWanted,
         NEW o \in Orders, FlipBit(obj, i) \in Elems(free_lists[o]), MergeFrom(o),
         misled' \in BOOLEAN
  PROVE  MisledInv'
<1> DEFINE b == FlipBit(obj, i)
           lower == IF b < obj THEN b ELSE obj
<1>1. /\ i \in Orders /\ obj \in Objs /\ pc = "merging"
  BY Sizes DEF MisledInv, TypeOK, Merging, Orders
<1>2. b \in Objs
  BY ElementOfSeq DEF MisledInv, TypeOK, Elems
<1>3. lower \in Objs
  BY <1>1, <1>2
<1>4. Unlinked(free_lists[o], b) \in Seq(Objs)
  BY UnlinkedType DEF MisledInv, TypeOK
<1>5. /\ free_lists' = [free_lists EXCEPT ![o] = Unlinked(free_lists[o], b)]
      /\ free_counts' = [free_counts EXCEPT ![i] = @ - 1]
      /\ obj' = lower /\ i' = i + 1
      /\ state' = [state EXCEPT ![lower] = "Free"]
      /\ order' = [order EXCEPT ![lower] = i + 1]
      /\ held' = held /\ pc' = pc /\ fault' = fault
  BY DEF MergeFrom
<1> HIDE DEF b, lower
<1>6. i + 1 \in 0 .. MAX_ORDER /\ i + 1 \in Nat
  BY <1>1, Sizes DEF Orders
<1>7. TypeOK'
  <2>1. free_lists' \in [Orders -> Seq(Objs)] /\ free_counts' \in [Orders -> Int]
    BY <1>1, <1>4, <1>5 DEF MisledInv, TypeOK
  <2>2. state' \in [Objs -> State] /\ order' \in [Objs -> Nat]
    BY <1>3, <1>5, <1>6 DEF MisledInv, TypeOK, State
  <2>3. obj' \in 0 .. obj_count
    BY <1>3, <1>5, Sizes DEF Objs
  <2> QED
    BY <1>5, <1>6, <2>1, <2>2, <2>3 DEF MisledInv, TypeOK
<1> QED
  BY <1>3, <1>5, <1>6, <1>7 DEF MisledInv, TypeOK

(* allocate keeps it. *)
LEMMA AllocateMisled ==
  ASSUME MisledInv, NEW r \in 0 .. MAX_ORDER, Allocate(r)
  PROVE  MisledInv'
<1> USE DEF MisledInv
<1> DEFINE o == Min(NonEmptyFrom(r))
           x == Head(free_lists[o])
           halves == SplitOrders(x, r, o)
           half(n) == {k \in halves : FlipBit(x, k) = n}
<1>1. o \in Orders /\ free_lists[o] # << >>
  <2>1. NonEmptyFrom(r) \in SUBSET Nat /\ NonEmptyFrom(r) # {}
    BY Sizes DEF NonEmptyFrom, Orders, Allocate
  <2>2. \E m \in NonEmptyFrom(r) : \A n \in NonEmptyFrom(r) : m <= n
    BY <2>1, LeastNat
  <2>3. o \in NonEmptyFrom(r)
    BY <2>2 DEF Min
  <2> QED
    BY <2>3 DEF NonEmptyFrom
<1>2. /\ pc = "idle" /\ pc' = pc /\ obj' = obj /\ i' = i /\ misled' = misled
      /\ fault' = AllocatePanic(x, r, o)
      /\ IF AllocatePanic(x, r, o) = "none" THEN AllocateFrom(r, o)
         ELSE UNCHANGED <<free_lists, free_counts, order, state, held>>
  BY DEF Allocate
<1> HIDE DEF o
<1>3. fault' \in Faults
  BY <1>2 DEF AllocatePanic, Faults
<1>4. CASE UNCHANGED <<free_lists, free_counts, order, state, held>>
  BY <1>2, <1>3, <1>4 DEF TypeOK
<1>5. CASE AllocateFrom(r, o)
  <2>1. free_lists[o] \in Seq(Objs) /\ x \in Objs /\ Tail(free_lists[o]) \in Seq(Objs)
    BY <1>1, HeadTailProperties DEF TypeOK
  <2>2. halves \subseteq 0 .. MAX_ORDER
        /\ \A k \in halves : k \in Orders /\ HasBuddy(x, k)
    BY <1>1, Sizes DEF SplitOrders, Orders
  <2>3. \A k \in halves : FlipBit(x, k) \in Objs
    <3> SUFFICES ASSUME NEW k \in halves PROVE FlipBit(x, k) \in Objs
      OBVIOUS
    <3>1. 2^k \in Nat \ {0} /\ x \in Nat
      BY <2>1, <2>2, Sizes DEF Objs
    <3>2. FlipBit(x, k) \in Int
      BY <3>1 DEF FlipBit
    <3> QED
      BY <2>2, <3>2, Sizes DEF HasBuddy, is_managed_obj, Objs
  <2>4. \A n : half(n) # {} => (CHOOSE k \in half(n) : TRUE) \in half(n)
    OBVIOUS
  <2>5. \A n : half(n) \subseteq 0 .. MAX_ORDER
    BY <2>2
  <2>6. /\ free_lists' =
             [k \in Orders |->
                IF k = o THEN Tail(free_lists[k])
                ELSE IF k \in halves THEN Append(free_lists[k], FlipBit(x, k))
                ELSE free_lists[k]]
        /\ free_counts' =
             [k \in Orders |->
                IF k = o THEN free_counts[k] - 1
                ELSE IF k \in halves THEN free_counts[k] + 1
                ELSE free_counts[k]]
        /\ order' =
             [n \in Objs |->
                IF n = x THEN r
                ELSE IF half(n) # {} THEN CHOOSE k \in half(n) : TRUE
                ELSE order[n]]
        /\ state' =
             [n \in Objs |->
                IF n = x THEN "Used"
                ELSE IF half(n) # {} THEN "Free"
                ELSE state[n]]
        /\ held' = held \cup {x}
    BY <1>5 DEF AllocateFrom
  <2> HIDE DEF half, halves, x
  <2>7. free_lists' \in [Orders -> Seq(Objs)]
    <3>1. \A k \in halves : Append(free_lists[k], FlipBit(x, k)) \in Seq(Objs)
      BY <2>2, <2>3, AppendProperties DEF TypeOK
    <3> QED
      BY <2>1, <2>6, <3>1 DEF TypeOK
  <2>8. free_counts' \in [Orders -> Int]
    BY <2>6 DEF TypeOK
  <2>9. /\ order' \in [Objs -> Nat]
        /\ \A n \in Objs : order'[n] \in 0 .. MAX_ORDER \/ (n # x /\ order'[n] = order[n])
    <3>1. \A n \in Objs : IF n = x THEN order'[n] = r
                          ELSE order'[n] \in 0 .. MAX_ORDER \/ order'[n] = order[n]
      BY <2>4, <2>5, <2>6
    <3>2. \A n \in Objs : order'[n] \in Nat
      BY <3>1, Sizes DEF TypeOK
    <3> QED
      BY <2>6, <3>1, <3>2
  <2>10. state' \in [Objs -> State]
    BY <2>6 DEF TypeOK, State
  <2>11. held' \subseteq Objs /\ \A h \in held' : order'[h] \in 0 .. MAX_ORDER
    BY <2>1, <2>6, <2>9 DEF TypeOK
  <2> QED
    BY <1>2, <1>3, <2>7, <2>8, <2>9, <2>10, <2>11 DEF TypeOK
<1> QED
  BY <1>2, <1>4, <1>5

(* Every step of a misled allocator, and the step that misleads it, keep it. *)
LEMMA NextMisled ==
  ASSUME MisledInv, [Next]_vars
  PROVE  MisledInv'
<1>1. ~NewBlock /\ ~NewNextOrder
  BY DEF MisledInv, NewBlock, NewNextOrder
<1>2. ASSUME NEW r \in 0 .. MAX_ORDER, Allocate(r) PROVE MisledInv'
  BY <1>2, AllocateMisled
<1>3. ASSUME NEW x \in Objs, Free(x) PROVE MisledInv'
  <2>1. x \in held /\ order[x] \in 0 .. MAX_ORDER
    BY <1>3 DEF Free, MisledInv
  <2> QED
    BY <1>3, <2>1, Sizes DEF Free, MisledInv, TypeOK, Pcs, State, Objs
<1>4. CASE Merge
  <2>1. /\ Merging /\ MergeWanted /\ MergeFrom(i) /\ misled' = misled
        /\ FlipBit(obj, i) \in Elems(free_lists[i])
    BY <1>4 DEF Merge
  <2>2. i \in Orders /\ misled' \in BOOLEAN
    BY <2>1, Sizes DEF MisledInv, TypeOK, Merging, Orders
  <2> QED
    BY <2>1, <2>2, MergeFromMisled
<1>5. CASE MergeWrongList
  <2>1. PICK o \in Orders : Inside(free_lists[o], FlipBit(obj, i)) /\ MergeFrom(o)
    BY <1>5 DEF MergeWrongList
  <2>2. FlipBit(obj, i) \in Elems(free_lists[o])
    <3>1. Len(free_lists[o]) \in Nat
      BY LenProperties DEF MisledInv, TypeOK
    <3> QED
      BY <2>1, <3>1 DEF Inside, Elems
  <2>3. Merging /\ MergeWanted /\ misled' \in BOOLEAN
    BY <1>5 DEF MergeWrongList
  <2> QED
    BY <2>1, <2>2, <2>3, MergeFromMisled
<1>6. CASE MergeStops
  BY <1>6 DEF MergeStops, MisledInv, TypeOK, Faults
<1>7. CASE PushFreed
  <2>1. i \in Orders /\ obj \in Objs /\ order[obj] = i
    BY <1>7, Sizes DEF PushFreed, MisledInv, TypeOK, Merging, Orders
  <2>2. Append(free_lists[i], obj) \in Seq(Objs)
    BY <2>1, AppendProperties DEF MisledInv, TypeOK
  <2>3. free_lists' \in [Orders -> Seq(Objs)] /\ free_counts' \in [Orders -> Int]
    BY <1>7, <2>1, <2>2 DEF PushFreed, PushBack, MisledInv, TypeOK
  <2> QED
    BY <1>7, <2>3, Sizes DEF PushFreed, MisledInv, TypeOK, Pcs
<1>8. CASE PushPanics
  BY <1>8 DEF PushPanics, MisledInv, TypeOK, Faults
<1>9. ASSUME UNCHANGED vars PROVE MisledInv'
  BY <1>9 DEF vars, MisledInv, TypeOK
<1>10. ASSUME NEW r \in 0 .. MAX_ORDER, AllocateNone(r) PROVE MisledInv'
  BY <1>9, <1>10 DEF AllocateNone
<1> QED
  BY <1>1, <1>2, <1>3, <1>4, <1>5, <1>6, <1>7, <1>8, <1>9, <1>10
     DEF Next, NewLoop, FreeLoop

(* A misled allocator stays misled. *)
LEMMA MisledStays ==
  ASSUME misled = TRUE, [Next]_vars
  PROVE  misled' = TRUE
BY DEF Next, NewLoop, FreeLoop, NewBlock, NewNextOrder, Allocate, AllocateNone,
       Free, Merge, MergeWrongList, MergeStops, PushFreed, PushPanics, vars

(* Only free is ever misled, and up to then the invariant makes it right. *)
LEMMA BeforeMisled ==
  ASSUME IInv, misled = FALSE, [Next]_vars, misled'
  PROVE  MisledInv
<1>1. MergeWrongList \/ MergeStops
  BY DEF Next, NewLoop, FreeLoop, NewBlock, NewNextOrder, Allocate, AllocateNone,
         Free, Merge, PushFreed, PushPanics, vars
<1>2. pc = "merging"
  BY <1>1 DEF MergeWrongList, MergeStops, Merging
<1>3. \A h \in held : order[h] \in 0 .. MAX_ORDER
  BY Sizes DEF IInv, HeldInv, Orders
<1> QED
  BY <1>2, <1>3 DEF IInv, MergingInv, MisledInv

(***************************************************************************)
(* The inductive invariant of the allocator: all of IInv until free merges *)
(* the first buddy out of another order's list, MisledInv after it.        *)
(***************************************************************************)
SInv == /\ misled \in BOOLEAN
        /\ misled = FALSE => IInv
        /\ misled = TRUE => MisledInv

(***************************************************************************)
(* The inductive invariant holds in every reachable state.                 *)
(***************************************************************************)
THEOREM InvariantHolds == Spec => []SInv
<1>1. Init => SInv
  BY InitIInv DEF SInv, Init
<1>2. SInv /\ [Next]_vars => SInv'
  <2> SUFFICES ASSUME SInv, [Next]_vars PROVE SInv'
    OBVIOUS
  <2>1. CASE misled = TRUE
    <3>1. MisledInv
      BY <2>1 DEF SInv
    <3>2. MisledInv' /\ misled' = TRUE
      BY <2>1, <3>1, NextMisled, MisledStays
    <3> QED
      BY <3>2 DEF SInv
  <2>2. CASE misled = FALSE
    <3>1. IInv
      BY <2>2 DEF SInv
    <3>2. CASE misled'
      <4>0. MisledInv
        BY <2>2, <3>1, <3>2, BeforeMisled
      <4>1. MisledInv'
        BY <4>0, NextMisled
      <4> QED
        BY <3>2, <4>1 DEF SInv, MisledInv, TypeOK
    <3>3. CASE ~misled'
      <4>1. IInv'
        BY <3>1, <3>3, NextIInv
      <4> QED
        BY <3>3, <4>1 DEF SInv, IInv, TypeOK
    <3> QED
      BY <3>2, <3>3
  <2> QED
    BY <2>1, <2>2 DEF SInv
<1> QED
  BY <1>1, <1>2, PTL DEF Spec

(* What the invariant says of an allocator that was not misled. *)
LEMMA NotMisled ==
  ASSUME SInv, ~misled
  PROVE  IInv
BY DEF SInv

(***************************************************************************)
(* The variables of the allocator always have their types, misled or not:  *)
(* no index leaves the array or the lists, whatever is allocated and freed.*)
(***************************************************************************)
THEOREM TypeCorrect == Spec => []TypeOK
<1>1. SInv => TypeOK
  BY DEF SInv, IInv, MisledInv
<1> QED
  BY <1>1, InvariantHolds, PTL

(* Two different blocks share no object, and every block is in the array. *)
LEMMA HeadsDisjoint ==
  ASSUME IInv
  PROVE  /\ \A h \in Heads : Extent(h, order[h]) \subseteq Objs
         /\ \A g, h \in Heads :
              g # h => Extent(g, order[g]) \cap Extent(h, order[h]) = {}
<1>0. /\ MAX_ORDER \in Nat \ {0} /\ obj_count \in Nat \ {0}
      /\ \A k \in 0 .. MAX_ORDER : 2^k \in Nat \ {0}
  BY Sizes
<1>1. \A h \in Heads : /\ h \in Nat /\ 2^order[h] \in Nat \ {0}
                       /\ h + 2^order[h] <= obj_count
  BY <1>0 DEF IInv, BlocksInv, BlocksOK, Objs
<1>2. \A h \in Heads : Extent(h, order[h]) \subseteq Objs
  BY <1>0, <1>1 DEF Extent, Objs
<1>3. ASSUME NEW g \in Heads, NEW h \in Heads, g # h
      PROVE  Extent(g, order[g]) \cap Extent(h, order[h]) = {}
  <2>1. Apart(g, h, order)
    BY <1>3 DEF IInv, BlocksInv, BlocksOK
  <2> QED
    BY <1>1, <2>1 DEF Apart, Extent
<1> QED
  BY <1>2, <1>3

(***************************************************************************)
(* Until free merges a buddy out of another order's list, no object is in  *)
(* two blocks, no block in two lists, and no block reaches past the array. *)
(* After such a merge an object may be in two blocks.                      *)
(***************************************************************************)
THEOREM BlocksNeverOverlap == Spec => []NoOverlap
<1>1. ASSUME IInv PROVE NoOverlap
  <2>2. /\ \A h \in Heads : Extent(h, order[h]) \subseteq Objs
        /\ \A g, h \in Heads :
             g # h => Extent(g, order[g]) \cap Extent(h, order[h]) = {}
    BY <1>1, HeadsDisjoint
  <2>4. ASSUME NEW o \in Orders PROVE IsInjective(free_lists[o])
    <3>1. free_lists[o] \in Seq(Objs) /\ NoDup(free_lists[o])
      BY <1>1 DEF IInv, TypeOK, ListsInv
    <3>2. DOMAIN free_lists[o] = 1 .. Len(free_lists[o])
      BY <3>1, LenProperties
    <3> QED
      BY <3>1, <3>2 DEF NoDup, IsInjective
  <2>5. \A o, q \in Orders : o # q => Listed(o) \cap Listed(q) = {}
    BY <1>1 DEF IInv, ListsInv
  <2> QED
    BY <2>2, <2>4, <2>5 DEF NoOverlap
<1>2. SInv => NoOverlap
  BY <1>1, NotMisled DEF NoOverlap
<1> QED
  BY <1>2, InvariantHolds, PTL

(***************************************************************************)
(* Until free merges a buddy out of another order's list, no object is     *)
(* lost, neither while new builds the blocks nor by any sequence of splits *)
(* and merges.                                                             *)
(***************************************************************************)
THEOREM NoObjectIsLost == Spec => []NothingLost
<1>1. ASSUME IInv PROVE NothingLost
  <2>0. /\ MAX_ORDER \in Nat \ {0} /\ obj_count \in Nat \ {0}
        /\ \A k \in 0 .. MAX_ORDER : 2^k \in Nat \ {0}
    BY Sizes
  <2> DEFINE n == IF pc = "new" THEN obj ELSE obj_count
  <2>1. Covers(Heads, order, n) /\ n \in Nat
    BY <1>1, <2>0 DEF IInv, NewInv, BlocksInv, TypeOK
  <2>2. \A h \in Heads : /\ h \in Nat /\ 2^order[h] \in Nat \ {0}
                         /\ h + 2^order[h] <= n
    BY <1>1, <2>0 DEF IInv, NewInv, BlocksInv, BlocksOK, Objs
  <2> HIDE DEF n
  <2>3. ASSUME NEW h \in Heads, NEW y \in Extent(h, order[h])
        PROVE  y \in 0 .. (n - 1)
    BY <2>1, <2>2, <2>3 DEF Extent
  <2>4. ASSUME NEW y \in 0 .. (n - 1)
        PROVE  \E h \in Heads : y \in Extent(h, order[h])
    <3>1. PICK h \in Heads : h <= y /\ y < h + 2^order[h]
      BY <2>1 DEF Covers
    <3>2. y \in Extent(h, order[h])
      BY <2>1, <2>2, <3>1 DEF Extent
    <3> QED
      BY <3>2
  <2>5. UNION {Extent(h, order[h]) : h \in Heads} = 0 .. (n - 1)
    BY <2>3, <2>4
  <2> QED
    BY <2>5 DEF NothingLost, n, Objs
<1>2. SInv => NothingLost
  BY <1>1, NotMisled DEF NothingLost
<1> QED
  BY <1>2, InvariantHolds, PTL

(***************************************************************************)
(* Until free merges a buddy out of another order's list,                  *)
(* count_free_objs counts what the free lists hold; that merge makes two   *)
(* counters wrong.                                                         *)
(***************************************************************************)
THEOREM CountersAreTrue == Spec => []CountsAgree
<1>1. IInv => CountsAgree
  BY DEF IInv, ListsInv, CountsAgree
<1>2. SInv => CountsAgree
  BY <1>1, NotMisled DEF CountsAgree
<1> QED
  BY <1>2, InvariantHolds, PTL

(* Two aligned blocks: when the first object b of a block of order i lies in
   another block, that block begins at b or contains b's buddy too. *)
LEMMA AlignedNested ==
  ASSUME NEW k \in 0 .. (MAX_ORDER - 1), NEW o \in 0 .. MAX_ORDER,
         NEW x \in Nat, NEW h \in Nat, Aligned(x, k), Aligned(h, o),
         h <= FlipBit(x, k), FlipBit(x, k) < h + 2^o
  PROVE  \/ h = FlipBit(x, k)
         \/ o > k /\ h <= x /\ x < h + 2^o
<1> DEFINE b == FlipBit(x, k)
<1>0. /\ MAX_ORDER \in Nat \ {0} /\ k \in 0 .. MAX_ORDER /\ k + 1 \in 0 .. MAX_ORDER
      /\ 2^k \in Nat \ {0} /\ 2^o \in Nat \ {0} /\ 2^(k + 1) = 2 * 2^k
  BY Sizes, ShiftDoubles
<1>1. PICK q \in Nat : h = q * 2^o
  BY DEF Aligned
<1>2. PICK p \in Nat : x = p * 2^k
  <2>1. PICK p \in 0 .. x : x = p * 2^k
    BY DEF Aligned
  <2> QED
    BY <2>1
<1>3. PICK m \in Nat, lower \in Nat :
             /\ lower = m * (2 * 2^k)
             /\ \/ x = lower /\ b = lower + 2^k
                \/ b = lower /\ x = lower + 2^k
  <2>1. \/ b = x + 2^k /\ Aligned(x, k + 1)
        \/ x = b + 2^k /\ b \in Nat /\ Aligned(b, k + 1)
    BY MergeAligned
  <2>2. CASE b = x + 2^k /\ Aligned(x, k + 1)
    <3>1. PICK m \in 0 .. x : x = m * 2^(k + 1)
      BY <2>2 DEF Aligned
    <3>2. x \in Nat /\ m \in Nat /\ x = m * (2 * 2^k)
      BY <1>0, <1>2, <3>1
    <3> QED
      BY <2>2, <3>2
  <2>3. CASE x = b + 2^k /\ b \in Nat /\ Aligned(b, k + 1)
    <3>1. PICK m \in 0 .. b : b = m * 2^(k + 1)
      BY <2>3 DEF Aligned
    <3>2. m \in Nat /\ b = m * (2 * 2^k)
      BY <1>0, <3>1
    <3> QED
      BY <2>3, <3>2
  <2> QED
    BY <2>1, <2>2, <2>3
<1> HIDE DEF b
<1>h. h \in Nat /\ b \in Nat /\ x \in Nat /\ h <= b /\ b < h + 2^o
  BY <1>0, <1>1, <1>2, <1>3 DEF b
<1>4. CASE o <= k
  <2>1. PICK c \in Nat : b = c * 2^o
    <3>1. PICK d \in Nat : b = d * 2^k
      <4>1. b = (2 * m) * 2^k \/ b = (2 * m + 1) * 2^k
        BY <1>0, <1>3
      <4>2. 2 * m \in Nat /\ 2 * m + 1 \in Nat
        OBVIOUS
      <4> QED
        BY <4>1, <4>2
    <3>2. PICK e \in Nat : 2^k = e * 2^o
      <4>1. CASE o = k
        BY <1>0, <4>1
      <4>2. CASE o < k
        <5>1. PICK e \in Nat \ {0} : 2^k = e * (2 * 2^o)
          BY <1>0, <4>2, PowDivides
        <5>2. 2 * e \in Nat /\ 2^k = (2 * e) * 2^o
          BY <1>0, <5>1
        <5> QED
          BY <5>2
      <4> QED
        BY <1>0, <1>4, <4>1, <4>2
    <3>3. d * e \in Nat /\ d * (e * 2^o) = (d * e) * 2^o
      BY <1>0
    <3> QED
      BY <3>1, <3>2, <3>3
  <2>2. q * 2^o <= c * 2^o /\ c * 2^o < (q + 1) * 2^o
    BY <1>0, <1>1, <1>h, <2>1
  <2>3. q <= c /\ c < q + 1
    BY <1>0, <2>2
  <2>4. c = q
    BY <2>3
  <2> QED
    BY <1>1, <2>1, <2>4 DEF b
<1>5. CASE o > k
  <2> DEFINE S == 2 * 2^k
  <2>1. PICK n \in Nat : h = n * S
    <3>1. PICK e \in Nat \ {0} : 2^o = e * S
      BY <1>0, <1>5, PowDivides
    <3>2. q * e \in Nat /\ q * (e * S) = (q * e) * S
      BY <1>0
    <3> QED
      BY <1>1, <3>1, <3>2
  <2>2. PICK f \in Nat : h + 2^o = f * S
    <3>1. PICK e \in Nat \ {0} : 2^o = e * S
      BY <1>0, <1>5, PowDivides
    <3>2. n + e \in Nat /\ n * S + e * S = (n + e) * S
      BY <1>0
    <3> QED
      BY <2>1, <3>1, <3>2
  <2>3. S \in Nat \ {0} /\ lower = m * S /\ lower <= b /\ b < (m + 1) * S
    BY <1>0, <1>3
  <2>4. lower <= x /\ x < (m + 1) * S
    BY <1>0, <1>3
  <2>s. n * S < (m + 1) * S /\ m * S < f * S
    BY <1>0, <1>h, <2>1, <2>2, <2>3
  <2> HIDE DEF S
  <2>5. n < m + 1
    BY <2>3, <2>s
  <2>6. m < f
    BY <2>3, <2>s
  <2>7. n * S <= m * S /\ (m + 1) * S <= f * S
    BY <2>3, <2>5, <2>6
  <2> QED
    BY <1>5, <1>h, <2>1, <2>2, <2>3, <2>4, <2>7
<1> QED
  BY <1>0, <1>4, <1>5

(***************************************************************************)
(* Until free merges a buddy out of another order's list, it never reads   *)
(* the Cells of an object that is not a block: what new left uninitialized *)
(* does not decide whether two blocks are merged.                          *)
(***************************************************************************)
THEOREM NoUninitializedRead == Spec => []UninitNeverRead
<1>1. ASSUME IInv PROVE UninitNeverRead
  <2> SUFFICES ASSUME Merging, HasBuddy(obj, i)
               PROVE  FlipBit(obj, i) \in Heads
    BY DEF UninitNeverRead
  <2> USE <1>1 DEF IInv
  <2>0. /\ MAX_ORDER \in Nat \ {0} /\ obj_count \in Nat \ {0}
        /\ \A k \in 0 .. MAX_ORDER : 2^k \in Nat \ {0}
    BY Sizes
  <2>1. /\ pc = "merging" /\ i \in 0 .. (MAX_ORDER - 1) /\ order[obj] = i
        /\ obj \in Heads /\ obj \in Nat
    BY <2>0 DEF Merging, MergingInv, TypeOK, Heads, Objs
  <2>2. BlocksOK(Heads, order) /\ Covers(Heads, order, obj_count)
    BY <2>1 DEF BlocksInv
  <2>3. Aligned(obj, i)
    BY <2>1, <2>2 DEF BlocksOK
  <2>4. FlipBit(obj, i) \in 0 .. (obj_count - 1)
    <3>1. FlipBit(obj, i) \in Int
      BY <2>0, <2>1 DEF FlipBit
    <3> QED
      BY <2>0, <3>1 DEF HasBuddy, is_managed_obj
  <2>5. PICK h \in Heads : h <= FlipBit(obj, i) /\ FlipBit(obj, i) < h + 2^order[h]
    BY <2>2, <2>4 DEF Covers
  <2>6. order[h] \in 0 .. MAX_ORDER /\ Aligned(h, order[h]) /\ h \in Nat
    BY <2>0, <2>2 DEF BlocksOK, Objs
  <2>7. \/ h = FlipBit(obj, i)
        \/ order[h] > i /\ h <= obj /\ obj < h + 2^order[h]
    BY <2>1, <2>3, <2>5, <2>6, AlignedNested
  <2>8. CASE order[h] > i /\ h <= obj /\ obj < h + 2^order[h]
    <3>1. h # obj
      BY <2>1, <2>8
    <3>2. Apart(h, obj, order)
      BY <2>1, <2>2, <3>1 DEF BlocksOK
    <3> QED
      BY <2>0, <2>1, <2>6, <2>8, <3>2 DEF Apart
  <2> QED
    BY <2>7, <2>8
<1>2. SInv => UninitNeverRead
  BY <1>1, NotMisled DEF UninitNeverRead
<1> QED
  BY <1>2, InvariantHolds, PTL

-------------------------------------------------------------------------------
(* Callers see no difference between blocks whose set and orders are kept. *)
LEMMA SameAlloc ==
  ASSUME held' = held, \A h \in held : order'[h] = order[h]
  PROVE  {<<h, order[h]>> : h \in held}' = {<<h, order[h]>> : h \in held}
OBVIOUS

(* allocate hands out a block of the pool that nobody holds. *)
LEMMA AllocateGrants ==
  ASSUME IInv, IInv', ~misled, NEW r \in 0 .. MAX_ORDER, Allocate(r)
  PROVE  Pool!Next
<1>p. PICK o \in Orders : AllocateTakes(r, o)
  BY AllocateFacts
<1>1. LET x == Head(free_lists[o]) IN
      /\ r <= o
      /\ free_lists[o] # << >>
      /\ x \in Listed(o)
      /\ x \in Objs
      /\ order[x] = o
      /\ SplitOrders(x, r, o) = r .. (o - 1)
      /\ \A k \in r .. (o - 1) : /\ FlipBit(x, k) = x + 2^k
                                 /\ x + 2^k \in Objs
                                 /\ x + 2^k \notin Heads
                                 /\ x + 2^k # x
      /\ AllocateFrom(r, o)
      /\ fault' = fault
  BY <1>p DEF AllocateTakes
<1> DEFINE x == Head(free_lists[o])
<1>2. x \in Objs /\ r \in 0 .. (MAX_ORDER - 1) /\ x \in Listed(o)
  BY <1>1, Sizes DEF Orders
<1>3. held' = held \cup {x} /\ x \notin held
  BY <1>1 DEF AllocateFrom, IInv, ListsInv
<1>4. order'[x] = r
  BY <1>1 DEF AllocateFrom
<1>5. \A h \in held : order'[h] = order[h] /\ h # x
  <2> SUFFICES ASSUME NEW h \in held PROVE order'[h] = order[h] /\ h # x
    OBVIOUS
  <2>1. h # x /\ h \in Objs /\ h \in Heads
    BY <1>3 DEF IInv, TypeOK, Heads
  <2>2. {k \in SplitOrders(x, r, o) : FlipBit(x, k) = h} = {}
    BY <1>1, <2>1
  <2> QED
    BY <1>1, <2>1, <2>2 DEF AllocateFrom
<1>6. held' \subseteq Heads'
  BY DEF Heads
<1>7. /\ Extent(x, r) \subseteq Objs
      /\ \A h \in held : Extent(x, r) \cap Extent(h, order[h]) = {}
  <2>1. /\ \A h \in Heads' : Extent(h, order'[h]) \subseteq Objs
        /\ \A g, h \in Heads' :
             g # h => Extent(g, order'[g]) \cap Extent(h, order'[h]) = {}
    <3>1. IInv => /\ \A h \in Heads : Extent(h, order[h]) \subseteq Objs
                  /\ \A g, h \in Heads :
                       g # h => Extent(g, order[g]) \cap Extent(h, order[h]) = {}
      BY HeadsDisjoint
    <3>2. (IInv => /\ \A h \in Heads : Extent(h, order[h]) \subseteq Objs
                   /\ \A g, h \in Heads :
                        g # h => Extent(g, order[g]) \cap Extent(h, order[h]) = {})'
      BY <3>1, HeadsDisjoint, PTL
    <3> QED
      BY <3>2 DEF Extent
  <2> QED
    BY <1>3, <1>4, <1>5, <1>6, <2>1
<1>8. {<<h, order[h]>> : h \in held}' = {<<h, order[h]>> : h \in held} \cup {<<x, r>>}
  BY <1>3, <1>4, <1>5
<1> HIDE DEF x
<1>9. Pool!Grant(x, r)
  <2>1. misled' = misled
    BY DEF Allocate
  <2> QED
    BY <1>2, <1>7, <1>8, <2>1 DEF Pool!Grant, Pool!Extent, Extent, Objs
<1> QED
  BY <1>2, <1>9 DEF Pool!Next, Objs

(* free takes back a block that had been handed out. *)
LEMMA FreeReturns ==
  ASSUME IInv, ~misled, NEW x \in Objs, Free(x)
  PROVE  Pool!Next
<1>1. held' = held \ {x} /\ x \in held /\ order' = order /\ misled' = misled
  BY DEF Free
<1>2. {<<h, order[h]>> : h \in held}' = {<<h, order[h]>> : h \in held} \ {<<x, order[x]>>}
  BY <1>1
<1>3. <<x, order[x]>> \in {<<h, order[h]>> : h \in held}
  BY <1>1
<1> QED
  BY <1>1, <1>2, <1>3, Zenon DEF Pool!Next, Pool!Return

(***************************************************************************)
(* The allocator implements FramePool: until free merges a buddy out of    *)
(* another order's list, which breaks the pool, no frame is handed out     *)
(* that is out of range or in a block that a caller still holds, however   *)
(* blocks are split and merged; and a merge in progress is invisible to    *)
(* callers.                                                                *)
(***************************************************************************)
THEOREM BuddyImplementsFramePool == Spec => ImplementsFramePool
<1> DEFINE alloc == {<<h, order[h]>> : h \in held}
<1>1. Init => Pool!Init
  BY DEF Init, Pool!Init
<1>2. SInv /\ SInv' /\ [Next]_vars => [Pool!Next]_<<alloc, misled>>
  <2> SUFFICES ASSUME SInv, SInv', [Next]_vars
               PROVE  Pool!Next \/ (alloc' = alloc /\ misled' = misled)
    BY Zenon
  <2>0. CASE misled'
    <3>1. misled' = TRUE
      BY <2>0 DEF SInv
    <3> QED
      BY <3>1 DEF Pool!Next, Pool!Break
  <2> SUFFICES ASSUME ~misled'
               PROVE  Pool!Next \/ (alloc' = alloc /\ misled' = misled)
    BY <2>0
  <2>m. ~misled /\ misled' = misled
    BY MisledStays DEF SInv
  <2>i. IInv
    BY <2>m, NotMisled
  <2>j. IInv'
    BY DEF SInv
  <2>1. CASE NewBlock
    <3>1. held = {} /\ held' = {}
      BY <2>1, <2>i DEF IInv, NewInv, NewBlock
    <3> QED
      BY <2>m, <3>1
  <2>2. CASE NewNextOrder
    BY <2>2, <2>m, SameAlloc DEF NewNextOrder
  <2>3. ASSUME NEW r \in 0 .. MAX_ORDER, Allocate(r) PROVE Pool!Next
    BY <2>3, <2>i, <2>j, <2>m, AllocateGrants
  <2>4. ASSUME NEW r \in 0 .. MAX_ORDER, AllocateNone(r)
        PROVE  alloc' = alloc /\ misled' = misled
    BY <2>4, <2>m, SameAlloc DEF AllocateNone, vars
  <2>5. ASSUME NEW x \in Objs, Free(x) PROVE Pool!Next
    BY <2>5, <2>i, <2>m, FreeReturns
  <2>6. CASE Merge
    <3> DEFINE lower == IF FlipBit(obj, i) < obj THEN FlipBit(obj, i) ELSE obj
    <3>1. held' = held /\ order' = [order EXCEPT ![lower] = i + 1]
      BY <2>6 DEF Merge, MergeFrom
    <3>2. i \in Orders /\ FlipBit(obj, i) \in Listed(i) /\ obj \notin held
      BY <2>6, <2>i, Sizes DEF Merge, Merging, Listed, IInv, MergingInv, TypeOK, Orders
    <3>3. lower \notin held
      BY <2>i, <3>2 DEF IInv, ListsInv
    <3> HIDE DEF lower
    <3>4. \A h \in held : order'[h] = order[h]
      BY <2>i, <3>1, <3>3 DEF IInv, TypeOK
    <3> QED
      BY <2>m, <3>1, <3>4, SameAlloc
  <2>7. ~MergeWrongList /\ ~MergeStops
    BY DEF MergeWrongList, MergeStops
  <2>8. CASE PushFreed
    BY <2>8, <2>m, SameAlloc DEF PushFreed
  <2>9. CASE PushPanics
    BY <2>9, <2>m, SameAlloc DEF PushPanics
  <2>10. CASE UNCHANGED vars
    BY <2>10, <2>m, SameAlloc DEF vars
  <2> QED
    BY <2>1, <2>2, <2>3, <2>4, <2>5, <2>6, <2>7, <2>8, <2>9, <2>10
       DEF Next, NewLoop, FreeLoop
<1> QED
  BY <1>1, <1>2, InvariantHolds, PTL DEF Spec, ImplementsFramePool, Pool!Spec

-------------------------------------------------------------------------------
(* Free blocks are merged: a second invariant, on top of the first. *)

(* What is linked in a list is marked free, so free sees it as a partner; and
   so is the block that free is about to link. *)
FreeMarked ==
  /\ \A o \in Orders : \A h \in Listed(o) : state[h] = "Free"
  /\ pc = "merging" => state[obj] = "Free"

(* new reaches the list of an order with that list and all the lower ones
   empty, and below the top order it makes one block at most: what is left of
   the array is smaller than two of them, and than one after the first. *)
NewOnce ==
  pc = "new" =>
    /\ \A o \in Orders : o < i => Listed(o) = {}
    /\ i < MAX_ORDER - 1 =>
         /\ obj_count - obj < 2^(i + 1)
         /\ Listed(i) # {} => obj_count - obj < 2^i

(* Below the top order no two buddies are both in the list of their order. *)
Merged ==
  \A o \in Orders : o < MAX_ORDER - 1 =>
    \A h \in Listed(o) : FlipBit(h, o) \notin Listed(o)

CInv == FreeMarked /\ NewOnce /\ Merged

(* A listed object is an aligned block of the list's order. *)
LEMMA ListedAligned ==
  ASSUME IInv, NEW o \in Orders, NEW h \in Listed(o)
  PROVE  Aligned(h, o) /\ h \in Objs /\ o \in 0 .. MAX_ORDER
<1>1. h \in Heads /\ h \in Objs /\ order[h] = o
  BY ListedFacts DEF IInv, ListsInv
<1> QED
  BY <1>1, Sizes DEF IInv, BlocksInv, BlocksOK, Orders

(* Pushing x keeps a list coalesced when x's buddy is not in it. *)
LEMMA PushCoalesced ==
  ASSUME NEW o \in 0 .. MAX_ORDER, NEW L, NEW x, Aligned(x, o),
         \A h \in L : Aligned(h, o) /\ FlipBit(h, o) \notin L,
         FlipBit(x, o) \notin L
  PROVE  \A h \in L \cup {x} : FlipBit(h, o) \notin L \cup {x}
<1>1. FlipBit(x, o) # x
  BY FlipInvolution
<1>2. ASSUME NEW h \in L, FlipBit(h, o) = x PROVE FALSE
  <2>1. FlipBit(x, o) = h
    BY <1>2, FlipInvolution
  <2> QED
    BY <2>1
<1> QED
  BY <1>1, <1>2

(* Init establishes the second invariant. *)
LEMMA InitCInv == Init => CInv
<1> SUFFICES ASSUME Init PROVE CInv
  OBVIOUS
<1>1. \A o \in Orders : Listed(o) = {}
  BY EmptySeq DEF Init, Listed, Elems
<1>2. FreeMarked /\ Merged
  BY <1>1 DEF FreeMarked, Merged, Init
<1>3. NewOnce
  BY <1>1, Sizes DEF NewOnce, Init
<1> QED
  BY <1>2, <1>3 DEF CInv

(* new: a block is added to an empty list, except at the top order. *)
LEMMA NewBlockCInv == ASSUME IInv, CInv, NewBlock PROVE CInv'
<1>0. /\ MAX_ORDER \in Nat \ {0} /\ obj_count \in Nat \ {0}
      /\ \A k \in 0 .. MAX_ORDER : 2^k \in Nat \ {0}
  BY Sizes
<1>1. /\ i \in Orders /\ i \in 0 .. MAX_ORDER /\ obj \in Objs /\ Aligned(obj, i)
      /\ obj + 2^i <= obj_count
  BY <1>0 DEF IInv, NewBlock, Fits, NewInv, TypeOK, Orders, Objs
<1>2. \A o \in Orders : Listed(o)' = IF o = i THEN Listed(o) \cup {obj} ELSE Listed(o)
  <2>1. free_lists[i] \in Seq(Objs)
    BY <1>1 DEF IInv, TypeOK
  <2>2. Elems(Append(free_lists[i], obj)) = Elems(free_lists[i]) \cup {obj}
    BY <1>1, <2>1, ElemsAppend
  <2> QED
    BY <1>1, <2>2 DEF NewBlock, PushBack, IInv, TypeOK, Listed
<1>3. FreeMarked'
  <2>1. \A h \in Objs : state[h] = "Free" \/ h = obj => state'[h] = "Free"
    BY <1>1 DEF NewBlock, IInv, TypeOK
  <2>2. \A o \in Orders : Listed(o) \subseteq Objs
    BY ListedFacts DEF IInv
  <2> QED
    BY <1>1, <1>2, <2>1, <2>2 DEF CInv, FreeMarked, NewBlock
<1>4. i < MAX_ORDER - 1 => Listed(i) = {} /\ obj_count - obj < 2 * 2^i
  <2>1. 2^(i + 1) = 2 * 2^i
    BY <1>1, ShiftDoubles
  <2> QED
    BY <1>0, <1>1, <2>1 DEF CInv, NewOnce, NewBlock, Objs
<1>5. NewOnce'
  <2>1. \A o \in Orders : o < i' => Listed(o)' = {}
    BY <1>0, <1>1, <1>2 DEF CInv, NewOnce, NewBlock, Orders
  <2>2. ASSUME i' < MAX_ORDER - 1
        PROVE  obj_count - obj' < 2^(i' + 1) /\ obj_count - obj' < 2^i'
    <3>1. i' = i /\ obj' = obj + 2^i /\ 2^(i + 1) = 2 * 2^i
      BY <1>1, ShiftDoubles DEF NewBlock
    <3>2. 2^i \in Nat \ {0} /\ obj \in Nat /\ obj_count - obj < 2 * 2^i
      BY <1>0, <1>1, <1>4, <2>2, <3>1 DEF Objs
    <3>3. obj_count - (obj + 2^i) < 2^i /\ obj_count - (obj + 2^i) < 2^(i + 1)
      BY <1>0, <3>1, <3>2
    <3> QED
      BY <3>1, <3>3
  <2> QED
    BY <2>1, <2>2 DEF NewOnce
<1>6. Merged'
  <2> SUFFICES ASSUME NEW o \in Orders, o < MAX_ORDER - 1
               PROVE  \A h \in Listed(o)' : FlipBit(h, o) \notin Listed(o)'
    BY DEF Merged
  <2>1. CASE o = i
    <3>1. Listed(o)' = {obj}
      BY <1>2, <1>4, <2>1
    <3> QED
      BY <1>1, <2>1, <3>1, FlipInvolution
  <2>2. CASE o # i
    BY <1>2, <2>2 DEF CInv, Merged
  <2> QED
    BY <2>1, <2>2
<1> QED
  BY <1>3, <1>5, <1>6 DEF CInv

(* new: on to the next lower order, or done. *)
LEMMA NewNextOrderCInv == ASSUME IInv, CInv, NewNextOrder PROVE CInv'
<1>0. /\ MAX_ORDER \in Nat \ {0} /\ obj_count \in Nat \ {0}
      /\ \A k \in 0 .. MAX_ORDER : 2^k \in Nat \ {0}
  BY Sizes
<1>1. i \in Orders /\ i \in 0 .. MAX_ORDER /\ obj \in Nat
  BY <1>0 DEF IInv, NewNextOrder, NewInv, TypeOK, Orders
<1>2. \A o \in Orders : Listed(o)' = Listed(o)
  BY DEF NewNextOrder, Listed
<1>3. FreeMarked' /\ Merged'
  BY <1>2 DEF NewNextOrder, CInv, FreeMarked, Merged
<1>4. NewOnce'
  <2>1. CASE i > 0
    <3>1. i' = i - 1 /\ obj' = obj /\ pc' = pc /\ (i - 1) + 1 = i /\ i - 1 \in Orders
      BY <1>0, <1>1, <2>1 DEF NewNextOrder, Orders
    <3>2. Listed(i - 1) = {} /\ \A o \in Orders : o < i - 1 => Listed(o) = {}
      BY <1>0, <1>1, <3>1 DEF CInv, NewOnce, NewNextOrder, Orders
    <3>3. obj_count - obj < 2^i
      BY <1>0, <1>1 DEF NewNextOrder, Fits
    <3> QED
      BY <1>2, <3>1, <3>2, <3>3 DEF NewOnce
  <2>2. CASE ~(i > 0)
    BY <2>2 DEF NewOnce, NewNextOrder
  <2> QED
    BY <2>1, <2>2
<1> QED
  BY <1>3, <1>4 DEF CInv

(* allocate: the lists that get a half were empty, so each holds one block. *)
LEMMA AllocateCInv ==
  ASSUME IInv, CInv, NEW r \in 0 .. MAX_ORDER, Allocate(r)
  PROVE  CInv'
<1>0. /\ MAX_ORDER \in Nat \ {0} /\ obj_count \in Nat \ {0}
      /\ \A k \in 0 .. MAX_ORDER : 2^k \in Nat \ {0}
  BY Sizes
<1>p. PICK o \in Orders : AllocateTakes(r, o)
  BY AllocateFacts
<1> DEFINE x == Head(free_lists[o])
<1>1. /\ r <= o /\ free_lists[o] # << >> /\ x \in Listed(o) /\ x \in Objs /\ order[x] = o
      /\ SplitOrders(x, r, o) = r .. (o - 1)
      /\ \A k \in r .. (o - 1) : /\ free_lists[k] = << >>
                                 /\ FlipBit(x, k) = x + 2^k
                                 /\ x + 2^k \in Objs
                                 /\ x + 2^k # x
                                 /\ k \in Orders /\ k # o
  BY <1>0, <1>p DEF AllocateTakes, Orders
<1>2. free_lists' =
         [k \in Orders |->
            IF k = o THEN Tail(free_lists[k])
            ELSE IF k \in r .. (o - 1) THEN Append(free_lists[k], x + 2^k)
            ELSE free_lists[k]]
  BY <1>1, <1>p DEF AllocateTakes, AllocateFrom
<1>3. Listed(o)' = Listed(o) \ {x}
  <2>1. free_lists[o] \in Seq(Objs) /\ NoDup(free_lists[o])
    BY DEF IInv, TypeOK, ListsInv
  <2>2. Elems(Tail(free_lists[o])) = Elems(free_lists[o]) \ {x}
    BY <1>1, <2>1, PopFrontList
  <2> QED
    BY <1>2, <2>2 DEF Listed
<1>4. \A k \in r .. (o - 1) : Listed(k)' = {x + 2^k}
  <2> SUFFICES ASSUME NEW k \in r .. (o - 1) PROVE Listed(k)' = {x + 2^k}
    OBVIOUS
  <2>1. x + 2^k \in Objs /\ free_lists[k] = << >> /\ k \in Orders /\ k # o
    BY <1>1
  <2>2. free_lists[k] \in Seq(Objs) /\ Elems(free_lists[k]) = {}
    BY <2>1, EmptySeq DEF IInv, TypeOK, Elems
  <2> DEFINE y == x + 2^k
             l == free_lists[k]
  <2>3. y \in Objs /\ l \in Seq(Objs)
    BY <2>1, <2>2
  <2> HIDE DEF y, l
  <2>4. Elems(Append(l, y)) = Elems(l) \cup {y}
    BY <2>3, ElemsAppend
  <2> QED
    BY <1>2, <2>1, <2>2, <2>4 DEF Listed, y, l
<1>5. \A k \in Orders : k # o /\ k \notin r .. (o - 1) => Listed(k)' = Listed(k)
  BY <1>2 DEF Listed
<1>6. /\ \A k \in r .. (o - 1) : state'[x + 2^k] = "Free"
      /\ \A h \in Objs : h # x /\ state[h] = "Free" => state'[h] = "Free"
  <2> DEFINE half(n) == {k \in SplitOrders(x, r, o) : FlipBit(x, k) = n}
  <2>1. state' = [n \in Objs |->
                    IF n = x THEN "Used" ELSE IF half(n) # {} THEN "Free" ELSE state[n]]
    BY <1>p DEF AllocateTakes, AllocateFrom
  <2>2. \A k \in r .. (o - 1) : k \in half(x + 2^k)
    BY <1>1
  <2> HIDE DEF half, x
  <2> QED
    BY <1>1, <2>1, <2>2
<1> HIDE DEF x
<1>7. FreeMarked'
  <2> SUFFICES ASSUME NEW k \in Orders, NEW h \in Listed(k)' PROVE state'[h] = "Free"
    BY DEF FreeMarked, Allocate
  <2>1. CASE k \in r .. (o - 1)
    BY <1>4, <1>6, <2>1
  <2>2. CASE k \notin r .. (o - 1)
    <3>1. h \in Listed(k) /\ h # x
      <4>1. k # o => x \notin Listed(k)
        BY <1>1 DEF IInv, ListsInv
      <4> QED
        BY <1>3, <1>5, <2>2, <4>1
    <3>2. h \in Objs /\ state[h] = "Free"
      BY <3>1, ListedFacts DEF IInv, CInv, FreeMarked
    <3> QED
      BY <1>6, <3>1, <3>2
  <2> QED
    BY <2>1, <2>2
<1>8. NewOnce'
  BY DEF NewOnce, Allocate
<1>9. Merged'
  <2> SUFFICES ASSUME NEW k \in Orders, k < MAX_ORDER - 1
               PROVE  \A h \in Listed(k)' : FlipBit(h, k) \notin Listed(k)'
    BY DEF Merged
  <2>1. CASE k \in r .. (o - 1)
    <3>1. k \in 0 .. MAX_ORDER /\ o \in 0 .. MAX_ORDER /\ k < o
      BY <1>0, <2>1 DEF Orders
    <3>2. Aligned(x, o)
      BY <1>1, ListedAligned
    <3>3. Aligned(x + 2^k, k)
      BY <3>1, <3>2, SplitAligned
    <3>4. FlipBit(x + 2^k, k) # x + 2^k
      BY <3>1, <3>3, FlipInvolution
    <3> QED
      BY <1>4, <2>1, <3>4
  <2>2. CASE k \notin r .. (o - 1)
    <3>1. Listed(k)' \subseteq Listed(k)
      BY <1>3, <1>5, <2>2
    <3> QED
      BY <3>1 DEF CInv, Merged
  <2> QED
    BY <2>1, <2>2
<1> QED
  BY <1>7, <1>8, <1>9 DEF CInv

(* free, before its loop, and every step that leaves lists and marks alone
   while it is not new that runs. *)
LEMMA FreeCInv == ASSUME IInv, CInv, NEW x \in Objs, Free(x) PROVE CInv'
<1>1. \A o \in Orders : Listed(o)' = Listed(o) /\ Listed(o) \subseteq Objs
  BY ListedFacts DEF Free, Listed, IInv
<1>2. FreeMarked'
  <2>1. \A h \in Objs : state[h] = "Free" => state'[h] = "Free"
    BY DEF Free, IInv, TypeOK
  <2>2. state'[x] = "Free" /\ obj' = x
    BY DEF Free, IInv, TypeOK
  <2> QED
    BY <1>1, <2>1, <2>2 DEF CInv, FreeMarked
<1>3. NewOnce' /\ Merged'
  BY <1>1 DEF CInv, NewOnce, Merged, Free
<1> QED
  BY <1>2, <1>3 DEF CInv

(* free: the buddy leaves its list. *)
LEMMA MergeCInv == ASSUME IInv, CInv, Merge PROVE CInv'
<1> DEFINE b == FlipBit(obj, i)
           l == free_lists[i]
           lower == IF b < obj THEN b ELSE obj
<1>1. pc = "merging" /\ pc' = pc /\ i \in Orders
  BY Sizes DEF Merge, MergeFrom, Merging, IInv, TypeOK, Orders
<1>2. \A o \in Orders : Listed(o)' \subseteq Listed(o)
  <2>1. l \in Seq(Objs) /\ NoDup(l) /\ b \in Elems(l)
    BY <1>1 DEF IInv, TypeOK, ListsInv, Merge
  <2>2. free_lists' = [free_lists EXCEPT ![i] = RemoveAt(l, Position(l, b))]
    BY DEF Merge, MergeFrom, Unlinked
  <2> HIDE DEF l, b
  <2>3. Elems(RemoveAt(l, Position(l, b))) = Elems(l) \ {b}
    BY <2>1, RemoveList
  <2>4. \A o \in Orders : Listed(o)' = IF o = i THEN Elems(l) \ {b} ELSE Listed(o)
    BY <1>1, <2>2, <2>3 DEF Listed, IInv, TypeOK
  <2> QED
    BY <2>4 DEF Listed, l
<1>3. \A h \in Objs : state[h] = "Free" => state'[h] = "Free"
  <2>1. state' = [state EXCEPT ![lower] = "Free"]
    BY DEF Merge, MergeFrom
  <2> HIDE DEF lower
  <2> QED
    BY <2>1 DEF IInv, TypeOK
<1>4. \A o \in Orders : Listed(o) \subseteq Objs
  BY ListedFacts DEF IInv
<1>5. FreeMarked'
  <2>1. lower \in Objs /\ state' = [state EXCEPT ![lower] = "Free"] /\ obj' = lower
    <3>1. b \in Objs /\ obj \in Objs
      BY <1>1, <1>4 DEF Merge, Listed, IInv, MergingInv
    <3> QED
      BY <3>1 DEF Merge, MergeFrom
  <2> HIDE DEF lower
  <2>2. state'[obj'] = "Free"
    BY <2>1 DEF IInv, TypeOK
  <2> QED
    BY <1>2, <1>3, <1>4, <2>2 DEF CInv, FreeMarked
<1>6. NewOnce' /\ Merged'
  BY <1>1, <1>2 DEF CInv, NewOnce, Merged
<1> QED
  BY <1>5, <1>6 DEF CInv

(* free: the loop broke because there is no buddy or because it is used, so
   the buddy is in no list. *)
LEMMA PushFreedCInv == ASSUME IInv, CInv, PushFreed PROVE CInv'
<1>0. /\ MAX_ORDER \in Nat \ {0} /\ obj_count \in Nat \ {0}
      /\ \A k \in 0 .. MAX_ORDER : 2^k \in Nat \ {0}
  BY Sizes
<1>1. /\ pc = "merging" /\ i \in Orders /\ i \in 0 .. MAX_ORDER /\ obj \in Objs
      /\ order[obj] = i /\ i < MAX_ORDER
  BY <1>0 DEF PushFreed, Merging, IInv, MergingInv, TypeOK, Orders
<1>2. \A o \in Orders : Listed(o)' = IF o = i THEN Listed(o) \cup {obj} ELSE Listed(o)
  <2>1. free_lists[i] \in Seq(Objs)
    BY <1>1 DEF IInv, TypeOK
  <2>2. Elems(Append(free_lists[i], obj)) = Elems(free_lists[i]) \cup {obj}
    BY <1>1, <2>1, ElemsAppend
  <2> QED
    BY <1>1, <2>2 DEF PushFreed, PushBack, IInv, TypeOK, Listed
<1>3. Aligned(obj, i)
  <2>1. obj \in Heads
    BY <1>1 DEF Heads
  <2> QED
    BY <1>1, <2>1 DEF IInv, BlocksInv, BlocksOK
<1>4. FlipBit(obj, i) \notin Listed(i)
  <2> SUFFICES ASSUME FlipBit(obj, i) \in Listed(i) PROVE FALSE
    OBVIOUS
  <2>1. FlipBit(obj, i) \in Objs /\ state[FlipBit(obj, i)] = "Free"
    BY <1>1, ListedFacts DEF IInv, CInv, FreeMarked
  <2>2. HasBuddy(obj, i)
    BY <1>0, <1>1, <2>1 DEF HasBuddy, is_managed_obj, Objs
  <2> QED
    BY <2>1, <2>2 DEF PushFreed, MergeWanted
<1>5. FreeMarked'
  <2>1. state[obj] = "Free"
    BY <1>1 DEF CInv, FreeMarked
  <2> QED
    BY <1>1, <1>2, <2>1 DEF CInv, FreeMarked, PushFreed
<1>6. NewOnce'
  BY DEF NewOnce, PushFreed
<1>7. Merged'
  <2> SUFFICES ASSUME NEW o \in Orders, o < MAX_ORDER - 1
               PROVE  \A h \in Listed(o)' : FlipBit(h, o) \notin Listed(o)'
    BY DEF Merged
  <2>1. CASE o = i
    <3>1. \A h \in Listed(i) : Aligned(h, i) /\ FlipBit(h, i) \notin Listed(i)
      BY <1>1, <2>1, ListedAligned DEF CInv, Merged
    <3>2. \A h \in Listed(i) \cup {obj} : FlipBit(h, i) \notin Listed(i) \cup {obj}
      BY <1>1, <1>3, <1>4, <3>1, PushCoalesced
    <3> QED
      BY <1>1, <1>2, <2>1, <3>2
  <2>2. CASE o # i
    BY <1>2, <2>2 DEF CInv, Merged
  <2> QED
    BY <2>1, <2>2
<1> QED
  BY <1>5, <1>6, <1>7 DEF CInv

(* A step that leaves the lists, the marks and the registers alone. *)
LEMMA FaultCInv ==
  ASSUME CInv, UNCHANGED <<free_lists, free_counts, order, state, held, pc, obj, i>>
  PROVE  CInv'
<1>1. \A o : Listed(o)' = Listed(o)
  BY DEF Listed
<1>2. FreeMarked'
  BY <1>1 DEF CInv, FreeMarked
<1>3. NewOnce'
  BY <1>1 DEF CInv, NewOnce, Listed
<1>4. Merged'
  BY <1>1 DEF CInv, Merged
<1> QED
  BY <1>2, <1>3, <1>4 DEF CInv

(* Every step preserves the second invariant where the first one holds,
   unless it misleads free. *)
LEMMA NextCInv ==
  ASSUME IInv, CInv, [Next]_vars, ~misled'
  PROVE  CInv'
<1>1. CASE NewBlock
  BY <1>1, NewBlockCInv
<1>2. CASE NewNextOrder
  BY <1>2, NewNextOrderCInv
<1>3. ASSUME NEW r \in 0 .. MAX_ORDER, Allocate(r) PROVE CInv'
  BY <1>3, AllocateCInv
<1>4. ASSUME NEW r \in 0 .. MAX_ORDER, AllocateNone(r) PROVE CInv'
  BY <1>4, FaultCInv DEF AllocateNone, vars
<1>5. ASSUME NEW x \in Objs, Free(x) PROVE CInv'
  BY <1>5, FreeCInv
<1>6. CASE Merge
  BY <1>6, MergeCInv
<1>7. ~MergeWrongList /\ ~MergeStops
  BY DEF MergeWrongList, MergeStops
<1>8. CASE PushFreed
  BY <1>8, PushFreedCInv
<1>9. CASE PushPanics
  BY <1>9, FaultCInv DEF PushPanics
<1>10. CASE UNCHANGED vars
  BY <1>10, FaultCInv DEF vars
<1> QED
  BY <1>1, <1>2, <1>3, <1>4, <1>5, <1>6, <1>7, <1>8, <1>9, <1>10
     DEF Next, NewLoop, FreeLoop

(***************************************************************************)
(* The second invariant, about merging, holds until free is misled.        *)
(***************************************************************************)
THEOREM MergeInvariantHolds == Spec => [](misled = FALSE => CInv)
<1> DEFINE I == misled = FALSE => CInv
<1>1. Init => I
  BY InitCInv
<1>2. SInv /\ SInv' /\ I /\ [Next]_vars => I'
  <2> SUFFICES ASSUME SInv, SInv', I, [Next]_vars, misled' = FALSE PROVE CInv'
    BY Zenon
  <2>1. misled = FALSE
    BY MisledStays DEF SInv
  <2>2. IInv /\ CInv
    BY <2>1, NotMisled
  <2> QED
    BY <2>2, NextCInv
<1> QED
  BY <1>1, <1>2, InvariantHolds, PTL DEF Spec

(***************************************************************************)
(* Below the top order two buddies are never both in the free list of      *)
(* their order, whatever sequence of splits and merges led there: `new`    *)
(* leaves no pair, `allocate` puts a half only into an empty list, and     *)
(* `free` pushes a block only when its buddy is in no list.  So it is      *)
(* until free merges a buddy out of another order's list.                  *)
(***************************************************************************)
THEOREM FreeBuddiesAreMerged == Spec => []Coalesced
<1>1. SInv /\ (misled = FALSE => CInv) => Coalesced
  BY DEF SInv, CInv, Merged, Coalesced
<1> QED
  BY <1>1, InvariantHolds, MergeInvariantHolds, PTL

-------------------------------------------------------------------------------
(* When nothing is held the free lists hold the blocks of new again. *)

(* With nothing held and no merge under way, every block is in the list of
   its order. *)
LEMMA AllListed ==
  ASSUME IInv, pc = "idle", held = {}
  PROVE  /\ BlocksOK(Heads, order) /\ Covers(Heads, order, obj_count)
         /\ \A h \in Heads : /\ order[h] \in Orders /\ order[h] \in 0 .. MAX_ORDER
                             /\ h \in Listed(order[h]) /\ h \in Nat
                             /\ Aligned(h, order[h]) /\ h + 2^order[h] <= obj_count
<1>1. BlocksOK(Heads, order) /\ Covers(Heads, order, obj_count)
  BY DEF IInv, BlocksInv
<1>2. ASSUME NEW h \in Heads PROVE order[h] \in Orders /\ h \in Listed(order[h])
  <2>1. PICK o \in Orders : h \in Listed(o)
    BY <1>2 DEF Heads
  <2>2. order[h] = o
    BY <2>1 DEF IInv, ListsInv
  <2> QED
    BY <2>1, <2>2
<1> QED
  BY <1>1, <1>2, Sizes DEF BlocksOK, Objs

(* Then no block below the top order has a buddy that fits in the array: the
   smallest one that had would find its buddy whole in the same list, or a
   smaller block that has one too. *)
LEMMA NoBuddyFits ==
  ASSUME IInv, Merged, pc = "idle", held = {},
         NEW g \in Heads, order[g] < MAX_ORDER - 1
  PROVE  FlipBit(g, order[g]) + 2^order[g] > obj_count
<1>0. /\ MAX_ORDER \in Nat \ {0} /\ obj_count \in Nat \ {0}
      /\ \A k \in 0 .. MAX_ORDER : 2^k \in Nat \ {0}
  BY Sizes
<1>1. /\ BlocksOK(Heads, order) /\ Covers(Heads, order, obj_count)
      /\ \A h \in Heads : /\ order[h] \in Orders /\ order[h] \in 0 .. MAX_ORDER
                          /\ h \in Listed(order[h]) /\ h \in Nat
                          /\ Aligned(h, order[h]) /\ h + 2^order[h] <= obj_count
  BY AllListed
<1> DEFINE Fit(h) == order[h] < MAX_ORDER - 1 /\ FlipBit(h, order[h]) + 2^order[h] <= obj_count
           T == {m \in Nat : \E h \in Heads : order[h] = m /\ Fit(h)}
<1>2. T = {}
  <2> SUFFICES ASSUME T # {} PROVE FALSE
    OBVIOUS
  <2>1. PICK m \in T : \A n \in T : m <= n
    <3>1. T \in SUBSET Nat
      OBVIOUS
    <3> QED
      BY <3>1, LeastNat
  <2>2. PICK h \in Heads : order[h] = m /\ Fit(h)
    BY <2>1
  <2> DEFINE b == FlipBit(h, m)
  <2>3. /\ m \in 0 .. (MAX_ORDER - 1) /\ m \in 0 .. MAX_ORDER /\ m < MAX_ORDER - 1
        /\ h \in Nat /\ Aligned(h, m) /\ h + 2^m <= obj_count
        /\ b + 2^m <= obj_count /\ h \in Listed(m) /\ m \in Orders
    BY <1>0, <1>1, <2>2 DEF Orders
  <2>4. b \in Nat /\ Aligned(b, m) /\ FlipBit(b, m) = h /\ b # h
    <3>1. b # h /\ FlipBit(b, m) = h
      BY <2>3, FlipInvolution
    <3>2. b \in Nat /\ Aligned(b, m)
      <4>1. \/ b = h + 2^m /\ Aligned(h, m + 1)
            \/ h = b + 2^m /\ b \in Nat /\ Aligned(b, m + 1)
        BY <2>3, MergeAligned
      <4>2. m + 1 \in 0 .. MAX_ORDER /\ m < m + 1
        BY <1>0, <2>3
      <4>3. CASE b = h + 2^m /\ Aligned(h, m + 1)
        <5>1. Aligned(h + 2^m, m)
          BY <2>3, <4>2, <4>3, SplitAligned
        <5> QED
          BY <1>0, <2>3, <4>3, <5>1
      <4>4. CASE h = b + 2^m /\ b \in Nat /\ Aligned(b, m + 1)
        BY <2>3, <4>2, <4>4, SplitAligned
      <4> QED
        BY <4>1, <4>3, <4>4
    <3> QED
      BY <3>1, <3>2
  <2>5. PICK f \in Heads : f <= b /\ b < f + 2^order[f]
    <3>1. b \in 0 .. (obj_count - 1)
      BY <1>0, <2>3, <2>4
    <3> QED
      BY <1>1, <3>1 DEF Covers
  <2> DEFINE q == order[f]
  <2>6. /\ q \in Orders /\ q \in 0 .. MAX_ORDER /\ f \in Listed(q) /\ f \in Nat
        /\ Aligned(f, q) /\ f + 2^q <= obj_count
    BY <1>1
  <2>7. f # h => f + 2^q <= h \/ h + 2^m <= f
    BY <1>1, <2>2 DEF BlocksOK, Apart
  <2> HIDE DEF b
  <2>8. f = b
    <3>1. \/ f = FlipBit(h, m)
          \/ q > m /\ f <= h /\ h < f + 2^q
      BY <2>3, <2>5, <2>6, AlignedNested DEF b
    <3>2. CASE q > m /\ f <= h /\ h < f + 2^q
      <4>1. f # h
        BY <2>2, <2>3, <2>6, <3>2
      <4> QED
        BY <1>0, <2>3, <2>6, <2>7, <3>2, <4>1
    <3> QED
      BY <3>1, <3>2 DEF b
  <2>9. CASE q = m
    <3>1. b \in Listed(m)
      BY <2>6, <2>8, <2>9
    <3> QED
      BY <2>3, <3>1 DEF Merged, b
  <2>10. CASE q > m
    <3>1. h = b + 2^m
      BY <2>3, <2>4, <2>6, <2>8, <2>10, SplitAligned
    <3>2. 2 * 2^m <= 2^q /\ 2^m \in Nat \ {0} /\ 2^q \in Nat
      BY <1>0, <2>3, <2>6, <2>10, PowMonotonic
    <3> QED
      BY <2>3, <2>4, <2>7, <2>8, <3>1, <3>2
  <2>11. CASE q < m
    <3>1. FlipBit(f, q) = f + 2^q
      BY <2>3, <2>4, <2>6, <2>8, <2>11, SplitAligned
    <3>2. 2 * 2^q <= 2^m /\ 2^m \in Nat /\ 2^q \in Nat
      BY <1>0, <2>3, <2>6, <2>11, PowMonotonic
    <3>3. Fit(f)
      BY <1>0, <2>3, <2>4, <2>6, <2>8, <2>11, <3>1, <3>2
    <3>4. q \in T
      <4> HIDE DEF Fit
      <4> QED BY <2>6, <3>3
    <3> QED
      BY <2>1, <2>3, <2>6, <2>11, <3>4
  <2> QED
    BY <2>3, <2>6, <2>9, <2>10, <2>11
<1>3. ~Fit(g)
  <2>1. order[g] \in Nat
    BY <1>1
  <2> HIDE DEF Fit
  <2> QED BY <1>2, <2>1
<1>4. FlipBit(g, order[g]) \in Int /\ 2^order[g] \in Nat
  <2>1. order[g] \in 0 .. MAX_ORDER /\ g \in Nat
    BY <1>1
  <2>2. 2^order[g] \in Nat \ {0}
    BY <1>0, <2>1
  <2> QED
    BY <2>1, <2>2 DEF FlipBit
<1> QED
  BY <1>0, <1>3, <1>4

(* So every free block is one that new makes. *)
LEMMA FreeIsNew ==
  ASSUME IInv, Merged, pc = "idle", held = {}, NEW h \in Heads
  PROVE  /\ order[h] # MAX_ORDER - 1 =>
              Aligned(h, order[h] + 1) /\ h + 2^(order[h] + 1) > obj_count
         /\ h \in NewBlocks(order[h])
<1>0. /\ MAX_ORDER \in Nat \ {0} /\ obj_count \in Nat \ {0}
      /\ \A k \in 0 .. MAX_ORDER : 2^k \in Nat \ {0}
  BY Sizes
<1> DEFINE o == order[h]
<1>1. /\ o \in 0 .. (MAX_ORDER - 1) /\ o \in 0 .. MAX_ORDER /\ h \in Nat /\ h \in Objs
      /\ Aligned(h, o) /\ h + 2^o <= obj_count
  BY <1>0, AllListed DEF Orders, BlocksOK
<1>2. ASSUME o # MAX_ORDER - 1
      PROVE  /\ Aligned(h, o + 1) /\ h + 2^(o + 1) > obj_count
             /\ o + 1 \in 0 .. MAX_ORDER
  <2>1. FlipBit(h, o) + 2^o > obj_count
    BY <1>0, <1>1, <1>2, NoBuddyFits
  <2>2. \/ FlipBit(h, o) = h + 2^o /\ Aligned(h, o + 1)
        \/ h = FlipBit(h, o) + 2^o
    BY <1>1, MergeAligned
  <2>3. 2^(o + 1) = 2 * 2^o /\ 2^o \in Nat
    BY <1>0, <1>1, ShiftDoubles
  <2> HIDE DEF o
  <2>4. FlipBit(h, o) = h + 2^o /\ Aligned(h, o + 1)
    BY <1>0, <1>1, <2>1, <2>2
  <2> QED
    BY <1>0, <1>1, <2>1, <2>3, <2>4
<1>3. h % 2^o = 0
  BY <1>1, AlignedMod
<1>4. o # MAX_ORDER - 1 => h % 2^(o + 1) = 0
  BY <1>1, <1>2, AlignedMod
<1> HIDE DEF o
<1>5. h \in NewBlocks(o)
  BY <1>1, <1>2, <1>3, <1>4 DEF NewBlocks
<1> QED
  BY <1>2, <1>5 DEF o

(* And every block that new makes is free: the free block that contains its
   first object can be neither larger nor smaller. *)
LEMMA NewIsFree ==
  ASSUME IInv, Merged, pc = "idle", held = {},
         NEW o \in Orders, NEW h \in NewBlocks(o)
  PROVE  h \in Listed(o)
<1>0. /\ MAX_ORDER \in Nat \ {0} /\ obj_count \in Nat \ {0}
      /\ \A k \in 0 .. MAX_ORDER : 2^k \in Nat \ {0}
  BY Sizes
<1>1. /\ o \in 0 .. (MAX_ORDER - 1) /\ o \in 0 .. MAX_ORDER /\ o + 1 \in 0 .. MAX_ORDER
      /\ h \in Nat /\ h \in 0 .. (obj_count - 1)
      /\ h + 2^o <= obj_count
      /\ o # MAX_ORDER - 1 => h + 2^(o + 1) > obj_count
  BY <1>0 DEF NewBlocks, Orders, Objs
<1>2. Aligned(h, o) /\ (o # MAX_ORDER - 1 => Aligned(h, o + 1))
  BY <1>1, AlignedMod DEF NewBlocks
<1>3. PICK g \in Heads : g <= h /\ h < g + 2^order[g]
  BY <1>1, AllListed DEF Covers
<1> DEFINE q == order[g]
<1>4. /\ q \in Orders /\ q \in 0 .. MAX_ORDER /\ g \in Listed(q) /\ g \in Nat
      /\ Aligned(g, q) /\ g + 2^q <= obj_count
  BY AllListed
<1>5. q # MAX_ORDER - 1 => g + 2^(q + 1) > obj_count
  BY FreeIsNew
<1>6. g <= h /\ h < g + 2^q
  BY <1>3
<1> HIDE DEF q
<1>7. CASE q = o
  <2>1. g = h
    BY <1>1, <1>2, <1>4, <1>6, <1>7, AlignedStart
  <2> QED
    BY <1>4, <1>7, <2>1
<1>8. CASE q < o
  <2>1. g = h
    BY <1>1, <1>2, <1>4, <1>6, <1>8, AlignedStart
  <2>2. 2^(q + 1) = 2 * 2^q /\ 2 * 2^q <= 2^o /\ 2^q \in Nat /\ 2^o \in Nat
    BY <1>0, <1>1, <1>4, <1>8, ShiftDoubles, PowMonotonic
  <2>3. g + 2^(q + 1) > obj_count
    BY <1>0, <1>1, <1>4, <1>5, <1>8
  <2> QED
    BY <1>0, <1>1, <2>1, <2>2, <2>3
<1>9. CASE q > o
  <2>1. o # MAX_ORDER - 1 /\ o + 1 <= q
    BY <1>0, <1>1, <1>4, <1>9 DEF Orders
  <2>2. h + 2^(o + 1) <= g + 2^q
    BY <1>1, <1>2, <1>4, <1>6, <2>1, AlignedEnd
  <2>3. 2^(o + 1) \in Nat /\ 2^q \in Nat
    BY <1>0, <1>1, <1>4
  <2> QED
    BY <1>0, <1>1, <1>4, <2>1, <2>2, <2>3
<1> QED
  BY <1>1, <1>4, <1>7, <1>8, <1>9

(***************************************************************************)
(* When everything has been given back, in whatever order, the free lists  *)
(* hold exactly the blocks they held when new returned: no sequence of     *)
(* allocations and frees leaves the memory fragmented, if free merged no   *)
(* buddy out of another order's list on the way.                           *)
(***************************************************************************)
THEOREM FreeingEverythingRestoresNew == Spec => []AllFreedRestoresNew
<1>1. SInv /\ (misled = FALSE => CInv) => AllFreedRestoresNew
  <2> SUFFICES ASSUME SInv, misled = FALSE => CInv, ~misled,
                      pc = "idle", held = {}, NEW o \in Orders
               PROVE  Listed(o) = NewBlocks(o)
    BY DEF AllFreedRestoresNew
  <2>0. IInv /\ Merged
    BY NotMisled DEF SInv, CInv
  <2>1. ASSUME NEW h \in Listed(o) PROVE h \in NewBlocks(o)
    <3>1. h \in Heads /\ order[h] = o
      BY <2>0, ListedFacts DEF IInv, ListsInv
    <3> QED
      BY <2>0, <3>1, FreeIsNew
  <2>2. ASSUME NEW h \in NewBlocks(o) PROVE h \in Listed(o)
    BY <2>0, NewIsFree
  <2> QED
    BY <2>1, <2>2
<1> QED
  BY <1>1, InvariantHolds, MergeInvariantHolds, PTL
=============================================================================
