-------------------------- MODULE MemoryInitProofs --------------------------
(***************************************************************************)
(* The sizing of the frame array, for every memory map, every place of the *)
(* kernel's end and every size of a frame and of its array element.        *)
(*                                                                         *)
(* `Stage` says of each step of memory::init where the early allocator     *)
(* stands, relative to the image and to the region it cuts from.  The      *)
(* arithmetic is in the lemmas: what align_up returns, and that the count  *)
(* of frames leaves room for the array that the count itself makes.        *)
(***************************************************************************)
EXTENDS MemoryInit, TLAPS

Placing == {"align_frames", "check", "update"}

Image ==
  /\ regions \in MemoryMaps
  /\ pc # "done" => kernel_end \in KernelEnds
  /\ \A a \in DOMAIN bss : a \in Int /\ a < kernel_end /\ bss[a] = 0

(* The early allocator ends where its region ends. *)
InRegion(k) ==
  /\ addr_end = regions[k].base + regions[k].size
  /\ regions[k].base <= kernel_end
  /\ pc \in Placing \cup {"done"} => regions[k].base <= frames
Cut == pc \notin {"bss", "region", "err"} => \E k \in DOMAIN regions : InRegion(k)

Stage ==
  /\ pc = "align" => addr_begin = kernel_end
  /\ pc \in {"count", "allocate"} => kernel_end <= addr_begin /\ addr_begin % SIZE = 0
  /\ pc = "allocate" => addr_begin <= addr_end /\ count_frames = Count(Capacity)
  /\ pc \in Placing => /\ kernel_end <= frames /\ frames % SIZE = 0 /\ frames <= addr_end
                       /\ count_frames = Count(addr_end - frames)
  /\ pc = "align_frames" => addr_begin = frames + StructSize * count_frames
  /\ pc = "check" => addr_begin = align_up(frames + StructSize * count_frames, SIZE)
  /\ pc \in {"update", "done"} =>
       /\ addr_begin % SIZE = 0 /\ frames + StructSize * count_frames <= addr_begin
       /\ addr_begin + count_frames * SIZE <= addr_end
  /\ pc = "done" => kernel_end = addr_begin

IInv == TypeOK /\ Image /\ Cut /\ Stage /\ AssertHoldsAligned

-------------------------------------------------------------------------------
(* Division and remainder. *)
LEMMA DivBounds ==
  ASSUME NEW a \in Int, NEW n \in Nat \ {0}
  PROVE  /\ a \div n \in Int /\ n * (a \div n) <= a /\ a < n * (a \div n) + n
         /\ a >= 0 => a \div n \in Nat
  OBVIOUS

LEMMA DivUnique ==
  ASSUME NEW a \in Int, NEW n \in Nat \ {0}, NEW q \in Int, n * q <= a, a < n * q + n
  PROVE  a \div n = q
<1> DEFINE p == a \div n
<1>1. p \in Int /\ n * p <= a /\ a < n * p + n
  BY DivBounds
<1> HIDE DEF p
<1>2. ~(p < q)
  <2>1. SUFFICES ASSUME p < q PROVE FALSE
    OBVIOUS
  <2>2. n * p + n <= n * q
    BY <1>1, <2>1
  <2> QED BY <1>1, <2>2
<1>3. ~(q < p)
  <2>1. SUFFICES ASSUME q < p PROVE FALSE
    OBVIOUS
  <2>2. n * q + n <= n * p
    BY <1>1, <2>1
  <2> QED BY <1>1, <2>2
<1>4. p = q
  BY <1>1, <1>2, <1>3
<1> QED BY <1>4 DEF p

LEMMA Multiples ==
  ASSUME NEW n \in Nat \ {0}
  PROVE  /\ \A q \in Int : (q * n) % n = 0
         /\ \A a \in Int : a % n = 0 => a = n * (a \div n)
<1>1. \A a \in Int : a % n = a - n * (a \div n)
  OBVIOUS
<1>2. ASSUME NEW q \in Int PROVE (q * n) % n = 0
  <2>1. q * n \in Int /\ n * q = q * n
    OBVIOUS
  <2>2. (q * n) \div n = q
    BY <2>1, DivUnique
  <2> QED BY <1>1, <2>1, <2>2
<1>3. ASSUME NEW a \in Int, a % n = 0 PROVE a = n * (a \div n)
  BY <1>1, <1>3, DivBounds
<1> QED BY <1>2, <1>3

(* align_up: the least multiple that is not below. *)
LEMMA AlignUp ==
  ASSUME NEW a \in Nat, NEW n \in Nat \ {0}
  PROVE  /\ align_up(a, n) \in Nat /\ a <= align_up(a, n) /\ align_up(a, n) % n = 0
         /\ \A q \in Int : a <= n * q => align_up(a, n) <= n * q
<1> DEFINE q == (a + n - 1) \div n
<1>1. a + n - 1 \in Nat
  OBVIOUS
<1>2. q \in Nat /\ n * q <= a + n - 1 /\ a + n - 1 < n * q + n
  BY <1>1, DivBounds
<1>3. align_up(a, n) = q * n
  BY DEF align_up
<1> HIDE DEF q
<1>4. q * n = n * q /\ q * n \in Nat
  BY <1>2
<1>5. a <= q * n
  BY <1>2, <1>4
<1>6. (q * n) % n = 0
  BY <1>2, Multiples
<1>7. ASSUME NEW p \in Int, a <= n * p PROVE q * n <= n * p
  <2>1. q <= p
    <3>1. SUFFICES ASSUME p < q PROVE FALSE
      BY <1>2
    <3>2. n * p + n <= n * q
      BY <1>2, <3>1
    <3> QED BY <1>2, <1>7, <3>2
  <2>2. n * q <= n * p
    BY <1>2, <2>1
  <2> QED BY <1>4, <2>2
<1> QED BY <1>3, <1>4, <1>5, <1>6, <1>7

(* What is aligned for a frame is aligned for an element of the array. *)
LEMMA ElementAligned ==
  ASSUME NEW a \in Nat, a % SIZE = 0
  PROVE  align_up(a, StructAlign) = a
<1>1. SIZE \in Nat \ {0} /\ StructAlign \in Nat \ {0} /\ SIZE % StructAlign = 0
  BY SizeAssumption
<1> DEFINE p == a \div SIZE
           r == SIZE \div StructAlign
<1>2. a = SIZE * p /\ p \in Int
  BY <1>1, Multiples, DivBounds
<1>3. SIZE = StructAlign * r /\ r \in Int
  BY <1>1, Multiples, DivBounds
<1> HIDE DEF p, r
<1>4. r * p \in Int /\ a = StructAlign * (r * p)
  <2>1. a = (StructAlign * r) * p
    BY <1>2, <1>3
  <2> QED BY <1>1, <1>2, <1>3, <2>1
<1>5. PICK m \in Int : a = StructAlign * m
  BY <1>4
<1>6. align_up(a, StructAlign) \in Nat /\ a <= align_up(a, StructAlign)
  BY <1>1, AlignUp
<1>7. \A q \in Int : a <= StructAlign * q => align_up(a, StructAlign) <= StructAlign * q
  BY <1>1, AlignUp
<1>8. align_up(a, StructAlign) <= a
  BY <1>5, <1>7
<1> QED BY <1>6, <1>8

(* The count of frames is never negative. *)
LEMMA CountNat == ASSUME NEW cap \in Nat PROVE Count(cap) \in Nat
<1> DEFINE q == cap \div SIZE
<1>1. SIZE \in Nat \ {0} /\ StructSize \in Nat /\ StructSize <= SIZE
  BY SizeAssumption
<1>2. q \in Nat /\ SIZE * q <= cap
  BY <1>1, DivBounds
<1>3. Count(cap) = (cap - q * StructSize) \div SIZE
  BY DEF Count
<1> HIDE DEF q
<1>4. q * StructSize <= SIZE * q
  BY <1>1, <1>2
<1>5. cap - q * StructSize \in Nat
  BY <1>1, <1>2, <1>4
<1> QED BY <1>1, <1>3, <1>5, DivBounds

(* In n whole frames there is room for the counted frames behind the array
   that has an element for each of them. *)
LEMMA CountRoom ==
  ASSUME NEW n \in Nat
  PROVE  LET c == Count(SIZE * n) IN c \in Nat /\ StructSize * c <= SIZE * (n - c)
<1> DEFINE c == Count(SIZE * n)
<1>1. SIZE \in Nat \ {0} /\ StructSize \in Nat /\ StructSize <= SIZE
  BY SizeAssumption
<1>2. SIZE * n \in Nat
  BY <1>1
<1>3. c \in Nat
  BY <1>2, CountNat
<1>4. (SIZE * n) \div SIZE = n
  BY <1>1, <1>2, DivUnique
<1>5. c = (SIZE * n - n * StructSize) \div SIZE
  BY <1>4 DEF Count
<1>6. SIZE * n - n * StructSize \in Int
  BY <1>1
<1>7. SIZE * c <= SIZE * n - n * StructSize
  BY <1>1, <1>5, <1>6, DivBounds
<1> HIDE DEF c
<1>8. n * StructSize \in Nat /\ SIZE * c <= SIZE * n
  BY <1>1, <1>3, <1>7
<1>9. c <= n
  <2>1. SUFFICES ASSUME n < c PROVE FALSE
    BY <1>3
  <2>2. SIZE * n + SIZE <= SIZE * c
    BY <1>1, <1>3, <2>1
  <2> QED BY <1>1, <1>3, <1>8, <2>2
<1>10. StructSize * c <= n * StructSize
  BY <1>1, <1>3, <1>9
<1>11. SIZE * (n - c) = SIZE * n - SIZE * c
  BY <1>1, <1>3
<1>12. StructSize * c <= SIZE * (n - c)
  BY <1>1, <1>3, <1>7, <1>10, <1>11
<1> QED BY <1>3, <1>12 DEF c

-------------------------------------------------------------------------------
(* What the assumptions and the invariant say of the image and the sizes. *)
LEMMA Facts ==
  ASSUME IInv
  PROVE  /\ kernel_end \in Nat /\ addr_begin \in Nat /\ addr_end \in Nat
         /\ frames \in Nat /\ count_frames \in Nat
         /\ SIZE \in Nat \ {0} /\ StructSize \in Nat /\ StructAlign \in Nat \ {0}
         /\ regions \in Seq([base : Nat, size : Nat]) /\ regions \in MemoryMaps
<1>1. regions \in MemoryMaps
  BY DEF IInv, Image
<1> QED BY <1>1, SizeAssumption, MapAssumption DEF IInv, TypeOK

LEMMA InitIInv == Init => IInv
<1> SUFFICES ASSUME Init PROVE IInv
  OBVIOUS
<1>1. /\ regions \in MemoryMaps /\ kernel_end \in KernelEnds /\ kernel_end \in Nat
      /\ addr_begin = 0 /\ addr_end = 0 /\ frames = 0 /\ count_frames = 0 /\ pc = "bss"
  BY ImageAssumption DEF Init
<1>2. TypeOK
  BY <1>1 DEF TypeOK
<1>3. Image
  <2>1. BssSize \in Nat
    BY ImageAssumption
  <2>2. bss = [a \in (kernel_end - BssSize) .. (kernel_end - 1) |-> 0]
    BY DEF Init
  <2>3. \A a \in DOMAIN bss : a \in Int /\ a < kernel_end /\ bss[a] = 0
    BY <1>1, <2>1, <2>2
  <2> QED BY <1>1, <2>3 DEF Image
<1>4. Cut
  BY <1>1 DEF Cut
<1>5. Stage
  BY <1>1 DEF Stage, Placing
<1>6. AssertHoldsAligned
  BY <1>1 DEF AssertHoldsAligned
<1> QED BY <1>2, <1>3, <1>4, <1>5, <1>6 DEF IInv

(* clean_bss_section stores nothing: the length it passes is 0. *)
LEMMA CleanBssIInv == ASSUME IInv, CleanBss PROVE IInv'
<1>1. /\ pc = "bss" /\ bss' = memset(BssSize, 0) /\ pc' = "region"
      /\ UNCHANGED <<regions, kernel_end, addr_begin, addr_end, frames, count_frames>>
  BY DEF CleanBss
<1>2. BssSize \in Nat /\ kernel_end \in Nat
  BY ImageAssumption, Facts
<1>3. (kernel_end - BssSize) .. (kernel_end - BssSize + 0 - 1) = {}
  BY <1>2
<1>4. DOMAIN bss' = DOMAIN bss /\ \A a \in DOMAIN bss : bss'[a] = bss[a]
  BY <1>1, <1>3 DEF memset, Stored
<1>5. Image'
  BY <1>1, <1>4 DEF IInv, Image
<1>6. TypeOK' /\ Cut' /\ AssertHoldsAligned'
  BY <1>1 DEF IInv, TypeOK, Cut, AssertHoldsAligned
<1>7. Stage'
  BY <1>1 DEF Stage, Placing
<1> QED BY <1>5, <1>6, <1>7 DEF IInv

(* The early allocator begins behind the image, in the region of the image. *)
LEMMA NewEarlyAllocatorIInv == ASSUME IInv, NewEarlyAllocator PROVE IInv'
<1>1. /\ pc = "region" /\ UNCHANGED <<bss, regions, kernel_end, frames, count_frames>>
  BY DEF NewEarlyAllocator
<1>2. CASE pc' = "err" /\ UNCHANGED <<addr_begin, addr_end>>
  <2>1. TypeOK' /\ Cut' /\ AssertHoldsAligned'
    BY <1>1, <1>2 DEF IInv, TypeOK, Cut, AssertHoldsAligned
  <2>2. Image'
    BY <1>1, <1>2 DEF IInv, Image
  <2>3. Stage'
    BY <1>2 DEF Stage, Placing
  <2> QED BY <2>1, <2>2, <2>3 DEF IInv
<1>3. ASSUME NEW k \in DOMAIN regions, FirstUsable(k), addr_begin' = kernel_end,
             addr_end' = regions[k].base + regions[k].size,
             pc' = IF addr_begin' < addr_end' THEN "align" ELSE "panic"
      PROVE  IInv'
  <2>1. /\ regions[k] \in [base : Nat, size : Nat] /\ kernel_end \in Nat
        /\ \A j \in 1 .. (k - 1) : regions[j] \in [base : Nat, size : Nat]
    <3> DEFINE R == [base : Nat, size : Nat]
    <3>1. regions \in Seq(R) /\ kernel_end \in Nat
      BY Facts
    <3> HIDE DEF R
    <3>2. k \in 1 .. Len(regions) /\ \A j \in 1 .. (k - 1) : j \in 1 .. Len(regions)
      BY <3>1
    <3>3. \A j \in 1 .. Len(regions) : regions[j] \in R
      BY <3>1
    <3>4. regions[k] \in R /\ \A j \in 1 .. (k - 1) : regions[j] \in R
      BY <3>2, <3>3
    <3> QED BY <3>1, <3>4 DEF R
  <2>2. regions[k].base <= kernel_end
    <3>1. regions \in MemoryMaps /\ kernel_end \in KernelEnds /\ KernelBegin \in Nat
      BY <1>1, ImageAssumption DEF IInv, Image
    <3>2. KernelBegin <= regions[k].base /\ \A j \in 1 .. (k - 1) : regions[j].base < KernelBegin
      <4>1. \A j \in 1 .. (k - 1) : regions[j].base \in Nat
        BY <2>1
      <4> QED BY <1>3, <3>1, <4>1 DEF FirstUsable, Usable
    <3> QED BY <3>1, <3>2, MapAssumption
  <2>3. addr_end' \in Nat
    BY <1>3, <2>1
  <2>4. TypeOK'
    BY <1>1, <1>3, <2>1, <2>3 DEF IInv, TypeOK
  <2>5. Image'
    BY <1>1, <1>3 DEF IInv, Image
  <2>6. Cut'
    BY <1>1, <1>3, <2>2 DEF Cut, InRegion, Placing
  <2>7. Stage'
    BY <1>1, <1>3 DEF Stage, Placing
  <2>8. AssertHoldsAligned'
    BY <1>3 DEF AssertHoldsAligned
  <2> QED BY <2>4, <2>5, <2>6, <2>7, <2>8 DEF IInv
<1> QED BY <1>2, <1>3 DEF NewEarlyAllocator

LEMMA AlignArrayIInv == ASSUME IInv, AlignArray PROVE IInv'
<1>1. /\ pc = "align" /\ addr_begin' = align_up(addr_begin, SIZE) /\ pc' = "count"
      /\ UNCHANGED <<bss, regions, kernel_end, addr_end, frames, count_frames>>
  BY DEF AlignArray
<1>2. addr_begin = kernel_end
  BY <1>1 DEF IInv, Stage
<1>3. addr_begin' \in Nat /\ kernel_end <= addr_begin' /\ addr_begin' % SIZE = 0
  BY <1>1, <1>2, Facts, AlignUp
<1>4. TypeOK'
  BY <1>1, <1>3 DEF IInv, TypeOK
<1>5. Image'
  BY <1>1 DEF IInv, Image
<1>6. Cut'
  BY <1>1 DEF IInv, Cut, InRegion, Placing
<1>7. Stage'
  BY <1>1, <1>3 DEF Stage, Placing
<1>8. AssertHoldsAligned'
  BY <1>1 DEF AssertHoldsAligned
<1> QED BY <1>4, <1>5, <1>6, <1>7, <1>8 DEF IInv

LEMMA CountFramesIInv == ASSUME IInv, CountFrames PROVE IInv'
<1>1. /\ pc = "count"
      /\ UNCHANGED <<bss, regions, kernel_end, addr_begin, addr_end, frames>>
      /\ \/ Capacity < 0 /\ pc' = "panic" /\ count_frames' = count_frames
         \/ ~(Capacity < 0) /\ count_frames' = Count(Capacity) /\ pc' = "allocate"
  BY DEF CountFrames
<1>2. Capacity' = Capacity /\ Capacity = addr_end - addr_begin
  BY <1>1 DEF Capacity
<1>3. count_frames' \in Nat
  <2>1. CASE count_frames' = count_frames
    BY <2>1, Facts
  <2>2. CASE ~(Capacity < 0) /\ count_frames' = Count(Capacity)
    <3>1. Capacity \in Nat
      BY <1>2, <2>2, Facts
    <3> QED BY <2>2, <3>1, CountNat
  <2> QED BY <1>1, <2>1, <2>2
<1>4. TypeOK'
  BY <1>1, <1>3 DEF IInv, TypeOK
<1>5. Image'
  BY <1>1 DEF IInv, Image
<1>6. Cut'
  BY <1>1 DEF IInv, Cut, InRegion, Placing
<1>7. Stage'
  <2>1. CASE pc' = "panic"
    BY <2>1 DEF Stage, Placing
  <2>2. CASE pc' = "allocate"
    <3>1. kernel_end <= addr_begin /\ addr_begin % SIZE = 0
      BY <1>1 DEF IInv, Stage
    <3>2. ~(Capacity < 0) /\ count_frames' = Count(Capacity)
      BY <1>1, <2>2
    <3>3. addr_begin <= addr_end
      BY <1>2, <3>2, Facts
    <3>4. count_frames' = Count(Capacity')
      BY <1>2, <3>2
    <3>5. (count_frames = Count(Capacity))'
      BY <3>4 DEF Count
    <3> QED BY <1>1, <2>2, <3>1, <3>3, <3>5 DEF Stage, Placing
  <2> QED BY <1>1, <2>1, <2>2
<1>8. AssertHoldsAligned'
  BY <1>1 DEF AssertHoldsAligned
<1> QED BY <1>4, <1>5, <1>6, <1>7, <1>8 DEF IInv

(* The array begins where the aligned allocator stands. *)
LEMMA AllocateIInv == ASSUME IInv, Allocate PROVE IInv'
<1>1. /\ pc = "allocate" /\ frames' = align_up(addr_begin, StructAlign)
      /\ addr_begin' = frames' + StructSize * count_frames /\ pc' = "align_frames"
      /\ UNCHANGED <<bss, regions, kernel_end, addr_end, count_frames>>
  BY DEF Allocate
<1>2. /\ kernel_end <= addr_begin /\ addr_begin % SIZE = 0 /\ addr_begin <= addr_end
      /\ count_frames = Count(addr_end - addr_begin)
  BY <1>1 DEF IInv, Stage, Capacity
<1>3. frames' = addr_begin
  BY <1>1, <1>2, Facts, ElementAligned
<1>4. addr_begin' \in Nat
  BY <1>1, <1>3, Facts
<1>5. TypeOK'
  BY <1>1, <1>3, <1>4 DEF IInv, TypeOK
<1>6. Image'
  BY <1>1 DEF IInv, Image
<1>7. Cut'
  <2>1. PICK k \in DOMAIN regions : InRegion(k)
    BY <1>1 DEF IInv, Cut
  <2>2. /\ addr_end = regions[k].base + regions[k].size /\ regions[k].base <= kernel_end
    BY <2>1 DEF InRegion
  <2>3. regions[k].base <= addr_begin
    <3>1. regions[k].base \in Nat
      <4> DEFINE R == [base : Nat, size : Nat]
      <4>1. regions \in Seq(R)
        BY Facts
      <4> HIDE DEF R
      <4>2. regions[k] \in R
        BY <4>1
      <4> QED BY <4>2 DEF R
    <3>2. kernel_end \in Nat /\ addr_begin \in Nat
      BY Facts, Zenon
    <3>3. regions[k].base <= kernel_end /\ kernel_end <= addr_begin
      BY <1>2, <2>2
    <3> QED BY <3>1, <3>2, <3>3
  <2>4. InRegion(k)'
    BY <1>1, <1>3, <2>2, <2>3 DEF InRegion
  <2> QED BY <1>1, <2>4 DEF Cut
<1>8. Stage'
  <2>1. count_frames' = Count(addr_end' - frames')
    BY <1>1, <1>2, <1>3
  <2>2. (count_frames = Count(addr_end - frames))'
    BY <2>1 DEF Count
  <2>3. (addr_begin = frames + StructSize * count_frames)'
    BY <1>1
  <2> QED BY <1>1, <1>2, <1>3, <2>2, <2>3 DEF Stage, Placing
<1>9. AssertHoldsAligned'
  BY <1>1 DEF AssertHoldsAligned
<1> QED BY <1>5, <1>6, <1>7, <1>8, <1>9 DEF IInv

LEMMA AlignFramesIInv == ASSUME IInv, AlignFrames PROVE IInv'
<1>1. /\ pc = "align_frames" /\ addr_begin' = align_up(addr_begin, SIZE) /\ pc' = "check"
      /\ UNCHANGED <<bss, regions, kernel_end, addr_end, frames, count_frames>>
  BY DEF AlignFrames
<1>2. addr_begin' \in Nat
  BY <1>1, Facts, AlignUp
<1>3. TypeOK'
  BY <1>1, <1>2 DEF IInv, TypeOK
<1>4. Image'
  BY <1>1 DEF IInv, Image
<1>5. Cut'
  BY <1>1 DEF IInv, Cut, InRegion, Placing
<1>6. Stage'
  <2>1. /\ kernel_end <= frames /\ frames % SIZE = 0 /\ frames <= addr_end
        /\ count_frames = Count(addr_end - frames)
        /\ addr_begin = frames + StructSize * count_frames
    BY <1>1 DEF IInv, Stage, Placing
  <2>2. (count_frames = Count(addr_end - frames))'
    BY <1>1, <2>1 DEF Count
  <2>3. (addr_begin = align_up(frames + StructSize * count_frames, SIZE))'
    BY <1>1, <2>1 DEF align_up
  <2> QED BY <1>1, <2>1, <2>2, <2>3 DEF Stage, Placing
<1>7. AssertHoldsAligned'
  BY <1>1 DEF AssertHoldsAligned
<1> QED BY <1>3, <1>4, <1>5, <1>6, <1>7 DEF IInv

(* The assertion of memory::init: in a region that ends with a whole frame the
   counted frames fit behind the aligned end of the array. *)
LEMMA AssertionHolds ==
  ASSUME IInv, pc = "check", addr_end % SIZE = 0
  PROVE  Capacity >= 0 /\ count_frames <= Capacity \div SIZE
<1>1. /\ SIZE \in Nat \ {0} /\ StructSize \in Nat /\ frames \in Nat /\ addr_end \in Nat
      /\ addr_begin \in Nat
  BY Facts
<1>2. /\ frames % SIZE = 0 /\ frames <= addr_end /\ count_frames = Count(addr_end - frames)
      /\ addr_begin = align_up(frames + StructSize * count_frames, SIZE)
  BY DEF IInv, Stage, Placing
<1> DEFINE p == frames \div SIZE
           q == addr_end \div SIZE
<1>3. p \in Int /\ q \in Int /\ frames = SIZE * p /\ addr_end = SIZE * q
  BY <1>1, <1>2, Multiples, DivBounds
<1> HIDE DEF p, q
<1>4. p <= q
  <2>1. SUFFICES ASSUME q < p PROVE FALSE
    BY <1>3
  <2>2. SIZE * q + SIZE <= SIZE * p
    BY <1>1, <1>3, <2>1
  <2> QED BY <1>1, <1>2, <1>3, <2>2
<1>5. q - p \in Nat /\ addr_end - frames = SIZE * (q - p)
  BY <1>1, <1>3, <1>4
<1> DEFINE c == count_frames
<1>6. c \in Nat /\ StructSize * c <= SIZE * (q - p - c)
  BY <1>2, <1>5, CountRoom
<1> HIDE DEF c
<1>7. /\ SIZE * (q - p - c) = SIZE * q - SIZE * p - SIZE * c
      /\ SIZE * (q - c) = SIZE * q - SIZE * c
  BY <1>1, <1>3, <1>6
<1>8. q - c \in Int /\ StructSize * c \in Nat /\ SIZE * c \in Nat
  BY <1>1, <1>3, <1>6
<1>9. frames + StructSize * c <= SIZE * (q - c)
  BY <1>1, <1>3, <1>6, <1>7, <1>8
<1>10. frames + StructSize * c \in Nat
  BY <1>1, <1>8
<1>11. align_up(frames + StructSize * c, SIZE) <= SIZE * (q - c)
  BY <1>1, <1>8, <1>9, <1>10, AlignUp
<1>12. Capacity >= SIZE * c /\ Capacity \in Int
  BY <1>1, <1>2, <1>3, <1>7, <1>8, <1>11 DEF Capacity, c
<1> DEFINE d == Capacity \div SIZE
<1>13. d \in Int /\ Capacity < SIZE * d + SIZE
  BY <1>1, <1>12, DivBounds
<1> HIDE DEF d
<1>14. c <= d
  <2>1. SUFFICES ASSUME d < c PROVE FALSE
    BY <1>6, <1>13
  <2>2. SIZE * d + SIZE <= SIZE * c
    BY <1>1, <1>6, <1>13, <2>1
  <2> QED BY <1>1, <1>8, <1>12, <1>13, <2>2
<1> QED BY <1>8, <1>12, <1>14 DEF c, d

LEMMA CheckFramesIInv == ASSUME IInv, CheckFrames PROVE IInv'
<1>1. /\ pc = "check"
      /\ pc' = IF Capacity >= 0 /\ count_frames <= Capacity \div SIZE
                 THEN "update" ELSE "assert_failed"
      /\ UNCHANGED <<bss, regions, kernel_end, addr_begin, addr_end, frames, count_frames>>
  BY DEF CheckFrames
<1>2. TypeOK'
  BY <1>1 DEF IInv, TypeOK
<1>3. Image'
  BY <1>1 DEF IInv, Image
<1>4. Cut'
  BY <1>1 DEF IInv, Cut, InRegion, Placing
<1>5. Stage'
  <2>1. CASE pc' = "assert_failed"
    BY <2>1 DEF Stage, Placing
  <2>2. CASE pc' = "update"
    <3>1. /\ kernel_end <= frames /\ frames % SIZE = 0 /\ frames <= addr_end
          /\ count_frames = Count(addr_end - frames)
          /\ addr_begin = align_up(frames + StructSize * count_frames, SIZE)
      BY <1>1 DEF IInv, Stage, Placing
    <3>2. /\ SIZE \in Nat \ {0} /\ frames + StructSize * count_frames \in Nat
          /\ count_frames \in Nat /\ addr_end \in Nat /\ addr_begin \in Nat
      <4>1. /\ frames \in Nat /\ StructSize \in Nat /\ count_frames \in Nat
            /\ SIZE \in Nat \ {0} /\ addr_end \in Nat /\ addr_begin \in Nat
        BY Facts, Zenon
      <4> QED BY <4>1
    <3>3. addr_begin % SIZE = 0 /\ frames + StructSize * count_frames <= addr_begin
      BY <3>1, <3>2, AlignUp
    <3>4. addr_begin + count_frames * SIZE <= addr_end
      <4> DEFINE d == Capacity \div SIZE
      <4>1. Capacity \in Int /\ Capacity = addr_end - addr_begin
        BY <3>2 DEF Capacity
      <4>2. d \in Int /\ SIZE * d <= Capacity /\ count_frames <= d
        BY <1>1, <2>2, <3>2, <4>1, DivBounds
      <4> HIDE DEF d
      <4>3. count_frames * SIZE <= SIZE * d
        BY <3>2, <4>2
      <4> QED BY <3>2, <4>1, <4>2, <4>3
    <3>5. (count_frames = Count(addr_end - frames))'
      BY <1>1, <3>1 DEF Count
    <3> QED BY <1>1, <2>2, <3>1, <3>3, <3>4, <3>5 DEF Stage, Placing
  <2> QED BY <1>1, <2>1, <2>2
<1>6. AssertHoldsAligned'
  <2> SUFFICES ASSUME AllAligned PROVE pc' # "assert_failed"
    BY <1>1 DEF AssertHoldsAligned, AllAligned
  <2>1. PICK k \in DOMAIN regions : InRegion(k)
    BY <1>1 DEF IInv, Cut
  <2>2. addr_end % SIZE = 0
    BY <2>1 DEF AllAligned, InRegion
  <2> QED BY <1>1, <2>2, AssertionHolds
<1> QED BY <1>2, <1>3, <1>4, <1>5, <1>6 DEF IInv

(* The elements that are written lie behind the statics. *)
LEMMA UpdateKernelEndIInv == ASSUME IInv, UpdateKernelEnd PROVE IInv'
<1>1. /\ pc = "update" /\ kernel_end' = addr_begin /\ pc' = "done"
      /\ bss' = Stored(bss, frames .. (frames + StructSize * count_frames - 1), 1)
      /\ UNCHANGED <<regions, addr_begin, addr_end, frames, count_frames>>
  BY DEF UpdateKernelEnd
<1>2. /\ kernel_end <= frames /\ frames + StructSize * count_frames <= addr_begin
      /\ addr_begin % SIZE = 0 /\ addr_begin + count_frames * SIZE <= addr_end
  BY <1>1 DEF IInv, Stage, Placing
<1>3. /\ kernel_end \in Nat /\ frames \in Nat /\ addr_begin \in Nat
      /\ StructSize * count_frames \in Nat
  BY Facts
<1>4. kernel_end <= addr_begin
  BY <1>2, <1>3
<1>5. TypeOK'
  BY <1>1 DEF IInv, TypeOK
<1>6. Image'
  <2>1. \A a \in DOMAIN bss : a \in Int /\ a < kernel_end /\ bss[a] = 0
    BY DEF IInv, Image
  <2>2. \A a \in DOMAIN bss : a \notin frames .. (frames + StructSize * count_frames - 1)
    BY <1>2, <1>3, <2>1
  <2>3. DOMAIN bss' = DOMAIN bss /\ \A a \in DOMAIN bss : bss'[a] = 0
    BY <1>1, <2>1, <2>2 DEF Stored
  <2>4. \A a \in DOMAIN bss : a < addr_begin
    BY <1>3, <1>4, <2>1
  <2> QED BY <1>1, <2>1, <2>3, <2>4 DEF IInv, Image
<1>7. Cut'
  <2>1. PICK k \in DOMAIN regions : InRegion(k)
    BY <1>1 DEF IInv, Cut
  <2>2. /\ addr_end = regions[k].base + regions[k].size /\ regions[k].base <= frames
    BY <1>1, <2>1 DEF InRegion, Placing
  <2>3. regions[k].base <= addr_begin
    <3>1. regions[k].base \in Nat
      <4> DEFINE R == [base : Nat, size : Nat]
      <4>1. regions \in Seq(R)
        BY Facts
      <4> HIDE DEF R
      <4>2. regions[k] \in R
        BY <4>1
      <4> QED BY <4>2 DEF R
    <3> QED BY <1>2, <1>3, <2>2, <3>1
  <2>4. InRegion(k)'
    BY <1>1, <2>2, <2>3 DEF InRegion
  <2> QED BY <1>1, <2>4 DEF Cut
<1>8. Stage'
  BY <1>1, <1>2 DEF Stage, Placing
<1>9. AssertHoldsAligned'
  BY <1>1 DEF AssertHoldsAligned
<1> QED BY <1>5, <1>6, <1>7, <1>8, <1>9 DEF IInv

(* Every step preserves the invariant. *)
LEMMA NextIInv == IInv /\ [Next]_vars => IInv'
<1> SUFFICES ASSUME IInv, [Next]_vars PROVE IInv'
  OBVIOUS
<1>1. CASE CleanBss \/ NewEarlyAllocator \/ AlignArray \/ CountFrames
  BY <1>1, CleanBssIInv, NewEarlyAllocatorIInv, AlignArrayIInv, CountFramesIInv
<1>2. CASE Allocate \/ AlignFrames \/ CheckFrames \/ UpdateKernelEnd
  BY <1>2, AllocateIInv, AlignFramesIInv, CheckFramesIInv, UpdateKernelEndIInv
<1>3. CASE UNCHANGED vars
  <2>1. UNCHANGED <<bss, regions, kernel_end, addr_begin, addr_end, frames, count_frames, pc>>
    BY <1>3 DEF vars
  <2>2. TypeOK' /\ Image'
    BY <2>1 DEF IInv, TypeOK, Image
  <2>3. Cut'
    BY <2>1 DEF IInv, Cut, InRegion
  <2>4. Stage'
    BY <2>1 DEF IInv, Stage, Capacity, Count, align_up
  <2>5. AssertHoldsAligned'
    BY <2>1 DEF IInv, AssertHoldsAligned, AllAligned
  <2> QED BY <2>2, <2>3, <2>4, <2>5 DEF IInv
<1> QED BY <1>1, <1>2, <1>3 DEF Next, Halt

(* The invariant holds at every step of memory::init. *)
THEOREM InvariantHolds == Spec => []IInv
  BY InitIInv, NextIInv, PTL DEF Spec

(* The sizes and addresses that memory::init computes never wrap below zero. *)
THEOREM TypeCorrect == Spec => []TypeOK
<1>1. IInv => TypeOK
  BY DEF IInv
<1> QED BY <1>1, InvariantHolds, PTL

(* clean_bss_section and the elements of the frame array leave the statics as
   the boot loader set them. *)
THEOREM StaticsUntouched == Spec => []StaticsStayZero
<1>1. IInv => StaticsStayZero
  BY DEF IInv, Image, StaticsStayZero
<1> QED BY <1>1, InvariantHolds, PTL

(* The buddy allocator gets whole frames of the region of the image, behind
   the array, and the array is behind the image. *)
THEOREM FramesAreUsable == Spec => []FramesUsable
<1>1. IInv => FramesUsable
  <2> SUFFICES ASSUME IInv, pc = "done"
               PROVE  /\ kernel_end % SIZE = 0
                      /\ frames + StructSize * count_frames <= kernel_end
                      /\ InFreeRegion(frames, kernel_end + count_frames * SIZE)
    BY DEF FramesUsable
  <2>1. /\ kernel_end = addr_begin /\ addr_begin % SIZE = 0
        /\ frames + StructSize * count_frames <= addr_begin
        /\ addr_begin + count_frames * SIZE <= addr_end
    BY DEF IInv, Stage
  <2>2. PICK k \in DOMAIN regions : InRegion(k)
    BY DEF IInv, Cut
  <2>3. regions[k].base <= frames /\ addr_end = regions[k].base + regions[k].size
    BY <2>2 DEF InRegion
  <2>4. InFreeRegion(frames, kernel_end + count_frames * SIZE)
    BY <2>1, <2>3 DEF InFreeRegion
  <2> QED BY <2>1, <2>4
<1> QED BY <1>1, InvariantHolds, PTL

(* The debug assertion of memory::init never fails on a memory map whose
   regions end with whole frames, whatever the sizes. *)
THEOREM AssertNeverFails == Spec => []AssertHoldsAligned
<1>1. IInv => AssertHoldsAligned
  BY DEF IInv
<1> QED BY <1>1, InvariantHolds, PTL
=============================================================================
