---------------------------- MODULE DisplaysProofs ----------------------------
(***************************************************************************)
(* The two displays, for every size of the screen and any number of calls: *)
(* the text screen always shows the end of what was printed, and the       *)
(* graphics memory always shows the areas that were filled.                *)
(*                                                                         *)
(* ScreenShowsPaper is inductive but for the types and for the cursor,     *)
(* which must be on the screen (`Types`).  The proof is about the one      *)
(* dimension of the video memory: distinct places of the screen are        *)
(* distinct cells of it, and a scroll moves a row by `width` cells.        *)
(* MemoryShowsCanvas is about the end of a call, so its invariant, `GInv`, *)
(* also says what the loops have done in the middle of one.                *)
(***************************************************************************)
EXTENDS Displays, TLAPS

Rows  == 0 .. (height - 1)
Pixel == [char : Nat, attr : {BitOr(a, b) : a \in Nat, b \in Nat}] \cup {Cleared}

Types ==
  /\ vram \in [Cells -> Pixel]
  /\ paper \in Seq([Cols -> Pixel]) /\ height <= Len(paper)
  /\ x \in Cols /\ y \in Rows
  /\ bg \in Nat /\ fg \in Nat

IInv == Types /\ ScreenShowsPaper

-------------------------------------------------------------------------------
(* Places on the screen and cells of the memory. *)

LEMMA Sizes ==
  /\ width \in Nat \ {0} /\ height \in Nat \ {0} /\ Area \in Nat \ {0}
  /\ Area = width * height
  BY SizeAssumption DEF Area

(* A row begins where the one before ends. *)
LEMMA NextRow ==
  ASSUME NEW r \in Int, NEW c \in Int
  PROVE  (r + 1) * width + c = (r * width + c) + width
  BY Sizes

(* Every place has a cell; those of the last row have no cell a row further. *)
LEMMA CellOf ==
  ASSUME NEW r \in Rows, NEW c \in Cols
  PROVE  /\ r * width + c \in Cells
         /\ (r * width + c) + width < Area <=> r + 1 < height
<1>1. /\ r \in Nat /\ r <= height - 1 /\ c \in Nat /\ c <= width - 1
      /\ width \in Nat \ {0} /\ height \in Nat \ {0}
  BY Sizes DEF Rows, Cols
<1> DEFINE a == r * width
<1>2. a \in Nat
  BY <1>1
<1>3. a + width <= Area
  <2>1. a + width = (r + 1) * width
    BY <1>1
  <2>2. (r + 1) * width <= height * width
    BY <1>1
  <2>3. height * width = Area
    BY <1>1 DEF Area
  <2> QED BY <2>1, <2>2, <2>3
<1>4. ASSUME r + 1 < height PROVE a + width + width <= Area
  <2>1. a + width + width = (r + 2) * width
    BY <1>1
  <2>2. (r + 2) * width <= height * width
    BY <1>1, <1>4
  <2>3. height * width = Area
    BY <1>1 DEF Area
  <2> QED BY <2>1, <2>2, <2>3
<1>5. ASSUME ~(r + 1 < height) PROVE a + width = Area
  <2>1. r + 1 = height
    BY <1>1, <1>5
  <2>2. a + width = (r + 1) * width
    BY <1>1
  <2> QED BY <1>1, <2>1, <2>2 DEF Area
<1> HIDE DEF a
<1>6. a + c \in Cells
  BY <1>1, <1>2, <1>3, Sizes DEF Cells
<1>7. a + c + width < Area <=> r + 1 < height
  BY <1>1, <1>2, <1>4, <1>5, Sizes
<1> QED BY <1>6, <1>7 DEF a

(* Different places have different cells. *)
LEMMA CellsDiffer ==
  ASSUME NEW r \in Rows, NEW c \in Cols, NEW q \in Rows, NEW d \in Cols,
         r * width + c = q * width + d
  PROVE  r = q /\ c = d
<1>1. /\ r \in Nat /\ q \in Nat /\ c \in Nat /\ c <= width - 1 /\ d \in Nat /\ d <= width - 1
      /\ width \in Nat \ {0}
  BY Sizes DEF Rows, Cols
<1>2. ~(r < q)
  <2>1. SUFFICES ASSUME r < q PROVE FALSE
    OBVIOUS
  <2>2. r * width + width <= q * width
    <3>1. r * width + width = (r + 1) * width
      BY <1>1
    <3>2. (r + 1) * width <= q * width
      BY <1>1, <2>1
    <3> QED BY <3>1, <3>2
  <2> QED BY <1>1, <2>2
<1>3. ~(q < r)
  <2>1. SUFFICES ASSUME q < r PROVE FALSE
    OBVIOUS
  <2>2. q * width + width <= r * width
    <3>1. q * width + width = (q + 1) * width
      BY <1>1
    <3>2. (q + 1) * width <= r * width
      BY <1>1, <2>1
    <3> QED BY <3>1, <3>2
  <2> QED BY <1>1, <2>2
<1>4. r = q
  BY <1>1, <1>2, <1>3
<1> QED BY <1>1, <1>4

-------------------------------------------------------------------------------
(* The values. *)

LEMMA GenPixelType ==
  ASSUME Types, NEW c \in Nat PROVE GenPixel(c) \in Pixel
<1>1. c % 256 \in Nat /\ (c \div 256) % 256 \in Nat /\ bg * 16 + fg \in Nat
  BY DEF Types
<1>2. BitOr(bg * 16 + fg, (c \div 256) % 256) \in {BitOr(a, b) : a \in Nat, b \in Nat}
  BY <1>1
<1> QED BY <1>1, <1>2 DEF GenPixel, Pixel

LEMMA BlankType == ASSUME Types PROVE Blank \in [Cols -> Pixel]
<1>1. GenPixel(SPACE) \in Pixel
  BY GenPixelType DEF SPACE
<1> QED BY <1>1 DEF Blank

LEMMA ScrolledType ==
  ASSUME Types, NEW mem \in [Cells -> Pixel] PROVE Scrolled(mem) \in [Cells -> Pixel]
<1>1. GenPixel(SPACE) \in Pixel
  BY GenPixelType DEF SPACE
<1>2. ASSUME NEW k \in Cells, k + width < Area PROVE k + width \in Cells
  BY <1>2, Sizes DEF Cells
<1> QED BY <1>1, <1>2 DEF Scrolled

(* The pen is on the roll, where the cursor is. *)
LEMMA PenFacts ==
  ASSUME IInv
  PROVE  /\ pen[1] = Top + 1 + y /\ pen[2] = x /\ Top \in Nat /\ Len(paper) \in Nat
         /\ Top + height = Len(paper) /\ pen[1] \in 1 .. Len(paper)
         /\ y \in Nat /\ x \in Nat /\ x < width /\ y < height
<1>1. /\ Len(paper) \in Nat /\ height <= Len(paper) /\ x \in Cols /\ y \in Rows
  BY DEF IInv, Types
<1>2. pen = <<Top + 1 + y, x>>
  BY DEF IInv, ScreenShowsPaper
<1> QED BY <1>1, <1>2, Sizes DEF Top, Rows, Cols

(* A character that is put on the screen and on the roll. *)
Put(c)     == IF c = NEWLINE THEN vram ELSE [vram EXCEPT ![x + y * width] = GenPixel(c)]
Written(c) == IF c = NEWLINE THEN paper ELSE [paper EXCEPT ![pen[1]][pen[2]] = GenPixel(c)]

LEMMA PutShows ==
  ASSUME IInv, NEW c \in Nat
  PROVE  /\ Put(c) \in [Cells -> Pixel]
         /\ Written(c) \in Seq([Cols -> Pixel]) /\ Len(Written(c)) = Len(paper)
         /\ \A r \in Rows, d \in Cols : Put(c)[r * width + d] = Written(c)[Top + 1 + r][d]
<1>1. /\ vram \in [Cells -> Pixel] /\ paper \in Seq([Cols -> Pixel]) /\ x \in Cols /\ y \in Rows
  BY DEF IInv, Types
<1>2. \A r \in Rows, d \in Cols : vram[r * width + d] = paper[Top + 1 + r][d]
  BY DEF IInv, ScreenShowsPaper, Rows
<1>3. CASE c = NEWLINE
  BY <1>1, <1>2, <1>3 DEF Put, Written
<1>4. CASE c # NEWLINE
  <2> DEFINE g == GenPixel(c)
             p == pen[1]
             a == x + y * width
             row == [paper[p] EXCEPT ![x] = g]
             R == [Cols -> Pixel]
  <2>1. g \in Pixel
    BY GenPixelType DEF IInv
  <2>2. p \in 1 .. Len(paper) /\ p = Top + 1 + y /\ pen[2] = x /\ Top \in Nat /\ y \in Nat
    BY PenFacts
  <2>3. a = y * width + x /\ a \in Cells
    <3>1. y * width + x \in Cells
      BY <1>1, CellOf
    <3>2. x \in Int /\ y * width \in Int
      BY <1>1, Sizes DEF Rows, Cols
    <3>3. y * width + x = x + y * width
      BY <3>2
    <3> QED BY <3>1, <3>3
  <2>4. Put(c) = [vram EXCEPT ![a] = g]
    BY <1>4 DEF Put
  <2>5. Written(c) = [paper EXCEPT ![p] = row]
    BY <1>4, <2>2 DEF Written
  <2> HIDE DEF g, a
  <2>6. paper[p] \in R /\ row \in R
    <3>1. paper \in Seq(R)
      BY <1>1
    <3> HIDE DEF R
    <3>2. paper[p] \in R
      BY <2>2, <3>1
    <3> QED BY <1>1, <2>1, <3>2 DEF R
  <2> HIDE DEF p
  <2>7. Written(c) \in Seq(R) /\ Len(Written(c)) = Len(paper)
    <3>1. paper \in Seq(R)
      BY <1>1
    <3> HIDE DEF R, row
    <3> QED BY <2>2, <2>5, <2>6, <3>1
  <2>8. ASSUME NEW r \in Rows, NEW d \in Cols
        PROVE  Put(c)[r * width + d] = Written(c)[Top + 1 + r][d]
    <3>1. r * width + d \in Cells
      BY CellOf
    <3>2. Top + 1 + r \in 1 .. Len(paper)
      <4>1. Top \in Nat /\ Len(paper) \in Nat /\ Top + height = Len(paper)
        BY PenFacts
      <4>2. r \in Nat /\ r <= height - 1 /\ height \in Nat
        BY Sizes DEF Rows
      <4> HIDE DEF R
      <4> QED BY <4>1, <4>2
    <3>3. CASE r = y /\ d = x
      <4>1. Put(c)[r * width + d] = g
        BY <1>1, <2>3, <2>4, <3>3
      <4>2. Written(c)[p] = row
        <5> HIDE DEF row, R
        <5> QED BY <1>1, <2>2, <2>5 DEF R
      <4>3. row[x] = g
        BY <1>1, <2>6
      <4> QED BY <2>2, <3>3, <4>1, <4>2, <4>3
    <3>4. CASE r = y /\ d # x
      <4>1. r * width + d # a
        BY <1>1, <2>3, <3>4, CellsDiffer
      <4>2. Put(c)[r * width + d] = vram[r * width + d]
        BY <1>1, <2>4, <3>1, <4>1
      <4>3. Written(c)[p] = row
        <5> HIDE DEF row, R
        <5> QED BY <1>1, <2>2, <2>5 DEF R
      <4>4. row[d] = paper[p][d]
        BY <1>1, <2>6, <3>4
      <4> QED BY <1>2, <2>2, <3>4, <4>2, <4>3, <4>4
    <3>5. CASE r # y
      <4>1. r * width + d # a
        BY <1>1, <2>3, <3>5, CellsDiffer
      <4>2. Put(c)[r * width + d] = vram[r * width + d]
        BY <1>1, <2>4, <3>1, <4>1
      <4>3. Top + 1 + r # p
        BY <2>2, <3>5 DEF Rows
      <4>4. Written(c)[Top + 1 + r] = paper[Top + 1 + r]
        <5> HIDE DEF row, R
        <5> QED BY <1>1, <2>5, <3>2, <4>3 DEF R
      <4> QED BY <1>2, <4>2, <4>4
    <3> QED BY <3>3, <3>4, <3>5
  <2> QED BY <2>1, <2>3, <2>4, <1>1, <2>7, <2>8
<1> QED BY <1>3, <1>4

-------------------------------------------------------------------------------
(* The character is put, then the cursor goes on, and the screen scrolls when
   it leaves the last row. *)
LEMMA PrintCharStep ==
  ASSUME IInv, NEW c \in Nat, PrintChar(c)
  PROVE  /\ panicked' = panicked /\ bg' = bg /\ fg' = fg
         /\ \/ /\ c # NEWLINE /\ x + 1 < width
               /\ x' = x + 1 /\ y' = y /\ vram' = Put(c)
               /\ pen' = <<pen[1], x + 1>> /\ paper' = Written(c)
            \/ /\ y + 1 < height
               /\ x' = 0 /\ y' = y + 1 /\ vram' = Put(c)
               /\ pen' = <<pen[1] + 1, 0>> /\ paper' = Written(c)
            \/ /\ y + 1 = height
               /\ x' = 0 /\ y' = y /\ vram' = Scrolled(Put(c))
               /\ pen' = <<pen[1] + 1, 0>> /\ paper' = Append(Written(c), Blank)
<1>1. /\ pen[1] = Top + 1 + y /\ pen[2] = x /\ Top \in Nat /\ Len(paper) \in Nat
      /\ Top + height = Len(paper) /\ pen[1] \in 1 .. Len(paper)
      /\ y \in Nat /\ x \in Nat /\ x < width /\ y < height
  BY PenFacts
<1>2. width \in Nat \ {0} /\ height \in Nat \ {0}
  BY Sizes
<1>3. x + y * width \in Cells
  <2>1. y * width + x \in Cells
    BY CellOf DEF IInv, Types
  <2>2. y * width \in Int
    BY <1>1, <1>2
  <2>3. y * width + x = x + y * width
    BY <1>1, <2>2
  <2> QED BY <2>1, <2>3
<1>4. /\ x' = After(c)[1]
      /\ IF height <= After(c)[2] THEN vram' = Scrolled(Put(c)) /\ y' = After(c)[2] - 1
                                  ELSE vram' = Put(c) /\ y' = After(c)[2]
      /\ Write(c) /\ panicked' = panicked /\ bg' = bg /\ fg' = fg
  BY <1>3 DEF PrintChar, Put
<1> DEFINE next == IF c # NEWLINE /\ pen[2] + 1 < width THEN <<pen[1], pen[2] + 1>>
                   ELSE <<pen[1] + 1, 0>>
<1>5. /\ pen' = next
      /\ paper' = IF next[1] <= Len(paper) THEN Written(c) ELSE Append(Written(c), Blank)
  BY <1>4 DEF Write, Written
<1>6. CASE c # NEWLINE /\ x + 1 < width
  <2>1. After(c) = <<x + 1, y>>
    BY <1>1, <1>2, <1>6 DEF After, Wrapped
  <2>2. next = <<pen[1], x + 1>> /\ next[1] <= Len(paper)
    BY <1>1, <1>6
  <2>3. x' = x + 1 /\ y' = y /\ vram' = Put(c)
    BY <1>1, <1>2, <1>4, <2>1
  <2> QED BY <1>4, <1>5, <1>6, <2>2, <2>3
<1>7. CASE ~(c # NEWLINE /\ x + 1 < width)
  <2>1. After(c) = <<0, y + 1>>
    BY <1>1, <1>2, <1>7 DEF After, Wrapped
  <2>2. next = <<pen[1] + 1, 0>>
    BY <1>1, <1>7
  <2>3. CASE y + 1 < height
    <3>1. x' = 0 /\ y' = y + 1 /\ vram' = Put(c)
      BY <1>1, <1>2, <1>4, <2>1, <2>3
    <3>2. pen[1] + 1 <= Len(paper)
      BY <1>1, <1>2, <2>3
    <3> QED BY <1>4, <1>5, <2>2, <2>3, <3>1, <3>2
  <2>4. CASE y + 1 = height
    <3>1. x' = 0 /\ y' = y /\ vram' = Scrolled(Put(c))
      BY <1>1, <1>2, <1>4, <2>1, <2>4
    <3>2. ~(pen[1] + 1 <= Len(paper))
      BY <1>1, <1>2, <2>4
    <3> QED BY <1>4, <1>5, <2>2, <2>4, <3>1, <3>2
  <2> QED BY <1>1, <1>2, <2>3, <2>4
<1> QED BY <1>6, <1>7

(* The state after a step that keeps the length of the roll. *)
LEMMA ShowsAgain ==
  ASSUME IInv, NEW p \in Cols, NEW q \in Rows,
         vram' \in [Cells -> Pixel], paper' \in Seq([Cols -> Pixel]),
         Len(paper') = Len(paper), x' = p, y' = q, pen' = <<Top + 1 + q, p>>,
         bg' \in Nat, fg' \in Nat, panicked' = panicked,
         \A r \in Rows, d \in Cols : vram'[r * width + d] = paper'[Top + 1 + r][d]
  PROVE  IInv'
<1>1. Top' = Top
  BY DEF Top
<1>2. Types'
  BY DEF IInv, Types
<1>3. ScreenShowsPaper'
  <2>1. ~panicked'
    BY DEF IInv, ScreenShowsPaper
  <2>2. pen' = <<Top' + 1 + y', x'>>
    BY <1>1
  <2> QED BY <1>1, <2>1, <2>2 DEF ScreenShowsPaper, Rows
<1> QED BY <1>2, <1>3 DEF IInv

LEMMA PrintCharIInv ==
  ASSUME IInv, NEW c \in Nat, PrintChar(c) PROVE IInv'
<1>1. /\ pen[1] = Top + 1 + y /\ Top \in Nat /\ Len(paper) \in Nat /\ Top + height = Len(paper)
      /\ y \in Nat /\ x \in Nat /\ x < width /\ y < height
  BY PenFacts
<1>2. width \in Nat \ {0} /\ height \in Nat \ {0}
  BY Sizes
<1>3. /\ Put(c) \in [Cells -> Pixel]
      /\ Written(c) \in Seq([Cols -> Pixel]) /\ Len(Written(c)) = Len(paper)
      /\ \A r \in Rows, d \in Cols : Put(c)[r * width + d] = Written(c)[Top + 1 + r][d]
  BY PutShows
<1>4. panicked' = panicked /\ bg' \in Nat /\ fg' \in Nat
  BY PrintCharStep DEF IInv, Types
<1>5. CASE /\ c # NEWLINE /\ x + 1 < width
           /\ x' = x + 1 /\ y' = y /\ vram' = Put(c)
           /\ pen' = <<pen[1], x + 1>> /\ paper' = Written(c)
  <2>1. x + 1 \in Cols /\ y \in Rows
    BY <1>1, <1>2, <1>5 DEF Cols, Rows
  <2> QED BY <1>1, <1>3, <1>4, <1>5, <2>1, ShowsAgain
<1>6. CASE /\ y + 1 < height
           /\ x' = 0 /\ y' = y + 1 /\ vram' = Put(c)
           /\ pen' = <<pen[1] + 1, 0>> /\ paper' = Written(c)
  <2>1. 0 \in Cols /\ y + 1 \in Rows
    BY <1>1, <1>2, <1>6 DEF Cols, Rows
  <2>2. pen[1] + 1 = Top + 1 + (y + 1)
    BY <1>1
  <2> QED BY <1>3, <1>4, <1>6, <2>1, <2>2, ShowsAgain
<1>7. CASE /\ y + 1 = height
           /\ x' = 0 /\ y' = y /\ vram' = Scrolled(Put(c))
           /\ pen' = <<pen[1] + 1, 0>> /\ paper' = Append(Written(c), Blank)
  <2> DEFINE R == [Cols -> Pixel]
  <2>1. Blank \in R /\ vram' \in [Cells -> Pixel]
    BY <1>3, <1>7, BlankType, ScrolledType DEF IInv
  <2>2. /\ paper' \in Seq(R) /\ Len(paper') = Len(paper) + 1
        /\ paper'[Len(paper) + 1] = Blank
        /\ \A k \in 1 .. Len(paper) : paper'[k] = Written(c)[k]
    <3>1. Written(c) \in Seq(R) /\ Len(Written(c)) = Len(paper)
      BY <1>3
    <3> HIDE DEF R
    <3> QED BY <1>7, <2>1, <3>1
  <2>3. Top' = Top + 1
    BY <1>1, <1>2, <2>2 DEF Top
  <2>4. ASSUME NEW r \in Rows, NEW d \in Cols
        PROVE  vram'[r * width + d] = paper'[Top' + 1 + r][d]
    <3>1. r \in Nat /\ d \in Nat /\ r <= height - 1
      BY <1>2 DEF Rows, Cols
    <3> DEFINE k == r * width + d
    <3>2. k \in Cells /\ (k + width < Area <=> r + 1 < height)
      BY CellOf
    <3>3. vram'[k] = IF k + width < Area THEN Put(c)[k + width] ELSE GenPixel(SPACE)
      BY <1>7, <3>2 DEF Scrolled
    <3>4. k + width = (r + 1) * width + d
      BY <3>1, NextRow
    <3> HIDE DEF k
    <3>5. CASE r + 1 < height
      <4>1. r + 1 \in Rows
        BY <1>2, <3>1, <3>5 DEF Rows
      <4>2. vram'[k] = Put(c)[(r + 1) * width + d]
        BY <3>2, <3>3, <3>4, <3>5
      <4>3. Put(c)[(r + 1) * width + d] = Written(c)[Top + 1 + (r + 1)][d]
        BY <1>3, <4>1
      <4>4. Top' + 1 + r = Top + 1 + (r + 1) /\ Top + 1 + (r + 1) \in 1 .. Len(paper)
        BY <1>1, <1>2, <2>3, <3>1, <3>5
      <4>5. paper'[Top' + 1 + r] = Written(c)[Top + 1 + (r + 1)]
        BY <2>2, <4>4
      <4> QED BY <4>2, <4>3, <4>5 DEF k
    <3>6. CASE ~(r + 1 < height)
      <4>1. vram'[k] = GenPixel(SPACE)
        BY <3>2, <3>3, <3>6
      <4>2. Top' + 1 + r = Len(paper) + 1
        BY <1>1, <1>2, <2>3, <3>1, <3>6
      <4>3. paper'[Top' + 1 + r][d] = GenPixel(SPACE)
        BY <2>2, <4>2 DEF Blank
      <4> QED BY <4>1, <4>3 DEF k
    <3> QED BY <3>5, <3>6
  <2>5. x' \in Cols /\ y' \in Rows
    BY <1>1, <1>2, <1>7 DEF Cols, Rows
  <2>6. Types'
    <3>1. height <= Len(paper')
      BY <1>1, <1>2, <2>2
    <3> QED BY <1>4, <2>1, <2>2, <2>5, <3>1 DEF Types
  <2>7. ScreenShowsPaper'
    <3>1. ~panicked'
      BY <1>4 DEF IInv, ScreenShowsPaper
    <3>2. pen' = <<Top' + 1 + y', x'>>
      BY <1>1, <1>7, <2>3
    <3> QED BY <2>4, <3>1, <3>2 DEF ScreenShowsPaper, Rows
  <2> QED BY <2>6, <2>7 DEF IInv
<1> QED BY <1>5, <1>6, <1>7, PrintCharStep

(* The last rows of the roll become blank, as the screen does. *)
LEMMA ClearScreenIInv == ASSUME IInv, ClearScreen PROVE IInv'
<1> DEFINE R == [Cols -> Pixel]
           n == Len(paper)
<1>1. /\ vram' = [k \in Cells |-> GenPixel(SPACE)]
      /\ paper' = [k \in DOMAIN paper |-> IF k > Len(paper) - height THEN Blank ELSE paper[k]]
      /\ x' = x /\ y' = y /\ bg' = bg /\ fg' = fg /\ panicked' = panicked /\ pen' = pen
  BY DEF ClearScreen
<1>2. /\ paper \in Seq(R) /\ Blank \in R /\ x \in Cols /\ y \in Rows /\ bg \in Nat /\ fg \in Nat
  BY BlankType DEF IInv, Types
<1>3. Top \in Nat /\ n \in Nat /\ Top + height = n
  BY PenFacts
<1>4. vram' \in [Cells -> Pixel]
  <2>1. GenPixel(SPACE) \in Pixel
    BY GenPixelType DEF IInv, SPACE
  <2> QED BY <1>1, <2>1
<1>5. /\ paper' \in Seq(R) /\ Len(paper') = n
      /\ \A k \in 1 .. n : k > n - height => paper'[k] = Blank
  <2> HIDE DEF R
  <2> DEFINE f(k) == IF k > n - height THEN Blank ELSE paper[k]
  <2>1. DOMAIN paper = 1 .. n /\ \A k \in 1 .. n : paper[k] \in R
    BY <1>2
  <2>2. paper' = [k \in 1 .. n |-> f(k)] /\ \A k \in 1 .. n : f(k) \in R
    BY <1>1, <1>2, <2>1
  <2> HIDE DEF f
  <2>3. paper' \in Seq(R) /\ Len(paper') = n
    BY <1>3, <2>2
  <2> QED BY <2>2, <2>3 DEF f
<1>6. ASSUME NEW r \in Rows, NEW d \in Cols
      PROVE  vram'[r * width + d] = paper'[Top + 1 + r][d]
  <2>1. r * width + d \in Cells
    BY CellOf
  <2>2. Top + 1 + r \in 1 .. n /\ Top + 1 + r > n - height
    BY <1>3, Sizes DEF Rows
  <2>3. paper'[Top + 1 + r] = Blank
    BY <1>5, <2>2
  <2> QED BY <1>1, <2>1, <2>3 DEF Blank
<1>7. pen' = <<Top + 1 + y, x>>
  BY <1>1 DEF IInv, ScreenShowsPaper
<1> QED BY <1>1, <1>2, <1>4, <1>5, <1>6, <1>7, ShowsAgain

(* The colours and the cursor do not change what is on the screen. *)
LEMMA SetIInv ==
  ASSUME IInv,
         \/ \E b, f \in Colors : SetColor(b, f)
         \/ \E p \in Cols, q \in 0 .. (height - 1) : SetCurrentPosition(p, q)
  PROVE  IInv'
<1>1. /\ vram \in [Cells -> Pixel] /\ paper \in Seq([Cols -> Pixel])
      /\ x \in Cols /\ y \in Rows /\ bg \in Nat /\ fg \in Nat
  BY DEF IInv, Types
<1>2. \A r \in Rows, d \in Cols : vram[r * width + d] = paper[Top + 1 + r][d]
  BY DEF IInv, ScreenShowsPaper, Rows
<1>3. ASSUME NEW b \in Colors, NEW f \in Colors, SetColor(b, f) PROVE IInv'
  <2>1. b \in Nat /\ f \in Nat
    BY CharsAssumption
  <2>2. pen = <<Top + 1 + y, x>>
    BY DEF IInv, ScreenShowsPaper
  <2>3. /\ vram' = vram /\ paper' = paper /\ x' = x /\ y' = y /\ pen' = pen
        /\ panicked' = panicked /\ bg' = b /\ fg' = f
    BY <1>3 DEF SetColor
  <2> QED BY <1>1, <1>2, <2>1, <2>2, <2>3, ShowsAgain
<1>4. ASSUME NEW p \in Cols, NEW q \in Rows, SetCurrentPosition(p, q) PROVE IInv'
  <2>1. /\ vram' = vram /\ paper' = paper /\ x' = p /\ y' = q
        /\ panicked' = panicked /\ bg' = bg /\ fg' = fg
        /\ pen' = <<Len(paper) - height + 1 + q, p>>
    BY <1>4 DEF SetCurrentPosition
  <2>2. pen' = <<Top + 1 + q, p>>
    BY <2>1 DEF Top
  <2> QED BY <1>1, <1>2, <2>1, <2>2, ShowsAgain
<1> QED BY <1>3, <1>4 DEF Rows

LEMMA InitIInv == Init => IInv
<1> SUFFICES ASSUME Init PROVE IInv
  OBVIOUS
<1> DEFINE R == [Cols -> Pixel]
           e == [c \in Cols |-> Cleared]
<1>1. /\ bg = Black /\ fg = LightRed /\ vram = [k \in Cells |-> Cleared]
      /\ x = 0 /\ y = 0 /\ ~panicked /\ paper = [k \in 1 .. height |-> e] /\ pen = <<1, 0>>
  BY DEF Init
<1>2. Cleared \in Pixel /\ e \in R
  BY DEF Pixel
<1>3. height \in Nat /\ width \in Nat \ {0} /\ 0 \in Cols /\ 0 \in Rows
  BY Sizes DEF Cols, Rows
<1>4. paper \in Seq(R) /\ Len(paper) = height
  <2> HIDE DEF R, e
  <2> QED BY <1>1, <1>2, <1>3
<1>5. Types
  <2>1. bg \in Nat /\ fg \in Nat
    BY <1>1 DEF Black, LightRed
  <2>2. vram \in [Cells -> Pixel]
    BY <1>1, <1>2
  <2>3. height <= Len(paper)
    BY <1>3, <1>4
  <2> QED BY <1>1, <1>3, <1>4, <2>1, <2>2, <2>3 DEF Types
<1>6. Top = 0
  BY <1>3, <1>4 DEF Top
<1>7. ASSUME NEW r \in Rows, NEW d \in Cols PROVE vram[r * width + d] = paper[Top + 1 + r][d]
  <2>1. r * width + d \in Cells
    BY CellOf
  <2>2. Top + 1 + r \in 1 .. height
    BY <1>3, <1>6 DEF Rows
  <2>3. paper[Top + 1 + r] = e
    BY <1>1, <2>2
  <2> QED BY <1>1, <2>1, <2>3
<1>8. ScreenShowsPaper
  <2>1. pen = <<Top + 1 + y, x>>
    BY <1>1, <1>6
  <2> QED BY <1>1, <1>7, <2>1 DEF ScreenShowsPaper, Rows
<1> QED BY <1>5, <1>8 DEF IInv

(* A kernel with the graphical display does not touch the text console. *)
LEMMA NextIInv == IInv /\ [DisplaysNext]_<<vars, gvars, kind>> => IInv'
<1> SUFFICES ASSUME IInv, [DisplaysNext]_<<vars, gvars, kind>> PROVE IInv'
  OBVIOUS
<1>1. ASSUME NEW c \in Chars \cup {NEWLINE}, PrintChar(c) PROVE IInv'
  <2>1. c \in Nat
    BY CharsAssumption DEF NEWLINE
  <2> QED BY <1>1, <2>1, PrintCharIInv
<1>2. CASE Next
  BY <1>1, <1>2, ClearScreenIInv, SetIInv DEF Next
<1>3. CASE UNCHANGED vars
  <2>1. UNCHANGED <<vram, x, y, bg, fg, panicked, paper, pen, printed>>
    BY <1>3 DEF vars
  <2> QED BY <2>1 DEF IInv, Types, ScreenShowsPaper, Top
<1> QED BY <1>2, <1>3 DEF DisplaysNext

(* CharacterDisplay shows the end of the roll and never indexes outside the
   video memory, for every size of the screen and any sequence of calls. *)
THEOREM ScreenAlwaysShowsPaper == DisplaysSpec => []ScreenShowsPaper
<1>1. DisplaysInit => IInv
  BY InitIInv DEF DisplaysInit
<1>2. IInv => ScreenShowsPaper
  BY DEF IInv
<1> QED BY <1>1, <1>2, NextIInv, PTL DEF DisplaysSpec

-------------------------------------------------------------------------------
(***************************************************************************)
(* The graphical display.  Between calls the memory shows the canvas; in   *)
(* the middle of a fill it shows the part that the loops have passed and   *)
(* everything outside the area.  A phase of the invariant is `DisplayAt`   *)
(* or `AreaAt`, which give the loops' addresses back as a row and a        *)
(* column.                                                                 *)
(***************************************************************************)
PCols  == 0 .. (size_x - 1)
PRows  == 0 .. (rows - 1)
Spot(X, Y)  == Y * size_x + X
Shows(X, Y) == \A k \in 0 .. 3 : memory[Spot(X, Y) * 4 + k] = ByteOf(canvas[<<X, Y>>], k)

(* fill_display has stored the pixels before number v. *)
DisplayAt(c) ==
  /\ fill = [op |-> "display", c |-> c]
  /\ v \in Nat /\ v <= size_x * size_y
  /\ \A X \in PCols, Y \in PRows :
       /\ Y < size_y => canvas[<<X, Y>>] = c
       /\ (Y < size_y => Spot(X, Y) < v) => Shows(X, Y)

InArea(X, Y, bx, by, ex, ey) == bx <= X /\ X < ex /\ by <= Y /\ Y < ey

(* fill_area has stored the rows before Y0 and, of that row, up to X0. *)
AreaAt(c, bx, by, ex, ey, X0, Y0) ==
  /\ fill = [op |-> "area", c |-> c, begin_x |-> bx * 4, end_x |-> ex * 4, vy_e |-> ey * dy]
  /\ ex <= size_x /\ ey <= rows /\ bx <= ex /\ bx <= X0 /\ X0 <= ex /\ by <= Y0
  /\ vy = Y0 * dy /\ v = Y0 * dy + X0 * 4
  /\ \A X \in PCols, Y \in PRows :
       /\ InArea(X, Y, bx, by, ex, ey) => canvas[<<X, Y>>] = c
       /\ ~InArea(X, Y, bx, by, ex, ey) \/ Y < Y0 \/ (Y = Y0 /\ X < X0) => Shows(X, Y)

Drawing ==
  \/ fill = Idle /\ \A X \in PCols, Y \in PRows : Shows(X, Y)
  \/ \E c \in Nat : DisplayAt(c)
  \/ \E c, bx, by, ex, ey, X0, Y0 \in Nat : AreaAt(c, bx, by, ex, ey, X0, Y0)

GInv ==
  /\ bit_info \in BitInfos
  /\ canvas \in [(0 .. size_x - 1) \X (0 .. rows - 1) -> Nat]
  /\ Drawing

LEMMA GSizes ==
  /\ size_x \in Nat /\ size_y \in Nat /\ rows \in Nat /\ size_y <= rows
  /\ byte_per_pixel = 4 /\ dy = size_x * 4
<1>1. byte_per_pixel = 4
  BY DEF byte_per_pixel
<1> QED BY <1>1, DisplayAssumption DEF dy

(* A pixel has four addresses, and those of the display's rows have the first
   numbers. *)
LEMMA SpotFacts ==
  ASSUME NEW X \in PCols, NEW Y \in PRows
  PROVE  /\ Spot(X, Y) \in Nat
         /\ \A k \in 0 .. 3 : Spot(X, Y) * 4 + k \in Addresses
         /\ Spot(X, Y) < size_x * size_y <=> Y < size_y
<1>1. /\ X \in Nat /\ X <= size_x - 1 /\ Y \in Nat /\ Y <= rows - 1
      /\ size_x \in Nat /\ rows \in Nat /\ size_y \in Nat
  BY GSizes DEF PCols, PRows
<1> DEFINE a == Y * size_x
<1>2. a \in Nat
  BY <1>1
<1>3. a + size_x <= size_x * rows
  <2>1. a + size_x = (Y + 1) * size_x
    BY <1>1
  <2>2. (Y + 1) * size_x <= rows * size_x
    BY <1>1
  <2> QED BY <1>1, <2>1, <2>2
<1>4. ASSUME Y < size_y PROVE a + size_x <= size_x * size_y
  <2>1. a + size_x = (Y + 1) * size_x
    BY <1>1
  <2>2. (Y + 1) * size_x <= size_y * size_x
    BY <1>1, <1>4
  <2> QED BY <1>1, <2>1, <2>2
<1>5. ASSUME ~(Y < size_y) PROVE size_x * size_y <= a
  <2>1. size_y * size_x <= Y * size_x
    BY <1>1, <1>5
  <2> QED BY <1>1, <2>1
<1> DEFINE N == size_x * rows
           D == size_x * size_y
<1>6. N \in Nat /\ D \in Nat /\ Addresses = 0 .. (N * 4 - 1)
  BY <1>1, GSizes DEF Addresses
<1>7. a + size_x <= N /\ (Y < size_y => a + size_x <= D) /\ (~(Y < size_y) => D <= a)
  BY <1>3, <1>4, <1>5
<1>8. Spot(X, Y) = a + X
  BY DEF Spot
<1> HIDE DEF a, N, D
<1>9. Spot(X, Y) \in Nat /\ (Spot(X, Y) < D <=> Y < size_y)
  BY <1>1, <1>2, <1>6, <1>7, <1>8
<1>10. ASSUME NEW k \in 0 .. 3 PROVE Spot(X, Y) * 4 + k \in Addresses
  BY <1>1, <1>2, <1>6, <1>7, <1>8
<1> QED BY <1>9, <1>10 DEF D

(* Different pixels have different numbers. *)
LEMMA SpotsDiffer ==
  ASSUME NEW X \in PCols, NEW Y \in Nat, NEW U \in PCols, NEW W \in Nat, Spot(X, Y) = Spot(U, W)
  PROVE  X = U /\ Y = W
<1>1. /\ X \in Nat /\ X <= size_x - 1 /\ U \in Nat /\ U <= size_x - 1 /\ size_x \in Nat
      /\ Y * size_x + X = W * size_x + U
  BY GSizes DEF PCols, Spot
<1>2. ~(Y < W)
  <2>1. SUFFICES ASSUME Y < W PROVE FALSE
    OBVIOUS
  <2>2. Y * size_x + size_x <= W * size_x
    <3>1. Y * size_x + size_x = (Y + 1) * size_x
      BY <1>1
    <3>2. (Y + 1) * size_x <= W * size_x
      BY <1>1, <2>1
    <3> QED BY <3>1, <3>2
  <2> QED BY <1>1, <2>2
<1>3. ~(W < Y)
  <2>1. SUFFICES ASSUME W < Y PROVE FALSE
    OBVIOUS
  <2>2. W * size_x + size_x <= Y * size_x
    <3>1. W * size_x + size_x = (W + 1) * size_x
      BY <1>1
    <3>2. (W + 1) * size_x <= Y * size_x
      BY <1>1, <2>1
    <3> QED BY <3>1, <3>2
  <2> QED BY <1>1, <2>2
<1>4. Y = W
  BY <1>2, <1>3
<1> QED BY <1>1, <1>4

(* Three components of eight bits in a number of 32. *)
Pack(a, b, d)    == a + b * 256 + d * 65536
Part(k, a, b, d) == CASE k = 0 -> a [] k = 1 -> b [] k = 2 -> d [] OTHER -> 0
ByteAt(n, k)     == (n \div 2^(8 * k)) % 256

LEMMA BytesAt ==
  ASSUME NEW n
  PROVE  /\ ByteAt(n, 0) = (n \div 1) % 256 /\ ByteAt(n, 1) = (n \div 256) % 256
         /\ ByteAt(n, 2) = (n \div 65536) % 256 /\ ByteAt(n, 3) = (n \div 16777216) % 256
<1>1. 2^(8 * 0) = 1 /\ 2^(8 * 1) = 256 /\ 2^(8 * 2) = 65536 /\ 2^(8 * 3) = 16777216
  BY SMT
<1>2. /\ ByteAt(n, 0) = (n \div 2^(8 * 0)) % 256 /\ ByteAt(n, 1) = (n \div 2^(8 * 1)) % 256
      /\ ByteAt(n, 2) = (n \div 2^(8 * 2)) % 256 /\ ByteAt(n, 3) = (n \div 2^(8 * 3)) % 256
  BY DEF ByteAt
<1> QED BY <1>1, <1>2

LEMMA Packed ==
  ASSUME NEW a \in 0 .. 255, NEW b \in 0 .. 255, NEW d \in 0 .. 255, NEW k \in 0 .. 3
  PROVE  ByteAt(Pack(a, b, d), k) = Part(k, a, b, d)
<1> DEFINE n == Pack(a, b, d)
<1>1. /\ (n \div 1) % 256 = a /\ (n \div 256) % 256 = b /\ (n \div 65536) % 256 = d
      /\ (n \div 16777216) % 256 = 0
  BY SMT DEF Pack
<1>2. /\ Part(0, a, b, d) = a /\ Part(1, a, b, d) = b /\ Part(2, a, b, d) = d
      /\ Part(3, a, b, d) = 0
  BY DEF Part
<1>3. k = 0 \/ k = 1 \/ k = 2 \/ k = 3
  OBVIOUS
<1> HIDE DEF n
<1>4. ByteAt(n, 0) = a /\ ByteAt(n, 1) = b /\ ByteAt(n, 2) = d /\ ByteAt(n, 3) = 0
  BY <1>1, BytesAt
<1>5. ByteAt(n, k) = Part(k, a, b, d)
  BY <1>2, <1>3, <1>4
<1> QED BY <1>5 DEF n

(* color puts the components where the format has them. *)
LEMMA ColorBytes ==
  ASSUME bit_info \in BitInfos, NEW c \in Nat, NEW k \in 0 .. 3
  PROVE  ByteAt(color(c), k) = ByteOf(c, k)
<1> DEFINE r == Red8(c)
           g == Green8(c)
           b == Blue8(c)
           pr == bit_info.pos_r
           pg == bit_info.pos_g
           pb == bit_info.pos_b
<1>1. r \in 0 .. 255 /\ g \in 0 .. 255 /\ b \in 0 .. 255
  <2>1. 2^8 = 256 /\ 2^16 = 65536
    BY SMT
  <2> QED BY <2>1, SMT DEF Red8, Green8, Blue8
<1>2. pr \in {0, 8, 16} /\ pg \in {0, 8, 16} /\ pb \in {0, 8, 16} /\ pr # pg /\ pg # pb /\ pb # pr
  BY FormatAssumption
<1>3. color(c) = r * 2^pr + g * 2^pg + b * 2^pb
  BY DEF color
<1>4. ByteOf(c, k) = CASE k = pr \div 8 -> r [] k = pg \div 8 -> g [] k = pb \div 8 -> b
                       [] OTHER -> 0
  BY DEF ByteOf
<1>5. 2^0 = 1 /\ 2^8 = 256 /\ 2^16 = 65536 /\ 0 \div 8 = 0 /\ 8 \div 8 = 1 /\ 16 \div 8 = 2
  BY SMT
<1> DEFINE n == color(c)
<1> HIDE DEF r, g, b, pr, pg, pb, n
<1>6. CASE pr = 0 /\ pg = 8 /\ pb = 16
  <2>1. n = Pack(r, g, b)
    BY <1>1, <1>3, <1>5, <1>6, SMT DEF n, Pack
  <2>2. ByteAt(n, k) = Part(k, r, g, b)
    <3>1. ByteAt(Pack(r, g, b), k) = Part(k, r, g, b)
      BY <1>1, Packed, Zenon
    <3> QED BY <2>1, <3>1, Zenon
  <2>3. ByteOf(c, k) = Part(k, r, g, b)
    BY <1>4, <1>5, <1>6, SMT DEF Part
  <2> QED BY <2>2, <2>3 DEF n
<1>7. CASE pr = 0 /\ pg = 16 /\ pb = 8
  <2>1. n = Pack(r, b, g)
    BY <1>1, <1>3, <1>5, <1>7, SMT DEF n, Pack
  <2>2. ByteAt(n, k) = Part(k, r, b, g)
    <3>1. ByteAt(Pack(r, b, g), k) = Part(k, r, b, g)
      BY <1>1, Packed, Zenon
    <3> QED BY <2>1, <3>1, Zenon
  <2>3. ByteOf(c, k) = Part(k, r, b, g)
    BY <1>4, <1>5, <1>7, SMT DEF Part
  <2> QED BY <2>2, <2>3 DEF n
<1>8. CASE pr = 8 /\ pg = 0 /\ pb = 16
  <2>1. n = Pack(g, r, b)
    BY <1>1, <1>3, <1>5, <1>8, SMT DEF n, Pack
  <2>2. ByteAt(n, k) = Part(k, g, r, b)
    <3>1. ByteAt(Pack(g, r, b), k) = Part(k, g, r, b)
      BY <1>1, Packed, Zenon
    <3> QED BY <2>1, <3>1, Zenon
  <2>3. ByteOf(c, k) = Part(k, g, r, b)
    BY <1>4, <1>5, <1>8, SMT DEF Part
  <2> QED BY <2>2, <2>3 DEF n
<1>9. CASE pr = 8 /\ pg = 16 /\ pb = 0
  <2>1. n = Pack(b, r, g)
    BY <1>1, <1>3, <1>5, <1>9, SMT DEF n, Pack
  <2>2. ByteAt(n, k) = Part(k, b, r, g)
    <3>1. ByteAt(Pack(b, r, g), k) = Part(k, b, r, g)
      BY <1>1, Packed, Zenon
    <3> QED BY <2>1, <3>1, Zenon
  <2>3. ByteOf(c, k) = Part(k, b, r, g)
    BY <1>4, <1>5, <1>9, SMT DEF Part
  <2> QED BY <2>2, <2>3 DEF n
<1>10. CASE pr = 16 /\ pg = 0 /\ pb = 8
  <2>1. n = Pack(g, b, r)
    BY <1>1, <1>3, <1>5, <1>10, SMT DEF n, Pack
  <2>2. ByteAt(n, k) = Part(k, g, b, r)
    <3>1. ByteAt(Pack(g, b, r), k) = Part(k, g, b, r)
      BY <1>1, Packed, Zenon
    <3> QED BY <2>1, <3>1, Zenon
  <2>3. ByteOf(c, k) = Part(k, g, b, r)
    BY <1>4, <1>5, <1>10, SMT DEF Part
  <2> QED BY <2>2, <2>3 DEF n
<1>11. CASE pr = 16 /\ pg = 8 /\ pb = 0
  <2>1. n = Pack(b, g, r)
    BY <1>1, <1>3, <1>5, <1>11, SMT DEF n, Pack
  <2>2. ByteAt(n, k) = Part(k, b, g, r)
    <3>1. ByteAt(Pack(b, g, r), k) = Part(k, b, g, r)
      BY <1>1, Packed, Zenon
    <3> QED BY <2>1, <3>1, Zenon
  <2>3. ByteOf(c, k) = Part(k, b, g, r)
    BY <1>4, <1>5, <1>11, SMT DEF Part
  <2> QED BY <2>2, <2>3 DEF n
<1> QED BY <1>2, <1>6, <1>7, <1>8, <1>9, <1>10, <1>11

(* A store at a pixel's address makes it show its colour, and no other pixel
   changes. *)
LEMMA Stored ==
  ASSUME bit_info \in BitInfos, NEW X0 \in PCols, NEW Y0 \in PRows,
         NEW c \in Nat, canvas[<<X0, Y0>>] = c,
         memory' = StoreU32(memory, Spot(X0, Y0) * 4, color(c)),
         UNCHANGED <<bit_info, canvas>>,
         NEW X \in PCols, NEW Y \in PRows, Shows(X, Y) \/ (X = X0 /\ Y = Y0)
  PROVE  Shows(X, Y)'
<1> DEFINE a == Spot(X, Y)
           a0 == Spot(X0, Y0)
<1>1. SUFFICES ASSUME NEW k \in 0 .. 3
               PROVE  memory'[a * 4 + k] = ByteOf(canvas[<<X, Y>>], k)
  BY DEF Shows, ByteOf, Spot
<1>2. a \in Nat /\ a0 \in Nat /\ a * 4 + k \in Addresses
  BY SpotFacts
<1>3. memory'[a * 4 + k] = IF a * 4 + k \in (a0 * 4) .. (a0 * 4 + 3)
                             THEN ByteAt(color(c), (a * 4 + k) - a0 * 4) ELSE memory[a * 4 + k]
  BY <1>2 DEF StoreU32, ByteAt
<1>4. Y \in Nat /\ Y0 \in Nat
  BY GSizes DEF PRows
<1> HIDE DEF a, a0
<1>5. CASE X = X0 /\ Y = Y0
  <2>1. a = a0
    BY <1>5 DEF a, a0
  <2>2. a * 4 + k \in (a0 * 4) .. (a0 * 4 + 3) /\ (a * 4 + k) - a0 * 4 = k
    BY <1>2, <2>1
  <2>3. memory'[a * 4 + k] = ByteAt(color(c), k)
    BY <1>3, <2>2
  <2> QED BY <1>5, <2>3, ColorBytes
<1>6. CASE ~(X = X0 /\ Y = Y0)
  <2>1. a # a0
    BY <1>4, <1>6, SpotsDiffer DEF a, a0
  <2>2. ~(a * 4 + k \in (a0 * 4) .. (a0 * 4 + 3))
    BY <1>2, <2>1
  <2>3. Shows(X, Y)
    BY <1>6
  <2>4. memory[a * 4 + k] = ByteOf(canvas[<<X, Y>>], k)
    BY <2>3 DEF Shows, a
  <2> QED BY <1>3, <2>2, <2>4
<1> QED BY <1>5, <1>6

(* A pixel whose colour and bytes stay goes on showing its colour. *)
LEMMA ShowsOn ==
  ASSUME NEW X \in PCols, NEW Y \in PRows, Shows(X, Y), UNCHANGED <<bit_info, memory>>,
         canvas'[<<X, Y>>] = canvas[<<X, Y>>]
  PROVE  Shows(X, Y)'
  BY DEF Shows, ByteOf, Spot

(* The number of a pixel of the display gives its row and its column. *)
LEMMA SpotOf ==
  ASSUME NEW n \in Nat, n < size_x * size_y
  PROVE  \E X \in PCols, Y \in PRows : Y < size_y /\ n = Spot(X, Y)
<1>1. size_x \in Nat /\ size_y \in Nat /\ rows \in Nat /\ size_y <= rows
  BY GSizes
<1>2. size_x > 0
  <2>1. ASSUME size_x = 0 PROVE FALSE
    BY <1>1, <2>1
  <2> QED BY <1>1, <2>1
<1>3. PICK X \in 0 .. (size_x - 1), Y \in Nat : n = Y * size_x + X
  <2>1. n % size_x \in 0 .. (size_x - 1)
    BY <1>1, <1>2
  <2>2. n \div size_x \in Int
    BY <1>1, <1>2
  <2>3. n % size_x = n - size_x * (n \div size_x)
    BY <1>1, <1>2
  <2>4. n \div size_x >= 0
    BY <1>1, <1>2
  <2> DEFINE q == n \div size_x
             r == n % size_x
  <2> HIDE DEF q, r
  <2>5. q \in Nat /\ r \in 0 .. (size_x - 1) /\ n = q * size_x + r
    BY <1>1, <2>1, <2>2, <2>3, <2>4 DEF q, r
  <2> QED BY <2>5
<1>4. Y < size_y
  <2>1. SUFFICES ASSUME Y >= size_y PROVE FALSE
    BY <1>1
  <2>2. size_y * size_x <= Y * size_x
    BY <1>1, <2>1
  <2> QED BY <1>1, <1>3, <2>2
<1> QED BY <1>1, <1>3, <1>4 DEF PCols, PRows, Spot

(* Painting, seen from a pixel. *)
LEMMA Painted ==
  ASSUME canvas \in [(0 .. size_x - 1) \X (0 .. rows - 1) -> Nat],
         NEW bx \in Nat, NEW by \in Nat, NEW ex \in Nat, NEW ey \in Nat, NEW c \in Nat,
         Paint(<<bx, by>>, <<ex, ey>>, c)
  PROVE  /\ canvas' \in [(0 .. size_x - 1) \X (0 .. rows - 1) -> Nat]
         /\ \A X \in PCols, Y \in PRows :
              canvas'[<<X, Y>>] = IF InArea(X, Y, bx, by, ex, ey) THEN c ELSE canvas[<<X, Y>>]
<1>1. canvas' = [p \in (0 .. size_x - 1) \X (0 .. rows - 1) |->
                   IF p[1] \in bx .. (ex - 1) /\ p[2] \in by .. (ey - 1) THEN c ELSE canvas[p]]
  BY DEF Paint
<1>2. ASSUME NEW X \in PCols, NEW Y \in PRows
      PROVE  canvas'[<<X, Y>>] = IF InArea(X, Y, bx, by, ex, ey) THEN c ELSE canvas[<<X, Y>>]
  <2>1. <<X, Y>> \in (0 .. size_x - 1) \X (0 .. rows - 1) /\ X \in Int /\ Y \in Int
    BY GSizes DEF PCols, PRows
  <2>2. (X \in bx .. (ex - 1) /\ Y \in by .. (ey - 1)) <=> InArea(X, Y, bx, by, ex, ey)
    BY <2>1 DEF InArea
  <2>3. canvas'[<<X, Y>>] = IF X \in bx .. (ex - 1) /\ Y \in by .. (ey - 1)
                              THEN c ELSE canvas[<<X, Y>>]
    BY <1>1, <2>1
  <2> QED BY <2>2, <2>3
<1> QED BY <1>1, <1>2

-------------------------------------------------------------------------------
(* The steps of the graphical display. *)
LEMMA GInitGInv == GInit => GInv
<1> SUFFICES ASSUME GInit PROVE GInv
  OBVIOUS
<1>1. bit_info \in BitInfos /\ fill = Idle
  BY DEF GInit
<1>2. /\ canvas = [p \in (0 .. size_x - 1) \X (0 .. rows - 1) |-> 0]
      /\ memory = [a \in Addresses |-> 0]
  BY DEF GInit
<1>3. ASSUME NEW X \in PCols, NEW Y \in PRows PROVE Shows(X, Y)
  <2>1. Red8(0) = 0 /\ Green8(0) = 0 /\ Blue8(0) = 0
    <3>1. 2^8 = 256 /\ 2^16 = 65536
      BY SMT
    <3>2. (0 \div 65536) % 256 = 0 /\ (0 \div 256) % 256 = 0 /\ 0 % 256 = 0
      BY SMT
    <3> QED BY <3>1, <3>2 DEF Red8, Green8, Blue8
  <2>2. canvas[<<X, Y>>] = 0
    BY <1>2 DEF PCols, PRows
  <2>3. ASSUME NEW k \in 0 .. 3 PROVE memory[Spot(X, Y) * 4 + k] = ByteOf(canvas[<<X, Y>>], k)
    <3>1. Spot(X, Y) * 4 + k \in Addresses
      BY SpotFacts
    <3>2. ByteOf(0, k) = 0
      BY <2>1 DEF ByteOf
    <3> QED BY <1>2, <2>2, <3>1, <3>2
  <2> QED BY <2>3 DEF Shows
<1> QED BY <1>1, <1>2, <1>3 DEF GInv, Drawing

(* Which of the three it is doing, by the call. *)
LEMMA Drawn ==
  ASSUME GInv
  PROVE  /\ fill = Idle => \A X \in PCols, Y \in PRows : Shows(X, Y)
         /\ fill.op = "display" => \E c \in Nat : DisplayAt(c)
         /\ fill.op = "area" => \E c, bx, by, ex, ey, X0, Y0 \in Nat :
                                 AreaAt(c, bx, by, ex, ey, X0, Y0)
<1>1. fill = Idle => fill.op = "none"
  BY DEF Idle
<1>2. ASSUME NEW c \in Nat, DisplayAt(c) PROVE fill.op = "display"
  BY <1>2 DEF DisplayAt
<1>3. ASSUME NEW c \in Nat, NEW bx \in Nat, NEW by \in Nat, NEW ex \in Nat, NEW ey \in Nat,
             NEW X0 \in Nat, NEW Y0 \in Nat, AreaAt(c, bx, by, ex, ey, X0, Y0)
      PROVE  fill.op = "area"
  BY <1>3 DEF AreaAt
<1>4. Drawing
  BY DEF GInv
<1> QED BY <1>1, <1>2, <1>3, <1>4 DEF Drawing

(* fill_display is called: the rows below the display go on showing. *)
LEMMA FillDisplayGInv ==
  ASSUME GInv, NEW c \in Codes, FillDisplay(c)
  PROVE  GInv'
<1>1. c \in Nat
  BY CodesAssumption
<1>2. /\ fill = Idle /\ fill' = [op |-> "display", c |-> c] /\ v' = 0
      /\ UNCHANGED <<bit_info, memory>>
  BY DEF FillDisplay, Called
<1>3. \A X \in PCols, Y \in PRows : Shows(X, Y)
  BY <1>2, Drawn
<1>4. /\ canvas' \in [(0 .. size_x - 1) \X (0 .. rows - 1) -> Nat]
      /\ \A X \in PCols, Y \in PRows :
           canvas'[<<X, Y>>] = IF InArea(X, Y, 0, 0, size_x, size_y) THEN c ELSE canvas[<<X, Y>>]
  BY <1>1, GSizes, Painted DEF FillDisplay, GInv
<1>5. 0 \in Nat /\ 0 <= size_x * size_y
  BY GSizes
<1>6. ASSUME NEW X \in PCols, NEW Y \in PRows
      PROVE  /\ Y < size_y => canvas'[<<X, Y>>] = c
             /\ (Y < size_y => Spot(X, Y) < 0) => Shows(X, Y)'
  <2>1. InArea(X, Y, 0, 0, size_x, size_y) <=> Y < size_y
    BY GSizes DEF InArea, PCols, PRows
  <2>2. ~(Spot(X, Y) < 0)
    BY SpotFacts
  <2>3. ASSUME ~(Y < size_y) PROVE Shows(X, Y)'
    BY <1>2, <1>3, <1>4, <2>1, <2>3, ShowsOn
  <2> QED BY <1>4, <2>1, <2>2, <2>3
<1>7. DisplayAt(c)'
  BY <1>2, <1>5, <1>6 DEF DisplayAt, Spot
<1> QED BY <1>1, <1>2, <1>4, <1>7 DEF GInv, Drawing

LEMMA DisplayLoopGInv == ASSUME GInv, DisplayLoop PROVE GInv'
<1>1. fill.op = "display" /\ UNCHANGED <<bit_info, canvas>>
  BY DEF DisplayLoop
<1>2. PICK c \in Nat : DisplayAt(c)
  BY <1>1, Drawn
<1>3. fill = [op |-> "display", c |-> c] /\ v \in Nat /\ v <= size_x * size_y
  BY <1>2 DEF DisplayAt
<1>4. ASSUME NEW X \in PCols, NEW Y \in PRows
      PROVE  /\ Y < size_y => canvas[<<X, Y>>] = c
             /\ (Y < size_y => Spot(X, Y) < v) => Shows(X, Y)
  BY <1>2 DEF DisplayAt
<1>5. size_x * size_y \in Nat
  BY GSizes
<1>6. CASE v < size_x * size_y
  <2>1. PICK X0 \in PCols, Y0 \in PRows : Y0 < size_y /\ v = Spot(X0, Y0)
    BY <1>3, <1>6, SpotOf
  <2>2. /\ memory' = StoreU32(memory, Spot(X0, Y0) * 4, color(c))
        /\ v' = v + 1 /\ fill' = fill
    BY <1>3, <1>6, <2>1 DEF DisplayLoop
  <2>3. ASSUME NEW X \in PCols, NEW Y \in PRows
        PROVE  /\ Y < size_y => canvas'[<<X, Y>>] = c
               /\ (Y < size_y => Spot(X, Y) < v + 1) => Shows(X, Y)'
    <3>1. ASSUME Y < size_y => Spot(X, Y) < v + 1 PROVE Shows(X, Y)'
      <4>1. Spot(X, Y) \in Nat /\ Y \in Nat /\ Y0 \in Nat
        BY SpotFacts, GSizes DEF PRows
      <4>2. (Y < size_y => Spot(X, Y) < v) \/ Spot(X, Y) = v
        BY <1>3, <3>1, <4>1
      <4>3. Spot(X, Y) = v => X = X0 /\ Y = Y0
        BY <2>1, <4>1, SpotsDiffer, Zenon
      <4>4. Shows(X, Y) \/ (X = X0 /\ Y = Y0)
        BY <1>4, <4>2, <4>3, Zenon
      <4> QED BY <1>1, <1>4, <2>1, <2>2, <4>4, Stored DEF GInv
    <3> QED BY <1>1, <1>4, <3>1
  <2>4. v' \in Nat /\ v' <= size_x * size_y
    BY <1>3, <1>5, <1>6, <2>2
  <2>5. DisplayAt(c)'
    BY <1>3, <2>2, <2>3, <2>4 DEF DisplayAt, Spot
  <2> QED BY <1>1, <2>5 DEF GInv, Drawing
<1>7. CASE ~(v < size_x * size_y)
  <2>1. fill' = Idle /\ memory' = memory
    BY <1>7 DEF DisplayLoop
  <2>2. v = size_x * size_y
    BY <1>3, <1>5, <1>7
  <2>3. ASSUME NEW X \in PCols, NEW Y \in PRows PROVE Shows(X, Y)'
    BY <1>1, <1>4, <2>1, <2>2, SpotFacts, ShowsOn
  <2> QED BY <1>1, <2>1, <2>3 DEF GInv, Drawing
<1> QED BY <1>6, <1>7

(* fill_area is called: the pixels outside the area go on showing. *)
LEMMA FillAreaGInv ==
  ASSUME GInv, NEW c \in Codes, NEW bx \in Nat, NEW by \in Nat, NEW ex \in Nat, NEW ey \in Nat,
         bx <= ex, ex <= size_x, ey <= rows, FillArea(<<bx, by>>, <<ex, ey>>, c)
  PROVE  GInv'
<1>1. c \in Nat
  BY CodesAssumption
<1>2. /\ fill = Idle /\ UNCHANGED <<bit_info, memory>>
      /\ fill' = [op |-> "area", c |-> c, begin_x |-> bx * 4, end_x |-> ex * 4, vy_e |-> ey * dy]
      /\ vy' = by * dy /\ v' = by * dy + bx * 4
  BY GSizes DEF FillArea, Called, RowEnd
<1>3. \A X \in PCols, Y \in PRows : Shows(X, Y)
  BY <1>2, Drawn
<1>4. /\ canvas' \in [(0 .. size_x - 1) \X (0 .. rows - 1) -> Nat]
      /\ \A X \in PCols, Y \in PRows :
           canvas'[<<X, Y>>] = IF InArea(X, Y, bx, by, ex, ey) THEN c ELSE canvas[<<X, Y>>]
  BY <1>1, Painted DEF FillArea, GInv
<1>5. ASSUME NEW X \in PCols, NEW Y \in PRows
      PROVE  /\ InArea(X, Y, bx, by, ex, ey) => canvas'[<<X, Y>>] = c
             /\ ~InArea(X, Y, bx, by, ex, ey) \/ Y < by \/ (Y = by /\ X < bx) => Shows(X, Y)'
  <2>1. Y < by \/ (Y = by /\ X < bx) => ~InArea(X, Y, bx, by, ex, ey)
    BY GSizes DEF InArea, PCols, PRows
  <2>2. ASSUME ~InArea(X, Y, bx, by, ex, ey) PROVE Shows(X, Y)'
    BY <1>2, <1>3, <1>4, <2>2, ShowsOn
  <2> QED BY <1>4, <2>1, <2>2
<1>6. AreaAt(c, bx, by, ex, ey, bx, by)'
  BY <1>2, <1>5 DEF AreaAt, InArea, dy
<1> QED BY <1>1, <1>2, <1>4, <1>6 DEF GInv, Drawing

(* The addresses of the loops, as rows and columns. *)
LEMMA Steps ==
  ASSUME NEW X0 \in Nat, NEW Y0 \in Nat, NEW ex \in Nat, NEW ey \in Nat
  PROVE  /\ Y0 * dy + X0 * 4 < Y0 * dy + ex * 4 <=> X0 < ex
         /\ Y0 * dy < ey * dy => Y0 < ey
         /\ size_x > 0 /\ ~(Y0 * dy < ey * dy) => ey <= Y0
         /\ Y0 * dy + X0 * 4 = Spot(X0, Y0) * 4
         /\ Y0 * dy + X0 * 4 + 4 = Y0 * dy + (X0 + 1) * 4
         /\ Y0 * dy + dy = (Y0 + 1) * dy
<1>1. dy \in Nat /\ dy = size_x * 4 /\ size_x \in Nat
  BY GSizes
<1>2. Y0 * dy \in Nat /\ ey * dy \in Nat
  BY <1>1
<1>3. Y0 * dy + X0 * 4 < Y0 * dy + ex * 4 <=> X0 < ex
  BY <1>2
<1>4. ASSUME ~(Y0 < ey) PROVE ~(Y0 * dy < ey * dy)
  <2>1. ey * dy <= Y0 * dy
    BY <1>1, <1>4
  <2> QED BY <1>2, <2>1
<1>5. ASSUME size_x > 0, ~(ey <= Y0) PROVE Y0 * dy < ey * dy
  <2>1. Y0 * dy + dy = (Y0 + 1) * dy
    BY <1>1
  <2>2. (Y0 + 1) * dy <= ey * dy
    BY <1>1, <1>5
  <2>3. dy > 0
    BY <1>1, <1>5
  <2> QED BY <1>1, <1>2, <2>1, <2>2, <2>3
<1>6. Y0 * dy + X0 * 4 = Spot(X0, Y0) * 4
  <2>1. Y0 * dy = (Y0 * size_x) * 4
    BY <1>1
  <2>2. Y0 * size_x \in Nat
    BY <1>1
  <2>3. (Y0 * size_x) * 4 + X0 * 4 = (Y0 * size_x + X0) * 4
    BY <2>2
  <2> QED BY <2>1, <2>3 DEF Spot
<1>7. Y0 * dy + X0 * 4 + 4 = Y0 * dy + (X0 + 1) * 4
  BY <1>2
<1>8. Y0 * dy + dy = (Y0 + 1) * dy
  BY <1>1
<1> QED BY <1>3, <1>4, <1>5, <1>6, <1>7, <1>8

LEMMA AreaLoopGInv == ASSUME GInv, AreaLoop PROVE GInv'
<1>1. fill.op = "area" /\ UNCHANGED <<bit_info, canvas>>
  BY DEF AreaLoop
<1>2. PICK c, bx, by, ex, ey, X0, Y0 \in Nat : AreaAt(c, bx, by, ex, ey, X0, Y0)
  BY <1>1, Drawn
<1>3. /\ fill = [op |-> "area", c |-> c, begin_x |-> bx * 4, end_x |-> ex * 4, vy_e |-> ey * dy]
      /\ ex <= size_x /\ ey <= rows /\ bx <= ex /\ bx <= X0 /\ X0 <= ex /\ by <= Y0
      /\ vy = Y0 * dy /\ v = Y0 * dy + X0 * 4
  BY <1>2 DEF AreaAt
<1>4. ASSUME NEW X \in PCols, NEW Y \in PRows
      PROVE  /\ InArea(X, Y, bx, by, ex, ey) => canvas[<<X, Y>>] = c
             /\ ~InArea(X, Y, bx, by, ex, ey) \/ Y < Y0 \/ (Y = Y0 /\ X < X0) => Shows(X, Y)
  BY <1>2 DEF AreaAt
<1>5. fill.end_x = ex * 4 /\ fill.begin_x = bx * 4 /\ fill.vy_e = ey * dy /\ fill.c = c
  BY <1>3
<1>6. ASSUME NEW X1 \in Nat, NEW Y1 \in Nat, bx <= X1, X1 <= ex, by <= Y1, fill' = fill,
             vy' = Y1 * dy, v' = Y1 * dy + X1 * 4,
             \A X \in PCols, Y \in PRows :
               ~InArea(X, Y, bx, by, ex, ey) \/ Y < Y1 \/ (Y = Y1 /\ X < X1) => Shows(X, Y)'
      PROVE  GInv'
  <2>1. \A X \in PCols, Y \in PRows : InArea(X, Y, bx, by, ex, ey) => canvas'[<<X, Y>>] = c
    BY <1>1, <1>4
  <2>2. AreaAt(c, bx, by, ex, ey, X1, Y1)'
    BY <1>3, <1>6, <2>1 DEF AreaAt, InArea, dy
  <2> QED BY <1>1, <2>2 DEF GInv, Drawing
<1>7. ASSUME vy < fill.vy_e, v < vy + fill.end_x,
             memory' = StoreU32(memory, v, color(fill.c)), v' = v + byte_per_pixel,
             UNCHANGED <<fill, vy>>
      PROVE  GInv'
  <2>1. X0 < ex /\ Y0 < ey
    BY <1>3, <1>5, <1>7, Steps
  <2>2. X0 \in PCols /\ Y0 \in PRows /\ InArea(X0, Y0, bx, by, ex, ey)
    BY <1>3, <2>1, GSizes DEF PCols, PRows, InArea
  <2>3. memory' = StoreU32(memory, Spot(X0, Y0) * 4, color(c))
    BY <1>3, <1>5, <1>7, Steps
  <2>4. v' = Y0 * dy + (X0 + 1) * 4
    BY <1>3, <1>7, GSizes, Steps
  <2>5. ASSUME NEW X \in PCols, NEW Y \in PRows,
               ~InArea(X, Y, bx, by, ex, ey) \/ Y < Y0 \/ (Y = Y0 /\ X < X0 + 1)
        PROVE  Shows(X, Y)'
    <3>1. X \in Nat
      BY GSizes DEF PCols
    <3>2. X < X0 + 1 => X < X0 \/ X = X0
      BY <3>1
    <3>3. Shows(X, Y) \/ (X = X0 /\ Y = Y0)
      BY <1>4, <2>5, <3>2
    <3>4. canvas[<<X0, Y0>>] = c
      BY <1>4, <2>2
    <3> QED BY <1>1, <2>2, <2>3, <3>3, <3>4, Stored DEF GInv
  <2>6. X0 + 1 \in Nat /\ bx <= X0 + 1 /\ X0 + 1 <= ex
    BY <1>3, <2>1
  <2> QED BY <1>3, <1>6, <1>7, <2>4, <2>5, <2>6
<1>8. ASSUME vy < fill.vy_e, ~(v < vy + fill.end_x), vy' = vy + dy, v' = vy' + fill.begin_x,
             UNCHANGED <<memory, fill>>
      PROVE  GInv'
  <2>1. ~(X0 < ex)
    BY <1>3, <1>5, <1>8, Steps
  <2>2. vy' = (Y0 + 1) * dy /\ v' = (Y0 + 1) * dy + bx * 4
    BY <1>3, <1>5, <1>8, Steps
  <2>3. ASSUME NEW X \in PCols, NEW Y \in PRows,
               ~InArea(X, Y, bx, by, ex, ey) \/ Y < Y0 + 1 \/ (Y = Y0 + 1 /\ X < bx)
        PROVE  Shows(X, Y)'
    <3>1. ~InArea(X, Y, bx, by, ex, ey) \/ Y < Y0 \/ (Y = Y0 /\ X < X0)
      BY <1>3, <2>1, <2>3, GSizes DEF InArea, PCols, PRows
    <3> QED BY <1>1, <1>4, <1>8, <3>1, ShowsOn
  <2>4. Y0 + 1 \in Nat /\ by <= Y0 + 1
    BY <1>3
  <2> QED BY <1>3, <1>6, <1>8, <2>2, <2>3, <2>4
<1>9. ASSUME ~(vy < fill.vy_e), fill' = Idle, UNCHANGED <<memory, vy, v>>
      PROVE  GInv'
  <2>1. ASSUME NEW X \in PCols, NEW Y \in PRows PROVE Shows(X, Y)'
    <3>1. size_x > 0
      BY GSizes DEF PCols
    <3>2. ey <= Y0
      BY <1>3, <1>5, <1>9, <3>1, Steps
    <3>3. ~InArea(X, Y, bx, by, ex, ey) \/ Y < Y0
      BY <3>2, GSizes DEF InArea, PRows
    <3> QED BY <1>1, <1>4, <1>9, <3>3, ShowsOn
  <2> QED BY <1>1, <1>9, <2>1 DEF GInv, Drawing
<1> QED BY <1>7, <1>8, <1>9 DEF AreaLoop

(* A text display's steps, and the empty step. *)
LEMMA GInvStays == ASSUME GInv, UNCHANGED gvars PROVE GInv'
<1>1. UNCHANGED <<bit_info, memory, fill, vy, v, canvas>>
  BY DEF gvars
<1>2. ASSUME NEW X \in PCols, NEW Y \in PRows PROVE Shows(X, Y)' <=> Shows(X, Y)
  BY <1>1 DEF Shows, ByteOf, Spot
<1>3. ASSUME NEW c \in Nat, DisplayAt(c) PROVE DisplayAt(c)'
  BY <1>1, <1>2, <1>3 DEF DisplayAt, Spot
<1>4. ASSUME NEW c \in Nat, NEW bx \in Nat, NEW by \in Nat, NEW ex \in Nat, NEW ey \in Nat,
             NEW X0 \in Nat, NEW Y0 \in Nat, AreaAt(c, bx, by, ex, ey, X0, Y0)
      PROVE  AreaAt(c, bx, by, ex, ey, X0, Y0)'
  BY <1>1, <1>2, <1>4 DEF AreaAt, InArea, dy
<1>5. Drawing'
  <2>1. ASSUME fill = Idle, \A X \in PCols, Y \in PRows : Shows(X, Y) PROVE Drawing'
    BY <1>1, <1>2, <2>1 DEF Drawing, Idle
  <2>2. ASSUME \E c \in Nat : DisplayAt(c) PROVE Drawing'
    BY <1>3, <2>2 DEF Drawing
  <2>3. ASSUME \E c, bx, by, ex, ey, X0, Y0 \in Nat : AreaAt(c, bx, by, ex, ey, X0, Y0)
        PROVE  Drawing'
    <3>1. PICK c, bx, by, ex, ey, X0, Y0 \in Nat : AreaAt(c, bx, by, ex, ey, X0, Y0)
      BY <2>3
    <3>2. AreaAt(c, bx, by, ex, ey, X0, Y0)'
      BY <1>4, <3>1
    <3> QED BY <3>2 DEF Drawing
  <2>4. Drawing
    BY DEF GInv
  <2> QED BY <2>1, <2>2, <2>3, <2>4 DEF Drawing
<1> QED BY <1>1, <1>5 DEF GInv

LEMMA NextGInv == GInv /\ [DisplaysNext]_<<vars, gvars, kind>> => GInv'
<1> SUFFICES ASSUME GInv, [DisplaysNext]_<<vars, gvars, kind>> PROVE GInv'
  OBVIOUS
<1>1. ASSUME NEW c \in Codes, FillDisplay(c) PROVE GInv'
  BY <1>1, FillDisplayGInv
<1>2. ASSUME NEW X \in 0 .. size_x, NEW Y \in 0 .. size_y, NEW c \in Codes,
             NEW w \in 0 .. (size_x - X), NEW h \in 0 .. (rows - Y),
             fill_area_by_size(<<X, Y>>, <<w, h>>, c)
      PROVE  GInv'
  <2>1. /\ X \in Nat /\ Y \in Nat /\ X + w \in Nat /\ Y + h \in Nat
        /\ X <= X + w /\ X + w <= size_x /\ Y + h <= rows
    BY GSizes
  <2>2. FillArea(<<X, Y>>, <<X + w, Y + h>>, c)
    BY <1>2 DEF fill_area_by_size
  <2> QED BY <2>1, <2>2, FillAreaGInv
<1>3. ASSUME DisplayLoop PROVE GInv'
  BY <1>3, DisplayLoopGInv
<1>4. ASSUME AreaLoop PROVE GInv'
  BY <1>4, AreaLoopGInv
<1>5. ASSUME UNCHANGED gvars PROVE GInv'
  BY <1>5, GInvStays
<1> QED BY <1>1, <1>2, <1>3, <1>4, <1>5 DEF DisplaysNext, GNext

(***************************************************************************)
(* Whatever areas GraphicalDisplay fills, one after the other, and         *)
(* whatever the size of the screen and the format of a pixel: when a call  *)
(* of graphic.rs has returned, every pixel's bytes are the colour it was   *)
(* last filled with, those of the pixels outside the area included.        *)
(***************************************************************************)
THEOREM GraphicsShowCanvas == DisplaysSpec => []MemoryShowsCanvas
<1>1. DisplaysInit => GInv
  BY GInitGInv DEF DisplaysInit
<1>2. GInv => MemoryShowsCanvas
  <2>1. SUFFICES ASSUME GInv, fill = Idle, NEW p \in DOMAIN canvas, NEW k \in 0 .. 3
                 PROVE  memory[(p[2] * size_x + p[1]) * byte_per_pixel + k] = ByteOf(canvas[p], k)
    BY DEF MemoryShowsCanvas
  <2>2. PICK X \in PCols, Y \in PRows : p = <<X, Y>>
    BY <2>1 DEF GInv, PCols, PRows
  <2>3. Shows(X, Y)
    BY <2>1, Drawn
  <2> QED BY <2>2, <2>3, GSizes DEF Shows, Spot
<1> QED BY <1>1, <1>2, NextGInv, PTL DEF DisplaysSpec
=============================================================================
