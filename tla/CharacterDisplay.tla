--------------------------- MODULE CharacterDisplay ---------------------------
(***************************************************************************)
(* The text console, CharacterDisplay in src/src/graphic.rs: a cursor over *)
(* an array of pixels (a character and its colours) that wraps at the end  *)
(* of a row and scrolls at the bottom.  One action per method; `print` is  *)
(* one action per character, the body of its loop.                         *)
(*                                                                         *)
(* `paper` and `pen` are not in the code.  They are what a reader expects: *)
(* an endless roll on which a pen writes, that never loses a row, and of   *)
(* which the screen is to show the last `height` rows.                     *)
(***************************************************************************)
EXTENDS Integers, Sequences

CONSTANTS
  width, height,   \* max_position
  Chars,           \* the characters that are printed, as code points
  Colors,          \* the colour codes that are set; an Rgb would panic
  BitOr(_, _),     \* `|` on integers
  MaxPrinted       \* bound: calls in a run

ASSUME SizeAssumption == width \in Nat \ {0} /\ height \in Nat \ {0}
ASSUME CharsAssumption == Chars \subseteq Nat /\ Colors \subseteq 0 .. 15
ASSUME BoundAssumption == MaxPrinted \in Nat

VARIABLES
  vram,            \* the pixels, row after row
  x, y,            \* current_position
  bg, fg,          \* the colours
  panicked,        \* an index was out of bounds
  paper,           \* the rows of the roll, the first printed first
  pen,             \* <<row, column>> on the roll
  printed          \* the calls made

vars == <<vram, x, y, bg, fg, panicked, paper, pen, printed>>

NEWLINE == 10
SPACE   == 32
Area    == width * height       \* area_from_origin
Cells   == 0 .. (Area - 1)
Cols    == 0 .. (width - 1)

(* (bg << 12) | (fg << 8) | (c as u16), as its two bytes. *)
GenPixel(c) ==
  [char |-> c % 256, attr |-> BitOr(bg * 16 + fg, (c \div 256) % 256)]

(* new, with the colours of default, and clear_screen. *)
Black    == 0
LightRed == 12
Cleared  == [char |-> SPACE, attr |-> LightRed]

Init ==
  /\ bg = Black /\ fg = LightRed
  /\ vram = [k \in Cells |-> Cleared]
  /\ x = 0 /\ y = 0
  /\ panicked = FALSE
  /\ paper = [k \in 1 .. height |-> [c \in Cols |-> Cleared]]
  /\ pen = <<1, 0>>
  /\ printed = 0

Blank == [c \in Cols |-> GenPixel(SPACE)]

(* mutant: the last row keeps its pixels *)
ScrolledNotCleared(v) ==
  [k \in Cells |-> IF k + width < Area THEN v[k + width] ELSE v[k]]

(* scroll down, and clear last line. *)
Scrolled(v) ==
  [k \in Cells |-> IF k + width < Area THEN v[k + width] ELSE GenPixel(SPACE)]

(* The cursor leaves the end of a row for the next one. *)
Wrapped(p) == IF width <= p[1] THEN <<0, p[2] + 1>> ELSE p

(* Where the cursor goes after the character c, before scrolling. *)
After(c) == Wrapped(IF c = NEWLINE THEN <<0, y + 1>> ELSE <<x + 1, y>>)

Step == ~panicked /\ printed < MaxPrinted /\ printed' = printed + 1

(* What a reader expects of the character c. *)
Write(c) ==
  LET written == IF c = NEWLINE THEN paper
                 ELSE [paper EXCEPT ![pen[1]][pen[2]] = GenPixel(c)]
      next == IF c # NEWLINE /\ pen[2] + 1 < width THEN <<pen[1], pen[2] + 1>>
              ELSE <<pen[1] + 1, 0>>
  IN /\ pen' = next
     /\ paper' = IF next[1] <= Len(paper) THEN written ELSE Append(written, Blank)

PrintChar(c) ==
  LET put == IF c = NEWLINE THEN vram
             ELSE [vram EXCEPT ![x + y * width] = GenPixel(c)]
      next == After(c)
  IN
    /\ Step
    /\ IF c # NEWLINE /\ x + y * width \notin Cells
         THEN panicked' = TRUE /\ UNCHANGED <<vram, x, y, paper, pen>>
         ELSE /\ x' = next[1]
              /\ IF height <= next[2] THEN vram' = Scrolled(put) /\ y' = next[2] - 1
                                      ELSE vram' = put /\ y' = next[2]
              /\ Write(c)
              /\ UNCHANGED panicked
    /\ UNCHANGED <<bg, fg>>

(* clear_screen: the cursor stays where it is. *)
ClearScreen ==
  /\ Step
  /\ vram' = [k \in Cells |-> GenPixel(SPACE)]
  /\ paper' = [k \in DOMAIN paper |->
                 IF k > Len(paper) - height THEN Blank ELSE paper[k]]
  /\ UNCHANGED <<x, y, bg, fg, panicked, pen>>

(* set_color_background, set_color_foreground *)
SetColor(b, f) ==
  /\ Step
  /\ <<b, f>> # <<bg, fg>> /\ (b = bg \/ f = fg)
  /\ bg' = b /\ fg' = f
  /\ UNCHANGED <<vram, x, y, panicked, paper, pen>>

(* set_current_position, to a place on the screen. *)
SetCurrentPosition(p, q) ==
  /\ Step
  /\ x' = p /\ y' = q
  /\ pen' = <<Len(paper) - height + 1 + q, p>>
  /\ UNCHANGED <<vram, bg, fg, panicked, paper>>

Next ==
  \/ \E c \in Chars \cup {NEWLINE} : PrintChar(c)
  \/ ClearScreen
  \/ \E b, f \in Colors : SetColor(b, f)
  \/ \E p \in Cols, q \in 0 .. (height - 1) : SetCurrentPosition(p, q)

Spec == Init /\ [][Next]_vars

-------------------------------------------------------------------------------
(***************************************************************************)
(* The screen is the last `height` rows of the roll, and the cursor is     *)
(* where the pen is: wrapping and scrolling lose, repeat or displace       *)
(* nothing, also a newline right after a full row or in the last one.  And *)
(* print never indexes outside the video memory: it holds the lock of the  *)
(* console then, and its panic could not be printed.                       *)
(***************************************************************************)
Top == Len(paper) - height
ScreenShowsPaper ==
  /\ ~panicked
  /\ \A r \in 0 .. (height - 1), c \in Cols :
       vram[r * width + c] = paper[Top + 1 + r][c]
  /\ pen = <<Top + 1 + y, x>>
==============================================================================
