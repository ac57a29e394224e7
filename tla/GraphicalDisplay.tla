--------------------------- MODULE GraphicalDisplay ---------------------------
(***************************************************************************)
(* The graphical display, GraphicalDisplay in src/src/graphic.rs, which    *)
(* the x86_32 port draws its desktop with: areas are filled by stores of   *)
(* 32 bits, one per pixel, at addresses that two loops step through.       *)
(* Every store is a step.                                                  *)
(*                                                                         *)
(* `memory` goes on behind the display's last row: fill_area does not      *)
(* compare an area with the display, and x86_32 passes one that ends       *)
(* below it (mod.rs:38 gives the display's size where the height of the    *)
(* bar is meant).  `canvas` is not in the code: it is what the calls asked *)
(* for, on a sheet that is as long as the memory.                          *)
(***************************************************************************)
EXTENDS Integers

CONSTANTS
  size_x, size_y,   \* max_position
  rows,             \* rows of memory from vram_addr on, the display's first
  BitInfos,         \* the formats of a pixel: [pos_r, pos_g, pos_b], 32 bits
  Codes,            \* the colours that are used, as Color::Code
  MaxFills          \* bound: calls in a run

ASSUME DisplayAssumption ==
  size_x \in Nat /\ size_y \in Nat /\ rows \in Nat /\ rows >= size_y
ASSUME CodesAssumption == Codes \subseteq Nat
ASSUME FormatAssumption ==
  \A b \in BitInfos :
    /\ {b.pos_r, b.pos_g, b.pos_b} \subseteq {0, 8, 16}
    /\ b.pos_r # b.pos_g /\ b.pos_g # b.pos_b /\ b.pos_b # b.pos_r

VARIABLES
  bit_info,         \* one of BitInfos, for good
  memory,           \* the bytes from vram_addr on
  fill,             \* the call that is being executed; where its loops are:
  vy, v,            \* the begin of the row, and the next store
  canvas,           \* the code of every pixel
  fills             \* the calls made

gvars == <<bit_info, memory, fill, vy, v, canvas, fills>>

byte_per_pixel == (8 + 8 + 8 + 8) \div 8
Addresses == 0 .. (size_x * rows * byte_per_pixel - 1)

(* color, for Color::Code: the fields do not overlap, so + is |. *)
Red8(rgb)   == (rgb \div 2^16) % 256
Green8(rgb) == (rgb \div 2^8) % 256
Blue8(rgb)  == rgb % 256
color(rgb) ==
  Red8(rgb) * 2^bit_info.pos_r + Green8(rgb) * 2^bit_info.pos_g
    + Blue8(rgb) * 2^bit_info.pos_b

(* A store of 32 bits, the lowest byte first. *)
StoreU32(mem, a, n) ==
  [b \in Addresses |-> IF b \in a .. (a + 3) THEN (n \div 2^(8 * (b - a))) % 256
                                             ELSE mem[b]]

-------------------------------------------------------------------------------
Idle == [op |-> "none"]

GInit ==
  /\ bit_info \in BitInfos
  /\ memory = [a \in Addresses |-> 0]
  /\ fill = Idle
  /\ vy = 0 /\ v = 0
  /\ canvas = [p \in (0 .. size_x - 1) \X (0 .. rows - 1) |-> 0]
  /\ fills = 0

Called == fill = Idle /\ fills < MaxFills /\ fills' = fills + 1

(* What a caller expects: exactly the pixels from begin up to end. *)
Paint(begin, end, c) ==
  canvas' = [p \in DOMAIN canvas |->
               IF /\ p[1] \in begin[1] .. (end[1] - 1)
                  /\ p[2] \in begin[2] .. (end[2] - 1)
                 THEN c ELSE canvas[p]]

(* fill_display: the store number v of x * y. *)
FillDisplay(c) ==
  /\ Called
  /\ fill' = [op |-> "display", c |-> c]
  /\ v' = 0
  /\ Paint(<<0, 0>>, <<size_x, size_y>>, c)
  /\ UNCHANGED <<bit_info, memory, vy>>

DisplayLoop ==
  /\ fill.op = "display"
  /\ IF v < size_x * size_y
       THEN /\ memory' = StoreU32(memory, v * 4, color(fill.c))
            /\ v' = v + 1
            /\ UNCHANGED fill
       ELSE fill' = Idle /\ UNCHANGED <<memory, v>>
  /\ UNCHANGED <<bit_info, vy, canvas, fills>>

dy == size_x * byte_per_pixel

(* mutant: the end of a row is counted from its first pixel *)
RowEndFromBegin(begin, end) == (begin[1] + end[1]) * byte_per_pixel

(* The end of a row of the area, from the begin of the display's row. *)
RowEnd(begin, end) == end[1] * byte_per_pixel

(* fill_area, also through fill_area_by_size. *)
FillArea(begin, end, c) ==
  /\ Called
  /\ fill' = [op |-> "area", c |-> c, begin_x |-> begin[1] * byte_per_pixel,
              end_x |-> RowEnd(begin, end), vy_e |-> end[2] * dy]
  /\ vy' = begin[2] * dy
  /\ v' = begin[2] * dy + begin[1] * byte_per_pixel
  /\ Paint(begin, end, c)
  /\ UNCHANGED <<bit_info, memory>>

AreaLoop ==
  /\ fill.op = "area"
  /\ \/ /\ vy < fill.vy_e /\ v < vy + fill.end_x
        /\ memory' = StoreU32(memory, v, color(fill.c))
        /\ v' = v + byte_per_pixel
        /\ UNCHANGED <<fill, vy>>
     \/ /\ vy < fill.vy_e /\ ~(v < vy + fill.end_x)
        /\ vy' = vy + dy
        /\ v' = vy' + fill.begin_x
        /\ UNCHANGED <<memory, fill>>
     \/ /\ ~(vy < fill.vy_e)
        /\ fill' = Idle
        /\ UNCHANGED <<memory, vy, v>>
  /\ UNCHANGED <<bit_info, canvas, fills>>

fill_area_by_size(origin, size, c) ==
  FillArea(origin, <<origin[1] + size[1], origin[2] + size[2]>>, c)

GNext ==
  \/ \E c \in Codes : FillDisplay(c)
  \/ \E x0 \in 0 .. size_x, y0 \in 0 .. size_y, c \in Codes :
       \E w \in 0 .. (size_x - x0), h \in 0 .. (rows - y0) :
         fill_area_by_size(<<x0, y0>>, <<w, h>>, c)
  \/ DisplayLoop \/ AreaLoop

-------------------------------------------------------------------------------
(***************************************************************************)
(* Between calls every pixel has, in the bytes of its three components,    *)
(* the colour it was last filled with, and no other byte was written: the  *)
(* loops visit exactly the pixels of an area, in this and in no other row, *)
(* whether it is empty, a whole row or ends below the display.             *)
(***************************************************************************)
ByteOf(c, k) ==
  CASE k = bit_info.pos_r \div 8 -> Red8(c)
    [] k = bit_info.pos_g \div 8 -> Green8(c)
    [] k = bit_info.pos_b \div 8 -> Blue8(c)
    [] OTHER -> 0

MemoryShowsCanvas ==
  fill = Idle =>
    \A p \in DOMAIN canvas, k \in 0 .. 3 :
      memory[(p[2] * size_x + p[1]) * byte_per_pixel + k] = ByteOf(canvas[p], k)
===============================================================================
