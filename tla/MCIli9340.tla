----------------------------- MODULE MCIli9340 -----------------------------
(* An instance of Ili9340 for TLC: a screen of 4 by 3, characters of 2 by 1,
   a text of two lines, and a LED in the bank of the D/C pin. *)
EXTENDS Ili9340

MCPicture == [k \in 1 .. 12 |-> 257 * k + 1]
MCFonts   == [c \in {65, 66} |-> IF c = 65 THEN <<2>> ELSE <<1>>]
MCText    == <<65, 66, Newline, 66>>
==============================================================================
