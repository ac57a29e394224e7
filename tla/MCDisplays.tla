------------------------------ MODULE MCDisplays ------------------------------
(* Instances of Displays for TLC. *)
EXTENDS Displays

B == INSTANCE Bitwise
MCBitOr(a, b) == B!|(a, b)

(* Two letters. *)
Letters == {65, 66}

(* The pixel of x86_32, and one with the components the other way round;
   0xD7003A, the background of x86_32, and a colour whose bytes differ. *)
MCBitInfos == {[pos_r |-> 16, pos_g |-> 8, pos_b |-> 0],
               [pos_r |-> 0, pos_g |-> 8, pos_b |-> 16]}
MCCodes == {14090298, 66051}
===============================================================================
