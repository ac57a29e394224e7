------------------------------ MODULE MCPaging ------------------------------
(* Instances of Paging for TLC: frames 1 to 3 hold the boot tables, 4 is a
   device, and those from 6 on are managed. *)
EXTENDS Paging, FindFree

MCFrames == 0 .. 15
MCDevice == {4}

(* 8 managed frames, two pages that share a level 1 table: mapping,
   unmapping and running out of frames, mostly in one table. *)
Mapping ==
  [managed |-> 6 .. 13, pages |-> {<<0, 0, 1, 0>>, <<0, 0, 1, 1>>}, block |-> 2]

(* 10 managed frames, one page, and no block of as many frames as a caller
   asks for: enough to make a table, to edit it inside `with` and to switch
   to it, or to run out of canonical free pages. *)
Switching ==
  [managed |-> 6 .. 15, pages |-> {<<0, 0, 1, 1>>}, block |-> 16]

MCSetups == {Mapping, Switching}
==============================================================================
