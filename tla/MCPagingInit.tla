---------------------------- MODULE MCPagingInit ----------------------------
(* Instances of PagingInit for TLC. *)
EXTENDS PagingInit

(* Tables of 12 entries: 1MB is frame 6, 2MB frame 12.  Frames 4 and 5 are
   remapped.  The kernel ends below the last entry of its level 1 table, or
   is larger than 2MB. *)
MCFrames == 0 .. 46
MCRemaps == <<4, 5>>
MCEnds   == (7 .. 11) \cup {19}
MCCounts == 0 .. 26

(* A kernel that occupies the last frame below 2MB. *)
LastFrameEnds == {12}
==============================================================================
