------------------------------- MODULE Displays -------------------------------
(***************************************************************************)
(* The display of a kernel, one of the two kinds of src/src/graphic.rs:    *)
(* x86_64 has a CharacterDisplay, x86_32 a GraphicalDisplay.  The one that *)
(* a kernel does not have stays as it is.                                  *)
(***************************************************************************)
EXTENDS CharacterDisplay, GraphicalDisplay

VARIABLE kind     \* "text" or "graphical", for good

DisplaysInit == Init /\ GInit /\ kind \in {"text", "graphical"}

DisplaysNext ==
  \/ kind = "text" /\ Next /\ UNCHANGED <<gvars, kind>>
  \/ kind = "graphical" /\ GNext /\ UNCHANGED <<vars, kind>>

DisplaysSpec == DisplaysInit /\ [][DisplaysNext]_<<vars, gvars, kind>>
===============================================================================
