---------------------------- MODULE MCMemoryInit ----------------------------
(* Instances of MemoryInit for TLC: frames of 16 bytes, an array element of 4
   bytes.  The map has a region below the kernel and the one with the kernel,
   of every size, so that the array takes from none to many frames. *)
EXTENDS MemoryInit

Region(b, s) == [base |-> b, size |-> s]
Low == Region(0, 32)

MCEnds    == 67 .. 98
MCMaps    == {<<Low, Region(64, s)>> : s \in 40 .. 500} \cup {<<Low>>}
==============================================================================
