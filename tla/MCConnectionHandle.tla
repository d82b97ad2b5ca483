------------------------- MODULE MCConnectionHandle -------------------------
(* ConnectionHandle instantiated for TLC: two connections, two handles.   *)
EXTENDS ConnectionHandle, TLC

MCSymmetry == Permutations(Conns) \cup Permutations(Handles)
=============================================================================
