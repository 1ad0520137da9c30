--------------------------- MODULE MCDecodeCache ---------------------------
(* Instances of DecodeCache for TLC.                                       *)
EXTENDS DecodeCache, TLC

Symmetry == Permutations(Instructions)
=============================================================================
