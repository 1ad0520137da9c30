--------------------------- MODULE MCDataBuffers ---------------------------
(* Instances of DataBuffers for TLC.                                       *)
EXTENDS DataBuffers, TLC

Symmetry == Permutations(Buffers) \cup Permutations(Registers)
=============================================================================
