--------------------------- MODULE MCBreakpoints ---------------------------
(* Instances of Breakpoints for TLC; the addresses are interchangeable.    *)
EXTENDS Breakpoints, TLC

AddressSymmetry == Permutations(Addresses)
=============================================================================
