-------------------------- MODULE MCRenodeControl --------------------------
(* Instances of RenodeControl for TLC.                                     *)
EXTENDS RenodeControl
=============================================================================
