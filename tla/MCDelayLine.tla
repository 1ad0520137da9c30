---------------------------- MODULE MCDelayLine ----------------------------
(* Instances of DelayLine for TLC.                                         *)
EXTENDS DelayLine
=============================================================================
