--------------------------- MODULE DelayLineSpec ---------------------------
(***************************************************************************)
(* What a delay line promises, independently of the circular buffer that   *)
(* implements it (mpact/sim/generic/delay_line.h): a record added with     *)
(* latency l is applied by the l-th call of Advance() after it was added,  *)
(* and records due in the same cycle are applied in the order they were    *)
(* added.                                                                  *)
(*                                                                         *)
(* The state is a shift register: due[l] is the queue of records that l    *)
(* more calls of Advance() make applicable; due[0] holds the records the   *)
(* current call of Advance() still has to apply.                           *)
(***************************************************************************)
EXTENDS Integers, Sequences

CONSTANTS Records,     \* the DelayRecord instances
          Latencies,   \* the latencies Add is called with
          Horizon      \* no record is further away than this many cycles

VARIABLE due

Init == due = [l \in 0 .. Horizon |-> << >>]

Add(l, r) == due' = [due EXCEPT ![l] = Append(@, r)]

(* A new cycle begins once every record of the previous one is applied.    *)
Tick ==
  /\ due[0] = << >>
  /\ due' = [l \in 0 .. Horizon |-> IF l < Horizon THEN due[l + 1] ELSE << >>]

Apply ==
  /\ due[0] # << >>
  /\ due' = [due EXCEPT ![0] = Tail(@)]

Next ==
  \/ \E l \in Latencies, r \in Records : Add(l, r)
  \/ Tick
  \/ Apply

Spec == Init /\ [][Next]_due
=============================================================================
