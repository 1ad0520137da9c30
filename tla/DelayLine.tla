----------------------------- MODULE DelayLine -----------------------------
(***************************************************************************)
(* DelayLine<DelayRecord> of mpact/sim/generic/delay_line.h: a circular    *)
(* buffer of lists of records.  Add() files a record `latency' slots ahead *)
(* of current_, growing the buffer when the latency does not fit;          *)
(* Advance() moves current_ by one slot and applies every record in it.    *)
(*                                                                         *)
(* Apply() of a record is a callback (a function of a FunctionDelayLine,   *)
(* a register write, the release of a resource) and may itself call Add()  *)
(* on the same delay line, so Advance() is split at the record boundaries: *)
(* BeginAdvance, one ApplyRecord per record, and Add() in between.         *)
(* The range-for of Advance() takes its end iterator when it starts; last  *)
(* is that end, next the record whose Apply() is running.                  *)
(***************************************************************************)
EXTENDS Integers, Sequences, FiniteSetsExt

CONSTANTS Records,      \* the DelayRecord instances
          Latencies,    \* the latencies Add() is called with
          Horizon,      \* an upper bound of the latencies and the buffer sizes
          RingSizes,    \* the powers of two the buffer size is taken from
          MinSize,      \* the constructor's min_size
          MaxEntries    \* bound: records in flight at the same time

(* A size of the ring and the next larger one differ by a factor of at     *)
(* least two: all that is used of "power of two".  Every latency fits a    *)
(* size, and hence a least one.                                            *)
ASSUME RingAssumption ==
  /\ Horizon \in Nat \ {0}
  /\ Latencies \subseteq 1 .. Horizon
  /\ RingSizes \subseteq 1 .. Horizon
  /\ \A p, q \in RingSizes : p < q => 2 * p <= q
  /\ MinSize \in 1 .. Horizon
  /\ \A n \in Latencies \cup {MinSize} :
       \E p \in RingSizes : n <= p /\ \A q \in RingSizes : n <= q => p <= q

VARIABLES delay_line,   \* delay_line_: slot |-> records, on 0 .. size - 1
          size,         \* delay_line_.size(), also mask_ + 1
          current,      \* current_
          num_entries,  \* num_entries_
          next,         \* the record being applied by Advance(), 0 if none
          last          \* the end of Advance()'s loop, 0 if none

vars == <<delay_line, size, current, num_entries, next, last>>

bit_ceil(n) ==
  CHOOSE p \in RingSizes : /\ n <= p
                           /\ \A q \in RingSizes : n <= q => p <= q

Init ==
  /\ size = bit_ceil(MinSize)
  /\ delay_line = [i \in 0 .. bit_ceil(MinSize) - 1 |-> << >>]
  /\ current = 0
  /\ num_entries = 0
  /\ next = 0
  /\ last = 0

-----------------------------------------------------------------------------
(* Resize(): the slots below current_ hold the records that had wrapped    *)
(* around; they move up by the previous size.  With n = size the target of *)
(* the move lies outside the buffer; a build that survives that write      *)
(* loses the records, which is how it is modelled.                         *)
ResizeKeepsWrapped(n) ==
  [i \in 0 .. n - 1 |-> IF i < size THEN delay_line[i] ELSE << >>]

Resize(n) ==
  [i \in 0 .. n - 1 |->
     IF i < size THEN IF i < current THEN << >> ELSE delay_line[i]
     ELSE IF i - size < current THEN delay_line[i - size] ELSE << >>]

(* The size Add() works with: Resize() is called if the latency is not     *)
(* below the size.                                                         *)
SizeFor(l) == IF l >= size THEN bit_ceil(l) ELSE size

(* Add(latency, record).                                                   *)
Add(l, r) ==
  LET n == SizeFor(l)
      d == IF l >= size THEN Resize(n) ELSE delay_line
  IN  /\ num_entries < MaxEntries
      /\ size' = n
      /\ delay_line' = [d EXCEPT ![(l + current) % n] = Append(@, r)]
      /\ num_entries' = num_entries + 1
      /\ UNCHANGED <<current, next, last>>

(* Advance(), up to its loop; with no record in the slot there is no loop. *)
BeginAdvance ==
  LET c == (current + 1) % size
  IN  /\ next = 0
      /\ current' = c
      /\ last' = Len(delay_line[c])
      /\ next' = IF delay_line[c] = << >> THEN 0 ELSE 1
      /\ UNCHANGED <<delay_line, size, num_entries>>

(* The end of one iteration of Advance()'s loop, and of the loop.          *)
ApplyRecordOneCount ==
  /\ next # 0
  /\ num_entries' = IF next = last THEN num_entries - 1 ELSE num_entries
  /\ next' = IF next = last THEN 0 ELSE next + 1
  /\ last' = IF next = last THEN 0 ELSE last
  /\ delay_line' = IF next = last THEN [delay_line EXCEPT ![current] = << >>]
                   ELSE delay_line
  /\ UNCHANGED <<size, current>>

ApplyRecord ==
  /\ next # 0
  /\ num_entries' = num_entries - 1
  /\ next' = IF next = last THEN 0 ELSE next + 1
  /\ last' = IF next = last THEN 0 ELSE last
  /\ delay_line' = IF next = last THEN [delay_line EXCEPT ![current] = << >>]
                   ELSE delay_line
  /\ UNCHANGED <<size, current>>

Next ==
  \/ \E l \in Latencies, r \in Records : Add(l, r)
  \/ BeginAdvance
  \/ ApplyRecord

Spec == Init /\ [][Next]_vars

(* The simulator's core calls Advance() in every cycle, and Advance() runs *)
(* to its end; nothing forces anybody to call Add().                       *)
Advance == BeginAdvance \/ ApplyRecord

FairSpec == Spec /\ WF_vars(Advance)

-----------------------------------------------------------------------------
(* Types of the members of DelayLine; a slot is a list of records.         *)
TypeOK ==
  /\ size \in RingSizes
  /\ delay_line \in [0 .. size - 1 -> Seq(Records)]
  /\ current \in 0 .. size - 1
  /\ num_entries \in Int
  /\ next \in Nat
  /\ last \in Nat

(* Between two calls of Advance() the current slot is empty, and during a  *)
(* call nothing is added behind the end of its loop: no record waits in a  *)
(* slot that Advance() has just passed or is about to clear unapplied.     *)
CurrentSlotDrained ==
  /\ Len(delay_line[current]) = last
  /\ next <= last
  /\ next = 0 <=> last = 0

(* The refinement mapping: the records k calls of Advance() away in a ring *)
(* d of n slots at slot c.  The current slot is a whole turn away, but for *)
(* the records of the running loop.                                        *)
DueIn(d, n, c, from, to, k) ==
  IF k = 0 THEN IF from = 0 THEN << >> ELSE SubSeq(d[c], from, to)
  ELSE IF k < n THEN d[(k + c) % n]
  ELSE IF k = n THEN SubSeq(d[c], to + 1, Len(d[c]))
  ELSE << >>

Due(k) == DueIn(delay_line, size, current, next, last, k)

Promise == INSTANCE DelayLineSpec WITH due <- [k \in 0 .. Horizon |-> Due(k)]

(* Every record is applied exactly `latency' calls of Advance() after it   *)
(* was added, in Add() order within a cycle, whatever wraps around and     *)
(* however often the buffer is resized.                                    *)
AppliedOnTime == Promise!Spec

(* As long as records are in flight, a coming Advance() applies one.       *)
EntriesDrain == num_entries # 0 ~> next # 0

(* The latencies for which AppliedOnTime holds: none makes Add() file a record a    *)
(* whole turn of the ring away.                                            *)
NoFullTurn == Latencies \cap RingSizes = {}
=============================================================================
