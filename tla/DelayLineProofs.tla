-------------------------- MODULE DelayLineProofs --------------------------
(***************************************************************************)
(* DelayLine implements DelayLineSpec for every set of records, every      *)
(* latency and every ring size, as long as no latency is a whole turn of   *)
(* the ring (NoFullTurn).                                                  *)
(***************************************************************************)
EXTENDS DelayLine, SequenceTheorems, TLAPS

(* The ring index arithmetic "& mask_" on a sum of two indices.            *)
LEMMA ModWrap ==
  ASSUME NEW n \in Nat \ {0}, NEW a \in 0 .. 2 * n - 1
  PROVE  /\ a < n => a % n = a
         /\ ~(a < n) => a % n = a - n
<1>1. CASE a < n
  BY <1>1, SMT
<1>2. CASE ~(a < n)
  BY <1>2, SMT
<1> QED BY <1>1, <1>2

(* What bit_ceil() returns.                                                *)
LEMMA BitCeil ==
  ASSUME NEW n \in Latencies \cup {MinSize}
  PROVE  /\ bit_ceil(n) \in RingSizes
         /\ n <= bit_ceil(n)
  BY RingAssumption DEF bit_ceil

(* Where Add() files its record: inside the ring it leaves behind, and not *)
(* in the current slot.                                                    *)
LEMMA AddFits ==
  ASSUME TypeOK, NoFullTurn, NEW l \in Latencies
  PROVE  /\ SizeFor(l) \in RingSizes
         /\ SizeFor(l) \in 1 .. Horizon
         /\ size <= SizeFor(l)
         /\ l < SizeFor(l)
         /\ SizeFor(l) # size => 2 * size <= SizeFor(l)
         /\ l + current < SizeFor(l) => (l + current) % SizeFor(l) = l + current
         /\ ~(l + current < SizeFor(l)) => (l + current) % SizeFor(l) = l + current - SizeFor(l)
<1>1. size \in 1 .. Horizon /\ current \in 0 .. size - 1 /\ l \in 1 .. Horizon
  BY RingAssumption DEF TypeOK
<1>2. /\ SizeFor(l) \in RingSizes /\ size <= SizeFor(l) /\ l < SizeFor(l)
      /\ (SizeFor(l) # size => 2 * size <= SizeFor(l))
  <2>1. CASE l >= size
    <3>1. l # size
      BY DEF NoFullTurn, TypeOK
    <3>2. bit_ceil(l) \in RingSizes /\ l <= bit_ceil(l)
      BY BitCeil
    <3>3. bit_ceil(l) # l
      BY <3>2 DEF NoFullTurn
    <3>4. bit_ceil(l) \in 1 .. Horizon
      BY <3>2, RingAssumption
    <3>5. size < bit_ceil(l) /\ l < bit_ceil(l)
      BY <1>1, <2>1, <3>1, <3>2, <3>3, <3>4
    <3>6. 2 * size <= bit_ceil(l)
      BY <3>2, <3>5, RingAssumption DEF TypeOK
    <3>7. SizeFor(l) = bit_ceil(l)
      BY <2>1 DEF SizeFor
    <3> QED BY <1>1, <3>2, <3>4, <3>5, <3>6, <3>7
  <2>2. CASE ~(l >= size)
    BY <1>1, <2>2 DEF TypeOK, SizeFor
  <2> QED BY <2>1, <2>2
<1>3. SizeFor(l) \in 1 .. Horizon
  BY <1>2, RingAssumption
<1>4. SizeFor(l) \in Nat \ {0} /\ l + current \in 0 .. 2 * SizeFor(l) - 1
  BY <1>1, <1>2, <1>3, RingAssumption
<1>5. PICK n \in Nat \ {0}, a \in 0 .. 2 * SizeFor(l) - 1 :
        n = SizeFor(l) /\ a = l + current
  BY <1>4
<1>6. (a < n => a % n = a) /\ (~(a < n) => a % n = a - n)
  BY <1>5, ModWrap
<1>7. l + current < SizeFor(l) => (l + current) % SizeFor(l) = l + current
  <2>1. (a < n => a % n = a)
    BY <1>6
  <2> QED BY <1>5, <2>1, Zenon
<1>8. ~(l + current < SizeFor(l)) => (l + current) % SizeFor(l) = l + current - SizeFor(l)
  <2>1. ~(a < n) => a % n = a - n
    BY <1>6
  <2>2. a - n = l + current - SizeFor(l)
    BY <1>1, <1>3, <1>5, SMT
  <2>3. a % n = (l + current) % SizeFor(l)
    BY <1>5, Zenon
  <2>4. ~(l + current < SizeFor(l)) => ~(a < n)
    BY <1>5, Zenon
  <2> QED BY <2>1, <2>2, <2>3, <2>4, Zenon
<1> QED BY <1>2, <1>3, <1>7, <1>8, Zenon

-----------------------------------------------------------------------------
(* The inductive invariant: the types, and that nothing is filed in the    *)
(* current slot but the records of the running loop.  Without the second   *)
(* conjunct a later Resize() or Advance() could misplace a record.         *)
IInv == TypeOK /\ CurrentSlotDrained

LEMMA InitIInv == Init => IInv
<1> SUFFICES ASSUME Init PROVE IInv
  OBVIOUS
<1>1. bit_ceil(MinSize) \in RingSizes /\ bit_ceil(MinSize) \in 1 .. Horizon
  BY BitCeil, RingAssumption
<1> QED BY <1>1 DEF Init, IInv, TypeOK, CurrentSlotDrained

LEMMA AddIInv ==
  ASSUME NoFullTurn, IInv, NEW l \in Latencies, NEW r \in Records, Add(l, r)
  PROVE  IInv' /\ delay_line'[current] = delay_line[current]
<1> DEFINE n == SizeFor(l)
           d == IF l >= size THEN Resize(n) ELSE delay_line
           p == (l + current) % n
<1>1. size \in 1 .. Horizon /\ current \in 0 .. size - 1 /\ l \in 1 .. Horizon
  BY RingAssumption DEF IInv, TypeOK
<1>2. /\ n \in RingSizes /\ n \in 1 .. Horizon /\ size <= n /\ l < n
      /\ (n # size => 2 * size <= n)
      /\ l + current < n => p = l + current
      /\ ~(l + current < n) => p = l + current - n
  BY AddFits DEF IInv
<1>p. p \in 0 .. n - 1 /\ p # current
  <2> HIDE DEF n, p
  <2> QED BY <1>1, <1>2
<1>3. d \in [0 .. n - 1 -> Seq(Records)] /\ d[current] = delay_line[current]
  <2>1. CASE l >= size
    <3> HIDE DEF n
    <3> QED BY <1>1, <1>2, <2>1 DEF IInv, TypeOK, Resize
  <2>2. CASE ~(l >= size)
    BY <2>2 DEF IInv, TypeOK, SizeFor
  <2> QED BY <2>1, <2>2
<1>4. /\ size' = n /\ delay_line' = [d EXCEPT ![p] = Append(@, r)]
      /\ num_entries' = num_entries + 1
      /\ current' = current /\ next' = next /\ last' = last
  BY DEF Add
<1> HIDE DEF n, d, p
<1>5. delay_line' \in [0 .. n - 1 -> Seq(Records)] /\ delay_line'[current] = delay_line[current]
  BY <1>1, <1>2, <1>p, <1>3, <1>4
<1>6. TypeOK'
  BY <1>1, <1>2, <1>4, <1>5 DEF IInv, TypeOK
<1>7. CurrentSlotDrained'
  BY <1>4, <1>5 DEF IInv, CurrentSlotDrained
<1> QED BY <1>5, <1>6, <1>7 DEF IInv

LEMMA BeginAdvanceIInv ==
  ASSUME IInv, BeginAdvance
  PROVE  IInv'
<1>1. size \in 1 .. Horizon /\ current \in 0 .. size - 1
  BY RingAssumption DEF IInv, TypeOK
<1>2. (current + 1) % size \in 0 .. size - 1
  BY <1>1, ModWrap
<1> QED BY <1>1, <1>2 DEF IInv, TypeOK, CurrentSlotDrained, BeginAdvance

LEMMA ApplyRecordIInv ==
  ASSUME IInv, ApplyRecord
  PROVE  IInv'
<1>1. size \in 1 .. Horizon /\ current \in 0 .. size - 1
  BY RingAssumption DEF IInv, TypeOK
<1> QED BY <1>1 DEF IInv, TypeOK, CurrentSlotDrained, ApplyRecord

(* The ring is well formed and Advance() never skips or clears a record it *)
(* has not applied.                                                        *)
THEOREM Drained ==
  ASSUME NoFullTurn
  PROVE  Spec => [](TypeOK /\ CurrentSlotDrained)
<1>1. Init => IInv
  BY InitIInv
<1>2. IInv /\ [Next]_vars => IInv'
  <2> SUFFICES ASSUME IInv, [Next]_vars PROVE IInv'
    OBVIOUS
  <2>1. ASSUME NEW l \in Latencies, NEW r \in Records, Add(l, r) PROVE IInv'
    BY <2>1, AddIInv
  <2>2. CASE BeginAdvance
    BY <2>2, BeginAdvanceIInv
  <2>3. CASE ApplyRecord
    BY <2>3, ApplyRecordIInv
  <2>4. CASE UNCHANGED vars
    BY <2>4 DEF vars, IInv, TypeOK, CurrentSlotDrained
  <2> QED BY <2>1, <2>2, <2>3, <2>4 DEF Next
<1> QED BY <1>1, <1>2, PTL DEF Spec, IInv

-----------------------------------------------------------------------------
(* The records k calls of Advance() away, in a ring whose current slot     *)
(* holds the records of the running loop only.                             *)
InSlot(d, n, c, k) ==
  IF k < n THEN IF k + c < n THEN d[k + c] ELSE d[k + c - n] ELSE << >>

LEMMA DueSlot ==
  ASSUME NEW n \in Nat \ {0}, NEW c \in 0 .. n - 1,
         NEW d \in [0 .. n - 1 -> Seq(Records)],
         NEW from, NEW k \in Nat \ {0}
  PROVE  DueIn(d, n, c, from, Len(d[c]), k) = InSlot(d, n, c, k)
<1>1. SubSeq(d[c], Len(d[c]) + 1, Len(d[c])) = << >>
  BY SubSeqEmpty
<1>2. ASSUME k < n
      PROVE  /\ k + c < n => (k + c) % n = k + c
             /\ ~(k + c < n) => (k + c) % n = k + c - n
  <2>1. PICK a \in 0 .. 2 * n - 1 : a = k + c
    BY <1>2
  <2>2. (a < n => a % n = a) /\ (~(a < n) => a % n = a - n)
    BY ModWrap
  <2> QED BY <2>1, <2>2
<1> QED BY <1>1, <1>2 DEF DueIn, InSlot

LEMMA SlotIndex ==
  ASSUME NEW n \in Nat \ {0}, NEW c \in 0 .. n - 1, NEW k \in 0 .. n - 1, NEW d
  PROVE  \E j \in 0 .. n - 1 : /\ InSlot(d, n, c, k) = d[j]
                               /\ j = IF k + c < n THEN k + c ELSE k + c - n
<1>1. CASE k + c < n
  BY <1>1 DEF InSlot
<1>2. CASE ~(k + c < n)
  BY <1>2 DEF InSlot
<1> QED BY <1>1, <1>2

(* Two latencies below the size of the ring lead to different slots.       *)
LEMMA SlotsDiffer ==
  ASSUME NEW n \in Nat \ {0}, NEW c \in 0 .. n - 1,
         NEW k \in 1 .. n - 1, NEW l \in 1 .. n - 1, NEW i \in Int, NEW j \in Int,
         i = IF k + c < n THEN k + c ELSE k + c - n,
         l + c < n => j = l + c,
         ~(l + c < n) => j = l + c - n
  PROVE  i = j <=> k = l
OBVIOUS

(* Add() appends its record to the queue l cycles away and to no other,    *)
(* whether the ring grows or not.                                          *)
LEMMA AddDue ==
  ASSUME NoFullTurn, IInv, NEW l \in Latencies, NEW r \in Records, Add(l, r),
         NEW k \in 0 .. Horizon
  PROVE  Due(k)' = IF k = l THEN Append(Due(k), r) ELSE Due(k)
<1> DEFINE n == SizeFor(l)
           d == IF l >= size THEN Resize(n) ELSE delay_line
           p == (l + current) % n
<1>1. /\ Horizon \in Nat /\ k \in Nat
      /\ size \in 1 .. Horizon /\ current \in 0 .. size - 1 /\ l \in 1 .. Horizon
      /\ next \in Nat /\ last \in Nat /\ Len(delay_line[current]) = last
      /\ delay_line \in [0 .. size - 1 -> Seq(Records)]
  BY RingAssumption DEF IInv, TypeOK, CurrentSlotDrained
<1>2. /\ n \in RingSizes /\ n \in 1 .. Horizon /\ size <= n /\ l < n
      /\ (n # size => 2 * size <= n)
      /\ l + current < n => p = l + current
      /\ ~(l + current < n) => p = l + current - n
  BY AddFits DEF IInv
<1>p. p \in Int
  <2> HIDE DEF n, p
  <2> QED BY <1>1, <1>2
<1>3. IInv' /\ delay_line'[current] = delay_line[current]
  BY AddIInv
<1>4. /\ size' = n /\ delay_line' = [d EXCEPT ![p] = Append(@, r)]
      /\ current' = current /\ next' = next /\ last' = last
  BY DEF Add
<1>5. n = size => d = delay_line
  BY <1>1, <1>2 DEF NoFullTurn, SizeFor
<1>6. n # size => l >= size /\ d = Resize(n)
  BY DEF SizeFor
<1>7. /\ current \in 0 .. n - 1 /\ delay_line' \in [0 .. n - 1 -> Seq(Records)]
      /\ Len(delay_line'[current]) = last
  BY <1>3, <1>4 DEF IInv, TypeOK, CurrentSlotDrained
<1>8. CASE k = 0
  <2>1. k # l
    BY <1>1, <1>8
  <2> QED BY <1>3, <1>4, <1>8, <2>1 DEF Due, DueIn
<1>9. CASE k # 0
  <2>1. Due(k) = InSlot(delay_line, size, current, k)
    <3>1. /\ size \in Nat \ {0} /\ current \in 0 .. size - 1 /\ k \in Nat \ {0}
          /\ delay_line \in [0 .. size - 1 -> Seq(Records)]
      BY <1>1, <1>9
    <3>2. DueIn(delay_line, size, current, next, Len(delay_line[current]), k)
            = InSlot(delay_line, size, current, k)
      BY <3>1, DueSlot
    <3> QED BY <1>1, <3>2 DEF Due
  <2>2. Due(k)' = InSlot(delay_line', n, current, k)
    <3> HIDE DEF n
    <3>1. /\ n \in Nat \ {0} /\ current \in 0 .. n - 1 /\ k \in Nat \ {0}
          /\ delay_line' \in [0 .. n - 1 -> Seq(Records)]
      <4>1. n \in Nat \ {0} /\ k \in Nat \ {0}
        BY <1>1, <1>2, <1>9
      <4> QED BY <1>7, <4>1, Zenon
    <3>2. Due(k)' = DueIn(delay_line', n, current, next, last, k)
      BY <1>4 DEF Due
    <3>3. DueIn(delay_line', n, current, next, Len(delay_line'[current]), k)
            = InSlot(delay_line', n, current, k)
      BY <3>1, DueSlot
    <3> QED BY <1>7, <3>2, <3>3
  <2>3. n # size => \A i \in 0 .. n - 1 :
          d[i] = IF i < size THEN IF i < current THEN << >> ELSE delay_line[i]
                 ELSE IF i - size < current THEN delay_line[i - size] ELSE << >>
    BY <1>6 DEF Resize
  <2>4. d \in [0 .. n - 1 -> Seq(Records)]
    <3>1. CASE n = size
      BY <1>1, <1>5, <3>1
    <3>2. CASE n # size
      <4> HIDE DEF n
      <4> QED BY <1>1, <1>2, <1>6, <3>2 DEF Resize
    <3> QED BY <3>1, <3>2
  <2> HIDE DEF n, d, p
  <2>5. \A i \in 0 .. n - 1 : delay_line'[i] = IF i = p THEN Append(d[i], r) ELSE d[i]
    BY <1>4, <2>4
  <2>6. CASE k < size
    <3>1. PICK i \in 0 .. size - 1 : /\ Due(k) = delay_line[i]
                                     /\ i = IF k + current < size THEN k + current
                                            ELSE k + current - size
      <4>1. size \in Nat \ {0} /\ current \in 0 .. size - 1 /\ k \in 0 .. size - 1
        BY <1>1, <2>6
      <4> QED BY <2>1, <4>1, SlotIndex
    <3>2. PICK j \in 0 .. n - 1 : /\ Due(k)' = delay_line'[j]
                                  /\ j = IF k + current < n THEN k + current
                                         ELSE k + current - n
      <4>1. n \in Nat \ {0} /\ current \in 0 .. n - 1 /\ k \in 0 .. n - 1
        BY <1>1, <1>2, <2>6
      <4> QED BY <2>2, <4>1, SlotIndex
    <3>3. d[j] = delay_line[i]
      <4>1. CASE n = size
        <5>1. i = j
          BY <3>1, <3>2, <4>1, Zenon
        <5> QED BY <1>5, <4>1, <5>1
      <4>2. CASE n # size
        <5>1. j = k + current /\ current \in 0 .. size - 1 /\ size \in Nat /\ k \in Nat
          BY <1>1, <1>2, <2>6, <3>2, <4>2
        <5>2. d[j] = IF j < size THEN IF j < current THEN << >> ELSE delay_line[j]
                     ELSE IF j - size < current THEN delay_line[j - size] ELSE << >>
          BY <2>3, <4>2
        <5> QED BY <2>6, <3>1, <5>1, <5>2
      <4> QED BY <4>1, <4>2
    <3>4. j = p <=> k = l
      BY <1>1, <1>2, <1>9, <1>p, <2>6, <3>2, SlotsDiffer
    <3> QED BY <2>5, <3>1, <3>2, <3>3, <3>4
  <2>7. CASE ~(k < size) /\ k < n
    <3>1. Due(k) = << >>
      BY <2>1, <2>7 DEF InSlot
    <3>2. PICK j \in 0 .. n - 1 : /\ Due(k)' = delay_line'[j]
                                  /\ j = IF k + current < n THEN k + current
                                         ELSE k + current - n
      <4>1. n \in Nat \ {0} /\ current \in 0 .. n - 1 /\ k \in 0 .. n - 1
        BY <1>1, <1>2, <2>7
      <4> QED BY <2>2, <4>1, SlotIndex
    <3>3. d[j] = << >>
      BY <1>1, <1>2, <2>3, <2>7, <3>2, SMTT(30)
    <3>4. j = p <=> k = l
      BY <1>1, <1>2, <1>9, <1>p, <2>7, <3>2, SlotsDiffer
    <3> QED BY <2>5, <3>1, <3>2, <3>3, <3>4
  <2>8. CASE ~(k < n)
    <3>1. ~(k < size) /\ k # l
      BY <1>1, <1>2, <2>8
    <3> QED BY <2>1, <2>2, <2>8, <3>1 DEF InSlot
  <2> QED BY <1>1, <1>2, <2>6, <2>7, <2>8
<1> QED BY <1>8, <1>9

(* Before a call of Advance() nothing is left of the previous cycle, and   *)
(* its first step brings every queue one cycle nearer.                     *)
LEMMA BeginAdvanceDue ==
  ASSUME IInv, BeginAdvance, NEW k \in 0 .. Horizon
  PROVE  /\ Due(0) = << >>
         /\ Due(k)' = IF k < Horizon THEN Due(k + 1) ELSE << >>
<1> DEFINE c == (current + 1) % size
<1>1. /\ Horizon \in Nat \ {0} /\ k \in Nat
      /\ size \in Nat \ {0} /\ size <= Horizon /\ current \in 0 .. size - 1
      /\ next = 0 /\ Len(delay_line[current]) = last /\ last = 0
      /\ delay_line \in [0 .. size - 1 -> Seq(Records)]
  BY RingAssumption DEF IInv, TypeOK, CurrentSlotDrained, BeginAdvance
<1>2. delay_line[current] = << >>
  BY <1>1, EmptySeq
<1>3. c = IF current + 1 < size THEN current + 1 ELSE 0
  <2>1. PICK a \in 0 .. 2 * size - 1 : a = current + 1
    BY <1>1
  <2>2. (a < size => a % size = a) /\ (~(a < size) => a % size = a - size)
    BY <1>1, ModWrap
  <2> QED BY <1>1, <2>1, <2>2
<1>4. /\ current' = c /\ last' = Len(delay_line[c])
      /\ next' = IF delay_line[c] = << >> THEN 0 ELSE 1
      /\ delay_line' = delay_line /\ size' = size
  BY DEF BeginAdvance
<1> HIDE DEF c
<1>5. c \in 0 .. size - 1
  BY <1>1, <1>3
<1>6. Due(0) = << >>
  BY <1>1 DEF Due, DueIn
<1>7. \A j \in 1 .. Horizon : Due(j) = InSlot(delay_line, size, current, j)
  <2> SUFFICES ASSUME NEW j \in 1 .. Horizon
               PROVE  Due(j) = InSlot(delay_line, size, current, j)
    OBVIOUS
  <2>0. /\ size \in Nat \ {0} /\ current \in 0 .. size - 1 /\ j \in Nat \ {0}
        /\ delay_line \in [0 .. size - 1 -> Seq(Records)]
    BY <1>1
  <2>1. DueIn(delay_line, size, current, next, Len(delay_line[current]), j)
          = InSlot(delay_line, size, current, j)
    BY <2>0, DueSlot
  <2> QED BY <1>1, <2>1 DEF Due
<1>8. CASE k = 0
  <2>1. Due(0)' = delay_line[c]
    <3>1. CASE delay_line[c] = << >>
      BY <1>4, <3>1 DEF Due, DueIn
    <3>2. CASE delay_line[c] # << >>
      <4>1. SubSeq(delay_line[c], 1, Len(delay_line[c])) = delay_line[c]
        BY <1>1, <1>5, SubSeqFull
      <4> QED BY <1>4, <3>2, <4>1 DEF Due, DueIn
    <3> QED BY <3>1, <3>2
  <2>2. Due(1) = delay_line[c]
    BY <1>1, <1>2, <1>3, <1>7 DEF InSlot
  <2> QED BY <1>1, <1>6, <1>8, <2>1, <2>2
<1>9. CASE k # 0
  <2>1. Due(k)' = InSlot(delay_line, size, c, k)
    <3>0. /\ size \in Nat \ {0} /\ c \in 0 .. size - 1 /\ k \in Nat \ {0}
          /\ delay_line \in [0 .. size - 1 -> Seq(Records)]
      BY <1>1, <1>5, <1>9
    <3>1. DueIn(delay_line, size, c, next', Len(delay_line[c]), k)
            = InSlot(delay_line, size, c, k)
      BY <3>0, DueSlot
    <3> QED BY <1>4, <3>1 DEF Due
  <2>2. CASE k < Horizon
    <3>1. Due(k + 1) = InSlot(delay_line, size, current, k + 1)
      BY <1>1, <1>7, <2>2
    <3>2. InSlot(delay_line, size, c, k) = InSlot(delay_line, size, current, k + 1)
      <4>0. /\ size \in Int /\ current \in Int /\ k \in Int /\ c \in Int
            /\ 0 <= current /\ current < size /\ 0 < k
        BY <1>1, <1>5, <1>9
      <4>1. CASE k + 1 < size
        <5>1. CASE current + 1 < size
          <6>1. c = current + 1
            BY <1>3, <5>1
          <6> QED BY <4>0, <4>1, <5>1, <6>1 DEF InSlot
        <5>2. CASE ~(current + 1 < size)
          <6>1. c = 0 /\ current = size - 1
            BY <1>3, <4>0, <5>2
          <6> QED BY <4>0, <4>1, <5>2, <6>1 DEF InSlot
        <5> QED BY <5>1, <5>2
      <4>2. CASE k + 1 = size
        <5>1. CASE current + 1 < size
          <6>1. c = current + 1
            BY <1>3, <5>1
          <6> QED BY <1>2, <4>0, <4>2, <5>1, <6>1 DEF InSlot
        <5>2. CASE ~(current + 1 < size)
          <6>1. c = 0 /\ current = size - 1
            BY <1>3, <4>0, <5>2
          <6> QED BY <1>2, <4>0, <4>2, <5>2, <6>1 DEF InSlot
        <5> QED BY <5>1, <5>2
      <4>3. CASE k >= size
        BY <1>1, <4>3 DEF InSlot
      <4> QED BY <1>1, <4>1, <4>2, <4>3
    <3> QED BY <1>6, <2>1, <2>2, <3>1, <3>2
  <2>3. CASE ~(k < Horizon)
    BY <1>1, <1>6, <2>1, <2>3 DEF InSlot
  <2> QED BY <2>2, <2>3
<1> QED BY <1>8, <1>9

(* Applying a record takes the oldest one of the current cycle and leaves  *)
(* every other queue alone.                                                *)
LEMMA ApplyRecordDue ==
  ASSUME IInv, ApplyRecord, NEW k \in 0 .. Horizon
  PROVE  /\ Due(0) # << >>
         /\ Due(k)' = IF k = 0 THEN Tail(Due(0)) ELSE Due(k)
<1>1. /\ Horizon \in Nat \ {0} /\ k \in Nat
      /\ size \in Nat \ {0} /\ current \in 0 .. size - 1
      /\ next \in Nat \ {0} /\ Len(delay_line[current]) = last /\ last \in Nat /\ next <= last
      /\ delay_line \in [0 .. size - 1 -> Seq(Records)]
      /\ current' = current /\ size' = size
      /\ next' = IF next = last THEN 0 ELSE next + 1
      /\ last' = IF next = last THEN 0 ELSE last
      /\ delay_line' = IF next = last THEN [delay_line EXCEPT ![current] = << >>] ELSE delay_line
  BY RingAssumption DEF IInv, TypeOK, CurrentSlotDrained, ApplyRecord
<1>2. Due(0) = SubSeq(delay_line[current], next, last)
  BY <1>1 DEF Due, DueIn
<1>3. Tail(Due(0)) = SubSeq(delay_line[current], next + 1, last)
  <2>1. PICK s \in Seq(Records) : s = delay_line[current]
    BY <1>1
  <2>2. next \in 1 .. Len(s) /\ last \in next .. Len(s)
    BY <1>1, <2>1
  <2>3. Tail(SubSeq(s, next, last)) = SubSeq(s, next + 1, last)
    BY <2>2, HeadTailOfSubSeq
  <2> QED BY <1>2, <2>1, <2>3
<1>4. Due(0) # << >>
  <2>1. \A i \in next .. last : delay_line[current][i] \in Records
    BY <1>1, LenProperties
  <2>2. Len(SubSeq(delay_line[current], next, last)) = last - next + 1
    BY <1>1, <2>1, SubSeqProperties
  <2> QED BY <1>1, <1>2, <2>2, EmptySeq
<1>5. CASE k = 0
  <2>1. CASE next = last
    <3>1. SubSeq(delay_line[current], next + 1, last) = << >>
      BY <1>1, <2>1, SubSeqEmpty
    <3>2. Due(0)' = << >>
      BY <1>1, <2>1 DEF Due, DueIn
    <3> QED BY <1>3, <1>4, <1>5, <3>1, <3>2
  <2>2. CASE next # last
    <3>1. Due(0)' = SubSeq(delay_line[current], next + 1, last)
      BY <1>1, <2>2 DEF Due, DueIn
    <3> QED BY <1>3, <1>4, <1>5, <3>1
  <2> QED BY <2>1, <2>2
<1>6. CASE k # 0
  <2>1. IInv'
    BY ApplyRecordIInv
  <2>2. /\ delay_line' \in [0 .. size - 1 -> Seq(Records)]
        /\ Len(delay_line'[current]) = last'
    BY <1>1, <2>1 DEF IInv, TypeOK, CurrentSlotDrained
  <2>3. DueIn(delay_line, size, current, next, Len(delay_line[current]), k)
          = InSlot(delay_line, size, current, k)
    <3>1. /\ size \in Nat \ {0} /\ current \in 0 .. size - 1 /\ k \in Nat \ {0}
          /\ delay_line \in [0 .. size - 1 -> Seq(Records)]
      BY <1>1, <1>6
    <3> QED BY <3>1, DueSlot
  <2>4. DueIn(delay_line', size, current, next', Len(delay_line'[current]), k)
          = InSlot(delay_line', size, current, k)
    <3>1. /\ size \in Nat \ {0} /\ current \in 0 .. size - 1 /\ k \in Nat \ {0}
          /\ delay_line' \in [0 .. size - 1 -> Seq(Records)]
      BY <1>1, <1>6, <2>2
    <3> QED BY <3>1, DueSlot, ZenonT(30)
  <2>5. InSlot(delay_line', size, current, k) = InSlot(delay_line, size, current, k)
    BY <1>1, <1>6 DEF InSlot
  <2>6. Due(k) = InSlot(delay_line, size, current, k)
    BY <1>1, <2>3 DEF Due
  <2>7. Due(k)' = InSlot(delay_line', size, current, k)
    BY <1>1, <2>2, <2>4 DEF Due
  <2> QED BY <1>4, <1>6, <2>5, <2>6, <2>7
<1> QED BY <1>5, <1>6

(* The circular buffer implements the shift register: every record is      *)
(* applied by the Advance() call that is its latency away, in Add() order, *)
(* and is neither lost, duplicated nor moved by a Resize().                *)
THEOREM Implements ==
  ASSUME NoFullTurn
  PROVE  Spec => AppliedOnTime
<1>1. Init => Promise!Init
  <2> SUFFICES ASSUME Init PROVE Promise!Init
    OBVIOUS
  <2>1. IInv
    BY InitIInv
  <2>2. \A k \in 0 .. Horizon : Due(k) = << >>
    <3> SUFFICES ASSUME NEW k \in 0 .. Horizon PROVE Due(k) = << >>
      OBVIOUS
    <3>1. CASE k = 0
      BY <3>1 DEF Init, Due, DueIn
    <3>2. CASE k # 0
      <4>1. /\ size \in Nat \ {0} /\ current \in 0 .. size - 1 /\ k \in Nat \ {0}
            /\ delay_line \in [0 .. size - 1 -> Seq(Records)]
            /\ Len(delay_line[current]) = last /\ current = 0
            /\ \A i \in 0 .. size - 1 : delay_line[i] = << >>
        BY <2>1, <3>2, RingAssumption DEF IInv, TypeOK, CurrentSlotDrained, Init
      <4>2. DueIn(delay_line, size, current, next, Len(delay_line[current]), k)
              = InSlot(delay_line, size, current, k)
        BY <4>1, DueSlot, ZenonT(30)
      <4>3. Due(k) = InSlot(delay_line, size, current, k)
        BY <4>1, <4>2 DEF Due
      <4> QED BY <4>1, <4>3 DEF InSlot
    <3> QED BY <3>1, <3>2
  <2> QED BY <2>2 DEF Promise!Init
<1>2. IInv /\ [Next]_vars => [Promise!Next]_([k \in 0 .. Horizon |-> Due(k)])
  <2> SUFFICES ASSUME IInv, [Next]_vars
               PROVE  [Promise!Next]_([k \in 0 .. Horizon |-> Due(k)])
    OBVIOUS
  <2> DEFINE D == [k \in 0 .. Horizon |-> Due(k)]
  <2>1. ASSUME NEW l \in Latencies, NEW r \in Records, Add(l, r)
        PROVE  Promise!Add(l, r)
    <3>1. \A k \in 0 .. Horizon :
            Due(k)' = IF k = l THEN Append(Due(k), r) ELSE Due(k)
      BY <2>1, AddDue
    <3>2. l \in 0 .. Horizon
      BY RingAssumption
    <3>3. D' = [D EXCEPT ![l] = Append(@, r)]
      BY <3>1, <3>2
    <3> QED BY <3>3 DEF Promise!Add
  <2>2. ASSUME BeginAdvance PROVE Promise!Tick
    <3>1. Due(0) = << >> /\ \A k \in 0 .. Horizon :
            Due(k)' = IF k < Horizon THEN Due(k + 1) ELSE << >>
      BY <2>2, BeginAdvanceDue, RingAssumption
    <3>2. D[0] = << >>
      BY <3>1, RingAssumption
    <3>3. D' = [k \in 0 .. Horizon |-> IF k < Horizon THEN D[k + 1] ELSE << >>]
      <4>1. \A k \in 0 .. Horizon : k < Horizon => D[k + 1] = Due(k + 1)
        BY RingAssumption
      <4> QED BY <3>1, <4>1
    <3> QED BY <3>2, <3>3 DEF Promise!Tick
  <2>3. ASSUME ApplyRecord PROVE Promise!Apply
    <3>1. Due(0) # << >> /\ \A k \in 0 .. Horizon :
            Due(k)' = IF k = 0 THEN Tail(Due(0)) ELSE Due(k)
      BY <2>3, ApplyRecordDue, RingAssumption
    <3>2. D[0] # << >>
      BY <3>1, RingAssumption
    <3>3. D' = [D EXCEPT ![0] = Tail(@)]
      BY <3>1, RingAssumption
    <3> QED BY <3>2, <3>3 DEF Promise!Apply
  <2>4. CASE UNCHANGED vars
    BY <2>4 DEF vars, Due
  <2> QED BY <2>1, <2>2, <2>3, <2>4 DEF Next, Promise!Next
<1>3. Spec => []IInv
  BY Drained, PTL DEF IInv
<1> QED BY <1>1, <1>2, <1>3, PTL DEF Spec, AppliedOnTime, Promise!Spec
=============================================================================
