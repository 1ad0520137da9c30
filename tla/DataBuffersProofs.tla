------------------------- MODULE DataBuffersProofs -------------------------
(***************************************************************************)
(* Proofs about data buffers for any registers, fifos, latencies and       *)
(* clients.                                                                *)
(*                                                                         *)
(* The references to a buffer are counted where they are: in registers,    *)
(* fifos, slots of the delay line, records not yet cleared and clients.    *)
(* Each operation moves, adds or removes some of them, and the heap is     *)
(* sound for the new number.                                               *)
(***************************************************************************)
EXTENDS DataBuffers, FiniteSetTheorems, SequenceTheorems, WellFoundedInduction, TLAPS

-----------------------------------------------------------------------------
(* Counting.                                                               *)

One(x, b) == IF x = b THEN 1 ELSE 0

LEMMA OneTyped ==
  ASSUME NEW x, NEW b
  PROVE  One(x, b) \in Nat /\ (x = b => One(x, b) = 1) /\ (x # b => One(x, b) = 0)
BY DEF One

LEMMA SamePair ==
  ASSUME NEW w, NEW x, NEW y, NEW z, <<w, x>> = <<y, z>>
  PROVE  w = y /\ x = z
OBVIOUS

LEMMA SameSuccessor ==
  ASSUME NEW m \in Nat, NEW n \in Nat, m + 1 = n + 1
  PROVE  m = n
OBVIOUS

LEMMA Least ==
  ASSUME NEW T \in SUBSET Nat, T # {}
  PROVE  \E n \in T : \A m \in T : n <= m
<1>1. PICK n \in T : \A m \in T : ~(<<m, n>> \in OpToRel(<, Nat))
  BY WFMin, NatLessThanWellFounded
<1>2. ASSUME NEW m \in T PROVE n <= m
  <2>1. n \in Nat /\ m \in Nat
    OBVIOUS
  <2>2. ~(m < n)
    BY <1>1, <2>1 DEF OpToRel
  <2> QED BY <2>1, <2>2
<1> QED BY <1>2

LEMMA SameCount ==
  ASSUME NEW S, NEW T, IsFiniteSet(S), NEW f \in [S -> T],
         \A x, y \in S : f[x] = f[y] => x = y,
         \A t \in T : \E x \in S : f[x] = t
  PROVE  IsFiniteSet(T) /\ Cardinality(T) = Cardinality(S)
<1>1. f \in Bijection(S, T)
  BY DEF Bijection, Injection, Surjection, IsInjective
<1>2. ExistsBijection(S, T)
  BY <1>1 DEF ExistsBijection
<1> QED BY <1>2, FS_Bijection

Places(b, s) == {i \in DOMAIN s : s[i] = b}

LEMMA PlacesFinite ==
  ASSUME NEW S, NEW s \in Seq(S), NEW b
  PROVE  /\ IsFiniteSet(Places(b, s)) /\ Occurrences(b, s) = Cardinality(Places(b, s))
         /\ Occurrences(b, s) \in Nat
<1>1. DOMAIN s = 1 .. Len(s) /\ Len(s) \in Nat
  BY LenProperties
<1>2. IsFiniteSet(1 .. Len(s))
  BY <1>1, FS_Interval
<1>3. Places(b, s) \in SUBSET (1 .. Len(s))
  BY <1>1 DEF Places
<1>4. IsFiniteSet(Places(b, s))
  BY <1>2, <1>3, FS_Subset
<1> QED BY <1>4, FS_CardinalityType DEF Occurrences, Places

LEMMA OccEmpty ==
  ASSUME NEW b
  PROVE  Occurrences(b, << >>) = 0
<1>1. {i \in DOMAIN << >> : << >>[i] = b} = {}
  OBVIOUS
<1> QED BY <1>1, FS_EmptySet DEF Occurrences

LEMMA OccAppend ==
  ASSUME NEW S, NEW s \in Seq(S), NEW x \in S, NEW b
  PROVE  Occurrences(b, Append(s, x)) = Occurrences(b, s) + One(x, b)
<1> DEFINE n == Len(s) + 1
           t == Append(s, x)
<1>1. Len(s) \in Nat /\ DOMAIN s = 1 .. Len(s)
  BY LenProperties
<1>2. t \in Seq(S) /\ DOMAIN t = 1 .. n /\ t[n] = x /\ \A i \in 1 .. Len(s) : t[i] = s[i]
  OBVIOUS
<1> HIDE DEF t
<1>3. /\ IsFiniteSet(Places(b, s)) /\ Occurrences(b, s) = Cardinality(Places(b, s))
      /\ Occurrences(b, s) \in Nat /\ Occurrences(b, t) = Cardinality(Places(b, t))
  BY <1>2, PlacesFinite
<1>4. CASE x = b
  <2>1. Places(b, t) = Places(b, s) \cup {n}
    BY <1>1, <1>2, <1>4 DEF Places
  <2>2. n \notin Places(b, s)
    BY <1>1 DEF Places
  <2>3. Cardinality(Places(b, t)) = Cardinality(Places(b, s)) + 1
    BY <1>3, <2>1, <2>2, FS_AddElement
  <2> QED BY <1>3, <1>4, <2>3 DEF One, t
<1>5. CASE x # b
  <2>1. Places(b, t) = Places(b, s)
    BY <1>1, <1>2, <1>5 DEF Places
  <2> QED BY <1>3, <1>5, <2>1 DEF One, t
<1> QED BY <1>4, <1>5

LEMMA OccTail ==
  ASSUME NEW S, NEW s \in Seq(S), s # << >>, NEW b
  PROVE  Occurrences(b, s) = Occurrences(b, Tail(s)) + One(Head(s), b)
<1> DEFINE t == Tail(s)
           A == Places(b, t)
           B == Places(b, s) \ {1}
           f == [i \in A |-> i + 1]
<1>1. Len(s) \in Nat \ {0} /\ DOMAIN s = 1 .. Len(s)
  BY LenProperties, EmptySeq
<1>2. t \in Seq(S) /\ Len(t) = Len(s) - 1 /\ \A i \in 1 .. Len(t) : t[i] = s[i + 1]
  BY HeadTailProperties
<1>3. DOMAIN t = 1 .. Len(s) - 1
  BY <1>2, LenProperties
<1>4. Head(s) = s[1]
  OBVIOUS
<1> HIDE DEF t
<1>5. A \subseteq Nat /\ \A i \in A : i + 1 \in B
  BY <1>1, <1>2, <1>3 DEF Places
<1>6. \A j \in B : j - 1 \in A /\ (j - 1) + 1 = j
  BY <1>1, <1>2, <1>3 DEF Places
<1>7. IsFiniteSet(A) /\ IsFiniteSet(Places(b, s))
  BY <1>2, PlacesFinite
<1>8. Cardinality(B) = Cardinality(A)
  <2> HIDE DEF A, B
  <2>1. f \in [A -> B]
    BY <1>5
  <2>2. \A x, y \in A : f[x] = f[y] => x = y
    BY <1>5
  <2>3. \A j \in B : \E x \in A : f[x] = j
    BY <1>6
  <2> HIDE DEF f
  <2> QED BY <1>7, <2>1, <2>2, <2>3, SameCount
<1>9. Occurrences(b, s) = Cardinality(Places(b, s)) /\ Occurrences(b, t) = Cardinality(A)
      /\ Cardinality(Places(b, s)) \in Nat /\ Cardinality(A) \in Nat
  BY <1>2, PlacesFinite
<1>10. 1 \in Places(b, s) <=> Head(s) = b
  BY <1>1, <1>4 DEF Places
<1>11. Cardinality(B) = IF 1 \in Places(b, s) THEN Cardinality(Places(b, s)) - 1
                        ELSE Cardinality(Places(b, s))
  BY <1>7, FS_RemoveElement
<1> QED BY <1>8, <1>9, <1>10, <1>11 DEF One, t

-----------------------------------------------------------------------------
(* Counting in a function to sequences, as fifo_ and the slots of the      *)
(* delay line are.                                                         *)

Marked(b, q) == {p \in Spots(q) : q[p[1]][p[2]] = b}

LEMMA SpotsAre ==
  ASSUME NEW I, NEW S, NEW q \in [I -> Seq(S)]
  PROVE  /\ \A p \in Spots(q) : p = <<p[1], p[2]>> /\ p[1] \in I /\ p[2] \in DOMAIN q[p[1]]
         /\ \A k \in I : \A i \in DOMAIN q[k] : <<k, i>> \in Spots(q)
BY DEF Spots

LEMMA MarkedFinite ==
  ASSUME NEW I, IsFiniteSet(I), NEW S, NEW q \in [I -> Seq(S)], NEW b
  PROVE  /\ IsFiniteSet(Marked(b, q)) /\ OccurrencesIn(b, q) = Cardinality(Marked(b, q))
         /\ OccurrencesIn(b, q) \in Nat
<1> DEFINE part == [k \in I |-> {k} \X DOMAIN q[k]]
           parts == {part[k] : k \in I}
<1>1. IsFiniteSet(parts)
  <2>1. part \in Surjection(I, parts)
    BY DEF Surjection
  <2> HIDE DEF part, parts
  <2> QED BY <2>1, FS_Surjection
<1>2. ASSUME NEW k \in I PROVE IsFiniteSet(part[k])
  <2>1. Len(q[k]) \in Nat /\ DOMAIN q[k] = 1 .. Len(q[k])
    BY LenProperties
  <2>2. IsFiniteSet(DOMAIN q[k])
    BY <2>1, FS_Interval
  <2>3. IsFiniteSet({k})
    BY FS_Singleton
  <2>4. IsFiniteSet({k} \X DOMAIN q[k])
    BY <2>2, <2>3, FS_Product
  <2> QED BY <2>4
<1>3. Spots(q) = UNION parts
  BY DEF Spots
<1> HIDE DEF part
<1>4. \A T \in parts : IsFiniteSet(T)
  BY <1>2
<1> HIDE DEF parts
<1>5. IsFiniteSet(Spots(q))
  BY <1>1, <1>3, <1>4, FS_UNION
<1>6. IsFiniteSet(Marked(b, q))
  BY <1>5, FS_Subset DEF Marked
<1> QED BY <1>6, FS_CardinalityType DEF OccurrencesIn, Marked

(* What is counted outside of the sequence of j.                           *)
Rest(b, q, j) == {p \in Marked(b, q) : p[1] # j}

LEMMA OccSplit ==
  ASSUME NEW I, IsFiniteSet(I), NEW S, NEW q \in [I -> Seq(S)], NEW j \in I, NEW b
  PROVE  /\ Cardinality(Rest(b, q, j)) \in Nat
         /\ OccurrencesIn(b, q) = Cardinality(Rest(b, q, j)) + Occurrences(b, q[j])
<1> DEFINE A == Places(b, q[j])
           B == {p \in Marked(b, q) : p[1] = j}
           R == Rest(b, q, j)
           f == [i \in A |-> <<j, i>>]
<1>1. IsFiniteSet(Marked(b, q)) /\ OccurrencesIn(b, q) = Cardinality(Marked(b, q))
  BY MarkedFinite
<1>2. IsFiniteSet(A) /\ Occurrences(b, q[j]) = Cardinality(A) /\ Cardinality(A) \in Nat
  BY PlacesFinite
<1>3. IsFiniteSet(B) /\ Cardinality(B) = Cardinality(A)
  <2>1. \A i \in A : <<j, i>> \in B
    BY SpotsAre DEF Places, Marked
  <2>2. \A p \in B : p[2] \in A /\ p = <<j, p[2]>>
    BY SpotsAre DEF Places, Marked
  <2> HIDE DEF A, B
  <2>3. f \in [A -> B]
    BY <2>1
  <2>4. \A x, y \in A : f[x] = f[y] => x = y
    OBVIOUS
  <2>5. \A p \in B : \E x \in A : f[x] = p
    BY <2>2
  <2> HIDE DEF f
  <2> QED BY <1>2, <2>3, <2>4, <2>5, SameCount
<1>4. IsFiniteSet(R)
  BY <1>1, FS_Subset DEF Rest
<1>5. Marked(b, q) = R \cup B /\ R \cap B = {}
  BY DEF Rest
<1> HIDE DEF A, B, R
<1>6. Cardinality(R) \in Nat /\ Cardinality(R \cap B) = 0
  BY <1>4, <1>5, FS_CardinalityType, FS_EmptySet
<1>7. Cardinality(R \cup B) = Cardinality(R) + Cardinality(B) - Cardinality(R \cap B)
  BY <1>3, <1>4, FS_Union
<1> QED BY <1>1, <1>2, <1>3, <1>5, <1>6, <1>7 DEF R

SequencesOver(I, S) == [I -> Seq(S)]

DifferAt(j, I, q, r) == \A k \in I \ {j} : r[k] = q[k]

LEMMA OccDiffer ==
  ASSUME NEW I, NEW S, IsFiniteSet(I), NEW q \in SequencesOver(I, S), NEW r \in SequencesOver(I, S),
         NEW j \in I, DifferAt(j, I, q, r), NEW b
  PROVE  OccurrencesIn(b, r) = OccurrencesIn(b, q) - Occurrences(b, q[j]) + Occurrences(b, r[j])
<1>0. q \in [I -> Seq(S)]
  BY DEF SequencesOver
<1>1. r \in [I -> Seq(S)] /\ \A k \in I \ {j} : r[k] = q[k]
  BY DEF SequencesOver, DifferAt
<1>2. Rest(b, r, j) = Rest(b, q, j)
  <2>1. ASSUME NEW p \in Rest(b, r, j) PROVE p \in Rest(b, q, j)
    <3>1. p \in Spots(r) /\ r[p[1]][p[2]] = b /\ p[1] # j
      BY DEF Rest, Marked
    <3>2. p = <<p[1], p[2]>> /\ p[1] \in I /\ p[2] \in DOMAIN r[p[1]]
      BY <1>1, <3>1, SpotsAre
    <3>3. r[p[1]] = q[p[1]]
      BY <1>1, <3>1, <3>2
    <3>4. p \in Spots(q)
      BY <1>0, <3>2, <3>3, SpotsAre
    <3> QED BY <3>1, <3>3, <3>4 DEF Rest, Marked
  <2>2. ASSUME NEW p \in Rest(b, q, j) PROVE p \in Rest(b, r, j)
    <3>1. p \in Spots(q) /\ q[p[1]][p[2]] = b /\ p[1] # j
      BY DEF Rest, Marked
    <3>2. p = <<p[1], p[2]>> /\ p[1] \in I /\ p[2] \in DOMAIN q[p[1]]
      BY <1>0, <3>1, SpotsAre
    <3>3. r[p[1]] = q[p[1]]
      BY <1>1, <3>1, <3>2
    <3>4. p \in Spots(r)
      BY <1>1, <3>2, <3>3, SpotsAre
    <3> QED BY <3>1, <3>3, <3>4 DEF Rest, Marked
  <2> QED BY <2>1, <2>2
<1>3. /\ OccurrencesIn(b, r) = Cardinality(Rest(b, q, j)) + Occurrences(b, r[j])
      /\ OccurrencesIn(b, q) = Cardinality(Rest(b, q, j)) + Occurrences(b, q[j])
      /\ Cardinality(Rest(b, q, j)) \in Nat
  BY <1>0, <1>1, <1>2, OccSplit
<1>4. Occurrences(b, r[j]) \in Nat /\ Occurrences(b, q[j]) \in Nat
  BY <1>0, <1>1, PlacesFinite
<1> QED BY <1>3, <1>4

LEMMA OccAllEmpty ==
  ASSUME NEW I, NEW S, NEW q \in [I -> Seq(S)], \A k \in I : q[k] = << >>, NEW b
  PROVE  OccurrencesIn(b, q) = 0
<1>1. {p \in Spots(q) : q[p[1]][p[2]] = b} = {}
  BY SpotsAre
<1> QED BY <1>1, FS_EmptySet DEF OccurrencesIn

(* A turn of the delay line: every slot gets the contents of the next.     *)
Shifted(N, q, r) == q[0] = << >> /\ r[N] = << >> /\ \A k \in 0 .. (N - 1) : r[k] = q[k + 1]

LEMMA OccShifted ==
  ASSUME NEW N \in Nat, NEW S, NEW q \in SequencesOver(0 .. N, S), NEW r \in SequencesOver(0 .. N, S),
         Shifted(N, q, r), NEW b
  PROVE  OccurrencesIn(b, r) = OccurrencesIn(b, q)
<1> q \in [0 .. N -> Seq(S)] /\ r \in [0 .. N -> Seq(S)]
  BY DEF SequencesOver
<1> q[0] = << >> /\ r[N] = << >> /\ \A k \in 0 .. (N - 1) : r[k] = q[k + 1]
  BY DEF Shifted
<1> DEFINE A == Marked(b, r)
           B == Marked(b, q)
           f == [p \in A |-> <<p[1] + 1, p[2]>>]
<1>0. IsFiniteSet(0 .. N)
  BY FS_Interval
<1>1. IsFiniteSet(A) /\ OccurrencesIn(b, r) = Cardinality(A) /\ OccurrencesIn(b, q) = Cardinality(B)
  BY <1>0, MarkedFinite
<1>2. ASSUME NEW p \in A
      PROVE  p = <<p[1], p[2]>> /\ p[1] \in Nat /\ <<p[1] + 1, p[2]>> \in B
  <2>1. p = <<p[1], p[2]>> /\ p[1] \in 0 .. N /\ p[2] \in DOMAIN r[p[1]] /\ r[p[1]][p[2]] = b
    BY SpotsAre, ZenonT(60) DEF Marked
  <2>2. p[1] # N
    BY <2>1
  <2>3. p[1] \in 0 .. (N - 1) /\ p[1] + 1 \in 0 .. N
    BY <2>1, <2>2
  <2>4. r[p[1]] = q[p[1] + 1]
    BY <2>3
  <2>5. <<p[1] + 1, p[2]>> \in Spots(q)
    BY <2>1, <2>3, <2>4, SpotsAre
  <2> QED BY <2>1, <2>3, <2>4, <2>5 DEF Marked
<1>3. ASSUME NEW p \in B
      PROVE  p[1] - 1 \in Nat /\ <<p[1] - 1, p[2]>> \in A /\ p = <<(p[1] - 1) + 1, p[2]>>
  <2>1. p = <<p[1], p[2]>> /\ p[1] \in 0 .. N /\ p[2] \in DOMAIN q[p[1]] /\ q[p[1]][p[2]] = b
    BY SpotsAre, ZenonT(60) DEF Marked
  <2>2. p[1] # 0
    BY <2>1
  <2>3. p[1] - 1 \in 0 .. (N - 1) /\ (p[1] - 1) + 1 = p[1] /\ p[1] - 1 \in 0 .. N
    BY <2>1, <2>2, SMTT(30)
  <2>4. r[p[1] - 1] = q[p[1]]
    BY <2>3
  <2>5. <<p[1] - 1, p[2]>> \in Spots(r)
    BY <2>1, <2>3, <2>4, SpotsAre
  <2> QED BY <2>1, <2>3, <2>4, <2>5 DEF Marked
<1> HIDE DEF A, B
<1>4. f \in [A -> B]
  BY <1>2
<1>5. ASSUME NEW x \in A, NEW y \in A, f[x] = f[y] PROVE x = y
  <2>0. f[x] = <<x[1] + 1, x[2]>> /\ f[y] = <<y[1] + 1, y[2]>>
    OBVIOUS
  <2> HIDE DEF f
  <2>1. x[1] + 1 = y[1] + 1 /\ x[2] = y[2]
    <3>1. <<x[1] + 1, x[2]>> = <<y[1] + 1, y[2]>>
      BY <1>5, <2>0
    <3> QED BY <3>1, SamePair
  <2>2. x[1] = y[1]
    <3>1. x[1] \in Nat /\ y[1] \in Nat
      BY <1>2
    <3> QED BY <2>1, <3>1, SameSuccessor, Zenon
  <2>3. x = <<x[1], x[2]>> /\ y = <<y[1], y[2]>>
    BY <1>2
  <2> QED BY <2>1, <2>2, <2>3
<1>6. ASSUME NEW p \in B PROVE \E x \in A : f[x] = p
  BY <1>3
<1> HIDE DEF f
<1> QED BY <1>1, <1>4, <1>5, <1>6, SameCount

-----------------------------------------------------------------------------
(* ReferenceCount and DataBufferFactory.                                   *)

HeapType == [made : SUBSET Buffers, deleted : SUBSET Buffers,
             ref : [Buffers -> Nat], free : Seq(Buffers)]

Counts == [Buffers -> Nat]

(* h is right for n references to each buffer, and nothing is deleted.     *)
Sound(h, n) ==
  /\ h \in HeapType /\ h.deleted = {} /\ h.ref = n /\ n \in Counts
  /\ IsInjective(h.free)
  /\ ToSet(h.free) = {b \in h.made : n[b] = 0}
  /\ \A b \in Buffers : n[b] # 0 => b \in h.made

LEMMA SoundParts ==
  ASSUME NEW h, NEW n, Sound(h, n)
  PROVE  /\ h \in HeapType /\ h.made \in SUBSET Buffers /\ h.deleted = {}
         /\ h.ref = n /\ n \in Counts /\ h.free \in Seq(Buffers)
BY DEF Sound, HeapType

LEMMA SeqFacts ==
  ASSUME NEW S, NEW s \in Seq(S), NEW x \in S
  PROVE  /\ ToSet(Append(s, x)) = ToSet(s) \cup {x}
         /\ IsInjective(s) /\ x \notin ToSet(s) => IsInjective(Append(s, x))
<1> DEFINE t == Append(s, x)
<1>1. Len(s) \in Nat /\ DOMAIN s = 1 .. Len(s)
  OBVIOUS
<1>2. DOMAIN t = 1 .. Len(s) + 1 /\ t[Len(s) + 1] = x /\ \A i \in 1 .. Len(s) : t[i] = s[i]
  OBVIOUS
<1> HIDE DEF t
<1>3. ToSet(t) = ToSet(s) \cup {x}
  <2>1. ASSUME NEW y \in ToSet(t) PROVE y \in ToSet(s) \cup {x}
    BY <1>1, <1>2 DEF ToSet
  <2>2. ASSUME NEW y \in ToSet(s) PROVE y \in ToSet(t)
    BY <1>1, <1>2 DEF ToSet
  <2>3. x \in ToSet(t)
    BY <1>1, <1>2 DEF ToSet
  <2> QED BY <2>1, <2>2, <2>3
<1>4. ASSUME IsInjective(s), x \notin ToSet(s) PROVE IsInjective(t)
  <2> SUFFICES ASSUME NEW i \in DOMAIN t, NEW j \in DOMAIN t, t[i] = t[j] PROVE i = j
    BY DEF IsInjective
  <2>1. \A k \in 1 .. Len(s) : s[k] # x
    BY <1>1, <1>4 DEF ToSet
  <2>2. \A k, m \in 1 .. Len(s) : s[k] = s[m] => k = m
    BY <1>1, <1>4 DEF IsInjective
  <2>3. i \in 1 .. Len(s) \/ i = Len(s) + 1
    BY <1>1, <1>2
  <2>4. j \in 1 .. Len(s) \/ j = Len(s) + 1
    BY <1>1, <1>2
  <2> QED BY <1>2, <2>1, <2>2, <2>3, <2>4
<1> QED BY <1>3, <1>4 DEF t

LEMMA FrontFacts ==
  ASSUME NEW S, NEW s \in Seq(S), s # << >>, IsInjective(s)
  PROVE  /\ Front(s) \in Seq(S) /\ IsInjective(Front(s)) /\ Last(s) \in ToSet(s) /\ Last(s) \in S
         /\ ToSet(Front(s)) = ToSet(s) \ {Last(s)}
<1> DEFINE t == Front(s)
           m == Len(s)
<1>1. m \in Nat \ {0} /\ DOMAIN s = 1 .. m
  BY EmptySeq, LenProperties
<1>2. /\ t \in Seq(S) /\ Len(t) = m - 1
      /\ \A i \in 1 .. m - 1 : t[i] = s[i]
  <2>1. \A i \in 1 .. m - 1 : s[i] \in S
    BY <1>1
  <2> QED BY <1>1, <2>1, SubSeqProperties DEF Front
<1>3. DOMAIN t = 1 .. m - 1
  BY <1>2, LenProperties
<1>4. \A i, j \in 1 .. m : s[i] = s[j] => i = j
  BY <1>1 DEF IsInjective
<1> HIDE DEF t, m
<1>5. IsInjective(t)
  <2> SUFFICES ASSUME NEW i \in 1 .. m - 1, NEW j \in 1 .. m - 1, t[i] = t[j] PROVE i = j
    BY <1>3 DEF IsInjective
  <2>1. i \in 1 .. m /\ j \in 1 .. m /\ s[i] = s[j]
    BY <1>1, <1>2
  <2> QED BY <1>4, <2>1
<1>6. Last(s) = s[m] /\ m \in 1 .. m /\ s[m] \in S
  BY <1>1 DEF Last, m
<1>7. ToSet(t) = ToSet(s) \ {s[m]}
  <2>1. ASSUME NEW i \in 1 .. m - 1 PROVE s[i] \in ToSet(s) /\ s[i] # s[m]
    BY <1>1, <1>4 DEF ToSet
  <2>2. ASSUME NEW i \in 1 .. m, s[i] # s[m] PROVE s[i] \in ToSet(t)
    <3>1. i \in 1 .. m - 1
      BY <1>1, <2>2
    <3> QED BY <1>2, <1>3, <3>1 DEF ToSet
  <2> QED BY <1>1, <1>2, <1>3, <2>1, <2>2 DEF ToSet
<1>8. s[m] \in ToSet(s)
  BY <1>1, <1>6 DEF ToSet
<1> QED BY <1>2, <1>5, <1>6, <1>7, <1>8 DEF t

LEMMA IncRefSound ==
  ASSUME NEW h, NEW n, Sound(h, n), NEW b \in Buffers, n[b] # 0
  PROVE  Sound(IncRef(h, b), [n EXCEPT ![b] = @ + 1])
<1> DEFINE g == IncRef(h, b)
           m == [n EXCEPT ![b] = @ + 1]
<1>1. /\ h \in HeapType /\ h.made \in SUBSET Buffers /\ h.deleted = {}
      /\ h.ref = n /\ n \in Counts /\ h.free \in Seq(Buffers)
  BY SoundParts
<1>2. g.made = h.made /\ g.deleted = {} /\ g.ref = m /\ g.free = h.free /\ g \in HeapType
  <2>1. m \in Counts
    BY <1>1 DEF Counts
  <2>2. g = [h EXCEPT !.ref = m]
    BY <1>1 DEF IncRef, HeapType
  <2> HIDE DEF g, m
  <2> QED BY <1>1, <2>1, <2>2 DEF HeapType, Counts
<1>3. m \in Counts /\ \A c \in Buffers : m[c] = 0 <=> n[c] = 0
  BY <1>1 DEF Counts
<1> HIDE DEF g, m
<1>4. IsInjective(g.free) /\ ToSet(g.free) = {c \in g.made : m[c] = 0}
  BY <1>1, <1>2, <1>3 DEF Sound
<1>5. \A c \in Buffers : m[c] # 0 => c \in g.made
  BY <1>2, <1>3 DEF Sound
<1> QED BY <1>2, <1>3, <1>4, <1>5 DEF Sound, g, m

LEMMA DecRefSound ==
  ASSUME NEW h, NEW n, Sound(h, n), NEW b \in Buffers, n[b] # 0
  PROVE  Sound(DecRef(h, b), [n EXCEPT ![b] = @ - 1])
<1> DEFINE g == DecRef(h, b)
           m == [n EXCEPT ![b] = @ - 1]
           f == IF n[b] = 1 THEN Append(h.free, b) ELSE h.free
<1>1. /\ h \in HeapType /\ h.made \in SUBSET Buffers /\ h.deleted = {}
      /\ h.ref = n /\ n \in Counts /\ h.free \in Seq(Buffers)
  BY SoundParts
<1>2. n[b] \in Nat \ {0} /\ b \in h.made /\ b \notin ToSet(h.free)
  BY <1>1 DEF Counts, Sound
<1>3. m \in Counts /\ m[b] = n[b] - 1 /\ \A c \in Buffers \ {b} : m[c] = n[c]
  BY <1>1, <1>2 DEF Counts
<1>4. f \in Seq(Buffers)
  BY <1>1
<1>5. g.made = h.made /\ g.deleted = {} /\ g.ref = m /\ g.free = f /\ g \in HeapType
  <2>1. g = [h EXCEPT !.ref = m, !.free = f]
    BY <1>1 DEF DecRef, HeapType
  <2> HIDE DEF g, m, f
  <2> QED BY <1>1, <1>3, <1>4, <2>1 DEF HeapType, Counts
<1>6. ToSet(h.free) = {c \in h.made : n[c] = 0} /\ IsInjective(h.free)
  BY DEF Sound
<1>7. CASE n[b] = 1
  <2>1. f = Append(h.free, b)
    BY <1>7
  <2>2. IsInjective(f) /\ ToSet(f) = ToSet(h.free) \cup {b}
    BY <1>1, <1>2, <1>6, <2>1, SeqFacts
  <2> HIDE DEF g, m, f
  <2>3. m[b] = 0
    BY <1>3, <1>7
  <2>4. ToSet(f) = {c \in h.made : m[c] = 0}
    BY <1>1, <1>2, <1>3, <1>6, <2>2, <2>3
  <2>5. \A c \in Buffers : m[c] # 0 => c \in h.made
    BY <1>2, <1>3 DEF Sound
  <2> QED BY <1>3, <1>5, <2>2, <2>4, <2>5 DEF Sound, g, m
<1>8. CASE n[b] # 1
  <2>1. f = h.free
    BY <1>8
  <2>2. m[b] # 0
    BY <1>2, <1>3, <1>8
  <2> HIDE DEF g, m, f
  <2>3. ToSet(f) = {c \in h.made : m[c] = 0}
    BY <1>1, <1>2, <1>3, <1>6, <2>1, <2>2
  <2>4. \A c \in Buffers : m[c] # 0 => c \in h.made
    BY <1>2, <1>3 DEF Sound
  <2> QED BY <1>3, <1>5, <1>6, <2>1, <2>3, <2>4 DEF Sound, g, m
<1> QED BY <1>7, <1>8

LEMMA AllocateSound ==
  ASSUME NEW h, NEW n, Sound(h, n), NEW b \in Buffers, CanAllocate(h, b)
  PROVE  n[b] = 0 /\ Sound(Allocate(h, b), [n EXCEPT ![b] = 1])
<1> DEFINE g == Allocate(h, b)
           m == [n EXCEPT ![b] = 1]
           f == IF h.free # << >> THEN Front(h.free) ELSE h.free
<1>1. /\ h \in HeapType /\ h.made \in SUBSET Buffers /\ h.deleted = {}
      /\ h.ref = n /\ n \in Counts /\ h.free \in Seq(Buffers)
  BY SoundParts
<1>2. ToSet(h.free) = {c \in h.made : n[c] = 0} /\ IsInjective(h.free)
  BY DEF Sound
<1>3. m \in Counts /\ m[b] = 1 /\ \A c \in Buffers \ {b} : m[c] = n[c]
  BY <1>1 DEF Counts
<1>4. n[b] = 0 /\ f \in Seq(Buffers) /\ IsInjective(f) /\ ToSet(f) = ToSet(h.free) \ {b}
  <2>1. CASE h.free # << >>
    <3>1. b = Last(h.free) /\ f = Front(h.free)
      BY <2>1 DEF CanAllocate
    <3> QED BY <1>1, <1>2, <2>1, <3>1, FrontFacts
  <2>2. CASE h.free = << >>
    <3>1. b \notin h.made /\ f = h.free
      BY <2>2 DEF CanAllocate
    <3>2. n[b] = 0
      BY <3>1 DEF Sound
    <3>3. b \notin ToSet(h.free)
      BY <1>2, <3>1
    <3> QED BY <1>1, <1>2, <3>1, <3>2, <3>3
  <2> QED BY <2>1, <2>2
<1>5. g.made = h.made \cup {b} /\ g.deleted = {} /\ g.ref = m /\ g.free = f /\ g \in HeapType
  <2>1. g = [h EXCEPT !.made = @ \cup {b}, !.ref = m, !.free = f]
    BY <1>1 DEF Allocate, HeapType
  <2> HIDE DEF g, m, f
  <2> QED BY <1>1, <1>3, <1>4, <2>1 DEF HeapType, Counts
<1> HIDE DEF g, m, f
<1>6. ToSet(f) = {c \in g.made : m[c] = 0}
  BY <1>1, <1>2, <1>3, <1>4, <1>5
<1>7. \A c \in Buffers : m[c] # 0 => c \in g.made
  BY <1>3, <1>5 DEF Sound
<1> QED BY <1>3, <1>4, <1>5, <1>6, <1>7 DEF Sound, g, m

(* d is what is left after each of the first m drops.                      *)
Dropping(h, s, m, d) ==
  d = [k \in 0 .. m |-> IF k = 0 THEN h ELSE DecRef(d[k - 1], s[k])]

LEMMA DroppingExists ==
  ASSUME NEW h, NEW s, NEW N \in Nat
  PROVE  \E d : Dropping(h, s, N, d)
<1> DEFINE bad == {m \in Nat : ~\E d : Dropping(h, s, m, d)}
<1> SUFFICES ASSUME bad # {} PROVE FALSE
  OBVIOUS
<1>1. PICK m \in bad : \A k \in bad : m <= k
  <2>1. bad \in SUBSET Nat
    OBVIOUS
  <2> HIDE DEF bad
  <2> QED BY <2>1, Least
<1>2. m \in Nat /\ ~\E d : Dropping(h, s, m, d)
  OBVIOUS
<1>3. CASE m = 0
  <2> DEFINE d == [k \in 0 .. 0 |-> h]
  <2>1. d = [k \in 0 .. 0 |-> IF k = 0 THEN h ELSE DecRef(d[k - 1], s[k])]
    OBVIOUS
  <2>2. Dropping(h, s, 0, d)
    BY <2>1 DEF Dropping
  <2> QED BY <1>2, <1>3, <2>2
<1>4. CASE m # 0
  <2>1. m - 1 \in Nat
    BY <1>2, <1>4
  <2>2. m - 1 \notin bad
    BY <1>1, <1>2, <2>1
  <2>3. PICK d : Dropping(h, s, m - 1, d)
    BY <2>1, <2>2
  <2> DEFINE e == [k \in 0 .. m |-> IF k = m THEN DecRef(d[m - 1], s[m]) ELSE d[k]]
             g == [k \in 0 .. m |-> IF k = 0 THEN h ELSE DecRef(e[k - 1], s[k])]
  <2>4. d[0] = h /\ \A k \in 1 .. m - 1 : d[k] = DecRef(d[k - 1], s[k])
    <3>1. \A k \in 0 .. m - 1 : d[k] = IF k = 0 THEN h ELSE DecRef(d[k - 1], s[k])
      <4>1. d = [k \in 0 .. m - 1 |-> IF k = 0 THEN h ELSE DecRef(d[k - 1], s[k])]
        BY <2>3 DEF Dropping
      <4> QED BY <4>1
    <3>2. 0 \in 0 .. m - 1 /\ \A k \in 1 .. m - 1 : k \in 0 .. m - 1 /\ k # 0
      BY <2>1
    <3> QED BY <3>1, <3>2
  <2>5. e[m] = DecRef(d[m - 1], s[m]) /\ \A k \in 0 .. m - 1 : e[k] = d[k]
    BY <1>2, <1>4
  <2>6. ASSUME NEW k \in 0 .. m PROVE e[k] = IF k = 0 THEN h ELSE DecRef(e[k - 1], s[k])
    <3> HIDE DEF e
    <3>1. CASE k = 0
      <4>1. k \in 0 .. m - 1
        BY <2>1, <3>1
      <4> QED BY <2>4, <2>5, <3>1, <4>1
    <3>2. CASE k \in 1 .. m - 1
      <4>1. k \in 0 .. m - 1 /\ k - 1 \in 0 .. m - 1 /\ k # 0
        BY <2>1, <3>2
      <4> QED BY <2>4, <2>5, <3>2, <4>1
    <3>3. CASE k = m
      <4>1. m - 1 \in 0 .. m - 1
        BY <2>1
      <4> QED BY <1>4, <2>5, <3>3, <4>1
    <3> QED BY <1>2, <3>1, <3>2, <3>3
  <2>7. e = g
    BY <2>6
  <2>8. Dropping(h, s, m, e)
    BY <2>7 DEF Dropping
  <2> QED BY <1>2, <2>8
<1> QED BY <1>3, <1>4

LEMMA DecRefAllSteps ==
  ASSUME NEW h, NEW s, Len(s) \in Nat
  PROVE  \E d : /\ DecRefAll(h, s) = d[Len(s)] /\ d[0] = h
                /\ \A k \in 1 .. Len(s) : d[k] = DecRef(d[k - 1], s[k])
<1> DEFINE d == CHOOSE d : Dropping(h, s, Len(s), d)
<1>1. Dropping(h, s, Len(s), d)
  BY DroppingExists
<1>2. DecRefAll(h, s) = d[Len(s)]
  BY DEF DecRefAll, Dropping
<1> HIDE DEF d
<1>3. \A k \in 0 .. Len(s) : d[k] = IF k = 0 THEN h ELSE DecRef(d[k - 1], s[k])
  <2>1. d = [k \in 0 .. Len(s) |-> IF k = 0 THEN h ELSE DecRef(d[k - 1], s[k])]
    BY <1>1 DEF Dropping
  <2> QED BY <2>1
<1>4. 0 \in 0 .. Len(s) /\ \A k \in 1 .. Len(s) : k \in 0 .. Len(s) /\ k # 0
  OBVIOUS
<1>5. d[0] = h /\ \A k \in 1 .. Len(s) : d[k] = DecRef(d[k - 1], s[k])
  BY <1>3, <1>4
<1> QED BY <1>2, <1>5

(* Occurrences among the first k.                                          *)
Upto(b, s, k) == Cardinality({i \in 1 .. k : s[i] = b})

LEMMA UptoFacts ==
  ASSUME NEW S, NEW s \in Seq(S), NEW b, NEW k \in 0 .. Len(s)
  PROVE  /\ Upto(b, s, k) \in Nat /\ Upto(b, s, k) <= Occurrences(b, s)
         /\ Upto(b, s, 0) = 0 /\ Upto(b, s, Len(s)) = Occurrences(b, s)
         /\ k > 0 => Upto(b, s, k) = Upto(b, s, k - 1) + One(s[k], b)
<1> DEFINE P(m) == {i \in 1 .. m : s[i] = b}
<1>1. Len(s) \in Nat /\ DOMAIN s = 1 .. Len(s)
  OBVIOUS
<1>2. IsFiniteSet(Places(b, s)) /\ Occurrences(b, s) = Cardinality(Places(b, s))
  BY PlacesFinite
<1>3. ASSUME NEW m \in 0 .. Len(s)
      PROVE  /\ IsFiniteSet(P(m)) /\ Cardinality(P(m)) \in Nat
             /\ Cardinality(P(m)) <= Occurrences(b, s)
  <2>1. P(m) \in SUBSET Places(b, s)
    BY <1>1 DEF Places
  <2> HIDE DEF P
  <2> QED BY <1>2, <2>1, FS_Subset, FS_CardinalityType
<1>4. P(0) = {} /\ P(Len(s)) = Places(b, s)
  BY <1>1 DEF Places
<1>5. ASSUME k > 0 PROVE Cardinality(P(k)) = Cardinality(P(k - 1)) + One(s[k], b)
  <2>1. k - 1 \in 0 .. Len(s) /\ k \notin P(k - 1)
    BY <1>1, <1>5
  <2>2. s[k] = b => P(k) = P(k - 1) \cup {k}
    BY <1>1, <1>5
  <2>3. s[k] # b => P(k) = P(k - 1)
    BY <1>1, <1>5
  <2> HIDE DEF P
  <2>4. IsFiniteSet(P(k - 1)) /\ Cardinality(P(k - 1)) \in Nat
    BY <1>3, <2>1
  <2>5. s[k] = b => Cardinality(P(k)) = Cardinality(P(k - 1)) + 1
    BY <2>1, <2>2, <2>4, FS_AddElement
  <2> QED BY <2>3, <2>4, <2>5 DEF One
<1>6. Cardinality(P(0)) = 0 /\ Cardinality(P(Len(s))) = Occurrences(b, s)
  BY <1>2, <1>4, FS_EmptySet
<1> QED BY <1>3, <1>5, <1>6 DEF Upto

Less(n, s) == [b \in Buffers |-> n[b] - Occurrences(b, s)]

LEMMA DecRefAllSound ==
  ASSUME NEW h, NEW n, Sound(h, n), NEW s \in Seq(Buffers),
         \A b \in Buffers : Occurrences(b, s) <= n[b]
  PROVE  Sound(DecRefAll(h, s), Less(n, s))
<1>1. Len(s) \in Nat /\ n \in Counts
  BY SoundParts
<1>2. PICK d : /\ DecRefAll(h, s) = d[Len(s)] /\ d[0] = h
               /\ \A k \in 1 .. Len(s) : d[k] = DecRef(d[k - 1], s[k])
  BY <1>1, DecRefAllSteps
<1> DEFINE left(k) == [b \in Buffers |-> n[b] - Upto(b, s, k)]
           bad == {k \in 0 .. Len(s) : ~Sound(d[k], left(k))}
<1>3. left(0) = n
  <2>1. \A b \in Buffers : n[b] \in Nat /\ Upto(b, s, 0) = 0
    BY <1>1, UptoFacts DEF Counts
  <2>2. \A b \in Buffers : n[b] - Upto(b, s, 0) = n[b]
    BY <2>1
  <2>3. n = [b \in Buffers |-> n[b]]
    BY <1>1 DEF Counts
  <2> QED BY <2>2, <2>3
<1>4. left(Len(s)) = Less(n, s)
  <2>1. \A b \in Buffers : Upto(b, s, Len(s)) = Occurrences(b, s)
    BY <1>1, UptoFacts
  <2> QED BY <2>1 DEF Less
<1>5. ASSUME NEW k \in 1 .. Len(s), Sound(d[k - 1], left(k - 1))
      PROVE  Sound(d[k], left(k))
  <2>1. s[k] \in Buffers /\ k \in 0 .. Len(s) /\ k - 1 \in 0 .. Len(s) /\ k > 0
    BY <1>1
  <2>2. ASSUME NEW b \in Buffers
        PROVE  /\ Upto(b, s, k) = Upto(b, s, k - 1) + One(s[k], b)
               /\ Upto(b, s, k) \in Nat /\ Upto(b, s, k - 1) \in Nat /\ n[b] \in Nat
               /\ Upto(b, s, k) <= n[b]
    <3>1. Upto(b, s, k) <= Occurrences(b, s) /\ Occurrences(b, s) \in Nat
          /\ Upto(b, s, k) \in Nat /\ n[b] \in Nat
      BY <1>1, <2>1, UptoFacts, PlacesFinite DEF Counts
    <3>2. Upto(b, s, k) <= n[b]
      BY <3>1
    <3> QED BY <2>1, <3>1, <3>2, UptoFacts
  <2>3. left(k - 1)[s[k]] # 0
    <3> DEFINE b == s[k]
    <3>1. One(b, b) = 1
      BY DEF One
    <3>2. n[b] - Upto(b, s, k - 1) # 0
      BY <2>1, <2>2, <3>1
    <3> QED BY <2>1, <3>2
  <2>4. [left(k - 1) EXCEPT ![s[k]] = @ - 1] = left(k)
    <3>1. ASSUME NEW b \in Buffers
          PROVE  left(k)[b] = IF b = s[k] THEN left(k - 1)[b] - 1 ELSE left(k - 1)[b]
      BY <2>2, <3>1, SMTT(30) DEF One
    <3> QED BY <2>1, <3>1
  <2> HIDE DEF left
  <2>5. Sound(DecRef(d[k - 1], s[k]), [left(k - 1) EXCEPT ![s[k]] = @ - 1])
    BY <1>5, <2>1, <2>3, DecRefSound
  <2> QED BY <1>2, <2>4, <2>5
<1> HIDE DEF left
<1>6. bad = {}
  <2> SUFFICES ASSUME bad # {} PROVE FALSE
    OBVIOUS
  <2>1. PICK k \in bad : \A m \in bad : k <= m
    <3>1. bad \in SUBSET Nat
      OBVIOUS
    <3> HIDE DEF bad
    <3> QED BY <3>1, Least
  <2>2. k # 0
    BY <1>2, <1>3
  <2>3. k \in 1 .. Len(s) /\ k - 1 \in 0 .. Len(s) /\ ~(k <= k - 1)
    BY <1>1, <2>2
  <2>4. Sound(d[k - 1], left(k - 1))
    BY <2>1, <2>3
  <2> QED BY <1>5, <2>3, <2>4
<1>7. Sound(d[Len(s)], left(Len(s)))
  BY <1>1, <1>6
<1> QED BY <1>2, <1>4, <1>7

-----------------------------------------------------------------------------
(* Where references are.                                                   *)

InRegisters(b, rg) == Cardinality({r \in Registers : rg[r] = b})

Slots == [k \in 0 .. Horizon |-> Carried(k)]

Installed(b) == InRegisters(b, reg) + OccurrencesIn(b, fifo)
Travelling(b) == OccurrencesIn(b, Slots) + Occurrences(b, applied)

Total == [b \in Buffers |-> held[b] + Installed(b) + Travelling(b)]

Typed ==
  /\ value \in [Buffers -> Values \cup {Zero}]
  /\ destination \in [Buffers -> Destinations \cup {Null}]
  /\ held \in [Buffers -> 0 .. MaxHeld]
  /\ reg \in [Registers -> Buffers \cup {Null}]
  /\ fifo \in [Fifos -> Seq(Buffers)] /\ \A f \in Fifos : Len(fifo[f]) <= Capacity
  /\ reserved \in [Fifos -> 0 .. MaxReserved]
  /\ due \in [0 .. Horizon -> Seq(Buffers \X Destinations)]
  /\ applied \in Seq(Buffers)
  /\ phase \in {"running", "deleting", "done"}

LEMMA RegistersTyped ==
  ASSUME NEW b, NEW rg
  PROVE  InRegisters(b, rg) \in Nat
<1>1. IsFiniteSet({r \in Registers : rg[r] = b})
  BY DataBuffersAssumption, FS_Subset
<1> QED BY <1>1, FS_CardinalityType DEF InRegisters

LEMMA RegistersDiffer ==
  ASSUME NEW rg, NEW sg, NEW d \in Registers, DifferAt(d, Registers, rg, sg), NEW b
  PROVE  /\ InRegisters(b, sg) = InRegisters(b, rg) - One(rg[d], b) + One(sg[d], b)
         /\ One(rg[d], b) <= InRegisters(b, rg)
<1> DEFINE x == sg[d]
           A == {r \in Registers : rg[r] = b}
           B == {r \in Registers : sg[r] = b}
<1>1. \A r \in Registers \ {d} : sg[r] = rg[r]
  BY DEF DifferAt
<1>2. A \ {d} = B \ {d}
  BY <1>1
<1>3. IsFiniteSet(A) /\ IsFiniteSet(B)
  BY DataBuffersAssumption, FS_Subset
<1>4. (d \in A <=> rg[d] = b) /\ (d \in B <=> x = b)
  BY <1>1
<1> HIDE DEF A, B
<1>5. Cardinality(A) \in Nat /\ Cardinality(B) \in Nat
  BY <1>3, FS_CardinalityType
<1>6. /\ Cardinality(A \ {d}) = IF d \in A THEN Cardinality(A) - 1 ELSE Cardinality(A)
      /\ Cardinality(B \ {d}) = IF d \in B THEN Cardinality(B) - 1 ELSE Cardinality(B)
  BY <1>3, FS_RemoveElement
<1>7. Cardinality(A \ {d}) \in Nat
  <2>1. IsFiniteSet(A \ {d})
    BY <1>3, FS_Subset
  <2> QED BY <2>1, FS_CardinalityType
<1>8. Cardinality(B) = Cardinality(A) - One(rg[d], b) + One(x, b) /\ One(rg[d], b) <= Cardinality(A)
  <2>1. Cardinality(A \ {d}) = Cardinality(B \ {d})
    BY <1>2
  <2>2. One(rg[d], b) = (IF d \in A THEN 1 ELSE 0) /\ One(x, b) = (IF d \in B THEN 1 ELSE 0)
    BY <1>4 DEF One
  <2> QED BY <1>5, <1>6, <1>7, <2>1, <2>2
<1> QED BY <1>8 DEF InRegisters, A, B

LEMMA CarriedTyped ==
  ASSUME due \in [0 .. Horizon -> Seq(Buffers \X Destinations)], NEW k \in 0 .. Horizon
  PROVE  Carried(k) \in Seq(Buffers) /\ Len(Carried(k)) = Len(due[k])
         /\ DOMAIN Carried(k) = 1 .. Len(due[k])
         /\ \A i \in 1 .. Len(due[k]) : Carried(k)[i] = due[k][i][1]
<1>1. due[k] \in Seq(Buffers \X Destinations)
  OBVIOUS
<1> DEFINE m == Len(due[k])
<1>2. m \in Nat /\ DOMAIN due[k] = 1 .. m /\ \A i \in 1 .. m : due[k][i] \in Buffers \X Destinations
  BY <1>1, LenProperties, ElementOfSeq
<1>3. Carried(k) = [i \in 1 .. m |-> due[k][i][1]]
  BY <1>2 DEF Carried
<1> HIDE DEF m
<1>4. \A i \in 1 .. m : due[k][i][1] \in Buffers
  BY <1>2
<1>5. Carried(k) \in Seq(Buffers)
  BY <1>2, <1>3, <1>4
<1>6. Len(Carried(k)) = m
  BY <1>2, <1>3, <1>5, LenProperties
<1> QED BY <1>2, <1>3, <1>5, <1>6 DEF m

LEMMA CountsTyped ==
  ASSUME Typed, NEW b \in Buffers
  PROVE  /\ InRegisters(b, reg) \in Nat /\ OccurrencesIn(b, fifo) \in Nat /\ Installed(b) \in Nat
         /\ OccurrencesIn(b, Slots) \in Nat /\ Occurrences(b, applied) \in Nat
         /\ Travelling(b) \in Nat /\ held[b] \in Nat
         /\ Slots \in [0 .. Horizon -> Seq(Buffers)]
<1>1. Slots \in [0 .. Horizon -> Seq(Buffers)]
  BY CarriedTyped DEF Slots, Typed
<1>2. IsFiniteSet(0 .. Horizon) /\ IsFiniteSet(Fifos)
  BY DataBuffersAssumption, FS_Interval
<1>3. OccurrencesIn(b, Slots) \in Nat
  BY <1>1, <1>2, MarkedFinite
<1>4. OccurrencesIn(b, fifo) \in Nat
  BY <1>2, MarkedFinite DEF Typed
<1>5. Occurrences(b, applied) \in Nat
  BY PlacesFinite DEF Typed
<1>6. InRegisters(b, reg) \in Nat
  BY RegistersTyped
<1>7. held[b] \in Nat
  BY DataBuffersAssumption DEF Typed
<1> QED BY <1>1, <1>3, <1>4, <1>5, <1>6, <1>7 DEF Installed, Travelling

LEMMA TotalIs ==
  ASSUME Typed
  PROVE  /\ Total \in Counts
         /\ \A b \in Buffers : Total[b] = held[b] + StateRefs(b)
<1>1. ASSUME NEW b \in Buffers
      PROVE  Total[b] \in Nat /\ Total[b] = held[b] + StateRefs(b)
  <2>1. Total[b] = held[b] + Installed(b) + Travelling(b)
    BY DEF Total
  <2> QED BY <2>1, CountsTyped, SMTT(30) DEF StateRefs, Installed, Travelling, InRegisters, Slots
<1> QED BY <1>1 DEF Total, Counts

-----------------------------------------------------------------------------
(* The heap operations again, for counts given buffer by buffer.           *)

LEMMA IncRefTo ==
  ASSUME NEW h, NEW n, Sound(h, n), NEW b \in Buffers, n[b] # 0,
         NEW m, m = [c \in Buffers |-> m[c]], \A c \in Buffers : m[c] = n[c] + One(b, c)
  PROVE  Sound(IncRef(h, b), m)
<1>1. n \in Counts
  BY SoundParts
<1>2. \A c \in Buffers : m[c] = [n EXCEPT ![b] = @ + 1][c]
  BY <1>1 DEF Counts, One
<1>3. m = [n EXCEPT ![b] = @ + 1]
  BY <1>1, <1>2 DEF Counts
<1> QED BY <1>3, IncRefSound

LEMMA DecRefTo ==
  ASSUME NEW h, NEW n, Sound(h, n), NEW b \in Buffers, n[b] # 0,
         NEW m, m = [c \in Buffers |-> m[c]], \A c \in Buffers : m[c] = n[c] - One(b, c)
  PROVE  Sound(DecRef(h, b), m)
<1>1. n \in Counts
  BY SoundParts
<1>2. \A c \in Buffers : m[c] = [n EXCEPT ![b] = @ - 1][c]
  BY <1>1 DEF Counts, One
<1>3. m = [n EXCEPT ![b] = @ - 1]
  BY <1>1, <1>2 DEF Counts
<1> QED BY <1>3, DecRefSound

LEMMA AllocateTo ==
  ASSUME NEW h, NEW n, Sound(h, n), NEW b \in Buffers, CanAllocate(h, b),
         NEW m, m = [c \in Buffers |-> m[c]], \A c \in Buffers : m[c] = n[c] + One(b, c)
  PROVE  Sound(Allocate(h, b), m)
<1>1. n \in Counts /\ n[b] = 0
  BY SoundParts, AllocateSound
<1>2. \A c \in Buffers : m[c] = [n EXCEPT ![b] = 1][c]
  BY <1>1 DEF Counts, One
<1>3. m = [n EXCEPT ![b] = 1]
  BY <1>1, <1>2 DEF Counts
<1> QED BY <1>3, AllocateSound

LEMMA DecRefAllTo ==
  ASSUME NEW h, NEW n, Sound(h, n), NEW s \in Seq(Buffers),
         \A c \in Buffers : Occurrences(c, s) <= n[c],
         NEW m, m = [c \in Buffers |-> m[c]], \A c \in Buffers : m[c] = n[c] - Occurrences(c, s)
  PROVE  Sound(DecRefAll(h, s), m)
<1>1. m = Less(n, s)
  BY DEF Less
<1> QED BY <1>1, DecRefAllSound

(* The count of the buffers of one slot, as records enter and leave it.    *)
Firsts(s) == [i \in DOMAIN s |-> s[i][1]]

LEMMA FirstsTyped ==
  ASSUME NEW D, NEW s \in Seq(Buffers \X D)
  PROVE  Firsts(s) \in Seq(Buffers) /\ Len(Firsts(s)) = Len(s)
         /\ \A i \in 1 .. Len(s) : Firsts(s)[i] = s[i][1] /\ s[i][1] \in Buffers
<1> DEFINE m == Len(s)
<1>1. m \in Nat /\ DOMAIN s = 1 .. m /\ \A i \in 1 .. m : s[i] \in Buffers \X D
  BY LenProperties, ElementOfSeq
<1>2. Firsts(s) = [i \in 1 .. m |-> s[i][1]]
  BY <1>1 DEF Firsts
<1> HIDE DEF m
<1>3. \A i \in 1 .. m : s[i][1] \in Buffers
  BY <1>1
<1>4. Firsts(s) \in Seq(Buffers)
  BY <1>1, <1>2, <1>3
<1>5. Len(Firsts(s)) = m
  BY <1>1, <1>2, <1>4, LenProperties
<1> QED BY <1>2, <1>3, <1>4, <1>5 DEF m

LEMMA FirstsAppend ==
  ASSUME NEW D, NEW s \in Seq(Buffers \X D), NEW b \in Buffers, NEW d \in D
  PROVE  Firsts(Append(s, <<b, d>>)) = Append(Firsts(s), b)
<1> DEFINE t == Append(s, <<b, d>>)
           n == Len(s)
<1>1. /\ n \in Nat /\ t \in Seq(Buffers \X D) /\ Len(t) = n + 1
      /\ t[n + 1] = <<b, d>> /\ \A i \in 1 .. n : t[i] = s[i]
  OBVIOUS
<1> HIDE DEF t
<1>2. /\ Firsts(s) \in Seq(Buffers) /\ Len(Firsts(s)) = n
      /\ \A i \in 1 .. n : Firsts(s)[i] = s[i][1]
  BY FirstsTyped
<1>3. /\ Firsts(t) \in Seq(Buffers) /\ Len(Firsts(t)) = n + 1
      /\ \A i \in 1 .. n + 1 : Firsts(t)[i] = t[i][1]
  BY <1>1, FirstsTyped
<1> DEFINE u == Append(Firsts(s), b)
<1>4. u \in Seq(Buffers) /\ Len(u) = n + 1 /\ u[n + 1] = b
      /\ \A i \in 1 .. n : u[i] = Firsts(s)[i]
  BY <1>2
<1> HIDE DEF u
<1>5. ASSUME NEW i \in 1 .. n + 1 PROVE Firsts(t)[i] = u[i]
  <2>1. CASE i \in 1 .. n
    BY <1>1, <1>2, <1>3, <1>4, <2>1
  <2>2. CASE i = n + 1
    BY <1>1, <1>3, <1>4, <2>2
  <2> QED BY <1>1, <2>1, <2>2
<1>6. Firsts(t) = u
  BY <1>3, <1>4, <1>5, SeqEqual
<1> QED BY <1>6 DEF t, u

LEMMA FirstsTail ==
  ASSUME NEW D, NEW s \in Seq(Buffers \X D), s # << >>
  PROVE  /\ Firsts(Tail(s)) = Tail(Firsts(s)) /\ Firsts(s) # << >>
         /\ Head(Firsts(s)) = Head(s)[1] /\ Head(s) \in Buffers \X D
<1> DEFINE t == Tail(s)
           n == Len(s)
           f == Firsts(s)
<1>1. n \in Nat \ {0}
  BY EmptySeq, LenProperties
<1>2. /\ t \in Seq(Buffers \X D) /\ Len(t) = n - 1 /\ Head(s) = s[1] /\ Head(s) \in Buffers \X D
      /\ \A i \in 1 .. n - 1 : t[i] = s[i + 1]
  BY HeadTailProperties
<1>3. f \in Seq(Buffers) /\ Len(f) = n /\ \A i \in 1 .. n : f[i] = s[i][1]
  BY FirstsTyped
<1> HIDE DEF t, f
<1>4. f # << >>
  BY <1>1, <1>3, EmptySeq
<1>5. /\ Tail(f) \in Seq(Buffers) /\ Len(Tail(f)) = n - 1 /\ Head(f) = f[1]
      /\ \A i \in 1 .. n - 1 : Tail(f)[i] = f[i + 1]
  BY <1>3, <1>4, HeadTailProperties
<1>6. /\ Firsts(t) \in Seq(Buffers) /\ Len(Firsts(t)) = n - 1
      /\ \A i \in 1 .. n - 1 : Firsts(t)[i] = t[i][1]
  BY <1>2, FirstsTyped
<1>7. ASSUME NEW i \in 1 .. n - 1 PROVE Firsts(t)[i] = Tail(f)[i]
  <2>1. i + 1 \in 1 .. n
    BY <1>1
  <2> QED BY <1>2, <1>3, <1>5, <1>6, <2>1
<1>8. Firsts(t) = Tail(f)
  BY <1>5, <1>6, <1>7, SeqEqual
<1>9. Head(f) = Head(s)[1]
  BY <1>1, <1>2, <1>3, <1>5
<1> QED BY <1>2, <1>4, <1>8, <1>9 DEF t, f

SlotsOf(q) == [k \in 0 .. Horizon |-> Firsts(q[k])]

LEMMA SlotsAre ==
  Slots = SlotsOf(due) /\ Slots' = SlotsOf(due')
BY DEF Slots, SlotsOf, Carried, Firsts

Queues == [0 .. Horizon -> Seq(Buffers \X Destinations)]

LEMMA SlotsTyped ==
  ASSUME NEW q \in Queues
  PROVE  SlotsOf(q) \in [0 .. Horizon -> Seq(Buffers)]
<1>1. \A k \in 0 .. Horizon : q[k] \in Seq(Buffers \X Destinations)
  BY DEF Queues
<1>2. \A k \in 0 .. Horizon : Firsts(q[k]) \in Seq(Buffers)
  BY <1>1, FirstsTyped
<1> QED BY <1>2 DEF SlotsOf

LEMMA SlotsExcept ==
  ASSUME NEW q \in Queues, NEW l \in 0 .. Horizon, NEW t \in Seq(Buffers \X Destinations), NEW c
  PROVE  OccurrencesIn(c, SlotsOf([q EXCEPT ![l] = t]))
           = OccurrencesIn(c, SlotsOf(q)) - Occurrences(c, Firsts(q[l])) + Occurrences(c, Firsts(t))
<1>1. SlotsOf([q EXCEPT ![l] = t]) = [SlotsOf(q) EXCEPT ![l] = Firsts(t)]
  BY DEF SlotsOf, Queues
<1>2. SlotsOf(q) \in [0 .. Horizon -> Seq(Buffers)] /\ SlotsOf(q)[l] = Firsts(q[l])
  BY SlotsTyped DEF SlotsOf
<1>3. Firsts(t) \in Seq(Buffers)
  BY FirstsTyped
<1>4. IsFiniteSet(0 .. Horizon)
  BY DataBuffersAssumption, FS_Interval
<1>5. OccurrencesIn(c, [SlotsOf(q) EXCEPT ![l] = Firsts(t)])
        = OccurrencesIn(c, SlotsOf(q)) - Occurrences(c, SlotsOf(q)[l]) + Occurrences(c, Firsts(t))
  <2> DEFINE I == 0 .. Horizon
             x == SlotsOf(q)
             y == [x EXCEPT ![l] = Firsts(t)]
  <2>1. /\ IsFiniteSet(I) /\ x \in SequencesOver(I, Buffers) /\ l \in I
        /\ y \in SequencesOver(I, Buffers) /\ y[l] = Firsts(t) /\ DifferAt(l, I, x, y)
    BY <1>2, <1>3, <1>4 DEF SequencesOver, DifferAt
  <2> HIDE DEF I, x, y
  <2>2. OccurrencesIn(c, y) = OccurrencesIn(c, x) - Occurrences(c, x[l]) + Occurrences(c, y[l])
    BY <2>1, OccDiffer
  <2> QED BY <2>1, <2>2 DEF x, y
<1> QED BY <1>1, <1>2, <1>5

LEMMA SlotsNat ==
  ASSUME NEW q \in Queues, NEW c
  PROVE  OccurrencesIn(c, SlotsOf(q)) \in Nat
<1>1. IsFiniteSet(0 .. Horizon)
  BY DataBuffersAssumption, FS_Interval
<1> QED BY <1>1, SlotsTyped, MarkedFinite

Added(q, l, b, d) == [q EXCEPT ![l] = Append(@, <<b, d>>)]

LEMMA SlotsAppend ==
  ASSUME NEW q \in Queues, NEW l \in 0 .. Horizon, NEW b \in Buffers, NEW d \in Destinations, NEW c
  PROVE  OccurrencesIn(c, SlotsOf(Added(q, l, b, d))) = OccurrencesIn(c, SlotsOf(q)) + One(b, c)
<1> DEFINE s == q[l]
           t == Append(s, <<b, d>>)
<1>1. s \in Seq(Buffers \X Destinations) /\ <<b, d>> \in Buffers \X Destinations
  BY DEF Queues
<1>2. t \in Seq(Buffers \X Destinations) /\ Firsts(t) = Append(Firsts(s), b)
      /\ Firsts(s) \in Seq(Buffers)
  <2> HIDE DEF s
  <2>1. t \in Seq(Buffers \X Destinations)
    BY <1>1
  <2>2. Firsts(t) = Append(Firsts(s), b)
    BY <1>1, FirstsAppend
  <2> QED BY <1>1, <2>1, <2>2, FirstsTyped
<1>3. Occurrences(c, Firsts(t)) = Occurrences(c, Firsts(s)) + One(b, c)
      /\ Occurrences(c, Firsts(s)) \in Nat /\ One(b, c) \in Nat
  <2> HIDE DEF s, t
  <2> QED BY <1>2, OccAppend, PlacesFinite, OneTyped
<1> HIDE DEF t
<1>4. OccurrencesIn(c, SlotsOf([q EXCEPT ![l] = t]))
        = OccurrencesIn(c, SlotsOf(q)) - Occurrences(c, Firsts(s)) + Occurrences(c, Firsts(t))
  BY <1>2, SlotsExcept
<1>5. OccurrencesIn(c, SlotsOf(q)) \in Nat
  BY SlotsNat
<1> HIDE DEF s
<1>6. OccurrencesIn(c, SlotsOf([q EXCEPT ![l] = t])) = OccurrencesIn(c, SlotsOf(q)) + One(b, c)
  BY <1>3, <1>4, <1>5
<1> QED BY <1>6 DEF s, t, Added

LEMMA SlotsTail ==
  ASSUME NEW q \in Queues, NEW l \in 0 .. Horizon, q[l] # << >>, NEW c
  PROVE  /\ Head(q[l]) \in Buffers \X Destinations
         /\ OccurrencesIn(c, SlotsOf(q))
              = OccurrencesIn(c, SlotsOf([q EXCEPT ![l] = Tail(@)])) + One(Head(q[l])[1], c)
<1> DEFINE s == q[l]
           t == Tail(s)
           b == Head(s)[1]
<1>1. s \in Seq(Buffers \X Destinations) /\ s # << >>
  BY DEF Queues
<1>2. /\ t \in Seq(Buffers \X Destinations) /\ Firsts(t) = Tail(Firsts(s))
      /\ Firsts(s) \in Seq(Buffers) /\ Firsts(s) # << >> /\ b = Head(Firsts(s))
      /\ Head(s) \in Buffers \X Destinations
  BY <1>1, FirstsTail, FirstsTyped, HeadTailProperties
<1>3. /\ Occurrences(c, Firsts(s)) = Occurrences(c, Firsts(t)) + One(b, c)
      /\ Occurrences(c, Firsts(s)) \in Nat /\ One(b, c) \in Nat
  <2> HIDE DEF s, t, b
  <2> QED BY <1>2, OccTail, PlacesFinite, OneTyped
<1>4. Firsts(t) \in Seq(Buffers)
  BY <1>2, FirstsTyped
<1>5. Occurrences(c, Firsts(t)) \in Nat
  BY <1>4, PlacesFinite
<1> HIDE DEF t, b
<1>6. OccurrencesIn(c, SlotsOf([q EXCEPT ![l] = t]))
        = OccurrencesIn(c, SlotsOf(q)) - Occurrences(c, Firsts(s)) + Occurrences(c, Firsts(t))
  BY <1>2, SlotsExcept
<1>7. OccurrencesIn(c, SlotsOf(q)) \in Nat
  BY SlotsNat
<1> HIDE DEF s
<1>8. OccurrencesIn(c, SlotsOf(q)) = OccurrencesIn(c, SlotsOf([q EXCEPT ![l] = t])) + One(b, c)
  BY <1>3, <1>5, <1>6, <1>7
<1> QED BY <1>2, <1>8 DEF s, t, b

LEMMA SlotsShift ==
  ASSUME NEW q \in Queues, q[0] = << >>, NEW c
  PROVE  OccurrencesIn(c, SlotsOf([l \in 0 .. Horizon |-> IF l < Horizon THEN q[l + 1] ELSE << >>]))
           = OccurrencesIn(c, SlotsOf(q))
<1> DEFINE r == [l \in 0 .. Horizon |-> IF l < Horizon THEN q[l + 1] ELSE << >>]
<1>1. Horizon \in Nat
  BY DataBuffersAssumption
<1>2. \A k \in 0 .. Horizon - 1 : k \in 0 .. Horizon /\ k + 1 \in 0 .. Horizon /\ k < Horizon
  BY <1>1
<1>3. r \in Queues
  <2>1. ASSUME NEW k \in 0 .. Horizon
        PROVE  (IF k < Horizon THEN q[k + 1] ELSE << >>) \in Seq(Buffers \X Destinations)
    <3>1. k < Horizon => k + 1 \in 0 .. Horizon
      BY <1>1
    <3> QED BY <3>1, EmptySeq DEF Queues
  <2> QED BY <2>1 DEF Queues
<1>4. r[Horizon] = << >> /\ \A k \in 0 .. Horizon - 1 : r[k] = q[k + 1]
  BY <1>1, <1>2
<1> HIDE DEF r
<1>5. /\ SlotsOf(q) \in [0 .. Horizon -> Seq(Buffers)] /\ SlotsOf(r) \in [0 .. Horizon -> Seq(Buffers)]
  BY <1>3, SlotsTyped
<1>6. Firsts(<< >>) = << >>
  BY DEF Firsts
<1>7. 0 \in 0 .. Horizon /\ Horizon \in 0 .. Horizon
  BY <1>1
<1>8. SlotsOf(q)[0] = << >> /\ SlotsOf(r)[Horizon] = << >>
  BY <1>4, <1>6, <1>7 DEF SlotsOf
<1>9. \A k \in 0 .. Horizon - 1 : SlotsOf(r)[k] = SlotsOf(q)[k + 1]
  BY <1>2, <1>4 DEF SlotsOf
<1>10. OccurrencesIn(c, SlotsOf(r)) = OccurrencesIn(c, SlotsOf(q))
  <2> DEFINE x == SlotsOf(q)
             y == SlotsOf(r)
  <2>1. x \in SequencesOver(0 .. Horizon, Buffers) /\ y \in SequencesOver(0 .. Horizon, Buffers)
    BY <1>5 DEF SequencesOver
  <2>2. Shifted(Horizon, x, y)
    BY <1>8, <1>9 DEF Shifted
  <2> HIDE DEF x, y
  <2>3. OccurrencesIn(c, y) = OccurrencesIn(c, x)
    BY <1>1, <2>1, <2>2, OccShifted
  <2> QED BY <2>3 DEF x, y
<1> QED BY <1>10 DEF r

(* The count of the buffers of the fifos.                                  *)
LEMMA FifoExcept ==
  ASSUME NEW q \in [Fifos -> Seq(Buffers)], NEW f \in Fifos, NEW t \in Seq(Buffers), NEW c
  PROVE  /\ OccurrencesIn(c, [q EXCEPT ![f] = t])
              = OccurrencesIn(c, q) - Occurrences(c, q[f]) + Occurrences(c, t)
         /\ OccurrencesIn(c, q) \in Nat /\ Occurrences(c, q[f]) \in Nat /\ Occurrences(c, t) \in Nat
         /\ OccurrencesIn(c, [q EXCEPT ![f] = t]) \in Nat
<1> DEFINE r == [q EXCEPT ![f] = t]
<1>1. IsFiniteSet(Fifos)
  BY DataBuffersAssumption
<1>2. /\ q \in SequencesOver(Fifos, Buffers) /\ r \in SequencesOver(Fifos, Buffers)
      /\ r[f] = t /\ DifferAt(f, Fifos, q, r) /\ r \in [Fifos -> Seq(Buffers)] /\ q[f] \in Seq(Buffers)
  BY DEF SequencesOver, DifferAt
<1> HIDE DEF r
<1>3. OccurrencesIn(c, r) = OccurrencesIn(c, q) - Occurrences(c, q[f]) + Occurrences(c, r[f])
  BY <1>1, <1>2, OccDiffer
<1>4. OccurrencesIn(c, q) \in Nat /\ OccurrencesIn(c, r) \in Nat
  BY <1>1, <1>2, MarkedFinite
<1>5. Occurrences(c, q[f]) \in Nat /\ Occurrences(c, t) \in Nat
  BY <1>2, PlacesFinite
<1> QED BY <1>2, <1>3, <1>4, <1>5 DEF r

LEMMA FifoAppend ==
  ASSUME NEW q \in [Fifos -> Seq(Buffers)], NEW f \in Fifos, NEW b \in Buffers, NEW c
  PROVE  OccurrencesIn(c, [q EXCEPT ![f] = Append(@, b)]) = OccurrencesIn(c, q) + One(b, c)
<1> DEFINE s == q[f]
           t == Append(s, b)
<1>1. s \in Seq(Buffers) /\ t \in Seq(Buffers)
  OBVIOUS
<1>2. Occurrences(c, t) = Occurrences(c, s) + One(b, c) /\ One(b, c) \in Nat
  <2> HIDE DEF s
  <2> QED BY <1>1, OccAppend, OneTyped
<1> HIDE DEF t
<1>3. /\ OccurrencesIn(c, [q EXCEPT ![f] = t])
           = OccurrencesIn(c, q) - Occurrences(c, s) + Occurrences(c, t)
      /\ OccurrencesIn(c, q) \in Nat /\ Occurrences(c, s) \in Nat
  BY <1>1, FifoExcept
<1> HIDE DEF s
<1>4. OccurrencesIn(c, [q EXCEPT ![f] = t]) = OccurrencesIn(c, q) + One(b, c)
  BY <1>2, <1>3
<1> QED BY <1>4 DEF s, t

LEMMA FifoTail ==
  ASSUME NEW q \in [Fifos -> Seq(Buffers)], NEW f \in Fifos, q[f] # << >>, NEW c
  PROVE  /\ Head(q[f]) \in Buffers /\ Tail(q[f]) \in Seq(Buffers)
         /\ OccurrencesIn(c, q)
              = OccurrencesIn(c, [q EXCEPT ![f] = Tail(@)]) + One(Head(q[f]), c)
<1> DEFINE s == q[f]
           t == Tail(s)
<1>1. s \in Seq(Buffers) /\ s # << >>
  OBVIOUS
<1>2. t \in Seq(Buffers) /\ Head(s) \in Buffers
  BY <1>1, HeadTailProperties
<1>3. Occurrences(c, s) = Occurrences(c, t) + One(Head(s), c) /\ One(Head(s), c) \in Nat
  <2> HIDE DEF s
  <2> QED BY <1>1, OccTail, OneTyped
<1> HIDE DEF t
<1>4. /\ OccurrencesIn(c, [q EXCEPT ![f] = t])
           = OccurrencesIn(c, q) - Occurrences(c, s) + Occurrences(c, t)
      /\ OccurrencesIn(c, q) \in Nat /\ Occurrences(c, s) \in Nat /\ Occurrences(c, t) \in Nat
  BY <1>2, FifoExcept
<1> HIDE DEF s
<1>5. OccurrencesIn(c, q) = OccurrencesIn(c, [q EXCEPT ![f] = t]) + One(Head(s), c)
  BY <1>3, <1>4
<1> QED BY <1>2, <1>5 DEF s, t

(* ~DelayLine(): d is the heap after each of the first m slots.            *)
Clearing(h, m, d) ==
  d = [k \in 0 .. m |-> IF k = 0 THEN h ELSE DecRefAll(d[k - 1], Carried(k))]

LEMMA ClearingExists ==
  ASSUME NEW h, NEW N \in Nat
  PROVE  \E d : Clearing(h, N, d)
<1> DEFINE bad == {m \in Nat : ~\E d : Clearing(h, m, d)}
<1> SUFFICES ASSUME bad # {} PROVE FALSE
  OBVIOUS
<1>1. PICK m \in bad : \A k \in bad : m <= k
  <2>1. bad \in SUBSET Nat
    OBVIOUS
  <2> HIDE DEF bad
  <2> QED BY <2>1, Least
<1>2. m \in Nat /\ ~\E d : Clearing(h, m, d)
  OBVIOUS
<1>3. CASE m = 0
  <2> DEFINE d == [k \in 0 .. 0 |-> h]
  <2>1. d = [k \in 0 .. 0 |-> IF k = 0 THEN h ELSE DecRefAll(d[k - 1], Carried(k))]
    OBVIOUS
  <2>2. Clearing(h, 0, d)
    BY <2>1 DEF Clearing
  <2> QED BY <1>2, <1>3, <2>2
<1>4. CASE m # 0
  <2>1. m - 1 \in Nat
    BY <1>2, <1>4
  <2>2. m - 1 \notin bad
    BY <1>1, <1>2, <2>1
  <2>3. PICK d : Clearing(h, m - 1, d)
    BY <2>1, <2>2
  <2> DEFINE e == [k \in 0 .. m |-> IF k = m THEN DecRefAll(d[m - 1], Carried(m)) ELSE d[k]]
             g == [k \in 0 .. m |-> IF k = 0 THEN h ELSE DecRefAll(e[k - 1], Carried(k))]
  <2>4. d[0] = h /\ \A k \in 1 .. m - 1 : d[k] = DecRefAll(d[k - 1], Carried(k))
    <3>1. \A k \in 0 .. m - 1 : d[k] = IF k = 0 THEN h ELSE DecRefAll(d[k - 1], Carried(k))
      <4>1. d = [k \in 0 .. m - 1 |-> IF k = 0 THEN h ELSE DecRefAll(d[k - 1], Carried(k))]
        BY <2>3 DEF Clearing
      <4> QED BY <4>1
    <3>2. 0 \in 0 .. m - 1 /\ \A k \in 1 .. m - 1 : k \in 0 .. m - 1 /\ k # 0
      BY <2>1
    <3> QED BY <3>1, <3>2
  <2>5. e[m] = DecRefAll(d[m - 1], Carried(m)) /\ \A k \in 0 .. m - 1 : e[k] = d[k]
    BY <1>2, <1>4
  <2>6. ASSUME NEW k \in 0 .. m PROVE e[k] = IF k = 0 THEN h ELSE DecRefAll(e[k - 1], Carried(k))
    <3> HIDE DEF e
    <3>1. CASE k = 0
      <4>1. k \in 0 .. m - 1
        BY <2>1, <3>1
      <4> QED BY <2>4, <2>5, <3>1, <4>1
    <3>2. CASE k \in 1 .. m - 1
      <4>1. k \in 0 .. m - 1 /\ k - 1 \in 0 .. m - 1 /\ k # 0
        BY <2>1, <3>2
      <4> QED BY <2>4, <2>5, <3>2, <4>1
    <3>3. CASE k = m
      <4>1. m - 1 \in 0 .. m - 1
        BY <2>1
      <4> QED BY <1>4, <2>5, <3>3, <4>1
    <3> QED BY <1>2, <3>1, <3>2, <3>3
  <2>7. e = g
    BY <2>6
  <2>8. Clearing(h, m, e)
    BY <2>7 DEF Clearing
  <2> QED BY <1>2, <2>8
<1> QED BY <1>3, <1>4

(* The slots that are left once the first k are cleared.                   *)
Uncleared(q, k) == [j \in 0 .. Horizon |-> IF j <= k THEN << >> ELSE q[j]]

LEMMA UnclearedSteps ==
  ASSUME NEW q \in SequencesOver(0 .. Horizon, Buffers), NEW k \in 0 .. Horizon, NEW c
  PROVE  /\ Uncleared(q, k) \in SequencesOver(0 .. Horizon, Buffers)
         /\ OccurrencesIn(c, Uncleared(q, k)) \in Nat
         /\ k > 0 => OccurrencesIn(c, Uncleared(q, k - 1))
                       = OccurrencesIn(c, Uncleared(q, k)) + Occurrences(c, q[k])
<1>0. Horizon \in Nat /\ k \in Nat /\ IsFiniteSet(0 .. Horizon)
  BY DataBuffersAssumption, FS_Interval
<1>1. ASSUME NEW m \in Int PROVE Uncleared(q, m) \in SequencesOver(0 .. Horizon, Buffers)
  <2>1. << >> \in Seq(Buffers) /\ \A j \in 0 .. Horizon : q[j] \in Seq(Buffers)
    BY EmptySeq DEF SequencesOver
  <2>2. \A j \in 0 .. Horizon : (IF j <= m THEN << >> ELSE q[j]) \in Seq(Buffers)
    BY <2>1
  <2> QED BY <2>2 DEF Uncleared, SequencesOver
<1>2. ASSUME NEW m \in Int PROVE OccurrencesIn(c, Uncleared(q, m)) \in Nat
  <2>1. Uncleared(q, m) \in [0 .. Horizon -> Seq(Buffers)]
    BY <1>1 DEF SequencesOver
  <2> QED BY <1>0, <2>1, MarkedFinite
<1>3. ASSUME k > 0
      PROVE  OccurrencesIn(c, Uncleared(q, k - 1))
               = OccurrencesIn(c, Uncleared(q, k)) + Occurrences(c, q[k])
  <2> DEFINE x == Uncleared(q, k - 1)
             y == Uncleared(q, k)
             I == 0 .. Horizon
  <2>1. x \in SequencesOver(I, Buffers) /\ y \in SequencesOver(I, Buffers) /\ k \in I
        /\ IsFiniteSet(I)
    BY <1>0, <1>1
  <2>2. x[k] = q[k] /\ y[k] = << >>
    BY <1>0, <1>3 DEF Uncleared
  <2>3. DifferAt(k, I, x, y)
    <3>1. ASSUME NEW j \in I \ {k} PROVE y[j] = x[j]
      <4>1. j <= k <=> j <= k - 1
        BY <1>0
      <4> QED BY <4>1 DEF Uncleared
    <3> QED BY <3>1 DEF DifferAt
  <2>4. OccurrencesIn(c, x) \in Nat /\ OccurrencesIn(c, y) \in Nat
    BY <1>0, <1>2
  <2>5. Occurrences(c, q[k]) \in Nat
    BY PlacesFinite DEF SequencesOver
  <2> HIDE DEF x, y, I
  <2>6. OccurrencesIn(c, y) = OccurrencesIn(c, x) - Occurrences(c, x[k]) + Occurrences(c, y[k])
    BY <2>1, <2>3, OccDiffer
  <2>7. Occurrences(c, y[k]) = 0
    BY <2>2, OccEmpty
  <2>8. OccurrencesIn(c, x) = OccurrencesIn(c, y) + Occurrences(c, q[k])
    BY <2>2, <2>4, <2>5, <2>6, <2>7
  <2> QED BY <2>8 DEF x, y
<1> QED BY <1>0, <1>1, <1>2, <1>3

LEMMA UnclearedEnds ==
  ASSUME NEW q \in SequencesOver(0 .. Horizon, Buffers), q[0] = << >>, NEW c
  PROVE  Uncleared(q, 0) = q /\ OccurrencesIn(c, Uncleared(q, Horizon)) = 0
<1>0. Horizon \in Nat
  BY DataBuffersAssumption
<1>1. \A j \in 0 .. Horizon : Uncleared(q, 0)[j] = q[j]
  BY <1>0 DEF Uncleared
<1>2. Uncleared(q, 0) = q
  <2> DEFINE x == Uncleared(q, 0)
  <2>1. x = [j \in 0 .. Horizon |-> x[j]]
    BY DEF Uncleared
  <2>2. q = [j \in 0 .. Horizon |-> q[j]]
    BY DEF SequencesOver
  <2> HIDE DEF x
  <2> QED BY <1>1, <2>1, <2>2 DEF x
<1>3. Uncleared(q, Horizon) \in [0 .. Horizon -> Seq(Buffers)]
  <2>1. Horizon \in 0 .. Horizon
    BY <1>0
  <2>2. Uncleared(q, Horizon) \in SequencesOver(0 .. Horizon, Buffers)
    BY <2>1, UnclearedSteps
  <2> QED BY <2>2 DEF SequencesOver
<1>4. \A j \in 0 .. Horizon : Uncleared(q, Horizon)[j] = << >>
  BY <1>0 DEF Uncleared
<1>5. OccurrencesIn(c, Uncleared(q, Horizon)) = 0
  BY <1>3, <1>4, OccAllEmpty
<1> QED BY <1>2, <1>5

LEMMA ClearingSound ==
  ASSUME NEW q \in SequencesOver(0 .. Horizon, Buffers), q[0] = << >>,
         \A k \in 0 .. Horizon : q[k] = Carried(k),
         NEW h, NEW n, Sound(h, n), \A c \in Buffers : OccurrencesIn(c, q) <= n[c],
         NEW d, Clearing(h, Horizon, d),
         NEW m, m = [c \in Buffers |-> m[c]], \A c \in Buffers : m[c] = n[c] - OccurrencesIn(c, q)
  PROVE  Sound(d[Horizon], m)
<1> DEFINE left(k) == [c \in Buffers |-> m[c] + OccurrencesIn(c, Uncleared(q, k))]
           bad == {k \in 0 .. Horizon : ~Sound(d[k], left(k))}
<1>0. Horizon \in Nat /\ 0 \in 0 .. Horizon /\ Horizon \in 0 .. Horizon
  BY DataBuffersAssumption
<1>1. ASSUME NEW c \in Buffers, NEW k \in 0 .. Horizon
      PROVE  /\ n[c] \in Nat /\ m[c] \in Nat /\ OccurrencesIn(c, Uncleared(q, k)) \in Nat
             /\ OccurrencesIn(c, q) \in Nat
  <2>1. n[c] \in Nat
    BY SoundParts DEF Counts
  <2>2. OccurrencesIn(c, q) \in Nat
    BY <1>0, UnclearedSteps, UnclearedEnds
  <2>3. m[c] \in Nat
    BY <2>1, <2>2
  <2> QED BY <2>1, <2>2, <2>3, UnclearedSteps
<1>2. left(0) = n
  <2>1. ASSUME NEW c \in Buffers PROVE m[c] + OccurrencesIn(c, Uncleared(q, 0)) = n[c]
    <3>1. Uncleared(q, 0) = q
      BY UnclearedEnds
    <3> QED BY <1>0, <1>1, <3>1
  <2>2. n = [c \in Buffers |-> n[c]]
    BY SoundParts DEF Counts
  <2> QED BY <2>1, <2>2
<1>3. left(Horizon) = m
  <2>1. ASSUME NEW c \in Buffers PROVE m[c] + OccurrencesIn(c, Uncleared(q, Horizon)) = m[c]
    <3>1. OccurrencesIn(c, Uncleared(q, Horizon)) = 0
      BY UnclearedEnds
    <3> QED BY <1>0, <1>1, <3>1
  <2> QED BY <2>1
<1>4. d[0] = h /\ \A k \in 1 .. Horizon : d[k] = DecRefAll(d[k - 1], q[k])
  <2>1. d = [k \in 0 .. Horizon |-> IF k = 0 THEN h ELSE DecRefAll(d[k - 1], Carried(k))]
    BY DEF Clearing
  <2>2. \A k \in 0 .. Horizon : d[k] = IF k = 0 THEN h ELSE DecRefAll(d[k - 1], Carried(k))
    BY <2>1
  <2>3. \A k \in 1 .. Horizon : k \in 0 .. Horizon /\ k # 0
    BY <1>0
  <2> QED BY <1>0, <2>2, <2>3
<1>5. ASSUME NEW k \in 1 .. Horizon, Sound(d[k - 1], left(k - 1))
      PROVE  Sound(d[k], left(k))
  <2>1. k \in 0 .. Horizon /\ k - 1 \in 0 .. Horizon /\ k > 0 /\ q[k] \in Seq(Buffers)
    BY <1>0 DEF SequencesOver
  <2>2. ASSUME NEW c \in Buffers
        PROVE  /\ left(k)[c] = left(k - 1)[c] - Occurrences(c, q[k])
               /\ Occurrences(c, q[k]) <= left(k - 1)[c]
    <3>1. OccurrencesIn(c, Uncleared(q, k - 1))
            = OccurrencesIn(c, Uncleared(q, k)) + Occurrences(c, q[k])
      BY <2>1, UnclearedSteps
    <3>2. /\ m[c] \in Nat /\ OccurrencesIn(c, Uncleared(q, k)) \in Nat
          /\ OccurrencesIn(c, Uncleared(q, k - 1)) \in Nat
      BY <1>1, <2>1
    <3>3. Occurrences(c, q[k]) \in Nat
      BY <2>1, PlacesFinite
    <3> QED BY <3>1, <3>2, <3>3
  <2>3. left(k) = [c \in Buffers |-> left(k)[c]]
    OBVIOUS
  <2> HIDE DEF left
  <2>4. Sound(DecRefAll(d[k - 1], q[k]), left(k))
    BY <1>5, <2>1, <2>2, <2>3, DecRefAllTo
  <2> QED BY <1>4, <2>4
<1> HIDE DEF left
<1>6. bad = {}
  <2> SUFFICES ASSUME bad # {} PROVE FALSE
    OBVIOUS
  <2>1. PICK k \in bad : \A j \in bad : k <= j
    <3>1. bad \in SUBSET Nat
      OBVIOUS
    <3> HIDE DEF bad
    <3> QED BY <3>1, Least
  <2>2. k # 0
    BY <1>2, <1>4
  <2>3. k \in 1 .. Horizon /\ k - 1 \in 0 .. Horizon /\ ~(k <= k - 1)
    BY <1>0, <2>2
  <2>4. Sound(d[k - 1], left(k - 1))
    BY <2>1, <2>3
  <2> QED BY <1>5, <2>3, <2>4
<1>7. Sound(d[Horizon], left(Horizon))
  BY <1>0, <1>6
<1> QED BY <1>3, <1>7

-----------------------------------------------------------------------------
(* SetDataBuffer() of a register or a fifo.                                *)

LEMMA PushedTyped ==
  ASSUME Typed, NEW f \in Fifos
  PROVE  /\ Pushed(f).reserved \in 0 .. MaxReserved
         /\ Pushed(f).ok => Len(fifo[f]) + 1 <= Capacity
<1>1. Capacity \in Nat /\ MaxReserved \in Nat /\ reserved[f] \in 0 .. MaxReserved /\ Len(fifo[f]) \in Nat
  BY DataBuffersAssumption DEF Typed
<1> DEFINE left == IF reserved[f] > 0 THEN reserved[f] - 1 ELSE 0
<1>2. Pushed(f).reserved = left /\ (Pushed(f).ok <=> Len(fifo[f]) + left < Capacity)
  BY DEF Pushed
<1>3. left \in 0 .. MaxReserved
  BY <1>1
<1> HIDE DEF left
<1>4. Len(fifo[f]) + left < Capacity => Len(fifo[f]) + 1 <= Capacity
  BY <1>1, <1>3
<1> QED BY <1>2, <1>3, <1>4

LEMMA SetTyped ==
  ASSUME Typed, NEW d \in Destinations, NEW b \in Buffers, SetDataBuffer(d, b)
  PROVE  /\ reg' \in [Registers -> Buffers \cup {Null}]
         /\ fifo' \in [Fifos -> Seq(Buffers)] /\ \A f \in Fifos : Len(fifo'[f]) <= Capacity
         /\ reserved' \in [Fifos -> 0 .. MaxReserved]
<1>1. CASE d \in Registers
  <2>1. reg' = [reg EXCEPT ![d] = b] /\ fifo' = fifo /\ reserved' = reserved
    BY <1>1 DEF SetDataBuffer
  <2> QED BY <1>1, <2>1 DEF Typed
<1>2. CASE d \notin Registers
  <2>1. d \in Fifos
    BY <1>2 DEF Destinations
  <2>2. /\ fifo' = IF Pushed(d).ok THEN [fifo EXCEPT ![d] = Append(@, b)] ELSE fifo
        /\ reserved' = [reserved EXCEPT ![d] = Pushed(d).reserved] /\ reg' = reg
    BY <1>2 DEF SetDataBuffer
  <2>3. reserved' \in [Fifos -> 0 .. MaxReserved]
    BY <2>1, <2>2, PushedTyped DEF Typed
  <2>4. CASE Pushed(d).ok
    <3> DEFINE t == Append(fifo[d], b)
    <3>1. fifo[d] \in Seq(Buffers) /\ Len(fifo[d]) + 1 <= Capacity
      BY <2>1, <2>4, PushedTyped DEF Typed
    <3>2. t \in Seq(Buffers) /\ Len(t) <= Capacity
      BY <3>1
    <3>3. fifo' = [fifo EXCEPT ![d] = t]
      BY <2>2, <2>4
    <3> HIDE DEF t
    <3>4. /\ fifo' \in [Fifos -> Seq(Buffers)] /\ fifo'[d] = t
          /\ \A f \in Fifos \ {d} : fifo'[f] = fifo[f]
      BY <2>1, <3>2, <3>3 DEF Typed
    <3>5. \A f \in Fifos : Len(fifo'[f]) <= Capacity
      BY <3>2, <3>4 DEF Typed
    <3>6. reg' \in [Registers -> Buffers \cup {Null}]
      BY <2>2 DEF Typed
    <3> QED BY <2>3, <3>4, <3>5, <3>6
  <2>5. CASE ~Pushed(d).ok
    BY <2>2, <2>3, <2>5 DEF Typed
  <2> QED BY <2>4, <2>5
<1> QED BY <1>1, <1>2

(* The caller holds a reference to b of its own, and n counts at least     *)
(* what is installed.                                                      *)
LEMMA SetSound ==
  ASSUME Typed, NEW d \in Destinations, NEW b \in Buffers, SetDataBuffer(d, b),
         NEW h, NEW n, Sound(h, n), \A c \in Buffers : n[c] >= Installed(c) + One(b, c),
         NEW m, m = [c \in Buffers |-> m[c]],
         \A c \in Buffers : m[c] = n[c] - Installed(c) + Installed(c)'
  PROVE  Sound(SetDataBufferHeap(h, d, b), m)
<1>1. /\ Null \notin Buffers /\ reg \in [Registers -> Buffers \cup {Null}]
      /\ fifo \in [Fifos -> Seq(Buffers)]
  BY DataBuffersAssumption DEF Typed
<1>2. ASSUME NEW c \in Buffers
      PROVE  /\ n[c] \in Nat /\ InRegisters(c, reg) \in Nat /\ OccurrencesIn(c, fifo) \in Nat
             /\ One(b, c) \in Nat /\ Installed(c) = InRegisters(c, reg) + OccurrencesIn(c, fifo)
             /\ Installed(c)' = InRegisters(c, reg') + OccurrencesIn(c, fifo')
             /\ Installed(c) \in Nat
  BY SoundParts, CountsTyped, OneTyped DEF Counts, Installed
<1>3. n[b] # 0 /\ One(b, b) = 1
  BY <1>2 DEF One
<1>4. CASE d \in Registers
  <2>1. reg' = [reg EXCEPT ![d] = b] /\ fifo' = fifo
    BY <1>4 DEF SetDataBuffer
  <2>2. ASSUME NEW c \in Buffers
        PROVE  /\ m[c] = n[c] - One(reg[d], c) + One(b, c) /\ One(reg[d], c) \in Nat
               /\ One(reg[d], c) <= InRegisters(c, reg)
    <3>1. /\ InRegisters(c, reg') = InRegisters(c, reg) - One(reg[d], c) + One(b, c)
          /\ One(reg[d], c) <= InRegisters(c, reg)
      <4>1. reg'[d] = b /\ DifferAt(d, Registers, reg, reg')
        BY <1>1, <1>4, <2>1 DEF DifferAt
      <4> QED BY <1>4, <4>1, RegistersDiffer
    <3>2. One(reg[d], c) \in Nat
      BY OneTyped
    <3>3. m[c] = n[c] - (InRegisters(c, reg) + OccurrencesIn(c, fifo))
                   + (InRegisters(c, reg') + OccurrencesIn(c, fifo))
      BY <1>2, <2>1
    <3> QED BY <1>2, <3>1, <3>2, <3>3
  <2>3. CASE reg[d] = Null
    <3>1. \A c \in Buffers : m[c] = n[c] + One(b, c)
      <4>1. \A c \in Buffers : One(reg[d], c) = 0
        BY <1>1, <2>3, OneTyped
      <4> QED BY <1>2, <2>2, <4>1
    <3>2. Sound(IncRef(h, b), m)
      BY <1>3, <3>1, IncRefTo
    <3> QED BY <1>4, <2>3, <3>2 DEF SetDataBufferHeap
  <2>4. CASE reg[d] # Null
    <3> DEFINE o == reg[d]
               l == [c \in Buffers |-> n[c] - One(o, c)]
    <3>1. o \in Buffers
      BY <1>1, <1>4, <2>4
    <3>2. n[o] # 0
      <4>1. One(o, o) = 1
        BY DEF One
      <4> QED BY <1>2, <2>2, <3>1, <4>1
    <3>3. l = [c \in Buffers |-> l[c]] /\ \A c \in Buffers : l[c] = n[c] - One(o, c)
      OBVIOUS
    <3>4. l[b] # 0
      <4>1. One(o, b) <= InRegisters(b, reg) /\ n[b] >= Installed(b) + One(b, b) /\ One(o, b) \in Nat
        BY <2>2
      <4>2. n[b] - One(o, b) # 0
        BY <1>2, <1>3, <4>1
      <4> QED BY <4>2
    <3>5. \A c \in Buffers : m[c] = l[c] + One(b, c)
      BY <2>2, <3>3
    <3> HIDE DEF l
    <3>6. Sound(DecRef(h, o), l)
      BY <3>1, <3>2, <3>3, DecRefTo
    <3>7. Sound(IncRef(DecRef(h, o), b), m)
      <4> DEFINE g == DecRef(h, o)
      <4>1. Sound(g, l)
        BY <3>6
      <4> HIDE DEF g, o
      <4>2. Sound(IncRef(g, b), m)
        BY <3>4, <3>5, <4>1, IncRefTo
      <4> QED BY <4>2 DEF g
    <3> QED BY <1>4, <2>4, <3>7 DEF SetDataBufferHeap
  <2> QED BY <2>3, <2>4
<1>5. CASE d \notin Registers
  <2>1. d \in Fifos /\ reg' = reg
    BY <1>5 DEF SetDataBuffer, Destinations
  <2>2. CASE Pushed(d).ok
    <3>1. fifo' = [fifo EXCEPT ![d] = Append(@, b)]
      BY <1>5, <2>2 DEF SetDataBuffer
    <3>2. ASSUME NEW c \in Buffers PROVE m[c] = n[c] + One(b, c)
      <4>1. OccurrencesIn(c, fifo') = OccurrencesIn(c, fifo) + One(b, c)
        BY <1>1, <2>1, <3>1, FifoAppend
      <4> QED BY <1>2, <2>1, <4>1
    <3>3. Sound(IncRef(h, b), m)
      BY <1>3, <3>2, IncRefTo
    <3> QED BY <1>5, <2>2, <3>3 DEF SetDataBufferHeap
  <2>3. CASE ~Pushed(d).ok
    <3>1. fifo' = fifo
      BY <1>5, <2>3 DEF SetDataBuffer
    <3>2. \A c \in Buffers : m[c] = n[c]
      BY <1>2, <2>1, <3>1
    <3>3. m = n
      BY <3>2, SoundParts DEF Counts
    <3> QED BY <1>5, <2>3, <3>3 DEF SetDataBufferHeap
  <2> QED BY <2>2, <2>3
<1> QED BY <1>4, <1>5

LEMMA InstalledNext ==
  ASSUME fifo' \in [Fifos -> Seq(Buffers)], NEW c
  PROVE  Installed(c)' \in Nat
<1>1. IsFiniteSet(Fifos)
  BY DataBuffersAssumption
<1>2. OccurrencesIn(c, fifo') \in Nat
  BY <1>1, MarkedFinite
<1>3. InRegisters(c, reg') \in Nat
  BY RegistersTyped
<1>4. Installed(c)' = InRegisters(c, reg') + OccurrencesIn(c, fifo')
  BY DEF Installed
<1> QED BY <1>2, <1>3, <1>4

(* SetDataBuffer() by a caller that then drops its own reference.          *)
LEMMA SetAndDropSound ==
  ASSUME Typed, NEW d \in Destinations, NEW b \in Buffers, SetDataBuffer(d, b),
         NEW h, NEW n, Sound(h, n), \A c \in Buffers : n[c] >= Installed(c) + One(b, c),
         NEW m, m = [c \in Buffers |-> m[c]],
         \A c \in Buffers : m[c] = n[c] - Installed(c) + Installed(c)' - One(b, c)
  PROVE  Sound(DecRef(SetDataBufferHeap(h, d, b), b), m)
<1> DEFINE l == [c \in Buffers |-> n[c] - Installed(c) + Installed(c)']
           g == SetDataBufferHeap(h, d, b)
<1>1. l = [c \in Buffers |-> l[c]] /\ \A c \in Buffers : l[c] = n[c] - Installed(c) + Installed(c)'
  OBVIOUS
<1>2. ASSUME NEW c \in Buffers
      PROVE  n[c] \in Nat /\ Installed(c) \in Nat /\ Installed(c)' \in Nat /\ One(b, c) \in Nat
  <2>1. fifo' \in [Fifos -> Seq(Buffers)]
    BY SetTyped
  <2>2. n[c] \in Nat
    BY SoundParts DEF Counts
  <2>3. Installed(c)' \in Nat
    BY <2>1, InstalledNext
  <2>4. Installed(c) \in Nat
    BY CountsTyped
  <2>5. One(b, c) \in Nat
    BY OneTyped
  <2> QED BY <2>2, <2>3, <2>4, <2>5
<1>3. l[b] # 0
  <2>1. One(b, b) = 1
    BY DEF One
  <2>2. n[b] - Installed(b) + Installed(b)' # 0
    BY <1>2, <2>1
  <2> QED BY <2>2
<1> HIDE DEF l, g
<1>4. ASSUME NEW c \in Buffers PROVE m[c] = l[c] - One(b, c)
  <2>1. m[c] = n[c] - Installed(c) + Installed(c)' - One(b, c)
    OBVIOUS
  <2>2. l[c] = n[c] - Installed(c) + Installed(c)'
    BY <1>1
  <2> QED BY <1>2, <2>1, <2>2
<1>5. Sound(g, l)
  BY <1>1, SetSound DEF g
<1>6. Sound(DecRef(g, b), m)
  BY <1>3, <1>4, <1>5, DecRefTo
<1> QED BY <1>6 DEF g

-----------------------------------------------------------------------------
(* The inductive invariant.  Until ~DataBufferFactory() the heap is sound  *)
(* for the references there are; RefCountExact alone is not inductive, for *)
(* the recycling in DecRef() looks at the count and Allocate() trusts the  *)
(* free list.  Once ~DelayLine() has run, the delay line stays empty.      *)
Inv ==
  /\ Typed
  /\ phase # "running" => applied = << >> /\ \A k \in 0 .. Horizon : due[k] = << >>
  /\ phase # "done" => Sound(heap, Total)
  /\ phase = "done" => TypeOK /\ BuffersAccounted

LEMMA Parts ==
  ASSUME Typed, NEW c \in Buffers
  PROVE  /\ Total[c] = held[c] + Installed(c) + Travelling(c)
         /\ held[c] \in Nat /\ Installed(c) \in Nat /\ Travelling(c) \in Nat /\ Total[c] \in Nat
         /\ Installed(c) = InRegisters(c, reg) + OccurrencesIn(c, fifo)
         /\ InRegisters(c, reg) \in Nat /\ OccurrencesIn(c, fifo) \in Nat
         /\ Travelling(c) = OccurrencesIn(c, SlotsOf(due)) + Occurrences(c, applied)
         /\ OccurrencesIn(c, SlotsOf(due)) \in Nat /\ Occurrences(c, applied) \in Nat
<1>1. Total[c] = held[c] + Installed(c) + Travelling(c)
  BY DEF Total
<1> QED BY <1>1, CountsTyped, SlotsAre, SMTT(30) DEF Installed, Travelling

LEMMA PartsNext ==
  /\ Total' = [c \in Buffers |-> Total'[c]]
  /\ \A c \in Buffers :
       /\ Total'[c] = held'[c] + Installed(c)' + Travelling(c)'
       /\ Installed(c)' = InRegisters(c, reg') + OccurrencesIn(c, fifo')
       /\ Travelling(c)' = OccurrencesIn(c, SlotsOf(due')) + Occurrences(c, applied')
BY SlotsAre DEF Total, Installed, Travelling

LEMMA InitInv == Init => Inv
<1> SUFFICES ASSUME Init PROVE Inv
  OBVIOUS
<1>1. /\ Capacity \in Nat /\ MaxReserved \in Nat /\ MaxHeld \in Nat /\ Horizon \in Nat /\ Null \notin Buffers
      /\ IsFiniteSet(Fifos)
  BY DataBuffersAssumption
<1>2. << >> \in Seq(Buffers) /\ Len(<< >>) = 0 /\ << >> \in Seq(Buffers \X Destinations)
  BY EmptySeq
<1>3. due = [l \in 0 .. Horizon |-> << >>]
  BY DEF Init, DelayLine!Init
<1>4. Typed
  BY <1>1, <1>2, <1>3 DEF Init, Typed
<1>5. ASSUME NEW c \in Buffers PROVE Total[c] = 0
  <2>1. {r \in Registers : reg[r] = c} = {}
    BY <1>1 DEF Init
  <2>2. InRegisters(c, reg) = 0
    BY <2>1, FS_EmptySet DEF InRegisters
  <2>3. OccurrencesIn(c, fifo) = 0
    <3>1. fifo \in [Fifos -> Seq(Buffers)] /\ \A f \in Fifos : fifo[f] = << >>
      BY <1>2 DEF Init
    <3> QED BY <3>1, OccAllEmpty
  <2>4. OccurrencesIn(c, SlotsOf(due)) = 0
    <3>1. Firsts(<< >>) = << >>
      BY DEF Firsts
    <3>2. SlotsOf(due) \in [0 .. Horizon -> Seq(Buffers)]
          /\ \A k \in 0 .. Horizon : SlotsOf(due)[k] = << >>
      BY <1>2, <1>3, <3>1 DEF SlotsOf
    <3> QED BY <3>2, OccAllEmpty
  <2>5. Occurrences(c, applied) = 0
    BY OccEmpty DEF Init
  <2>6. held[c] = 0
    BY DEF Init
  <2> QED BY <1>4, <2>2, <2>3, <2>4, <2>5, <2>6, Parts
<1>6. Sound(heap, Total)
  <2>1. /\ heap.made = {} /\ heap.deleted = {} /\ heap.free = << >>
        /\ heap.ref = [b \in Buffers |-> 0] /\ heap \in HeapType
    BY <1>2 DEF Init, HeapType
  <2>2. Total = [b \in Buffers |-> 0]
    BY <1>5 DEF Total
  <2>3. IsInjective(<< >>) /\ ToSet(<< >>) = {}
    BY DEF IsInjective, ToSet
  <2> QED BY <2>1, <2>2, <2>3 DEF Sound, Counts
<1>7. phase = "running"
  BY DEF Init
<1> QED BY <1>4, <1>6, <1>7 DEF Inv

LEMMA Unmoved ==
  ASSUME NEW c
  PROVE  /\ reg' = reg /\ fifo' = fifo => Installed(c)' = Installed(c)
         /\ due' = due /\ applied' = applied => Travelling(c)' = Travelling(c)
BY SlotsAre DEF Installed, Travelling

LEMMA StillRunning ==
  ASSUME phase' = "running", Typed', Sound(heap', Total')
  PROVE  Inv'
BY DEF Inv

LEMMA NewRegisterInv ==
  ASSUME Inv, NEW r \in Registers, NewRegister(r)
  PROVE  Inv'
<1>1. PICK b \in Buffers :
         /\ phase = "running" /\ reg[r] = Null /\ CanAllocate(heap, b)
         /\ heap' = DecRef(SetDataBufferHeap(Allocate(heap, b), r, b), b)
         /\ value' = [value EXCEPT ![b] = Zero] /\ SetDataBuffer(r, b)
         /\ UNCHANGED <<destination, held, due, applied, phase>>
  BY DEF NewRegister
<1>2. Typed /\ Sound(heap, Total) /\ r \in Destinations
  BY <1>1 DEF Inv, Destinations
<1>3. Typed'
  <2>1. value' \in [Buffers -> Values \cup {Zero}]
    BY <1>1, <1>2 DEF Typed
  <2>2. /\ reg' \in [Registers -> Buffers \cup {Null}]
        /\ fifo' \in [Fifos -> Seq(Buffers)] /\ \A f \in Fifos : Len(fifo'[f]) <= Capacity
        /\ reserved' \in [Fifos -> 0 .. MaxReserved]
    BY <1>1, <1>2, SetTyped
  <2> QED BY <1>1, <1>2, <2>1, <2>2 DEF Typed
<1> DEFINE n == [c \in Buffers |-> Total[c] + One(b, c)]
           g == Allocate(heap, b)
<1>4. n = [c \in Buffers |-> n[c]] /\ \A c \in Buffers : n[c] = Total[c] + One(b, c)
  OBVIOUS
<1> HIDE DEF n, g
<1>5. Sound(g, n)
  BY <1>1, <1>2, <1>4, AllocateTo DEF g
<1>6. ASSUME NEW c \in Buffers
      PROVE  /\ n[c] >= Installed(c) + One(b, c)
             /\ Total'[c] = n[c] - Installed(c) + Installed(c)' - One(b, c)
  <2>1. /\ Total[c] = held[c] + Installed(c) + Travelling(c) /\ held[c] \in Nat
        /\ Installed(c) \in Nat /\ Travelling(c) \in Nat /\ One(b, c) \in Nat
    BY <1>2, Parts, OneTyped
  <2>2. Total'[c] = held[c] + Installed(c)' + Travelling(c)
    BY <1>1, PartsNext, Unmoved
  <2>3. Installed(c)' \in Nat
    BY <1>1, <1>2, SetTyped, InstalledNext
  <2> QED BY <1>4, <2>1, <2>2, <2>3
<1>7. Sound(DecRef(SetDataBufferHeap(g, r, b), b), Total')
  BY <1>1, <1>2, <1>5, <1>6, PartsNext, SetAndDropSound
<1> QED BY <1>1, <1>3, <1>7, StillRunning DEF g

(* A buffer that Allocate() returns to a client that means to write it.    *)
Allocated(b) ==
  /\ phase = "running" /\ CanAllocate(heap, b) /\ heap' = Allocate(heap, b)
  /\ held' = [held EXCEPT ![b] = @ + 1]
  /\ UNCHANGED <<reg, fifo, reserved, due, applied, phase>>

LEMMA AllocatedInv ==
  ASSUME Inv, NEW b \in Buffers, Allocated(b),
         value' \in [Buffers -> Values \cup {Zero}],
         destination' \in [Buffers -> Destinations \cup {Null}]
  PROVE  Inv'
<1>1. /\ phase = "running" /\ CanAllocate(heap, b) /\ heap' = Allocate(heap, b)
      /\ held' = [held EXCEPT ![b] = @ + 1]
      /\ UNCHANGED <<reg, fifo, reserved, due, applied, phase>>
  BY DEF Allocated
<1>2. Typed /\ Sound(heap, Total)
  BY <1>1 DEF Inv
<1>3. held[b] = 0
  <2>1. Total[b] = 0
    BY <1>1, <1>2, AllocateSound
  <2>2. /\ Total[b] = held[b] + Installed(b) + Travelling(b)
        /\ held[b] \in Nat /\ Installed(b) \in Nat /\ Travelling(b) \in Nat
    BY <1>2, Parts
  <2> QED BY <2>1, <2>2
<1>4. held' \in [Buffers -> 0 .. MaxHeld] /\ \A c \in Buffers : held'[c] = held[c] + One(b, c)
  BY <1>1, <1>2, <1>3, DataBuffersAssumption DEF Typed, One
<1>5. Typed'
  BY <1>1, <1>2, <1>4 DEF Typed
<1>6. ASSUME NEW c \in Buffers PROVE Total'[c] = Total[c] + One(b, c)
  <2>1. /\ Total[c] = held[c] + Installed(c) + Travelling(c) /\ held[c] \in Nat
        /\ Installed(c) \in Nat /\ Travelling(c) \in Nat /\ One(b, c) \in Nat
    BY <1>2, Parts, OneTyped
  <2>2. Total'[c] = held'[c] + Installed(c) + Travelling(c)
    BY <1>1, PartsNext, Unmoved
  <2> QED BY <1>4, <2>1, <2>2
<1>7. Sound(heap', Total')
  BY <1>1, <1>2, <1>6, PartsNext, AllocateTo
<1> QED BY <1>1, <1>5, <1>7, StillRunning

LEMMA AllocateDataBufferInv ==
  ASSUME Inv, NEW d \in Destinations \cup {Null}, NEW v \in Values, AllocateDataBuffer(d, v)
  PROVE  Inv'
<1>1. PICK b \in Buffers : /\ Allocated(b) /\ value' = [value EXCEPT ![b] = v]
                           /\ destination' = [destination EXCEPT ![b] = d]
  BY DEF AllocateDataBuffer, Allocated
<1>2. /\ value' \in [Buffers -> Values \cup {Zero}]
      /\ destination' \in [Buffers -> Destinations \cup {Null}]
  BY <1>1 DEF Inv, Typed
<1> QED BY <1>1, <1>2, AllocatedInv

LEMMA CopyDataBufferInv ==
  ASSUME Inv, NEW r \in Registers, CopyDataBuffer(r)
  PROVE  Inv'
<1>1. PICK b \in Buffers : /\ Allocated(b) /\ Usable(r)
                           /\ value' = [value EXCEPT ![b] = value[reg[r]]]
                           /\ destination' = [destination EXCEPT ![b] = r]
  BY DEF CopyDataBuffer, Allocated
<1>2. reg[r] \in Buffers /\ r \in Destinations
  BY <1>1 DEF Inv, Typed, Usable, Destinations
<1>3. /\ value' \in [Buffers -> Values \cup {Zero}]
      /\ destination' \in [Buffers -> Destinations \cup {Null}]
  BY <1>1, <1>2 DEF Inv, Typed
<1> QED BY <1>1, <1>3, AllocatedInv

LEMMA InitializeDataBufferInv ==
  ASSUME Inv, NEW b \in Buffers, NEW d \in Destinations \cup {Null}, InitializeDataBuffer(b, d)
  PROVE  Inv'
<1>1. /\ phase = "running" /\ destination' = [destination EXCEPT ![b] = d]
      /\ UNCHANGED <<heap, value, held, reg, fifo, reserved, due, applied, phase>>
  BY DEF InitializeDataBuffer
<1>2. Typed /\ Sound(heap, Total)
  BY <1>1 DEF Inv
<1>3. Typed'
  BY <1>1, <1>2 DEF Typed
<1>4. Total' = Total
  BY <1>1 DEF Total, Installed, Travelling, Slots, Carried
<1> QED BY <1>1, <1>2, <1>3, <1>4, StillRunning

LEMMA StillThere ==
  ASSUME Inv, phase # "done", UNCHANGED <<phase, due, applied>>, Typed', Sound(heap', Total')
  PROVE  Inv'
BY DEF Inv

LEMMA ClientIncRefInv ==
  ASSUME Inv, NEW b \in Buffers, ClientIncRef(b)
  PROVE  Inv'
<1>1. /\ phase = "running" /\ held[b] \in 1 .. MaxHeld - 1 /\ heap' = IncRef(heap, b)
      /\ held' = [held EXCEPT ![b] = @ + 1]
      /\ UNCHANGED <<value, destination, reg, fifo, reserved, due, applied, phase>>
  BY DEF ClientIncRef
<1>2. Typed /\ Sound(heap, Total)
  BY <1>1 DEF Inv
<1>3. held' \in [Buffers -> 0 .. MaxHeld] /\ \A c \in Buffers : held'[c] = held[c] + One(b, c)
  BY <1>1, <1>2, DataBuffersAssumption DEF Typed, One
<1>4. Typed'
  BY <1>1, <1>2, <1>3 DEF Typed
<1>5. Total[b] # 0
  <2>1. /\ Total[b] = held[b] + Installed(b) + Travelling(b)
        /\ held[b] \in Nat /\ Installed(b) \in Nat /\ Travelling(b) \in Nat
    BY <1>2, Parts
  <2>2. held[b] # 0
    BY <1>1, DataBuffersAssumption
  <2> QED BY <2>1, <2>2
<1>6. ASSUME NEW c \in Buffers PROVE Total'[c] = Total[c] + One(b, c)
  <2>1. /\ Total[c] = held[c] + Installed(c) + Travelling(c) /\ held[c] \in Nat
        /\ Installed(c) \in Nat /\ Travelling(c) \in Nat /\ One(b, c) \in Nat
    BY <1>2, Parts, OneTyped
  <2>2. Total'[c] = held'[c] + Installed(c) + Travelling(c)
    BY <1>1, PartsNext, Unmoved
  <2> QED BY <1>3, <2>1, <2>2
<1>7. Sound(heap', Total')
  BY <1>1, <1>2, <1>5, <1>6, PartsNext, IncRefTo
<1> QED BY <1>1, <1>4, <1>7, StillRunning

LEMMA ClientDecRefInv ==
  ASSUME Inv, NEW b \in Buffers, ClientDecRef(b)
  PROVE  Inv'
<1>1. /\ phase # "done" /\ held[b] > 0 /\ heap' = DecRef(heap, b)
      /\ held' = [held EXCEPT ![b] = @ - 1]
      /\ UNCHANGED <<value, destination, reg, fifo, reserved, due, applied, phase>>
  BY DEF ClientDecRef
<1>2. Typed /\ Sound(heap, Total)
  BY <1>1 DEF Inv
<1>3. held' \in [Buffers -> 0 .. MaxHeld] /\ \A c \in Buffers : held'[c] = held[c] - One(b, c)
  BY <1>1, <1>2, DataBuffersAssumption DEF Typed, One
<1>4. Typed'
  BY <1>1, <1>2, <1>3 DEF Typed
<1>5. Total[b] # 0
  <2>1. /\ Total[b] = held[b] + Installed(b) + Travelling(b)
        /\ held[b] \in Nat /\ Installed(b) \in Nat /\ Travelling(b) \in Nat
    BY <1>2, Parts
  <2> QED BY <1>1, <2>1
<1>6. ASSUME NEW c \in Buffers PROVE Total'[c] = Total[c] - One(b, c)
  <2>1. /\ Total[c] = held[c] + Installed(c) + Travelling(c) /\ held[c] \in Nat
        /\ Installed(c) \in Nat /\ Travelling(c) \in Nat /\ One(b, c) \in Nat
    BY <1>2, Parts, OneTyped
  <2>2. Total'[c] = held'[c] + Installed(c) + Travelling(c)
    BY <1>1, PartsNext, Unmoved
  <2> QED BY <1>3, <2>1, <2>2
<1>7. Sound(heap', Total')
  BY <1>1, <1>2, <1>5, <1>6, PartsNext, DecRefTo
<1> QED BY <1>1, <1>4, <1>7, StillThere

LEMMA SubmitInv ==
  ASSUME Inv, NEW b \in Buffers, NEW l \in Latencies, Submit(b, l)
  PROVE  Inv'
<1> DEFINE d == destination[b]
<1>1. /\ phase = "running" /\ held[b] > 0 /\ SubmitTo(b, l)
      /\ held' = [held EXCEPT ![b] = @ - 1]
      /\ UNCHANGED <<value, destination, applied, phase>>
  BY DEF Submit
<1>2. Typed /\ Sound(heap, Total) /\ Null \notin Destinations /\ l \in 0 .. Horizon
  BY <1>1, DataBuffersAssumption DEF Inv, Destinations
<1>3. held' \in [Buffers -> 0 .. MaxHeld] /\ \A c \in Buffers : held'[c] = held[c] - One(b, c)
  BY <1>1, <1>2, DataBuffersAssumption DEF Typed, One
<1>4. ASSUME NEW c \in Buffers
      PROVE  /\ Total[c] = held[c] + Installed(c) + Travelling(c) /\ held[c] \in Nat
             /\ Installed(c) \in Nat /\ Travelling(c) \in Nat /\ One(b, c) \in Nat
             /\ held[c] >= One(b, c)
  <2>1. held[c] \in Nat /\ held[c] >= One(b, c)
    BY <1>1, <1>2, Parts DEF One
  <2> QED BY <1>2, <2>1, Parts, OneTyped
<1>5. Total[b] # 0
  BY <1>1, <1>4
<1>6. d \in Destinations \cup {Null}
  BY <1>2 DEF Typed
<1>7. CASE d = Null
  <2>1. heap' = DecRef(heap, b) /\ UNCHANGED <<reg, fifo, reserved, due>>
    BY <1>1, <1>7 DEF SubmitTo
  <2>2. Typed'
    BY <1>1, <1>2, <1>3, <2>1 DEF Typed
  <2>3. ASSUME NEW c \in Buffers PROVE Total'[c] = Total[c] - One(b, c)
    <3>1. Total'[c] = held'[c] + Installed(c) + Travelling(c)
      BY <1>1, <2>1, PartsNext, Unmoved
    <3> QED BY <1>3, <1>4, <3>1
  <2>4. Sound(heap', Total')
    BY <1>2, <1>5, <2>1, <2>3, PartsNext, DecRefTo
  <2> QED BY <1>1, <2>2, <2>4, StillRunning
<1>8. CASE d # Null /\ l = 0
  <2>1. heap' = DecRef(SetDataBufferHeap(heap, d, b), b) /\ SetDataBuffer(d, b) /\ due' = due
    BY <1>1, <1>8 DEF SubmitTo
  <2>2. d \in Destinations
    BY <1>6, <1>8
  <2> HIDE DEF d
  <2>3. /\ reg' \in [Registers -> Buffers \cup {Null}]
        /\ fifo' \in [Fifos -> Seq(Buffers)] /\ \A f \in Fifos : Len(fifo'[f]) <= Capacity
        /\ reserved' \in [Fifos -> 0 .. MaxReserved]
    BY <1>2, <2>1, <2>2, SetTyped
  <2>4. Typed'
    BY <1>1, <1>2, <1>3, <2>1, <2>3 DEF Typed
  <2>5. ASSUME NEW c \in Buffers
        PROVE  /\ Total[c] >= Installed(c) + One(b, c)
               /\ Total'[c] = Total[c] - Installed(c) + Installed(c)' - One(b, c)
    <3>1. Total'[c] = held'[c] + Installed(c)' + Travelling(c)
      BY <1>1, <2>1, PartsNext, Unmoved
    <3>2. Installed(c)' \in Nat
      BY <2>3, InstalledNext
    <3> QED BY <1>3, <1>4, <3>1, <3>2
  <2>6. Sound(heap', Total')
    BY <1>2, <2>1, <2>2, <2>5, PartsNext, SetAndDropSound
  <2> QED BY <1>1, <2>4, <2>6, StillRunning
<1>9. CASE d # Null /\ l # 0
  <2>1. due' = [due EXCEPT ![l] = Append(@, <<b, d>>)] /\ UNCHANGED <<heap, reg, fifo, reserved>>
    BY <1>1, <1>9 DEF SubmitTo, DelayLine!Add
  <2>2. d \in Destinations /\ due \in Queues
    BY <1>2, <1>6, <1>9 DEF Typed, Queues
  <2> HIDE DEF d
  <2>3. due' \in [0 .. Horizon -> Seq(Buffers \X Destinations)]
    <3>1. Append(due[l], <<b, d>>) \in Seq(Buffers \X Destinations)
      BY <1>2, <2>2 DEF Queues
    <3> QED BY <2>1, <2>2, <3>1 DEF Queues
  <2>4. Typed'
    BY <1>1, <1>2, <1>3, <2>1, <2>3 DEF Typed
  <2>5. ASSUME NEW c \in Buffers PROVE Total'[c] = Total[c]
    <3>1. OccurrencesIn(c, SlotsOf(due')) = OccurrencesIn(c, SlotsOf(due)) + One(b, c)
      <4>1. l \in 0 .. Horizon
        BY DataBuffersAssumption
      <4>2. due' = Added(due, l, b, d)
        BY <2>1 DEF Added
      <4> QED BY <2>2, <4>1, <4>2, SlotsAppend
    <3>2. /\ Travelling(c) = OccurrencesIn(c, SlotsOf(due)) + Occurrences(c, applied)
          /\ OccurrencesIn(c, SlotsOf(due)) \in Nat /\ Occurrences(c, applied) \in Nat
      BY <1>2, Parts
    <3>3. Travelling(c)' = OccurrencesIn(c, SlotsOf(due')) + Occurrences(c, applied)
      BY <1>1, PartsNext
    <3>4. Total'[c] = held'[c] + Installed(c) + Travelling(c)'
      BY <1>1, <2>1, PartsNext, Unmoved
    <3> QED BY <1>3, <1>4, <3>1, <3>2, <3>3, <3>4
  <2>6. Total' = Total
    BY <2>5, PartsNext DEF Total
  <2> QED BY <1>1, <1>2, <2>1, <2>4, <2>6, StillRunning
<1> QED BY <1>7, <1>8, <1>9

LEMMA BeginAdvanceInv ==
  ASSUME Inv, BeginAdvance
  PROVE  Inv'
<1>1. /\ phase = "running" /\ due[0] = << >>
      /\ due' = [l \in 0 .. Horizon |-> IF l < Horizon THEN due[l + 1] ELSE << >>]
      /\ UNCHANGED <<heap, value, destination, held, reg, fifo, reserved, applied, phase>>
  BY DEF BeginAdvance, DelayLine!Tick
<1>2. Typed /\ Sound(heap, Total) /\ due \in Queues /\ Horizon \in Nat
  BY <1>1, DataBuffersAssumption DEF Inv, Typed, Queues
<1>3. due' \in [0 .. Horizon -> Seq(Buffers \X Destinations)]
  <2>1. ASSUME NEW k \in 0 .. Horizon
        PROVE  (IF k < Horizon THEN due[k + 1] ELSE << >>) \in Seq(Buffers \X Destinations)
    <3>1. k < Horizon => k + 1 \in 0 .. Horizon
      BY <1>2
    <3> QED BY <1>2, <3>1, EmptySeq DEF Queues
  <2> QED BY <1>1, <2>1
<1>4. Typed'
  BY <1>1, <1>2, <1>3 DEF Typed
<1>5. ASSUME NEW c \in Buffers PROVE Total'[c] = Total[c]
  <2>1. OccurrencesIn(c, SlotsOf(due')) = OccurrencesIn(c, SlotsOf(due))
    BY <1>1, <1>2, SlotsShift
  <2>2. Travelling(c)' = Travelling(c)
    BY <1>1, <1>2, <2>1, Parts, PartsNext
  <2> QED BY <1>1, <1>2, <2>2, Parts, PartsNext, Unmoved
<1>6. Total' = Total
  BY <1>5, PartsNext DEF Total
<1> QED BY <1>1, <1>2, <1>4, <1>6, StillRunning

LEMMA ApplyRecordInv ==
  ASSUME Inv, ApplyRecord
  PROVE  Inv'
<1> DEFINE b == Head(due[0])[1]
           d == Head(due[0])[2]
<1>1. /\ phase = "running" /\ due[0] # << >> /\ due' = [due EXCEPT ![0] = Tail(@)]
      /\ heap' = SetDataBufferHeap(heap, d, b) /\ SetDataBuffer(d, b)
      /\ applied' = Append(applied, b) /\ UNCHANGED <<value, destination, held, phase>>
  BY DEF ApplyRecord, DelayLine!Apply
<1>2. /\ Typed /\ Sound(heap, Total) /\ due \in Queues /\ 0 \in 0 .. Horizon
      /\ applied \in Seq(Buffers)
  BY <1>1, DataBuffersAssumption, SMTT(30) DEF Inv, Typed, Queues
<1>3. b \in Buffers /\ d \in Destinations
  <2>1. Head(due[0]) \in Buffers \X Destinations
    BY <1>1, <1>2, SlotsTail
  <2> QED BY <2>1
<1>4. \A c : OccurrencesIn(c, SlotsOf(due)) = OccurrencesIn(c, SlotsOf(due')) + One(b, c)
  BY <1>1, <1>2, SlotsTail
<1>5. due' \in [0 .. Horizon -> Seq(Buffers \X Destinations)]
  <2>1. due[0] \in Seq(Buffers \X Destinations)
    BY <1>2 DEF Queues
  <2>2. Tail(due[0]) \in Seq(Buffers \X Destinations)
    BY <1>1, <2>1, HeadTailProperties
  <2> QED BY <1>1, <1>2, <2>2 DEF Queues
<1> HIDE DEF b, d
<1>6. /\ reg' \in [Registers -> Buffers \cup {Null}]
      /\ fifo' \in [Fifos -> Seq(Buffers)] /\ \A f \in Fifos : Len(fifo'[f]) <= Capacity
      /\ reserved' \in [Fifos -> 0 .. MaxReserved]
  BY <1>1, <1>2, <1>3, SetTyped
<1>7. applied' \in Seq(Buffers)
  BY <1>1, <1>2, <1>3
<1>8. Typed'
  BY <1>1, <1>2, <1>5, <1>6, <1>7 DEF Typed
<1>9. ASSUME NEW c \in Buffers
      PROVE  /\ Total[c] >= Installed(c) + One(b, c)
             /\ Total'[c] = Total[c] - Installed(c) + Installed(c)'
  <2>1. /\ Total[c] = held[c] + Installed(c) + Travelling(c) /\ held[c] \in Nat
        /\ Installed(c) \in Nat /\ Travelling(c) \in Nat
        /\ Travelling(c) = OccurrencesIn(c, SlotsOf(due)) + Occurrences(c, applied)
        /\ OccurrencesIn(c, SlotsOf(due)) \in Nat /\ Occurrences(c, applied) \in Nat
    BY <1>2, Parts
  <2>2. One(b, c) \in Nat
    BY OneTyped
  <2>3. Occurrences(c, applied') = Occurrences(c, applied) + One(b, c)
    BY <1>1, <1>2, <1>3, OccAppend
  <2>4. OccurrencesIn(c, SlotsOf(due)) = OccurrencesIn(c, SlotsOf(due')) + One(b, c)
    BY <1>4
  <2>5. OccurrencesIn(c, SlotsOf(due')) \in Nat
    BY <1>5, SlotsNat DEF Queues
  <2>6. Installed(c)' \in Nat
    BY <1>6, InstalledNext
  <2>7. Total'[c] = held[c] + Installed(c)' + (OccurrencesIn(c, SlotsOf(due')) + Occurrences(c, applied'))
    BY <1>1, PartsNext
  <2> QED BY <2>1, <2>2, <2>3, <2>4, <2>5, <2>6, <2>7
<1>10. Sound(heap', Total')
  BY <1>1, <1>2, <1>3, <1>9, PartsNext, SetSound
<1> QED BY <1>1, <1>8, <1>10, StillRunning

LEMMA ClearSlotInv ==
  ASSUME Inv, ClearSlot
  PROVE  Inv'
<1>1. /\ phase = "running" /\ heap' = DecRefAll(heap, applied) /\ applied' = << >>
      /\ UNCHANGED <<value, destination, held, reg, fifo, reserved, due, phase>>
  BY DEF ClearSlot
<1>2. Typed /\ Sound(heap, Total) /\ applied \in Seq(Buffers)
  BY <1>1 DEF Inv, Typed
<1>3. Typed'
  BY <1>1, <1>2, EmptySeq DEF Typed
<1>4. ASSUME NEW c \in Buffers
      PROVE  /\ Occurrences(c, applied) <= Total[c]
             /\ Total'[c] = Total[c] - Occurrences(c, applied)
  <2>1. /\ Total[c] = held[c] + Installed(c) + Travelling(c) /\ held[c] \in Nat
        /\ Installed(c) \in Nat /\ Travelling(c) \in Nat
        /\ Travelling(c) = OccurrencesIn(c, SlotsOf(due)) + Occurrences(c, applied)
        /\ OccurrencesIn(c, SlotsOf(due)) \in Nat /\ Occurrences(c, applied) \in Nat
    BY <1>2, Parts
  <2>2. Occurrences(c, applied') = 0
    BY <1>1, OccEmpty
  <2>3. Installed(c)' = Installed(c)
    BY <1>1, Unmoved
  <2>4. Total'[c] = held[c] + Installed(c) + (OccurrencesIn(c, SlotsOf(due)) + Occurrences(c, applied'))
    BY <1>1, <2>3, PartsNext
  <2> QED BY <2>1, <2>2, <2>4
<1>5. Sound(heap', Total')
  BY <1>1, <1>2, <1>4, PartsNext, DecRefAllTo
<1> QED BY <1>1, <1>3, <1>5, StillRunning

LEMMA PopInv ==
  ASSUME Inv, NEW f \in Fifos, Pop(f)
  PROVE  Inv'
<1> DEFINE b == Head(fifo[f])
<1>1. /\ phase = "running" /\ fifo[f] # << >> /\ heap' = DecRef(heap, b)
      /\ fifo' = [fifo EXCEPT ![f] = Tail(@)]
      /\ UNCHANGED <<value, destination, held, reg, reserved, due, applied, phase>>
  BY DEF Pop
<1>2. Typed /\ Sound(heap, Total) /\ fifo \in [Fifos -> Seq(Buffers)] /\ Capacity \in Nat
  BY <1>1, DataBuffersAssumption DEF Inv, Typed
<1>3. /\ b \in Buffers /\ Tail(fifo[f]) \in Seq(Buffers)
      /\ \A c : OccurrencesIn(c, fifo) = OccurrencesIn(c, fifo') + One(b, c)
  BY <1>1, <1>2, FifoTail
<1>4. Len(Tail(fifo[f])) <= Capacity
  <2>1. fifo[f] \in Seq(Buffers) /\ Len(fifo[f]) <= Capacity /\ Len(fifo[f]) \in Nat
    BY <1>2 DEF Typed
  <2>2. Len(Tail(fifo[f])) = Len(fifo[f]) - 1
    BY <1>1, <2>1, HeadTailProperties
  <2> QED BY <1>2, <2>1, <2>2
<1>5. fifo' \in [Fifos -> Seq(Buffers)] /\ \A g \in Fifos : Len(fifo'[g]) <= Capacity
  <2> DEFINE t == Tail(fifo[f])
  <2>1. t \in Seq(Buffers) /\ Len(t) <= Capacity /\ fifo' = [fifo EXCEPT ![f] = t]
    BY <1>1, <1>3, <1>4
  <2> HIDE DEF t
  <2>2. /\ fifo' \in [Fifos -> Seq(Buffers)] /\ fifo'[f] = t
        /\ \A g \in Fifos \ {f} : fifo'[g] = fifo[g]
    BY <1>2, <2>1
  <2> QED BY <1>2, <2>1, <2>2 DEF Typed
<1>6. Typed'
  BY <1>1, <1>2, <1>5 DEF Typed
<1> HIDE DEF b
<1>7. ASSUME NEW c \in Buffers
      PROVE  Total'[c] = Total[c] - One(b, c) /\ One(b, c) <= Total[c] /\ Total[c] \in Nat
  <2>1. /\ Total[c] = held[c] + Installed(c) + Travelling(c) /\ held[c] \in Nat
        /\ Installed(c) \in Nat /\ Travelling(c) \in Nat /\ Total[c] \in Nat
        /\ Installed(c) = InRegisters(c, reg) + OccurrencesIn(c, fifo)
        /\ InRegisters(c, reg) \in Nat /\ OccurrencesIn(c, fifo) \in Nat
    BY <1>2, Parts
  <2>2. One(b, c) \in Nat
    BY OneTyped
  <2>3. OccurrencesIn(c, fifo) = OccurrencesIn(c, fifo') + One(b, c)
    BY <1>3
  <2>4. OccurrencesIn(c, fifo') \in Nat
    BY <1>5, DataBuffersAssumption, MarkedFinite
  <2>5. Total'[c] = held[c] + (InRegisters(c, reg) + OccurrencesIn(c, fifo')) + Travelling(c)
    BY <1>1, PartsNext, Unmoved
  <2> QED BY <2>1, <2>2, <2>3, <2>4, <2>5
<1>8. Total[b] # 0
  <2>1. One(b, b) = 1
    BY DEF One
  <2> QED BY <1>3, <1>7, <2>1
<1>9. b \in Buffers /\ heap' = DecRef(heap, b)
  BY <1>1, <1>3
<1>10. Sound(heap', Total')
  BY <1>2, <1>7, <1>8, <1>9, PartsNext, DecRefTo, SMTT(30)
<1> QED BY <1>1, <1>6, <1>10, StillRunning

LEMMA ReserveInv ==
  ASSUME Inv, NEW f \in Fifos, Reserve(f)
  PROVE  Inv'
<1>1. /\ phase = "running" /\ reserved[f] < MaxReserved /\ reserved' = [reserved EXCEPT ![f] = @ + 1]
      /\ UNCHANGED <<heap, value, destination, held, reg, fifo, due, applied, phase>>
  BY DEF Reserve
<1>2. Typed /\ Sound(heap, Total)
  BY <1>1 DEF Inv
<1>3. reserved' \in [Fifos -> 0 .. MaxReserved]
  BY <1>1, <1>2, DataBuffersAssumption DEF Typed
<1>4. Typed'
  BY <1>1, <1>2, <1>3 DEF Typed
<1>5. Total' = Total
  BY <1>1 DEF Total, Installed, Travelling, Slots, Carried
<1> QED BY <1>1, <1>2, <1>4, <1>5, StillRunning

LEMMA DeleteDelayLinesInv ==
  ASSUME Inv, DeleteDelayLines
  PROVE  Inv'
<1> DEFINE d == CHOOSE d : Clearing(heap, Horizon, d)
<1>1. /\ phase = "running" /\ due[0] = << >> /\ applied = << >>
      /\ due' = [k \in 0 .. Horizon |-> << >>] /\ phase' = "deleting"
      /\ UNCHANGED <<value, destination, held, reg, fifo, reserved, applied>>
  BY DEF DeleteDelayLines
<1>2. heap' = d[Horizon]
  BY DEF DeleteDelayLines, Clearing
<1>3. Typed /\ Sound(heap, Total) /\ Horizon \in Nat /\ due \in Queues
  BY <1>1, DataBuffersAssumption DEF Inv, Typed, Queues
<1>4. Clearing(heap, Horizon, d)
  BY <1>3, ClearingExists
<1> HIDE DEF d
<1>5. due' \in [0 .. Horizon -> Seq(Buffers \X Destinations)] /\ \A k \in 0 .. Horizon : due'[k] = << >>
  BY <1>1, EmptySeq
<1>6. Typed'
  BY <1>1, <1>3, <1>5 DEF Typed
<1> DEFINE q == SlotsOf(due)
<1>7. /\ q \in SequencesOver(0 .. Horizon, Buffers) /\ q[0] = << >>
      /\ \A k \in 0 .. Horizon : q[k] = Carried(k)
  <2>1. Firsts(<< >>) = << >> /\ 0 \in 0 .. Horizon
    BY <1>3 DEF Firsts
  <2>2. \A k \in 0 .. Horizon : q[k] = Firsts(due[k]) /\ q[k] = Carried(k)
    BY DEF SlotsOf, Carried, Firsts
  <2> QED BY <1>1, <1>3, <2>1, <2>2, SlotsTyped DEF SequencesOver
<1>8. ASSUME NEW c \in Buffers
      PROVE  /\ OccurrencesIn(c, q) <= Total[c]
             /\ Total'[c] = Total[c] - OccurrencesIn(c, q)
  <2>1. /\ Total[c] = held[c] + Installed(c) + Travelling(c) /\ held[c] \in Nat
        /\ Installed(c) \in Nat /\ Travelling(c) \in Nat
        /\ Travelling(c) = OccurrencesIn(c, q) + Occurrences(c, applied)
        /\ OccurrencesIn(c, q) \in Nat /\ Occurrences(c, applied) \in Nat
    BY <1>3, Parts
  <2>2. OccurrencesIn(c, SlotsOf(due')) = 0
    <3>1. Firsts(<< >>) = << >>
      BY DEF Firsts
    <3>2. SlotsOf(due') \in [0 .. Horizon -> Seq(Buffers)]
          /\ \A k \in 0 .. Horizon : SlotsOf(due')[k] = << >>
      BY <1>5, <3>1, EmptySeq DEF SlotsOf
    <3> QED BY <3>2, OccAllEmpty
  <2>3. Total'[c] = held[c] + Installed(c) + (OccurrencesIn(c, SlotsOf(due')) + Occurrences(c, applied))
    BY <1>1, PartsNext, Unmoved
  <2> QED BY <2>1, <2>2, <2>3
<1> HIDE DEF q
<1>9. Sound(heap', Total')
  BY <1>2, <1>3, <1>4, <1>7, <1>8, PartsNext, ClearingSound
<1> QED BY <1>1, <1>5, <1>6, <1>9 DEF Inv

LEMMA DeleteRegisterInv ==
  ASSUME Inv, NEW r \in Registers, DeleteRegister(r)
  PROVE  Inv'
<1> DEFINE b == reg[r]
<1>1. /\ phase = "deleting" /\ reg[r] # Null /\ heap' = DecRef(heap, b)
      /\ reg' = [reg EXCEPT ![r] = Null]
      /\ UNCHANGED <<value, destination, held, fifo, reserved, due, applied, phase>>
  BY DEF DeleteRegister
<1>2. Typed /\ Sound(heap, Total) /\ reg \in [Registers -> Buffers \cup {Null}] /\ phase # "done"
  BY <1>1 DEF Inv, Typed
<1>3. b \in Buffers /\ reg' \in [Registers -> Buffers \cup {Null}] /\ reg'[r] = Null
      /\ DifferAt(r, Registers, reg, reg')
  BY <1>1, <1>2 DEF DifferAt
<1>4. Typed'
  BY <1>1, <1>2, <1>3 DEF Typed
<1> HIDE DEF b
<1>5. ASSUME NEW c \in Buffers
      PROVE  Total'[c] = Total[c] - One(b, c) /\ One(b, c) <= Total[c] /\ Total[c] \in Nat
  <2>1. /\ Total[c] = held[c] + Installed(c) + Travelling(c) /\ held[c] \in Nat
        /\ Installed(c) \in Nat /\ Travelling(c) \in Nat /\ Total[c] \in Nat
        /\ Installed(c) = InRegisters(c, reg) + OccurrencesIn(c, fifo)
        /\ InRegisters(c, reg) \in Nat /\ OccurrencesIn(c, fifo) \in Nat
    BY <1>2, Parts
  <2>2. One(b, c) \in Nat /\ One(Null, c) = 0
    BY OneTyped, DataBuffersAssumption
  <2>3. /\ InRegisters(c, reg') = InRegisters(c, reg) - One(reg[r], c) + One(reg'[r], c)
        /\ One(reg[r], c) <= InRegisters(c, reg)
    BY <1>3, RegistersDiffer
  <2>4. Total'[c] = held[c] + (InRegisters(c, reg') + OccurrencesIn(c, fifo)) + Travelling(c)
    BY <1>1, PartsNext, Unmoved
  <2> QED BY <1>3, <2>1, <2>2, <2>3, <2>4 DEF b
<1>6. Total[b] # 0
  <2>1. One(b, b) = 1
    BY DEF One
  <2> QED BY <1>3, <1>5, <2>1
<1>7. Sound(heap', Total')
  BY <1>1, <1>2, <1>3, <1>5, <1>6, PartsNext, DecRefTo
<1> QED BY <1>1, <1>2, <1>4, <1>7, StillThere

LEMMA DeleteFifoInv ==
  ASSUME Inv, NEW f \in Fifos, DeleteFifo(f)
  PROVE  Inv'
<1> DEFINE s == fifo[f]
<1>1. /\ phase = "deleting" /\ heap' = DecRefAll(heap, s) /\ fifo' = [fifo EXCEPT ![f] = << >>]
      /\ UNCHANGED <<value, destination, held, reg, reserved, due, applied, phase>>
  BY DEF DeleteFifo
<1>2. /\ Typed /\ Sound(heap, Total) /\ fifo \in [Fifos -> Seq(Buffers)] /\ phase # "done"
      /\ Capacity \in Nat
  BY <1>1, DataBuffersAssumption DEF Inv, Typed
<1>3. << >> \in Seq(Buffers) /\ Len(<< >>) = 0 /\ s \in Seq(Buffers)
  BY <1>2, EmptySeq
<1>4. fifo' \in [Fifos -> Seq(Buffers)] /\ \A g \in Fifos : Len(fifo'[g]) <= Capacity
  <2>1. /\ fifo' \in [Fifos -> Seq(Buffers)] /\ fifo'[f] = << >>
        /\ \A g \in Fifos \ {f} : fifo'[g] = fifo[g]
    BY <1>1, <1>2, <1>3
  <2>2. \A g \in Fifos : Len(fifo[g]) <= Capacity
    BY <1>2 DEF Typed
  <2>3. Len(fifo'[f]) <= Capacity
    BY <1>2, <1>3, <2>1
  <2> QED BY <2>1, <2>2, <2>3
<1>5. Typed'
  BY <1>1, <1>2, <1>4 DEF Typed
<1>6. ASSUME NEW c \in Buffers
      PROVE  Total'[c] = Total[c] - Occurrences(c, s) /\ Occurrences(c, s) <= Total[c]
  <2>1. /\ Total[c] = held[c] + Installed(c) + Travelling(c) /\ held[c] \in Nat
        /\ Installed(c) \in Nat /\ Travelling(c) \in Nat
        /\ Installed(c) = InRegisters(c, reg) + OccurrencesIn(c, fifo)
        /\ InRegisters(c, reg) \in Nat /\ OccurrencesIn(c, fifo) \in Nat
    BY <1>2, Parts
  <2>2. /\ OccurrencesIn(c, fifo') = OccurrencesIn(c, fifo) - Occurrences(c, s) + Occurrences(c, << >>)
        /\ Occurrences(c, s) \in Nat /\ OccurrencesIn(c, fifo') \in Nat
    BY <1>1, <1>2, <1>3, FifoExcept
  <2>3. Occurrences(c, << >>) = 0
    BY OccEmpty
  <2>4. Total'[c] = held[c] + (InRegisters(c, reg) + OccurrencesIn(c, fifo')) + Travelling(c)
    BY <1>1, PartsNext, Unmoved
  <2> HIDE DEF s
  <2> QED BY <2>1, <2>2, <2>3, <2>4, SMTT(30)
<1> HIDE DEF s
<1>7. Sound(heap', Total')
  <2>1. heap' = DecRefAll(heap, s) /\ s \in Seq(Buffers)
    BY <1>1, <1>3
  <2>2. /\ Total' = [c \in Buffers |-> Total'[c]]
        /\ \A c \in Buffers : Total'[c] = Total[c] - Occurrences(c, s)
        /\ \A c \in Buffers : Occurrences(c, s) <= Total[c]
    BY <1>6, PartsNext
  <2>3. Sound(heap, Total)
    BY <1>2
  <2>4. Sound(DecRefAll(heap, s), Total')
    BY <2>1, <2>2, <2>3, DecRefAllTo
  <2> QED BY <2>1, <2>4
<1> QED BY <1>1, <1>2, <1>5, <1>7, StillThere

(* ~DataBufferFactory() runs once nothing holds a buffer but clients, and  *)
(* deletes what is on the free list.                                       *)
LEMMA DeleteFactoryInv ==
  ASSUME Inv, DeleteFactory
  PROVE  Inv'
<1>1. /\ phase = "deleting" /\ RegistersDeleted /\ \A f \in Fifos : fifo[f] = << >>
      /\ heap' = [heap EXCEPT !.deleted = ToSet(heap.free), !.free = << >>] /\ phase' = "done"
      /\ UNCHANGED <<value, destination, held, reg, fifo, reserved, due, applied>>
  BY DEF DeleteFactory
<1>2. /\ Typed /\ Sound(heap, Total) /\ applied = << >> /\ \A k \in 0 .. Horizon : due[k] = << >>
      /\ Null \notin Buffers
  BY <1>1, DataBuffersAssumption DEF Inv
<1>3. Typed'
  BY <1>1, <1>2 DEF Typed
<1>4. /\ heap \in HeapType /\ heap.made \in SUBSET Buffers /\ heap.ref = Total
      /\ Total \in Counts /\ heap.free \in Seq(Buffers)
      /\ ToSet(heap.free) = {b \in heap.made : Total[b] = 0}
  BY <1>2, SoundParts DEF Sound
<1>5. /\ heap'.made = heap.made /\ heap'.deleted = {b \in heap.made : Total[b] = 0}
      /\ heap'.ref = Total /\ heap'.free = << >>
  BY <1>1, <1>4 DEF HeapType
<1>6. ASSUME NEW b \in Buffers
      PROVE  /\ Total[b] = held[b] /\ held'[b] = held[b] /\ StateRefs(b)' = 0 /\ held[b] \in Nat
  <2>1. InRegisters(b, reg) = 0
    <3>1. {r \in Registers : reg[r] = b} = {}
      BY <1>1, <1>2 DEF RegistersDeleted
    <3> QED BY <3>1, FS_EmptySet DEF InRegisters
  <2>2. OccurrencesIn(b, fifo) = 0
    <3>1. fifo \in [Fifos -> Seq(Buffers)]
      BY <1>2 DEF Typed
    <3> QED BY <1>1, <3>1, OccAllEmpty
  <2>3. OccurrencesIn(b, SlotsOf(due)) = 0
    <3>1. Firsts(<< >>) = << >>
      BY DEF Firsts
    <3>2. SlotsOf(due) \in [0 .. Horizon -> Seq(Buffers)]
          /\ \A k \in 0 .. Horizon : SlotsOf(due)[k] = << >>
      BY <1>2, <3>1, EmptySeq DEF SlotsOf
    <3> QED BY <3>2, OccAllEmpty
  <2>4. Occurrences(b, applied) = 0
    BY <1>2, OccEmpty
  <2>5. /\ Total[b] = held[b] + Installed(b) + Travelling(b) /\ held[b] \in Nat
        /\ Installed(b) = InRegisters(b, reg) + OccurrencesIn(b, fifo)
        /\ Travelling(b) = OccurrencesIn(b, SlotsOf(due)) + Occurrences(b, applied)
    BY <1>2, Parts
  <2>6. StateRefs(b) = InRegisters(b, reg) + OccurrencesIn(b, fifo)
                         + OccurrencesIn(b, SlotsOf(due)) + Occurrences(b, applied)
    BY SlotsAre DEF StateRefs, InRegisters, Slots
  <2>7. StateRefs(b)' = StateRefs(b)
    BY <1>1 DEF StateRefs, Carried
  <2> QED BY <1>1, <2>1, <2>2, <2>3, <2>4, <2>5, <2>6, <2>7
<1>7. TypeOK'
  <2>1. /\ heap'.made \subseteq Buffers /\ heap'.deleted \subseteq heap'.made
        /\ heap'.ref \in [Buffers -> Int] /\ heap'.free \in Seq(Buffers)
    BY <1>4, <1>5, EmptySeq DEF Counts
  <2> QED BY <1>3, <2>1 DEF Typed, TypeOK
<1>8. RefCountExact'
  BY <1>5, <1>6 DEF RefCountExact
<1>9. FreeListExact'
  <2>1. IsInjective(<< >>) /\ ToSet(<< >>) = {}
    BY DEF IsInjective, ToSet
  <2> QED BY <1>5, <2>1 DEF FreeListExact
<1>10. TeardownFreesAll'
  BY <1>4, <1>5, <1>6 DEF TeardownFreesAll
<1> QED BY <1>1, <1>2, <1>3, <1>7, <1>8, <1>9, <1>10 DEF Inv, BuffersAccounted

LEMMA NextInv == Inv /\ [Next]_vars => Inv'
<1> SUFFICES ASSUME Inv, [Next]_vars PROVE Inv'
  OBVIOUS
<1>1. ASSUME NEW r \in Registers, NewRegister(r) \/ CopyDataBuffer(r) \/ DeleteRegister(r) PROVE Inv'
  BY <1>1, NewRegisterInv, CopyDataBufferInv, DeleteRegisterInv
<1>2. ASSUME NEW d \in Destinations \cup {Null}, NEW v \in Values, AllocateDataBuffer(d, v) PROVE Inv'
  BY <1>2, AllocateDataBufferInv
<1>3. ASSUME NEW b \in Buffers, NEW d \in Destinations \cup {Null}, InitializeDataBuffer(b, d)
      PROVE  Inv'
  BY <1>3, InitializeDataBufferInv
<1>4. ASSUME NEW b \in Buffers, ClientIncRef(b) \/ ClientDecRef(b) PROVE Inv'
  BY <1>4, ClientIncRefInv, ClientDecRefInv
<1>5. ASSUME NEW b \in Buffers, NEW l \in Latencies, Submit(b, l) PROVE Inv'
  BY <1>5, SubmitInv
<1>6. CASE BeginAdvance \/ ApplyRecord \/ ClearSlot \/ DeleteDelayLines \/ DeleteFactory
  BY <1>6, BeginAdvanceInv, ApplyRecordInv, ClearSlotInv, DeleteDelayLinesInv, DeleteFactoryInv
<1>7. ASSUME NEW f \in Fifos, Pop(f) \/ Reserve(f) \/ DeleteFifo(f) PROVE Inv'
  BY <1>7, PopInv, ReserveInv, DeleteFifoInv
<1>8. CASE UNCHANGED vars
  <2>1. /\ heap' = heap /\ value' = value /\ destination' = destination /\ held' = held
        /\ reg' = reg /\ fifo' = fifo /\ reserved' = reserved /\ due' = due
        /\ applied' = applied /\ phase' = phase
    BY <1>8 DEF vars
  <2>2. Total' = Total
    BY <2>1 DEF Total, Installed, Travelling, Slots, Carried
  <2>3. Typed => Typed'
    BY <2>1 DEF Typed
  <2>4. TypeOK => TypeOK'
    BY <2>1 DEF TypeOK
  <2>5. ASSUME NEW b PROVE StateRefs(b)' = StateRefs(b)
    BY <2>1 DEF StateRefs, Carried
  <2>6. RefCountExact => RefCountExact'
    BY <2>1, <2>5 DEF RefCountExact
  <2>7. FreeListExact /\ TeardownFreesAll => FreeListExact' /\ TeardownFreesAll'
    BY <2>1 DEF FreeListExact, TeardownFreesAll
  <2>8. Sound(heap, Total) => Sound(heap', Total')
    BY <2>1, <2>2
  <2> QED BY <2>1, <2>3, <2>4, <2>6, <2>7, <2>8 DEF Inv, BuffersAccounted
<1> QED BY <1>1, <1>2, <1>3, <1>4, <1>5, <1>6, <1>7, <1>8 DEF Next

LEMMA AlwaysInv == Spec => []Inv
<1>1. Init => Inv
  BY InitInv
<1>2. Inv /\ [Next]_vars => Inv'
  BY NextInv
<1> QED BY <1>1, <1>2, PTL DEF Spec

LEMMA InvSuffices == Inv => TypeOK /\ BuffersAccounted
<1> SUFFICES ASSUME Inv PROVE TypeOK /\ BuffersAccounted
  OBVIOUS
<1>1. CASE phase = "done"
  BY <1>1 DEF Inv
<1>2. CASE phase # "done"
  <2>1. Typed /\ Sound(heap, Total)
    BY <1>2 DEF Inv
  <2>2. /\ heap.made \in SUBSET Buffers /\ heap.deleted = {} /\ heap.ref = Total
        /\ Total \in Counts /\ heap.free \in Seq(Buffers)
    BY <2>1, SoundParts
  <2>3. TypeOK
    BY <2>1, <2>2 DEF Typed, TypeOK, Counts
  <2>4. RefCountExact
    BY <2>1, <2>2, TotalIs DEF RefCountExact
  <2>5. FreeListExact
    BY <2>1, <2>2 DEF Sound, FreeListExact
  <2>6. TeardownFreesAll
    BY <1>2 DEF TeardownFreesAll
  <2> QED BY <2>3, <2>4, <2>5, <2>6 DEF BuffersAccounted
<1> QED BY <1>1, <1>2

-----------------------------------------------------------------------------
(* No fifo_ outgrows its capacity_ and every member keeps its type,        *)
(* however Reserve(), Push() and records in flight interleave.             *)
THEOREM TypeCorrect == Spec => []TypeOK
BY AlwaysInv, InvSuffices, PTL

(* ref_count() counts exactly the registers, fifos, delay records and      *)
(* clients that point to a buffer; the free list holds the unreferenced    *)
(* ones once each; ~ArchState() deletes all but what a client kept.        *)
THEOREM EveryBufferAccounted == Spec => []BuffersAccounted
BY AlwaysInv, InvSuffices, PTL

(* Allocate() never hands out a buffer that a register, a fifo or the      *)
(* delay line still uses, so no stored value is overwritten.               *)
THEOREM ValuesStable == Spec => StoredValuesStable
<1>1. Inv /\ [Next]_vars => [ValueStable]_vars
  <2> SUFFICES ASSUME Inv, Next PROVE ValueStable
    BY DEF ValueStable
  <2>1. ASSUME NEW b \in Buffers, phase = "running", CanAllocate(heap, b), NEW v,
               value' = [value EXCEPT ![b] = v]
        PROVE  ValueStable
    <3>1. Typed /\ Sound(heap, Total)
      BY <2>1 DEF Inv
    <3>2. Total[b] = 0
      BY <2>1, <3>1, AllocateSound
    <3>3. Total[b] = held[b] + StateRefs(b) /\ held[b] \in Nat /\ StateRefs(b) \in Nat
      BY <3>1, TotalIs, CountsTyped, SMTT(30) DEF StateRefs, Installed, Travelling, InRegisters, Slots
    <3>4. ~InUse(b)
      BY <3>2, <3>3 DEF InUse
    <3>5. \A c \in Buffers \ {b} : value'[c] = value[c]
      BY <2>1, <3>1 DEF Typed
    <3> QED BY <3>4, <3>5 DEF ValueStable
  <2>2. CASE value' = value
    BY <2>2 DEF ValueStable
  <2>3. ASSUME NEW r \in Registers, NewRegister(r) PROVE ValueStable
    BY <2>1, <2>3 DEF NewRegister
  <2>4. ASSUME NEW d \in Destinations \cup {Null}, NEW v \in Values, AllocateDataBuffer(d, v)
        PROVE  ValueStable
    BY <2>1, <2>4 DEF AllocateDataBuffer
  <2>5. ASSUME NEW r \in Registers, CopyDataBuffer(r) PROVE ValueStable
    BY <2>1, <2>5 DEF CopyDataBuffer
  <2>6. \/ value' = value
        \/ \E r \in Registers : NewRegister(r) \/ CopyDataBuffer(r)
        \/ \E d \in Destinations \cup {Null}, v \in Values : AllocateDataBuffer(d, v)
    BY DEF Next, InitializeDataBuffer, ClientIncRef, ClientDecRef, Submit, BeginAdvance,
           ApplyRecord, ClearSlot, Pop, Reserve, DeleteDelayLines, DeleteRegister, DeleteFifo,
           DeleteFactory
  <2> QED BY <2>2, <2>3, <2>4, <2>5, <2>6
<1> QED BY <1>1, AlwaysInv, PTL DEF Spec, StoredValuesStable
=============================================================================
