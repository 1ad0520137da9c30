--------------------- MODULE SingleInitiatorRouterProofs ---------------------
(***************************************************************************)
(* Proofs about the router and the tagged memory behind it for every size  *)
(* of memory and of granules, and for any ranges, accesses and vectors.    *)
(***************************************************************************)
EXTENDS SingleInitiatorRouter, TLAPS, FiniteSetTheorems, WellFoundedInduction

Targets == {"atomic_tagged", "flat_tagged", "device"}

(* The maps hold ranges with a target; a default may be absent.            *)
MapsOK ==
  /\ targets \in [Interfaces -> SUBSET [base : Nat, top : Nat, target : Targets]]
  /\ default_target \in [Interfaces -> Targets \cup {NoTarget}]

MemInv == TagsHonest /\ ReservationsTracked

Inv == MapsOK /\ RangesDisjoint /\ MemInv

-----------------------------------------------------------------------------
(* Granules.                                                               *)

LEMMA GranuleMonotonic ==
  ASSUME NEW a \in Nat, NEW b \in Nat, a <= b
  PROVE  Granule(a) \in Nat /\ Granule(a) <= Granule(b)
BY TaggedMemoryAssumption DEF Granule

(* What is stored to lies in the granules whose tags are cleared.          *)
LEMMA ClearTagsCover ==
  ASSUME NEW a \in Nat, NEW n \in Nat \ {0}, NEW b \in Bytes(a, n)
  PROVE  Granule(b) \in ClearTags(a, n)
<1>1. b \in Nat /\ a <= b /\ b <= a + n - 1 /\ a + n - 1 \in Nat
  BY DEF Bytes
<1>2. /\ Granule(a) \in Nat /\ Granule(b) \in Nat /\ Granule(a + n - 1) \in Nat
      /\ Granule(a) <= Granule(b) /\ Granule(b) <= Granule(a + n - 1)
  BY <1>1, GranuleMonotonic
<1> QED BY <1>2 DEF ClearTags

(* The granules of an aligned access hold nothing else.                    *)
LEMMA AlignedExactly ==
  ASSUME NEW a \in Nat, NEW n \in Nat \ {0}, CheckRequest(a, n),
         NEW b \in Nat, Granule(b) \in ClearTags(a, n)
  PROVE  b \in Bytes(a, n)
<1> DEFINE G == TagGranule
           qa == a \div G
           qn == n \div G
           qb == b \div G
<1>1. G \in Nat \ {0}
  BY TaggedMemoryAssumption
<1>2. /\ qa \in Nat /\ qn \in Nat /\ qb \in Nat
      /\ a = qa * G /\ n = qn * G /\ qb * G <= b /\ b < qb * G + G
  BY <1>1 DEF CheckRequest
<1> HIDE DEF G, qa, qn, qb
<1>3. (qa + qn) * G = a + n
  BY <1>1, <1>2
<1>4. (a + n - 1) \div G < qa + qn
  <2>1. (a + n - 1) \div G \in Nat /\ ((a + n - 1) \div G) * G <= a + n - 1
    BY <1>1, <1>2
  <2> DEFINE q == (a + n - 1) \div G
  <2>2. q \in Nat /\ q * G < (qa + qn) * G
    BY <1>1, <1>2, <1>3, <2>1
  <2> HIDE DEF q
  <2>3. q < qa + qn
    BY <1>1, <1>2, <2>2
  <2> QED BY <2>3 DEF q
<1>5. qa <= qb /\ qb <= (a + n - 1) \div G
  BY <1>1 DEF ClearTags, Granule, G, qa, qb
<1>6. qb + 1 <= qa + qn
  <2>1. (a + n - 1) \div G \in Nat
    BY <1>1, <1>2
  <2> QED BY <1>2, <1>4, <1>5, <2>1
<1>7. qa * G <= qb * G /\ (qb + 1) * G <= (qa + qn) * G
  BY <1>1, <1>2, <1>5, <1>6
<1>8. a <= b /\ b < a + n
  BY <1>1, <1>2, <1>3, <1>7
<1> QED BY <1>8 DEF Bytes

-----------------------------------------------------------------------------
(* Vectors.                                                                *)

LEMMA VectorFields ==
  ASSUME NEW v \in Vectors
  PROVE  /\ v.addresses \in Seq(Nat) /\ v.mask \in Seq(BOOLEAN) /\ v.el_size \in Nat \ {0}
         /\ Len(v.addresses) \in Nat /\ Len(v.mask) \in Nat \ {0}
         /\ Len(v.addresses) \in {1, Len(v.mask)}
         /\ DOMAIN v.addresses = 1 .. Len(v.addresses) /\ DOMAIN v.mask = 1 .. Len(v.mask)
<1>1. /\ v.addresses \in Seq(Nat) /\ v.mask \in Seq(BOOLEAN) \ {<< >>}
      /\ v.el_size \in Nat \ {0}
      /\ Len(v.addresses) \in {1, Len(v.mask)}
  BY RouterAssumption
<1> QED BY <1>1

(* A vector store whose first address, at least, is enabled clears the     *)
(* tags of all that its elements touch.                                    *)
LEMMA VectorCovered ==
  ASSUME NEW v \in Vectors, EnabledAddresses(v) # {},
         NEW b \in VectorBytes(v)
  PROVE  \E i \in DOMAIN v.addresses :
           /\ v.mask[i]
           /\ Granule(b) \in
                ClearTags(v.addresses[i], (Len(v.mask) * v.el_size) \div Len(v.addresses))
<1> DEFINE e == v.el_size
           N == Len(v.mask)
           L == Len(v.addresses)
           size == (N * e) \div L
<1>0. /\ v.addresses \in Seq(Nat) /\ e \in Nat \ {0}
      /\ N \in Nat \ {0} /\ L \in Nat /\ L \in {1, N}
      /\ DOMAIN v.addresses = 1 .. L /\ DOMAIN v.mask = 1 .. N
      /\ \A i \in 1 .. L : v.addresses[i] \in Nat
  BY VectorFields
<1> SUFFICES \E i \in 1 .. L : v.mask[i] /\ Granule(b) \in ClearTags(v.addresses[i], size)
  BY <1>0
<1>1. PICK i \in 1 .. N : v.mask[i] /\ b \in Bytes(ElementAddress(v, i), e)
  BY <1>0 DEF VectorBytes
<1>2. IsGather(v) <=> L > 1
  BY DEF IsGather
<1> HIDE DEF e, N, L, size
<1>3. CASE L > 1
  <2>1. L = N /\ i \in 1 .. L
    BY <1>0, <1>3
  <2>2. size = e
    BY <1>0, <2>1 DEF size
  <2>3. b \in Bytes(v.addresses[i], e) /\ v.addresses[i] \in Nat
    BY <1>0, <1>1, <1>2, <1>3, <2>1 DEF ElementAddress
  <2>4. Granule(b) \in ClearTags(v.addresses[i], e)
    BY <1>0, <2>3, ClearTagsCover
  <2> QED BY <1>1, <2>1, <2>2, <2>4
<1>4. CASE ~(L > 1)
  <2>1. PICK k \in 1 .. L : v.mask[k]
    BY <1>0 DEF EnabledAddresses
  <2>2. k = 1 /\ L = 1
    BY <1>0, <1>4, <2>1
  <2>3. size = N * e /\ size \in Nat \ {0}
    <3>1. N * e \in Nat \ {0}
      BY <1>0
    <3> QED BY <2>2, <3>1 DEF size
  <2> DEFINE a == v.addresses[1]
             o == (i - 1) * e
  <2>4. a \in Nat /\ b \in Bytes(a + o, e)
    BY <1>0, <1>1, <1>2, <1>4, <2>1, <2>2 DEF ElementAddress, e
  <2>5. o \in Nat /\ o + e <= size
    <3>1. (i - 1) * e + e = i * e /\ (i - 1) * e \in Nat
      BY <1>0
    <3>2. i * e <= N * e
      BY <1>0
    <3> QED BY <2>3, <3>1, <3>2
  <2> HIDE DEF a, o
  <2>6. b \in Bytes(a, size)
    BY <1>0, <2>3, <2>4, <2>5 DEF Bytes
  <2>7. Granule(b) \in ClearTags(a, size)
    BY <2>3, <2>4, <2>6, ClearTagsCover
  <2> QED BY <2>1, <2>2, <2>7 DEF a
<1> QED BY <1>3, <1>4

(* An access all of whose addresses are masked off has no target.          *)
LEMMA RoutedEnabled ==
  ASSUME NEW v \in Vectors, RouteVectorStore(v) # NoTarget
  PROVE  EnabledAddresses(v) # {}
<1> SUFFICES ASSUME EnabledAddresses(v) = {} PROVE FALSE
  OBVIOUS
<1>1. {k \in DOMAIN v.addresses : v.mask[k]} = {}
  BY DEF EnabledAddresses
<1>2. \A i, reach : VectorTargets(i, v, reach) = {}
  BY <1>1 DEF VectorTargets
<1>3. Cardinality({}) # 1
  BY FS_EmptySet
<1> QED BY <1>2, <1>3 DEF RouteVectorStore, RouteVector

-----------------------------------------------------------------------------
(* Look-ups.                                                               *)

LEMMA NatMinimum ==
  ASSUME NEW S \in SUBSET Nat, S # {}
  PROVE  \E n \in S : \A m \in S : n <= m
<1>1. PICK n \in S : \A m \in S : ~(<<m, n>> \in OpToRel(<, Nat))
  BY WFMin, NatLessThanWellFounded
<1>2. \A m \in S : ~(m < n)
  BY <1>1 DEF OpToRel
<1> QED BY <1>2

(* find() returns one of the ranges it may return.                         *)
LEMMA LowestFound ==
  ASSUME MapsOK, NEW i \in Interfaces, NEW lo \in Nat, NEW hi \in Nat,
         Overlapping(i, lo, hi) # {}
  PROVE  Lowest(Overlapping(i, lo, hi)) \in Overlapping(i, lo, hi)
<1> DEFINE found == Overlapping(i, lo, hi)
           bases == {r.base : r \in found}
<1>1. found \subseteq targets[i] /\ \A r \in found : r.base \in Nat
  BY DEF MapsOK, Overlapping
<1>2. bases \in SUBSET Nat /\ bases # {}
  BY <1>1
<1> HIDE DEF found
<1>3. PICK b \in bases : \A c \in bases : b <= c
  BY <1>2, NatMinimum
<1>4. \E r \in found : \A s \in found : r.base <= s.base
  BY <1>3
<1> QED BY <1>4 DEF Lowest, found

(* What a look-up finds has all of lo .. last, or, if it is the default,   *)
(* nothing has any of lo .. hi.                                            *)
LEMMA LookupCovered ==
  ASSUME MapsOK, NEW i \in Interfaces,
         NEW lo \in Nat, NEW hi \in Nat, NEW n \in Nat \ {0},
         Lookup(i, lo, hi, lo + n - 1) # NoTarget
  PROVE  LET t == Lookup(i, lo, hi, lo + n - 1)
         IN  Holds(i, t, lo, n) \/ Unclaimed(i, t, lo .. hi)
<1> DEFINE found == Overlapping(i, lo, hi)
           r == Lowest(found)
           t == Lookup(i, lo, hi, lo + n - 1)
<1>1. CASE found = {}
  <2>1. t = default_target[i]
    BY <1>1 DEF Lookup
  <2>2. \A b \in lo .. hi : ~Claimed(i, b)
    <3> SUFFICES ASSUME NEW b \in lo .. hi, NEW s \in targets[i], b \in s.base .. s.top
                 PROVE  FALSE
      BY DEF Claimed
    <3>1. s.base \in Nat /\ s.top \in Nat
      BY DEF MapsOK
    <3>2. s \in found
      BY <3>1 DEF Overlapping
    <3> QED BY <1>1, <3>2
  <2> QED BY <2>1, <2>2 DEF Unclaimed
<1>2. CASE found # {}
  <2>1. r \in targets[i]
    BY <1>2, LowestFound DEF Overlapping
  <2>2. r.base \in Nat /\ r.top \in Nat
    BY <2>1 DEF MapsOK
  <2>3. t = r.target /\ r.base <= lo /\ r.top >= lo + n - 1
    BY <1>2 DEF Lookup
  <2>4. Bytes(lo, n) \subseteq r.base .. r.top
    BY <2>2, <2>3 DEF Bytes
  <2> QED BY <2>1, <2>3, <2>4 DEF Holds
<1> QED BY <1>1, <1>2

LEMMA UnclaimedWithin ==
  ASSUME NEW i, NEW t, NEW S, NEW T, T \subseteq S, Unclaimed(i, t, S)
  PROVE  Unclaimed(i, t, T)
BY DEF Unclaimed

LEMMA ScalarRouted ==
  ASSUME MapsOK, NEW a \in Nat, NEW n \in Nat \ {0}
  PROVE  /\ \A t \in {RouteLoad(a, n), RouteStore(a, n)} \ {NoTarget} :
              \/ Holds("memory", t, a, n) \/ Unclaimed("memory", t, Bytes(a, n))
              \/ Holds("tagged", t, a, n) \/ Unclaimed("tagged", t, {a})
         /\ RouteTagged(a, n) # NoTarget =>
              \/ Holds("tagged", RouteTagged(a, n), a, n)
              \/ Unclaimed("tagged", RouteTagged(a, n), Bytes(a, n))
         /\ RouteAtomic(a, n) # NoTarget =>
              \/ Holds("atomic", RouteAtomic(a, n), a, n)
              \/ Unclaimed("atomic", RouteAtomic(a, n), Bytes(a, n))
<1>1. /\ a + n - 1 \in Nat /\ a + n \in Nat
      /\ Bytes(a, n) = a .. (a + n - 1) /\ Bytes(a, n) \subseteq a .. (a + n)
      /\ {a} \subseteq a .. a
      /\ {"memory", "tagged", "atomic"} \subseteq Interfaces
  BY DEF Bytes, Interfaces
<1>2. ASSUME NEW i \in Interfaces, NEW hi \in {a + n - 1, a + n},
             Lookup(i, a, hi, a + n - 1) # NoTarget
      PROVE  LET t == Lookup(i, a, hi, a + n - 1)
             IN  Holds(i, t, a, n) \/ Unclaimed(i, t, Bytes(a, n))
  <2>1. hi \in Nat /\ Bytes(a, n) \subseteq a .. hi
    BY <1>1
  <2> QED BY <1>2, <2>1, LookupCovered, UnclaimedWithin
<1>3. ASSUME Lookup("tagged", a, a, a + n - 1) # NoTarget
      PROVE  LET t == Lookup("tagged", a, a, a + n - 1)
             IN  Holds("tagged", t, a, n) \/ Unclaimed("tagged", t, {a})
  BY <1>1, <1>3, LookupCovered, UnclaimedWithin
<1>4. ASSUME NEW t \in {RouteLoad(a, n), RouteStore(a, n)} \ {NoTarget}
      PROVE  \/ Holds("memory", t, a, n) \/ Unclaimed("memory", t, Bytes(a, n))
             \/ Holds("tagged", t, a, n) \/ Unclaimed("tagged", t, {a})
  <2>1. \/ \E hi \in {a + n - 1, a + n} : t = Lookup("memory", a, hi, a + n - 1)
        \/ t = Lookup("tagged", a, a, a + n - 1)
    BY <1>4 DEF RouteLoad, RouteStore, OrElse
  <2> QED BY <1>1, <1>2, <1>3, <1>4, <2>1
<1> QED BY <1>1, <1>2, <1>4 DEF RouteTagged, RouteAtomic

LEMMA ScalarsRouted == MapsOK => ScalarsCovered
<1> SUFFICES ASSUME MapsOK, NEW a \in Addresses, NEW n \in Sizes
             PROVE  /\ \A t \in {RouteLoad(a, n), RouteStore(a, n)} \ {NoTarget} :
                         \/ Holds("memory", t, a, n) \/ Unclaimed("memory", t, Bytes(a, n))
                         \/ Holds("tagged", t, a, n) \/ Unclaimed("tagged", t, {a})
                    /\ RouteTagged(a, n) # NoTarget =>
                         \/ Holds("tagged", RouteTagged(a, n), a, n)
                         \/ Unclaimed("tagged", RouteTagged(a, n), Bytes(a, n))
                    /\ RouteAtomic(a, n) # NoTarget =>
                         \/ Holds("atomic", RouteAtomic(a, n), a, n)
                         \/ Unclaimed("atomic", RouteAtomic(a, n), Bytes(a, n))
  BY Zenon DEF ScalarsCovered
<1>1. a \in Nat /\ n \in Nat \ {0}
  BY RouterAssumption, TaggedMemoryAssumption DEF Addresses
<1> QED BY <1>1, ScalarRouted

(* The look-ups of a vector whose enabled elements all have a target are   *)
(* not broken off.                                                         *)
LEMMA VectorRouted == VectorsUnsplit
<1> SUFFICES ASSUME NEW v \in Vectors,
                    NEW homes,
                    homes = {Lookup("memory", a, a + v.el_size - 1, a + v.el_size - 1) : a \in EnabledAddresses(v)},
                    homes # {}, NoTarget \notin homes,
                    NEW t \in {RouteVectorLoad(v), RouteVectorStore(v)}
             PROVE  t = IF Cardinality(homes) = 1 THEN CHOOSE h \in homes : TRUE ELSE NoTarget
  BY DEF VectorsUnsplit
<1> DEFINE enabled == {k \in DOMAIN v.addresses : v.mask[k]}
           home(k) == Lookup("memory", v.addresses[k], v.addresses[k] + (v.el_size - 1),
                             v.addresses[k] + (v.el_size - 1))
<1>1. \A k \in enabled : v.addresses[k] + (v.el_size - 1) = v.addresses[k] + v.el_size - 1
  BY VectorFields
<1>2. homes = {home(k) : k \in enabled}
  BY <1>1 DEF EnabledAddresses
<1>3. \A k \in enabled : home(k) # NoTarget
  BY <1>2
<1>4. {k \in enabled : \A j \in enabled : j <= k => home(j) # NoTarget} = enabled
  BY <1>3
<1>5. VectorTargets("memory", v, v.el_size - 1) = homes
  BY <1>2, <1>4 DEF VectorTargets
<1> QED BY <1>5 DEF RouteVectorLoad, RouteVectorStore, RouteVector

-----------------------------------------------------------------------------
(* The memory.                                                             *)

(* A store of plain data keeps the tags honest if it clears the tags of    *)
(* what it writes.                                                         *)
LEMMA DataStoreHonest ==
  ASSUME TagsHonest, NEW bytes, NEW cleared, DataStore(bytes, cleared),
         \A b \in bytes \cap Addresses : Granule(b) \in cleared
  PROVE  TagsHonest'
BY DEF DataStore, TagsHonest, Addresses, Granule

LEMMA StoreHonest ==
  ASSUME TagsHonest, NEW a \in Nat, NEW n \in Nat \ {0}, StoreTagged(a, n)
  PROVE  TagsHonest'
BY ClearTagsCover, DataStoreHonest DEF StoreTagged

LEMMA VectorStoreHonest ==
  ASSUME TagsHonest, NEW v \in Vectors, EnabledAddresses(v) # {}, VectorStoreTagged(v)
  PROVE  TagsHonest'
<1> DEFINE size == (Len(v.mask) * v.el_size) \div Len(v.addresses)
           cleared == UNION {ClearTags(v.addresses[i], size) :
                               i \in {j \in DOMAIN v.addresses : v.mask[j]}}
<1>1. DataStore(VectorBytes(v), cleared)
  BY DEF VectorStoreTagged
<1>2. ASSUME NEW b \in VectorBytes(v) PROVE Granule(b) \in cleared
  <2>1. PICK i \in DOMAIN v.addresses : v.mask[i] /\ Granule(b) \in ClearTags(v.addresses[i], size)
    BY VectorCovered
  <2> HIDE DEF size
  <2> QED BY <2>1
<1> HIDE DEF cleared
<1> QED BY <1>1, <1>2, DataStoreHonest

(* An aligned tagged store vouches for just the bytes it writes; one that  *)
(* is not aligned is refused here, and made plain data above.              *)
LEMMA TaggedStoreHonest ==
  ASSUME TagsHonest, NEW a \in Nat, NEW n \in Nat \ {0}, NEW set \in BOOLEAN,
         TaggedStoreTagged(a, n, set) \/ TaggedStoreAtomic(a, n, set)
  PROVE  TagsHonest'
<1> SUFFICES ASSUME NEW b \in Addresses, Granule(b) \in tags'
             PROVE  b \in capability'
  BY DEF TagsHonest, Addresses, Granule
<1>1. b \in Nat
  BY TaggedMemoryAssumption DEF Addresses
<1>2. b \in Bytes(a, n) => Granule(b) \in ClearTags(a, n)
  BY ClearTagsCover
<1>3. CheckRequest(a, n) /\ Granule(b) \in ClearTags(a, n) => b \in Bytes(a, n)
  BY <1>1, AlignedExactly
<1>4. Granule(b) \in tags => b \in capability
  BY DEF TagsHonest
<1>5. CASE TaggedStoreTagged(a, n, set)
  BY <1>2, <1>3, <1>4, <1>5 DEF TaggedStoreTagged
<1>6. CASE TaggedStoreAtomic(a, n, set)
  BY <1>2, <1>4, <1>6 DEF TaggedStoreAtomic
<1> QED BY <1>5, <1>6

(* A store erases the reservations of its addresses: those of all that it  *)
(* writes, if each byte is in the granule of an address.                   *)
LEMMA ErasedTracked ==
  ASSUME ReservationsTracked, NEW A, NEW B, NEW within \in BOOLEAN,
         within => \A b \in B : \E a \in A : LLTag(b) = LLTag(a),
         ll_tag_set' = Erased(A), Written(B, within)
  PROVE  ReservationsTracked'
BY DEF ReservationsTracked, NoInterveningStore, Erased, Written

LEMMA WithinGranule ==
  ASSUME NEW a \in Nat, NEW n \in Nat \ {0}, Within(a, n), NEW b \in Bytes(a, n)
  PROVE  LLTag(b) = LLTag(a)
<1> DEFINE G == LLGranule
<1>1. G \in Nat \ {0}
  BY TaggedMemoryAssumption
<1>2. b \in Nat /\ a <= b /\ b <= a + n - 1 /\ a + n - 1 \in Nat
  BY DEF Bytes
<1> HIDE DEF G
<1>3. a \div G <= b \div G /\ b \div G <= (a + n - 1) \div G
  BY <1>1, <1>2
<1>4. a \div G \in Nat /\ b \div G \in Nat /\ (a + n - 1) \div G = a \div G
  BY <1>1, <1>2 DEF Within, LLTag, G
<1> QED BY <1>3, <1>4 DEF LLTag, G

(* Each byte of a vector that keeps to its granules is in the granule of   *)
(* one of its addresses.                                                   *)
LEMMA VectorWithinGranules ==
  ASSUME NEW v \in Vectors, VectorWithin(v), NEW b \in VectorBytes(v)
  PROVE  \E i \in DOMAIN v.addresses : LLTag(b) = LLTag(v.addresses[i])
<1> DEFINE e == v.el_size
           N == Len(v.mask)
           L == Len(v.addresses)
           size == N * e
<1>0. /\ v.addresses \in Seq(Nat) /\ e \in Nat \ {0}
      /\ N \in Nat \ {0} /\ L \in Nat /\ L \in {1, N}
      /\ DOMAIN v.addresses = 1 .. L /\ DOMAIN v.mask = 1 .. N
      /\ \A i \in 1 .. L : v.addresses[i] \in Nat
  BY VectorFields
<1>1. PICK i \in 1 .. N : b \in Bytes(ElementAddress(v, i), e)
  BY <1>0 DEF VectorBytes
<1>2. IsGather(v) <=> L > 1
  BY DEF IsGather
<1> HIDE DEF e, N, L
<1>3. CASE L > 1
  <2>1. i \in 1 .. L
    BY <1>0, <1>3
  <2>2. b \in Bytes(v.addresses[i], e) /\ v.addresses[i] \in Nat
    BY <1>0, <1>1, <1>2, <1>3, <2>1 DEF ElementAddress
  <2>3. Within(v.addresses[i], e)
    BY <1>0, <1>2, <1>3, <2>1 DEF VectorWithin, e
  <2> QED BY <1>0, <2>1, <2>2, <2>3, WithinGranule
<1>4. CASE ~(L > 1)
  <2>1. L = 1 /\ 1 \in 1 .. L
    BY <1>0, <1>4
  <2> DEFINE a == v.addresses[1]
             o == (i - 1) * e
  <2>2. a \in Nat /\ b \in Bytes(a + o, e)
    BY <1>0, <1>1, <1>2, <1>4, <2>1 DEF ElementAddress, e
  <2>3. o \in Nat /\ o + e <= size /\ size \in Nat \ {0}
    <3>1. (i - 1) * e + e = i * e /\ (i - 1) * e \in Nat
      BY <1>0
    <3>2. i * e <= N * e /\ N * e \in Nat \ {0}
      BY <1>0
    <3> QED BY <3>1, <3>2
  <2>4. Within(a, size)
    BY <1>0, <1>2, <1>4 DEF VectorWithin, e, N
  <2> HIDE DEF a, o, size
  <2>5. b \in Bytes(a, size)
    BY <1>0, <2>2, <2>3 DEF Bytes
  <2>6. LLTag(b) = LLTag(a)
    BY <2>2, <2>3, <2>4, <2>5, WithinGranule
  <2> QED BY <1>0, <2>1, <2>6 DEF a
<1> QED BY <1>3, <1>4

LEMMA ScalarTracked ==
  ASSUME ReservationsTracked, NEW a \in Nat, NEW n \in Nat \ {0},
         ll_tag_set' = Erased({a}), Written(Bytes(a, n), Within(a, n))
  PROVE  ReservationsTracked'
<1>1. Within(a, n) \in BOOLEAN
  BY DEF Within
<1>2. Within(a, n) => \A b \in Bytes(a, n) : \E c \in {a} : LLTag(b) = LLTag(c)
  BY WithinGranule
<1> QED BY <1>1, <1>2, ErasedTracked

LEMMA VectorTracked ==
  ASSUME ReservationsTracked, NEW v \in Vectors, VectorStoreAtomic(v)
  PROVE  ReservationsTracked'
<1> DEFINE A == {v.addresses[i] : i \in DOMAIN v.addresses}
<1>1. VectorWithin(v) \in BOOLEAN
  BY DEF VectorWithin, Within
<1>2. VectorWithin(v) => \A b \in VectorBytes(v) : \E a \in A : LLTag(b) = LLTag(a)
  BY VectorWithinGranules
<1>3. ll_tag_set' = Erased(A) /\ Written(VectorBytes(v), VectorWithin(v))
  BY DEF VectorStoreAtomic
<1> HIDE DEF A
<1> QED BY <1>1, <1>2, <1>3, ErasedTracked

LEMMA StoreConditionalTracked ==
  ASSUME ReservationsTracked, NEW a \in Nat, NEW n \in Nat \ {0}, StoreConditional(a, n)
  PROVE  ReservationsTracked'
BY ScalarTracked DEF StoreConditional, Erased

LEMMA LoadLinkedTracked ==
  ASSUME ReservationsTracked, NEW a, LoadLinked(a)
  PROVE  ReservationsTracked'
BY DEF ReservationsTracked, NoInterveningStore, LoadLinked

LEMMA LLUnchanged ==
  ASSUME ReservationsTracked, UNCHANGED llVars
  PROVE  ReservationsTracked'
BY DEF ReservationsTracked, NoInterveningStore, llVars

LEMMA MemUnchanged ==
  ASSUME MemInv, UNCHANGED memVars
  PROVE  MemInv'
BY DEF MemInv, memVars, TagsHonest, ReservationsTracked, NoInterveningStore, Addresses, Granule

LEMMA MapsUnchanged ==
  ASSUME MapsOK, RangesDisjoint, UNCHANGED mapVars
  PROVE  MapsOK' /\ RangesDisjoint'
BY DEF MapsOK, RangesDisjoint, mapVars

LEMMA StoreMem ==
  ASSUME MemInv, NEW a \in Nat, NEW n \in Nat \ {0}, Store(a, n)
  PROVE  MemInv'
<1>1. CASE StoreAtomic(a, n)
  BY <1>1, StoreHonest, ScalarTracked DEF MemInv, StoreAtomic
<1>2. CASE StoreDirect(a, n)
  BY <1>2, StoreHonest, LLUnchanged DEF MemInv, StoreDirect
<1>3. CASE UNCHANGED memVars
  BY <1>3, MemUnchanged
<1> QED BY <1>1, <1>2, <1>3 DEF Store, Elsewhere

LEMMA VectorStoreMem ==
  ASSUME MemInv, NEW v \in Vectors, VectorStore(v)
  PROVE  MemInv'
<1>1. CASE RouteVectorStore(v) # NoTarget /\ VectorStoreAtomic(v)
  <2>1. TagsHonest'
    BY <1>1, RoutedEnabled, VectorStoreHonest DEF MemInv, VectorStoreAtomic
  <2>2. ReservationsTracked'
    BY <1>1, VectorTracked DEF MemInv
  <2> QED BY <2>1, <2>2 DEF MemInv
<1>2. CASE RouteVectorStore(v) # NoTarget /\ VectorStoreDirect(v)
  BY <1>2, RoutedEnabled, VectorStoreHonest, LLUnchanged DEF MemInv, VectorStoreDirect
<1>3. CASE UNCHANGED memVars
  BY <1>3, MemUnchanged
<1> QED BY <1>1, <1>2, <1>3 DEF VectorStore, Elsewhere, NoTarget

LEMMA TaggedStoreMem ==
  ASSUME MemInv, NEW a \in Nat, NEW n \in Nat \ {0}, NEW set \in BOOLEAN, TaggedStore(a, n, set)
  PROVE  MemInv'
<1>1. CASE TaggedStoreAtomic(a, n, set)
  BY <1>1, TaggedStoreHonest, ScalarTracked DEF MemInv, TaggedStoreAtomic
<1>2. CASE TaggedStoreDirect(a, n, set)
  BY <1>2, TaggedStoreHonest, LLUnchanged DEF MemInv, TaggedStoreDirect
<1>3. CASE UNCHANGED memVars
  BY <1>3, MemUnchanged
<1> QED BY <1>1, <1>2, <1>3 DEF TaggedStore, Elsewhere

LEMMA PerformMemoryOpMem ==
  ASSUME MemInv, NEW a \in Nat, NEW n \in Nat \ {0}, PerformMemoryOp(a, n)
  PROVE  MemInv'
<1>1. CASE LoadLinked(a)
  BY <1>1, LoadLinkedTracked DEF MemInv, LoadLinked, TagsHonest, Addresses, Granule
<1>2. CASE StoreConditional(a, n)
  BY <1>2, StoreConditionalTracked, StoreHonest DEF MemInv, StoreConditional
<1>3. CASE ReadModifyWrite(a, n)
  BY <1>3, StoreHonest DEF MemInv, ReadModifyWrite, Written, ReservationsTracked
<1>4. CASE UNCHANGED memVars
  BY <1>4, MemUnchanged
<1> QED BY <1>1, <1>2, <1>3, <1>4 DEF PerformMemoryOp, StoreConditionalFails, Elsewhere

-----------------------------------------------------------------------------
(* AddTarget() compares a new range with every other.                      *)
LEMMA AddTargetMaps ==
  ASSUME MapsOK, RangesDisjoint,
         NEW i \in Interfaces, NEW range \in Ranges, NEW t \in Supports[i], AddTarget(i, range, t)
  PROVE  MapsOK' /\ RangesDisjoint'
<1> DEFINE new == [base |-> range.base, top |-> range.top, target |-> t]
<1>1. range.base \in Nat /\ range.top \in Nat
  BY RouterAssumption
<1>2. t \in Targets
  BY DEF Supports, Interfaces, Targets
<1>3. new \in [base : Nat, top : Nat, target : Targets]
  BY <1>1, <1>2
<1>4. targets' = [targets EXCEPT ![i] = @ \cup {new}] /\ UNCHANGED default_target
  BY DEF AddTarget
<1>5. MapsOK'
  BY <1>3, <1>4 DEF MapsOK
<1>6. \A r \in targets[i] : r.top < new.base \/ new.top < r.base
  <2> SUFFICES ASSUME NEW r \in targets[i], ~(r.top < new.base), ~(new.top < r.base)
               PROVE  FALSE
    OBVIOUS
  <2>1. r.top \in Nat /\ r.base \in Nat
    BY DEF MapsOK
  <2>2. r \in Overlapping(i, range.base, range.top)
    BY <1>1, <2>1 DEF Overlapping
  <2> QED BY <2>2 DEF AddTarget
<1> HIDE DEF new
<1>7. RangesDisjoint'
  <2> SUFFICES ASSUME NEW j \in Interfaces, NEW r \in targets'[j], NEW s \in targets'[j], r # s
               PROVE  r.top < s.base \/ s.top < r.base
    BY DEF RangesDisjoint
  <2>1. /\ r \in targets[j] \/ (j = i /\ r = new)
        /\ s \in targets[j] \/ (j = i /\ s = new)
    BY <1>4 DEF MapsOK
  <2> QED BY <1>6, <2>1 DEF RangesDisjoint
<1> QED BY <1>5, <1>7

LEMMA InitInv == Init => Inv
BY DEF Init, MemInit, Inv, MemInv, MapsOK, RangesDisjoint, TagsHonest, ReservationsTracked,
       NoInterveningStore

LEMMA NextInv ==
  ASSUME Inv, [Next]_vars
  PROVE  Inv'
<1>0. /\ MapsOK /\ RangesDisjoint /\ MemInv
      /\ \A a \in Addresses : a \in Nat
      /\ \A n \in Sizes : n \in Nat \ {0}
  BY RouterAssumption, TaggedMemoryAssumption DEF Inv, Addresses
<1>1. ASSUME NEW i \in Interfaces, NEW range \in Ranges, NEW t \in Supports[i], AddTarget(i, range, t)
      PROVE  Inv'
  BY <1>0, <1>1, AddTargetMaps, MemUnchanged DEF Inv, AddTarget
<1>2. ASSUME NEW i \in Interfaces, NEW t \in Supports[i] \cup {NoTarget}, AddDefaultTarget(i, t)
      PROVE  Inv'
  <2>1. t \in Targets \cup {NoTarget}
    BY DEF Supports, Interfaces, Targets
  <2>2. MapsOK' /\ RangesDisjoint'
    BY <1>0, <1>2, <2>1 DEF AddDefaultTarget, MapsOK, RangesDisjoint
  <2> QED BY <1>0, <1>2, <2>2, MemUnchanged DEF Inv, AddDefaultTarget
<1>3. ASSUME NEW a \in Addresses, NEW n \in Sizes, Store(a, n) PROVE Inv'
  BY <1>0, <1>3, StoreMem, MapsUnchanged DEF Inv, Store
<1>4. ASSUME NEW v \in Vectors, VectorStore(v) PROVE Inv'
  BY <1>0, <1>4, VectorStoreMem, MapsUnchanged DEF Inv, VectorStore
<1>5. ASSUME NEW a \in Addresses, NEW n \in Sizes, NEW set \in BOOLEAN, TaggedStore(a, n, set)
      PROVE  Inv'
  BY <1>0, <1>5, TaggedStoreMem, MapsUnchanged DEF Inv, TaggedStore
<1>6. ASSUME NEW a \in Addresses, NEW n \in Sizes, PerformMemoryOp(a, n) PROVE Inv'
  BY <1>0, <1>6, PerformMemoryOpMem, MapsUnchanged DEF Inv, PerformMemoryOp
<1>7. CASE UNCHANGED vars
  BY <1>0, <1>7, MemUnchanged, MapsUnchanged DEF Inv, vars, mapVars
<1> QED BY <1>1, <1>2, <1>3, <1>4, <1>5, <1>6, <1>7 DEF Next

LEMMA Invariance == Spec => []Inv
<1>1. Inv /\ [Next]_vars => Inv'
  BY NextInv
<1> QED BY InitInv, <1>1, PTL DEF Spec

(* The ranges of an interface never overlap, whatever is added to          *)
(* SingleInitiatorRouter in whatever order (AddTarget()).                  *)
THEOREM Disjoint == Spec => []RangesDisjoint
<1>1. Inv => RangesDisjoint
  BY DEF Inv
<1> QED BY Invariance, <1>1, PTL

(* Load(), Store() and PerformMemoryOp() reach only a target that has all  *)
(* they touch, or a default for what nobody has; a vector access goes, as  *)
(* a whole, where each of its elements would.                              *)
THEOREM Delivery == Spec => []DeliveryCovered
<1>1. Inv => DeliveryCovered
  BY ScalarsRouted, VectorRouted DEF Inv, DeliveryCovered
<1> QED BY Invariance, <1>1, PTL

(* A set tag vouches for every byte of its granule, whatever scalar,       *)
(* vector, tagged and atomic stores of whatever size and alignment reach   *)
(* TaggedFlatDemandMemory, through AtomicTaggedMemory or directly.         *)
THEOREM TagsAreHonest == Spec => []TagsHonest
<1>1. Inv => TagsHonest
  BY DEF Inv, MemInv
<1> QED BY Invariance, <1>1, PTL

(* As long as what is written through AtomicTaggedMemory are stores of     *)
(* whatever size, mask and stride that keep to the granules of their       *)
(* addresses, no reservation outlives a write to any byte of its granule.  *)
THEOREM Reservations == Spec => []ReservationsTracked
<1>1. Inv => ReservationsTracked
  BY DEF Inv, MemInv
<1> QED BY Invariance, <1>1, PTL
=============================================================================
