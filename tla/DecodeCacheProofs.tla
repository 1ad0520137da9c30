------------------------- MODULE DecodeCacheProofs -------------------------
(***************************************************************************)
(* Proofs about the decode cache for any cache, any number of Instructions *)
(* and any clients.                                                        *)
(*                                                                         *)
(* An Instruction has at most one owner, and is in at most one entry of    *)
(* the cache, so a reference count is what clients hold, plus one for the  *)
(* cache and one for an owner.  While DecRef() runs some of them have a    *)
(* count of zero and are yet to be destroyed.                              *)
(*                                                                         *)
(* The theorems assume ~BundlesKept: of the parts of an Instruction,       *)
(* clients keep any but one of several bundles.  Otherwise ~Instruction()  *)
(* leaves dangling parent_ pointers behind.                                *)
(***************************************************************************)
EXTENDS DecodeCache, FiniteSetTheorems, SequenceTheorems, WellFoundedInduction, TLAPS

Pointers == Instructions \cup {Null}

Objects == [ref : Nat, address : Nat, child : Pointers, next : Pointers, parent : Pointers]

Cached(c, i) == \E e \in Entries : c[e] = i
HasOwner(h, i) == \E j \in Instructions : i \in Owned(h, j)
Bit(b) == IF b THEN 1 ELSE 0

(* h is the heap, c the cache, hd what clients hold, dying what is to be   *)
(* destroyed.                                                              *)
Typed(h, c, hd) ==
  /\ h \in [Instructions -> Objects]
  /\ c \in [Entries -> Pointers]
  /\ hd \in [Instructions -> Nat]

OneOwner(h) == \A i, j, k \in Instructions : i \in Owned(h, j) /\ i \in Owned(h, k) => j = k

(* The child list of an Instruction starts at child_, goes on by next_,    *)
(* and is exactly what has the Instruction for parent_.                    *)
ChildrenKnow(h) == \A i, j \in Instructions : h[j].child = i => h[i].parent = j

Siblings(h) == \A i, j \in Instructions : h[j].next = i => h[i].parent = h[j].parent

NextClosed(h, X) == \A i, j \in Instructions : j \in X /\ h[j].next = i => i \in X

Reached(h) ==
  \A i, p \in Instructions : h[i].parent = p =>
    /\ h[p].child # Null
    /\ \A X \in SUBSET Instructions : h[p].child \in X /\ NextClosed(h, X) => i \in X

(* Children are not in the cache, and clients keep no child out of several.*)
ChildrenLeft(h, c, hd) ==
  \A i \in Instructions : /\ Cached(c, i) => h[i].parent = Null
                          /\ Bundled(h, i) => hd[i] = 0

Family(h, c, hd) == ChildrenKnow(h) /\ Siblings(h) /\ Reached(h) /\ ChildrenLeft(h, c, hd)

OneEntry(c) == \A d, e \in Entries : c[d] = c[e] /\ c[d] # Null => d = e

Counted(h, c, hd) ==
  \A i \in Instructions : h[i].ref = hd[i] + Bit(Cached(c, i)) + Bit(HasOwner(h, i))

Heap(h, c, hd, dying) ==
  /\ Typed(h, c, hd) /\ OneOwner(h) /\ Family(h, c, hd) /\ OneEntry(c) /\ Counted(h, c, hd)
  /\ \A i \in Instructions : h[i].ref = 0 => i \in dying \/ h[i] = Free

(* What is cached was decoded for an address of its entry, after the last  *)
(* invalidation of that address.                                           *)
Current ==
  /\ stale \subseteq {i \in Instructions : inst[i].ref > 0}
  /\ \A e \in Entries : instruction_cache_[e] # Null =>
       LET i == instruction_cache_[e] IN
       /\ i \notin stale
       /\ inst[i].address \in Addresses \ Undecodable /\ Index(inst[i].address) = e

HeapInv == Heap(inst, instruction_cache_, held, {})

-----------------------------------------------------------------------------
(* ~Instruction().                                                         *)

Closed(h, D) == \A j \in D : \A k \in Owned(h, j) : h[k].ref = 1 => k \in D

(* What is deleted is a root, or has its only reference from something     *)
(* that is deleted as well.                                                *)
LEMMA DeletedIs ==
  ASSUME NEW h, NEW roots \in SUBSET Instructions,
         \A j \in Instructions : Owned(h, j) \subseteq Instructions
  PROVE  /\ Deleted(h, roots) \subseteq Instructions
         /\ roots \subseteq Deleted(h, roots) /\ Closed(h, Deleted(h, roots))
         /\ \A k \in Deleted(h, roots) :
              k \in roots \/ (h[k].ref = 1 /\ \E j \in Deleted(h, roots) : k \in Owned(h, j))
         /\ \A C \in SUBSET Instructions : roots \subseteq C /\ Closed(h, C) => Deleted(h, roots) \subseteq C
<1> DEFINE D == Deleted(h, roots)
           E == {k \in D : k \in roots \/ (h[k].ref = 1 /\ \E j \in D : k \in Owned(h, j))}
<1>1. D = {j \in Instructions : \A C \in SUBSET Instructions : roots \subseteq C /\ Closed(h, C) => j \in C}
  BY DEF Deleted, Closed
<1> HIDE DEF D
<1>2. D \subseteq Instructions /\ roots \subseteq D
  BY <1>1
<1>3. Closed(h, D)
  <2> SUFFICES ASSUME NEW j \in D, NEW k \in Owned(h, j), h[k].ref = 1,
                      NEW C \in SUBSET Instructions, roots \subseteq C, Closed(h, C)
               PROVE  k \in Instructions /\ k \in C
    BY <1>1 DEF Closed
  <2>1. j \in C
    BY <1>1
  <2> QED BY <1>2, <2>1 DEF Closed
<1>4. roots \subseteq E /\ E \in SUBSET Instructions
  BY <1>2
<1>5. Closed(h, E)
  BY <1>3 DEF Closed
<1>6. D \subseteq E
  BY <1>1, <1>4, <1>5
<1>7. \A C \in SUBSET Instructions : roots \subseteq C /\ Closed(h, C) => D \subseteq C
  BY <1>1
<1> QED BY <1>2, <1>3, <1>6, <1>7 DEF D

LEMMA SameObject ==
  ASSUME NEW x \in Objects, NEW y \in Objects,
         x.ref = y.ref, x.address = y.address, x.child = y.child, x.next = y.next,
         x.parent = y.parent
  PROVE  x = y
BY DEF Objects

LEMMA OwnedTyped ==
  ASSUME NEW h \in [Instructions -> Objects], NEW j \in Instructions
  PROVE  Owned(h, j) \subseteq Instructions
BY CacheAssumption DEF Owned, Objects, Pointers

LEMMA NullOwned ==
  ASSUME NEW h, NEW j
  PROVE  Null \notin Owned(h, j)
BY DEF Owned

OwnersIn(h, D, i) == {j \in D : i \in Owned(h, j)}

LEMMA FewOwners ==
  ASSUME NEW h, OneOwner(h), NEW D \in SUBSET Instructions, NEW i \in Instructions
  PROVE  Cardinality(OwnersIn(h, D, i)) = IF \E j \in D : i \in Owned(h, j) THEN 1 ELSE 0
<1> DEFINE S == OwnersIn(h, D, i)
<1>1. CASE S = {}
  <2>1. Cardinality(S) = 0
    BY <1>1, FS_EmptySet
  <2> QED BY <1>1, <2>1 DEF OwnersIn
<1>2. CASE S # {}
  <2>1. PICK j \in S : TRUE
    BY <1>2
  <2>2. S = {j}
    BY <2>1 DEF OneOwner, OwnersIn
  <2>3. Cardinality(S) = 1
    BY <2>2, FS_Singleton
  <2> QED BY <2>1, <2>3 DEF OwnersIn
<1> QED BY <1>1, <1>2

(* A child is the first of its parent or the next of another child.        *)
LEMMA ChildPlace ==
  ASSUME NEW h, Siblings(h), Reached(h), NEW i \in Instructions, NEW p \in Instructions,
         h[i].parent = p, h[p].child \in Pointers
  PROVE  /\ h[p].child # Null
         /\ h[p].child = i \/ \E j \in Instructions : h[j].next = i /\ h[j].parent = p
<1> DEFINE X == {k \in Instructions :
                   h[k].parent = p =>
                     h[p].child = k \/ \E j \in Instructions : h[j].next = k /\ h[j].parent = p}
<1>1. h[p].child # Null /\ h[p].child \in Instructions
  BY DEF Reached, Pointers
<1>2. h[p].child \in X
  BY <1>1
<1>3. NextClosed(h, X)
  BY DEF NextClosed, Siblings
<1>4. X \in SUBSET Instructions
  OBVIOUS
<1> HIDE DEF X
<1>5. i \in X
  BY <1>2, <1>3, <1>4 DEF Reached
<1> QED BY <1>1, <1>5 DEF X

LEMMA ChildOwned ==
  ASSUME NEW h \in [Instructions -> Objects], Siblings(h), Reached(h), NEW i \in Instructions,
         h[i].parent # Null
  PROVE  HasOwner(h, i) /\ h[i].parent \in Instructions
<1>1. h[i].parent \in Instructions
  BY DEF Objects, Pointers
<1>2. h[h[i].parent].child \in Pointers
  BY <1>1 DEF Objects
<1>3. i # Null
  BY CacheAssumption
<1> QED BY <1>1, <1>2, <1>3, ChildPlace DEF HasOwner, Owned

(* Destroying all that is to be deleted leaves exact counts and nothing    *)
(* with a count of zero; what the cache refers to is not touched.          *)
LEMMA DestroyHeap ==
  ASSUME NEW h, NEW c, NEW hd, NEW roots \in SUBSET Instructions, Heap(h, c, hd, roots),
         \A i \in roots : h[i].ref = 0
  PROVE  LET g == Destroy(h, Deleted(h, roots)) IN
         /\ Heap(g, c, hd, {})
         /\ \A i \in Instructions : Cached(c, i) => g[i].address = h[i].address
<1> DEFINE D == Deleted(h, roots)
           g == Destroy(h, D)
           Dropped(i) == \E j \in D : i \in Owned(h, j)
           Orphan(i) == \E j \in D : h[j].child = i
<1>1. Typed(h, c, hd) /\ OneOwner(h) /\ Family(h, c, hd) /\ OneEntry(c) /\ Counted(h, c, hd)
  BY DEF Heap
<1>2. \A j \in Instructions : Owned(h, j) \subseteq Instructions
  BY <1>1, OwnedTyped DEF Typed
<1>3. /\ D \subseteq Instructions /\ roots \subseteq D /\ Closed(h, D)
      /\ \A k \in D : k \in roots \/ (h[k].ref = 1 /\ \E j \in D : k \in Owned(h, j))
      /\ \A C \in SUBSET Instructions : roots \subseteq C /\ Closed(h, C) => D \subseteq C
  BY <1>2, DeletedIs
<1> HIDE DEF D
<1>4. ASSUME NEW i \in Instructions
      PROVE  /\ h[i] \in Objects /\ hd[i] \in Nat
             /\ h[i].ref = hd[i] + Bit(Cached(c, i)) + Bit(HasOwner(h, i))
  BY <1>1, <1>4 DEF Typed, Counted
(* Nothing that stays refers to what is deleted.                           *)
<1>5. ASSUME NEW k \in D
      PROVE  /\ hd[k] = 0 /\ ~Cached(c, k)
             /\ \A j \in Instructions : k \in Owned(h, j) => j \in D
  <2>1. k \in Instructions
    BY <1>3
  <2>2. h[k].ref = hd[k] + Bit(Cached(c, k)) + Bit(HasOwner(h, k)) /\ hd[k] \in Nat
    BY <1>4, <2>1
  <2>3. CASE k \in roots
    <3>1. h[k].ref = 0
      BY <2>3
    <3> QED BY <2>1, <2>2, <3>1 DEF Bit, HasOwner
  <2>4. CASE h[k].ref = 1 /\ \E j \in D : k \in Owned(h, j)
    <3>1. PICK j \in D : k \in Owned(h, j)
      BY <2>4
    <3>2. HasOwner(h, k)
      BY <1>3, <3>1 DEF HasOwner
    <3>3. hd[k] = 0 /\ ~Cached(c, k)
      BY <2>2, <2>4, <3>2 DEF Bit
    <3>4. \A m \in Instructions : k \in Owned(h, m) => m = j
      BY <1>1, <1>3, <2>1, <3>1 DEF OneOwner
    <3> QED BY <3>1, <3>3, <3>4
  <2> QED BY <1>3, <2>3, <2>4
<1>0. /\ ChildrenKnow(h) /\ Siblings(h) /\ Reached(h) /\ ChildrenLeft(h, c, hd)
      /\ h \in [Instructions -> Objects]
  BY <1>1 DEF Family, Typed
(* With a child its parent is deleted as well.                             *)
<1>a. ASSUME NEW j \in D PROVE h[j].parent = Null \/ h[j].parent \in D
  <2> DEFINE C == {k \in D : h[k].parent = Null \/ h[k].parent \in D}
  <2>1. C \in SUBSET Instructions
    BY <1>3
  <2>2. ASSUME NEW k \in roots PROVE k \in C
    <3>1. k \in Instructions /\ k \in D /\ h[k].ref = 0
      BY <1>3
    <3>2. ~HasOwner(h, k)
      BY <1>4, <3>1 DEF Bit
    <3> QED BY <1>0, <3>1, <3>2, ChildOwned
  <2>3. ASSUME NEW k \in C, NEW m \in Owned(h, k), h[m].ref = 1 PROVE m \in C
    <3>1. k \in Instructions /\ m \in Instructions /\ m \in D
      BY <1>2, <1>3, <2>3 DEF Closed
    <3>2. h[m].parent = k \/ h[m].parent = h[k].parent
      BY <1>0, <2>3, <3>1 DEF Owned, ChildrenKnow, Siblings
    <3> QED BY <2>3, <3>1, <3>2
  <2>4. Closed(h, C)
    BY <2>3 DEF Closed
  <2> HIDE DEF C
  <2>5. D \subseteq C
    BY <1>3, <2>1, <2>2, <2>4
  <2> QED BY <2>5 DEF C
(* Of the children of what is deleted at most the first stays.             *)
<1>b. ASSUME NEW k \in Instructions, Bundled(h, k), NEW j \in D, k \in Owned(h, j)
      PROVE  k \in D
  <2>1. HasOwner(h, k)
    BY <1>3, <1>b DEF HasOwner
  <2>2. hd[k] = 0 /\ ~Cached(c, k)
    BY <1>0, <1>b DEF ChildrenLeft, Bundled
  <2>3. h[k].ref = 1
    BY <1>4, <2>1, <2>2 DEF Bit
  <2> QED BY <1>3, <1>b, <2>3 DEF Closed
<1>c. ASSUME NEW i \in Instructions, i \notin D, NEW p \in D, h[i].parent = p
      PROVE  h[p].child = i
  <2> DEFINE f == h[p].child
  <2>1. p \in Instructions /\ f # Null
    BY <1>0, <1>3, <1>c DEF Reached
  <2>2. f \in Instructions /\ f \in Owned(h, p)
    BY <1>0, <2>1 DEF Objects, Pointers, Owned
  <2>3. h[f].parent = p
    BY <1>0, <2>1, <2>2 DEF ChildrenKnow
  <2>0. p # Null /\ Null \notin Instructions
    BY <2>1, CacheAssumption
  <2> HIDE DEF f
  <2>4. CASE f \in D
    <3> DEFINE X == {k \in Instructions : h[k].parent = p => k \in D}
    <3>1. X \in SUBSET Instructions /\ f \in X
      BY <2>2, <2>4
    <3>2. ASSUME NEW j \in X, NEW k \in Instructions, h[j].next = k, h[k].parent = p
          PROVE  k \in D
      <4>1. j \in D
        BY <1>0, <3>2 DEF Siblings
      <4>2. k \in Owned(h, j)
        BY <2>0, <3>2 DEF Owned
      <4>3. Bundled(h, k)
        BY <2>0, <3>2 DEF Bundled
      <4> QED BY <1>b, <4>1, <4>2, <4>3
    <3>3. NextClosed(h, X)
      BY <3>2 DEF NextClosed
    <3> HIDE DEF X
    <3>4. i \in X
      BY <1>0, <1>c, <2>1, <3>1, <3>3 DEF Reached, f
    <3> QED BY <1>c, <3>4 DEF X
  <2>5. CASE f \notin D
    <3>1. ~Bundled(h, f)
      BY <1>b, <2>2, <2>5
    <3>2. h[f].next = Null
      BY <2>0, <2>3, <3>1 DEF Bundled
    <3>3. NextClosed(h, {f})
      BY <2>0, <3>2 DEF NextClosed
    <3>4. i \in {f}
      BY <1>0, <1>c, <2>1, <2>2, <3>3 DEF Reached, f
    <3> QED BY <3>4 DEF f
  <2> QED BY <2>4, <2>5
<1>6. ASSUME NEW i \in Instructions, i \notin D
      PROVE  ~\E j \in D : h[j].parent = i
  BY <1>a, <1>6, CacheAssumption
<1>7. ASSUME NEW i \in D PROVE g[i] = Free
  BY <1>3, <1>7 DEF Destroy
<1>8. ASSUME NEW i \in Instructions, i \notin D
      PROVE  /\ Dropped(i) => g[i].ref = h[i].ref - 1
             /\ ~Dropped(i) => g[i].ref = h[i].ref
             /\ g[i].address = h[i].address /\ g[i].child = h[i].child /\ g[i].next = h[i].next
             /\ Orphan(i) => g[i].parent = Null
             /\ ~Orphan(i) => g[i].parent = h[i].parent
             /\ g[i] = [h[i] EXCEPT !.ref = g[i].ref, !.parent = g[i].parent]
  <2> DEFINE n == Cardinality(OwnersIn(h, D, i))
             p == IF \E j \in D : h[j].child = i THEN Null ELSE h[i].parent
  <2>1. D \in SUBSET Instructions
    BY <1>3
  <2>2. n = IF \E j \in D : i \in Owned(h, j) THEN 1 ELSE 0
    BY <1>1, <2>1, FewOwners
  <2>3. g[i] = [h[i] EXCEPT !.ref = @ - n, !.parent = p,
                            !.child = IF \E j \in D : h[j].parent = i THEN Null ELSE @]
    BY <1>8 DEF Destroy, OwnersIn
  <2>4. h[i] \in Objects
    BY <1>4
  <2> HIDE DEF n, p
  <2>5. g[i] = [h[i] EXCEPT !.ref = @ - n, !.parent = p]
    BY <1>6, <1>8, <2>3, <2>4 DEF Objects
  <2>6. /\ g[i].ref = h[i].ref - n /\ g[i].parent = p
        /\ g[i].address = h[i].address /\ g[i].child = h[i].child /\ g[i].next = h[i].next
        /\ g[i] = [h[i] EXCEPT !.ref = g[i].ref, !.parent = g[i].parent]
    BY <2>4, <2>5 DEF Objects
  <2>7. h[i].ref \in Nat
    BY <2>4 DEF Objects
  <2> QED BY <2>2, <2>6, <2>7 DEF p
<1> HIDE DEF g, Dropped, Orphan
<1>9. /\ \A j \in D : Owned(g, j) = {} /\ g[j].child = Null /\ g[j].parent = Null /\ g[j].ref = 0
      /\ \A j \in Instructions \ D : Owned(g, j) = Owned(h, j)
  <2>1. ASSUME NEW j \in D
        PROVE  Owned(g, j) = {} /\ g[j].child = Null /\ g[j].parent = Null /\ g[j].ref = 0
    BY <1>7 DEF Owned, Free
  <2>2. ASSUME NEW j \in Instructions \ D PROVE Owned(g, j) = Owned(h, j)
    BY <1>8 DEF Owned
  <2> QED BY <2>1, <2>2
<1>10. ASSUME NEW i \in Instructions
       PROVE  HasOwner(g, i) <=> \E j \in Instructions \ D : i \in Owned(h, j)
  BY <1>9 DEF HasOwner
<1>11. ASSUME NEW i \in Instructions, Dropped(i)
       PROVE  HasOwner(h, i) /\ ~HasOwner(g, i) /\ h[i].ref > 0
  <2>0. PICK j \in D : i \in Owned(h, j)
    BY <1>11 DEF Dropped
  <2>1. HasOwner(h, i)
    BY <1>3, <2>0 DEF HasOwner
  <2>2. \A k \in Instructions : i \in Owned(h, k) => k = j
    BY <1>1, <1>3, <2>0 DEF OneOwner
  <2>3. h[i].ref = hd[i] + Bit(Cached(c, i)) + Bit(HasOwner(h, i)) /\ hd[i] \in Nat
    BY <1>4
  <2> QED BY <1>10, <2>0, <2>1, <2>2, <2>3 DEF Bit
<1>12. ASSUME NEW i \in Instructions, ~Dropped(i)
       PROVE  HasOwner(h, i) <=> HasOwner(g, i)
  BY <1>10, <1>12 DEF HasOwner, Dropped
<1>13. ASSUME NEW i \in Instructions PROVE g[i] \in Objects
  <2>1. CASE i \in D
    BY <1>7, <2>1 DEF Free, Objects, Pointers
  <2>2. CASE i \notin D
    <3>1. h[i] \in Objects
      BY <1>4
    <3>2. g[i].ref \in Nat
      <4>1. h[i].ref \in Nat
        BY <3>1 DEF Objects
      <4>2. CASE Dropped(i)
        <5>1. h[i].ref > 0 /\ g[i].ref = h[i].ref - 1
          BY <1>8, <1>11, <2>2, <4>2
        <5> QED BY <4>1, <5>1
      <4>3. CASE ~Dropped(i)
        BY <1>8, <2>2, <4>1, <4>3
      <4> QED BY <4>2, <4>3
    <3>3. g[i].parent \in Pointers
      BY <1>8, <2>2, <3>1 DEF Objects, Pointers
    <3>4. g[i] = [h[i] EXCEPT !.ref = g[i].ref, !.parent = g[i].parent]
      BY <1>8, <2>2
    <3> QED BY <3>1, <3>2, <3>3, <3>4 DEF Objects
  <2> QED BY <2>1, <2>2
<1>14. Typed(g, c, hd)
  <2>1. g = [i \in Instructions |-> g[i]]
    BY DEF g, Destroy
  <2> QED BY <1>1, <1>13, <2>1 DEF Typed
<1>15. OneOwner(g)
  BY <1>1, <1>9 DEF OneOwner
<1>16. Family(g, c, hd)
  <2>0. Null \notin Instructions
    BY CacheAssumption
  <2>1. ASSUME NEW i \in Instructions, NEW j \in Instructions, g[j].child = i \/ g[j].next = i
        PROVE  /\ j \notin D /\ i \notin D /\ i \in Owned(h, j)
               /\ g[j].child = h[j].child /\ g[j].next = h[j].next
               /\ ~Orphan(i) /\ g[i].parent = h[i].parent
    <3>1. j \notin D
      BY <1>7, <2>0, <2>1 DEF Free
    <3>2. i \in Owned(h, j) /\ g[j].child = h[j].child /\ g[j].next = h[j].next
      BY <1>8, <2>0, <2>1, <3>1 DEF Owned
    <3>3. i \notin D
      BY <1>5, <3>1, <3>2
    <3>4. ASSUME NEW k \in D, h[k].child = i PROVE FALSE
      <4>1. k \in Instructions /\ i \in Owned(h, k)
        BY <1>3, <2>0, <3>4 DEF Owned
      <4> QED BY <1>1, <3>1, <3>2, <4>1 DEF OneOwner
    <3>5. ~Orphan(i)
      BY <3>4 DEF Orphan
    <3> QED BY <1>8, <3>1, <3>2, <3>3, <3>5
  <2>2. ChildrenKnow(g)
    BY <1>0, <2>1 DEF ChildrenKnow
  <2>3. Siblings(g)
    <3> SUFFICES ASSUME NEW i \in Instructions, NEW j \in Instructions, g[j].next = i
                 PROVE  g[i].parent = g[j].parent
      BY DEF Siblings
    <3>1. g[i].parent = h[i].parent /\ j \notin D /\ i \notin D /\ h[i].parent = h[j].parent
      BY <1>0, <2>1 DEF Siblings
    <3>2. ~Orphan(j)
      <4> SUFFICES ASSUME NEW k \in D, h[k].child = j PROVE FALSE
        BY DEF Orphan
      <4>1. k \in Instructions /\ h[j].parent = k
        BY <1>0, <1>3 DEF ChildrenKnow
      <4>2. h[k].child = i
        BY <1>c, <3>1, <4>1
      <4>3. i \in Owned(h, k)
        BY <2>0, <4>2 DEF Owned
      <4> QED BY <1>1, <2>1, <3>1, <4>1, <4>3 DEF OneOwner
    <3> QED BY <1>8, <3>1, <3>2
  <2>4. Reached(g)
    <3> SUFFICES ASSUME NEW i \in Instructions, NEW p \in Instructions, g[i].parent = p
                 PROVE  /\ g[p].child # Null
                        /\ \A X \in SUBSET Instructions :
                             g[p].child \in X /\ NextClosed(g, X) => i \in X
      BY DEF Reached
    <3>1. i \notin D
      BY <1>9, <2>0
    <3>2. ~Orphan(i) /\ h[i].parent = p
      BY <1>8, <2>0, <3>1
    <3>3. p \notin D
      BY <1>c, <3>1, <3>2 DEF Orphan
    <3>4. g[p].child = h[p].child /\ h[p].child # Null
      BY <1>0, <1>8, <3>2, <3>3 DEF Reached
    <3>5. ASSUME NEW X \in SUBSET Instructions, g[p].child \in X, NextClosed(g, X)
          PROVE  i \in X
      <4> DEFINE Y == {k \in Instructions : h[k].parent = p => k \in X}
      <4>1. Y \in SUBSET Instructions /\ h[p].child \in Y
        BY <3>4, <3>5
      <4>2. ASSUME NEW j \in Y, NEW k \in Instructions, h[j].next = k, h[k].parent = p
            PROVE  k \in X
        <5>1. h[j].parent = p /\ j \in X /\ j \in Instructions
          BY <1>0, <4>2 DEF Siblings
        <5>2. j \notin D
          BY <1>a, <2>0, <3>3, <5>1
        <5>3. g[j].next = k
          BY <1>8, <4>2, <5>1, <5>2
        <5> QED BY <3>5, <5>1, <5>3 DEF NextClosed
      <4>3. NextClosed(h, Y)
        BY <4>2 DEF NextClosed
      <4> HIDE DEF Y
      <4>4. i \in Y
        BY <1>0, <3>2, <4>1, <4>3 DEF Reached
      <4> QED BY <3>2, <4>4 DEF Y
    <3> QED BY <3>4, <3>5
  <2>5. ChildrenLeft(g, c, hd)
    <3> SUFFICES ASSUME NEW i \in Instructions
                 PROVE  /\ Cached(c, i) => g[i].parent = Null
                        /\ Bundled(g, i) => hd[i] = 0
      BY DEF ChildrenLeft
    <3>1. Cached(c, i) => g[i].parent = Null
      BY <1>0, <1>8, <1>9 DEF ChildrenLeft
    <3>2. ASSUME Bundled(g, i) PROVE hd[i] = 0
      <4>1. i \notin D
        BY <1>9, <3>2 DEF Bundled
      <4>2. h[i].parent # Null /\ g[i].next = h[i].next
        BY <1>8, <3>2, <4>1 DEF Bundled
      <4>3. \A j \in Instructions : g[j].next = i => h[j].next = i
        BY <2>1
      <4> QED BY <1>0, <3>2, <4>2, <4>3 DEF Bundled, ChildrenLeft
    <3> QED BY <3>1, <3>2
  <2> QED BY <2>2, <2>3, <2>4, <2>5 DEF Family
<1>17. Counted(g, c, hd)
  <2> SUFFICES ASSUME NEW i \in Instructions
               PROVE  g[i].ref = hd[i] + Bit(Cached(c, i)) + Bit(HasOwner(g, i))
    BY DEF Counted
  <2>1. CASE i \in D
    <3>1. ~HasOwner(g, i)
      BY <1>5, <1>10, <2>1
    <3> QED BY <1>5, <1>9, <2>1, <3>1 DEF Bit
  <2>2. CASE i \notin D /\ Dropped(i)
    <3>1. g[i].ref = h[i].ref - 1
      BY <1>8, <2>2
    <3>2. HasOwner(h, i) /\ ~HasOwner(g, i)
      BY <1>11, <2>2
    <3>3. h[i].ref = hd[i] + Bit(Cached(c, i)) + Bit(HasOwner(h, i)) /\ hd[i] \in Nat
      BY <1>4
    <3> QED BY <3>1, <3>2, <3>3 DEF Bit
  <2>3. CASE i \notin D /\ ~Dropped(i)
    <3>1. g[i].ref = h[i].ref
      BY <1>4, <1>8, <2>3 DEF Objects
    <3> QED BY <1>4, <1>12, <2>3, <3>1 DEF Bit
  <2> QED BY <2>1, <2>2, <2>3
<1>18. ASSUME NEW i \in Instructions, g[i].ref = 0 PROVE g[i] = Free
  <2>1. CASE i \in D
    BY <1>7, <2>1
  <2>2. CASE i \notin D /\ Dropped(i)
    <3>1. h[i].ref = 1
      <4>1. h[i].ref \in Nat
        BY <1>4 DEF Objects
      <4>2. g[i].ref = h[i].ref - 1
        BY <1>8, <2>2
      <4> QED BY <1>18, <4>1, <4>2
    <3> QED BY <1>3, <2>2, <3>1 DEF Closed, Dropped
  <2>3. CASE i \notin D /\ ~Dropped(i)
    <3>1. h[i].ref = 0
      BY <1>4, <1>8, <1>18, <2>3 DEF Objects
    <3>2. h[i] = Free
      BY <1>3, <2>3, <3>1 DEF Heap
    <3>3. ~Orphan(i)
      BY <2>3, CacheAssumption DEF Owned, Orphan, Dropped
    <3>4. g[i].address = h[i].address /\ g[i].child = h[i].child /\ g[i].next = h[i].next
          /\ g[i].parent = h[i].parent
      BY <1>8, <2>3, <3>3
    <3>5. g[i] \in Objects /\ h[i] \in Objects /\ g[i].ref = h[i].ref
      BY <1>4, <1>13, <1>18, <3>1
    <3> QED BY <3>2, <3>4, <3>5, SameObject
  <2> QED BY <2>1, <2>2, <2>3
<1>19. ASSUME NEW i \in Instructions, Cached(c, i) PROVE g[i].address = h[i].address
  BY <1>5, <1>8, <1>19
<1>20. Heap(g, c, hd, {})
  BY <1>1, <1>14, <1>15, <1>16, <1>17, <1>18 DEF Heap
<1> QED BY <1>19, <1>20 DEF D, g

-----------------------------------------------------------------------------
(* DecRef().                                                               *)

(* Reference counts do not matter to the lists of children.                *)
LEMMA SameFamily ==
  ASSUME NEW h, NEW d, NEW c, NEW hd, Family(h, c, hd),
         \A i \in Instructions : /\ d[i].child = h[i].child /\ d[i].next = h[i].next
                                 /\ d[i].parent = h[i].parent
  PROVE  Family(d, c, hd)
<1>1. ChildrenKnow(d) /\ Siblings(d)
  BY DEF Family, ChildrenKnow, Siblings
<1>2. ASSUME NEW X \in SUBSET Instructions, NextClosed(d, X) PROVE NextClosed(h, X)
  BY <1>2 DEF NextClosed
<1>3. Reached(d)
  BY <1>2 DEF Family, Reached
<1>4. \A i \in Instructions : Bundled(d, i) <=> Bundled(h, i)
  BY DEF Bundled
<1>5. ChildrenLeft(d, c, hd)
  BY <1>4 DEF Family, ChildrenLeft
<1> QED BY <1>1, <1>3, <1>5 DEF Family

(* c and hd no longer hold the references to the objects of S, whose       *)
(* counts still have them.                                                 *)
Released(h, c, hd, S) ==
  /\ Typed(h, c, hd) /\ OneOwner(h) /\ Family(h, c, hd) /\ OneEntry(c)
  /\ \A i \in Instructions :
       /\ i \in S => h[i].ref = hd[i] + Bit(Cached(c, i)) + Bit(HasOwner(h, i)) + 1
       /\ i \notin S => h[i].ref = hd[i] + Bit(Cached(c, i)) + Bit(HasOwner(h, i))
       /\ h[i].ref = 0 => h[i] = Free

LEMMA DecRefHeap ==
  ASSUME NEW h, NEW c, NEW hd, NEW S \in SUBSET Instructions, Released(h, c, hd, S)
  PROVE  LET g == DecRef(h, S) IN
         /\ Heap(g, c, hd, {})
         /\ \A i \in Instructions : Cached(c, i) => g[i].address = h[i].address
<1> DEFINE d == [i \in Instructions |-> IF i \in S THEN [h[i] EXCEPT !.ref = @ - 1] ELSE h[i]]
           zero == {i \in S : d[i].ref = 0}
<1>0. DecRef(h, S) = Destroy(d, Deleted(d, zero))
  BY DEF DecRef
<1>1. Typed(h, c, hd) /\ OneOwner(h) /\ Family(h, c, hd) /\ OneEntry(c)
  BY DEF Released
<1>2. ASSUME NEW i \in Instructions
      PROVE  /\ i \in S => h[i].ref = hd[i] + Bit(Cached(c, i)) + Bit(HasOwner(h, i)) + 1
             /\ i \notin S => h[i].ref = hd[i] + Bit(Cached(c, i)) + Bit(HasOwner(h, i))
             /\ h[i].ref = 0 => h[i] = Free
             /\ h[i] \in Objects /\ h[i].ref \in Nat /\ hd[i] \in Nat
  BY <1>1, <1>2 DEF Released, Typed, Objects
<1>3. ASSUME NEW i \in Instructions
      PROVE  /\ i \in S => d[i] = [h[i] EXCEPT !.ref = @ - 1]
             /\ i \notin S => d[i] = h[i]
  BY <1>3
<1>4. d = [i \in Instructions |-> d[i]]
  OBVIOUS
<1>5. zero \in SUBSET Instructions /\ \A i \in zero : d[i].ref = 0
  OBVIOUS
<1>6. ASSUME NEW i \in S, d[i].ref = 0 PROVE i \in zero
  BY <1>6
<1> HIDE DEF d, zero
<1>7. ASSUME NEW i \in Instructions
      PROVE  /\ d[i].address = h[i].address /\ d[i].child = h[i].child /\ d[i].next = h[i].next
             /\ d[i].parent = h[i].parent /\ d[i] \in Objects
             /\ i \in S => d[i].ref = h[i].ref - 1
  <2>1. h[i] \in Objects /\ h[i].ref \in Nat
    BY <1>2
  <2>2. CASE i \notin S
    BY <1>3, <2>1, <2>2
  <2>3. CASE i \in S
    <3>1. h[i].ref # 0
      BY <1>2, <2>3 DEF Bit
    <3>2. h[i].ref - 1 \in Nat
      BY <2>1, <3>1
    <3>3. d[i] = [h[i] EXCEPT !.ref = @ - 1]
      BY <1>3, <2>3
    <3>4. d[i] \in Objects
      BY <2>1, <3>2, <3>3 DEF Objects
    <3> QED BY <2>1, <3>3, <3>4 DEF Objects
  <2> QED BY <2>2, <2>3
<1>8. \A i \in Instructions : Owned(d, i) = Owned(h, i)
  BY <1>7 DEF Owned
<1>9. \A i \in Instructions : HasOwner(d, i) <=> HasOwner(h, i)
  BY <1>8 DEF HasOwner
<1>10. Typed(d, c, hd)
  BY <1>1, <1>4, <1>7 DEF Typed
<1>11. OneOwner(d) /\ Family(d, c, hd)
  <2>1. OneOwner(d)
    BY <1>1, <1>8 DEF OneOwner
  <2>2. Family(d, c, hd)
    BY <1>1, <1>7, SameFamily
  <2> QED BY <2>1, <2>2
<1>12. Counted(d, c, hd)
  <2> SUFFICES ASSUME NEW i \in Instructions
               PROVE  d[i].ref = hd[i] + Bit(Cached(c, i)) + Bit(HasOwner(d, i))
    BY DEF Counted
  <2>1. HasOwner(d, i) <=> HasOwner(h, i)
    BY <1>9
  <2>2. CASE i \notin S
    <3>1. d[i] = h[i] /\ h[i].ref = hd[i] + Bit(Cached(c, i)) + Bit(HasOwner(h, i))
      BY <1>2, <1>3, <2>2
    <3> QED BY <2>1, <3>1 DEF Bit
  <2>3. CASE i \in S
    <3>1. d[i].ref = h[i].ref - 1 /\ hd[i] \in Nat
          /\ h[i].ref = hd[i] + Bit(Cached(c, i)) + Bit(HasOwner(h, i)) + 1
      BY <1>2, <1>7, <2>3
    <3> QED BY <2>1, <3>1 DEF Bit
  <2> QED BY <2>2, <2>3
<1>13. ASSUME NEW i \in Instructions, d[i].ref = 0 PROVE i \in zero \/ d[i] = Free
  BY <1>2, <1>3, <1>6, <1>13
<1>14. Heap(d, c, hd, zero)
  BY <1>1, <1>10, <1>11, <1>12, <1>13 DEF Heap
<1>15. LET g == Destroy(d, Deleted(d, zero)) IN
       /\ Heap(g, c, hd, {})
       /\ \A i \in Instructions : Cached(c, i) => g[i].address = d[i].address
  BY <1>5, <1>14, DestroyHeap
<1> QED BY <1>0, <1>7, <1>15

-----------------------------------------------------------------------------
(* Decoding.                                                               *)

Made(h, shape, parts, a) ==
  [i \in Instructions |->
     IF i \in Range(parts)
     THEN Linked(shape, parts, CHOOSE n \in DOMAIN parts : parts[n] = i, a)
     ELSE h[i]]

(* A dead object is nobody's.                                              *)
LEMMA DeadUnused ==
  ASSUME NEW h, NEW c, NEW hd, Heap(h, c, hd, {}), NEW i \in Instructions, h[i].ref = 0
  PROVE  /\ hd[i] = 0 /\ ~Cached(c, i) /\ ~HasOwner(h, i) /\ h[i] = Free
         /\ Owned(h, i) = {}
<1>1. h[i].ref = hd[i] + Bit(Cached(c, i)) + Bit(HasOwner(h, i)) /\ hd[i] \in Nat
  BY DEF Heap, Counted, Typed
<1>2. h[i] = Free
  BY DEF Heap
<1>3. Owned(h, i) = {}
  BY <1>2 DEF Owned, Free
<1> QED BY <1>1, <1>2, <1>3 DEF Bit

(* The n-th of N new objects: each owns the next one, whichever way they   *)
(* are linked.                                                             *)
IsPart(g, shape, parts, N, a, n) ==
  LET m == g[parts[n]]
  IN  /\ m \in Objects /\ m.ref = 1 /\ m.address = a
      /\ n < N => Owned(g, parts[n]) = {parts[n + 1]}
      /\ n = N => Owned(g, parts[n]) = {} /\ m.child = Null /\ m.next = Null
      /\ shape = "chain" \/ (shape = "bundles" /\ n = 1) =>
           m.next = Null /\ (n < N => m.child = parts[n + 1])
      /\ shape = "slots" \/ (shape = "bundles" /\ n > 1) =>
           m.child = Null /\ (n < N => m.next = parts[n + 1])
      /\ shape = "slots" \/ n = 1 => m.parent = Null
      /\ shape = "chain" /\ n > 1 => m.parent = parts[n - 1]
      /\ shape = "bundles" /\ n > 1 => m.parent = parts[1]

LEMMA MadeParts ==
  ASSUME NEW h, NEW shape \in {"slots", "chain", "bundles"}, NEW a \in Nat, NEW N \in Nat \ {0},
         NEW parts \in [1..N -> Instructions], IsInjective(parts), NEW n \in 1..N
  PROVE  IsPart(Made(h, shape, parts, a), shape, parts, N, a, n)
<1> DEFINE g == Made(h, shape, parts, a)
           i == parts[n]
<1>1. \A x, y \in 1..N : parts[x] = parts[y] => x = y
  BY DEF IsInjective
<1>2. i \in Range(parts) /\ i \in Instructions
  BY DEF Range
<1>3. (CHOOSE k \in DOMAIN parts : parts[k] = i) = n
  BY <1>1
<1>4. g[i] = Linked(shape, parts, n, a)
  BY <1>2, <1>3 DEF Made
<1>5. Len(parts) = N
  <2>1. parts \in Seq(Instructions)
    OBVIOUS
  <2> QED BY <2>1, LenProperties
<1>6. n < N => parts[n + 1] \in Instructions
  OBVIOUS
<1>7. n > 1 => parts[n - 1] \in Instructions
  OBVIOUS
<1> DEFINE following == IF n < N THEN parts[n + 1] ELSE Null
           down == shape = "chain" \/ (shape = "bundles" /\ n = 1)
           before == IF n = 1 \/ shape = "slots" THEN Null
                     ELSE IF shape = "chain" THEN parts[n - 1] ELSE parts[1]
<1>8. /\ following \in Pointers /\ before \in Pointers
      /\ n < N => following = parts[n + 1] /\ following # Null
      /\ n = N => following = Null
      /\ shape = "chain" /\ n > 1 => before = parts[n - 1]
      /\ shape = "bundles" /\ n > 1 => before = parts[1]
      /\ shape = "slots" \/ n = 1 => before = Null
  BY <1>6, <1>7, CacheAssumption DEF Pointers
<1>9. ~down <=> shape = "slots" \/ (shape = "bundles" /\ n > 1)
  OBVIOUS
<1>10. g[i] = [ref |-> 1, address |-> a,
               child |-> IF down THEN following ELSE Null,
               next |-> IF ~down THEN following ELSE Null, parent |-> before]
  BY <1>4, <1>5, <1>9 DEF Linked
<1> HIDE DEF g, following, before, down
<1>11. /\ g[i] \in Objects /\ g[i].ref = 1 /\ g[i].address = a /\ g[i].parent = before
       /\ down => g[i].child = following /\ g[i].next = Null
       /\ ~down => g[i].child = Null /\ g[i].next = following
  BY <1>8, <1>10 DEF Objects, Pointers
<1>12. Owned(g, i) = {following} \ {Null}
  BY <1>11 DEF Owned
<1>13. (n < N => Owned(g, i) = {parts[n + 1]}) /\ (n = N => Owned(g, i) = {})
  BY <1>8, <1>12
<1>14. shape = "chain" \/ (shape = "bundles" /\ n = 1) <=> down
  BY DEF down
<1> QED BY <1>8, <1>9, <1>11, <1>13, <1>14 DEF g, IsPart

LEMMA Least ==
  ASSUME NEW T \in SUBSET Nat, T # {}
  PROVE  \E n \in T : \A m \in T : n <= m
<1>1. PICK n \in T : \A m \in T : ~(<<m, n>> \in OpToRel(<, Nat))
  BY WFMin, NatLessThanWellFounded
<1>2. ASSUME NEW m \in T PROVE n <= m
  <2>1. ~(m < n)
    BY <1>1 DEF OpToRel
  <2> QED BY <2>1
<1> QED BY <1>1, <1>2

(* The child lists of new objects, next to those there are.                *)
LEMMA MadeFamily ==
  ASSUME NEW h, NEW c, NEW hd, NEW b, Heap(h, c, hd, {}),
         NEW shape \in {"slots", "chain", "bundles"}, NEW a \in Nat, NEW N \in Nat \ {0},
         NEW parts \in [1..N -> Instructions], IsInjective(parts),
         \A n \in 1..N : h[parts[n]].ref = 0,
         \A i \in Instructions : Cached(b, i) => i = parts[1] \/ Cached(c, i)
  PROVE  Family(Made(h, shape, parts, a), b, hd)
<1> DEFINE P == Range(parts)
           g == Made(h, shape, parts, a)
<1> \A n \in 1..N : IsPart(g, shape, parts, N, a, n)
  BY MadeParts
<1> \A i \in Instructions \ P : g[i] = h[i]
  BY DEF Made
<1> HIDE DEF g
<1>0. /\ ChildrenKnow(h) /\ Siblings(h) /\ Reached(h) /\ ChildrenLeft(h, c, hd)
      /\ h \in [Instructions -> Objects] /\ Null \notin Instructions
  BY CacheAssumption DEF Heap, Family, Typed
<1>1. \A y, z \in 1..N : parts[y] = parts[z] => y = z
  BY DEF IsInjective
<1>2. /\ P \subseteq Instructions /\ \A i \in P : \E n \in 1..N : parts[n] = i
      /\ \A n \in 1..N : parts[n] \in P
  BY DEF Range
<1> HIDE DEF P
<1>3. ASSUME NEW i \in P
      PROVE  hd[i] = 0 /\ ~Cached(c, i) /\ ~HasOwner(h, i) /\ h[i] = Free
  <2>1. i \in Instructions /\ h[i].ref = 0
    BY <1>2
  <2> QED BY <2>1, DeadUnused
<1>4. ASSUME NEW i \in Instructions \ P
      PROVE  g[i] = h[i] /\ h[i].child \notin P /\ h[i].next \notin P /\ h[i].parent \notin P
  <2>1. h[i].child \notin P /\ h[i].next \notin P
    <3>1. ASSUME NEW k \in P, k = h[i].child \/ k = h[i].next PROVE FALSE
      BY <1>0, <1>2, <1>3, <3>1 DEF HasOwner, Owned
    <3> QED BY <3>1
  <2>2. h[i].parent \notin P
    <3>1. ASSUME NEW k \in P, k = h[i].parent PROVE FALSE
      <4>1. h[k].child # Null
        BY <1>0, <1>2, <3>1 DEF Reached
      <4> QED BY <1>3, <4>1 DEF Free
    <3> QED BY <3>1
  <2> QED BY <2>1, <2>2
<1>5. ASSUME NEW n \in 1..N
      PROVE  /\ g[parts[n]].child \in P \cup {Null} /\ g[parts[n]].next \in P \cup {Null}
             /\ g[parts[n]].parent \in P \cup {Null}
             /\ g[parts[n]].child # Null => n < N /\ g[parts[n]].child = parts[n + 1]
             /\ g[parts[n]].next # Null => n < N /\ g[parts[n]].next = parts[n + 1]
  <2>1. n < N => parts[n + 1] \in P
    BY <1>2
  <2>2. n > 1 => parts[n - 1] \in P /\ parts[1] \in P
    BY <1>2
  <2>3. IsPart(g, shape, parts, N, a, n)
    OBVIOUS
  <2> QED BY <2>1, <2>2, <2>3 DEF IsPart
<1>6. ASSUME NEW j \in P, NEW i \in Instructions, g[j].child = i \/ g[j].next = i
      PROVE  \E n \in 1..N : /\ n < N /\ n + 1 \in 1..N /\ j = parts[n] /\ i = parts[n + 1]
  <2>1. PICK n \in 1..N : parts[n] = j
    BY <1>2
  <2>2. n < N /\ i = parts[n + 1]
    BY <1>0, <1>5, <1>6, <2>1
  <2>3. n + 1 \in 1..N
    BY <2>2
  <2> QED BY <2>1, <2>2, <2>3
<1>7. ASSUME NEW j \in Instructions, NEW i \in Instructions, g[j].child = i \/ g[j].next = i
      PROVE  j \in P <=> i \in P
  <2>1. j \in P => i \in P
    BY <1>2, <1>6, <1>7
  <2>2. j \notin P => i \notin P
    BY <1>4, <1>7
  <2> QED BY <2>1, <2>2
<1>8. ChildrenKnow(g)
  <2> SUFFICES ASSUME NEW i \in Instructions, NEW j \in Instructions, g[j].child = i
               PROVE  g[i].parent = j
    BY DEF ChildrenKnow
  <2>1. CASE j \notin P
    BY <1>0, <1>4, <1>7, <2>1 DEF ChildrenKnow
  <2>2. CASE j \in P
    <3>1. PICK n \in 1..N : n < N /\ n + 1 \in 1..N /\ j = parts[n] /\ i = parts[n + 1]
      BY <1>6, <2>2
    <3>2. IsPart(g, shape, parts, N, a, n) /\ IsPart(g, shape, parts, N, a, n + 1)
      BY <3>1
    <3>3. shape = "chain" \/ (shape = "bundles" /\ n = 1)
      BY <1>0, <3>1, <3>2 DEF IsPart
    <3>4. (n + 1) - 1 = n /\ n + 1 > 1
      OBVIOUS
    <3> QED BY <3>1, <3>2, <3>3, <3>4 DEF IsPart
  <2> QED BY <2>1, <2>2
<1>9. Siblings(g)
  <2> SUFFICES ASSUME NEW i \in Instructions, NEW j \in Instructions, g[j].next = i
               PROVE  g[i].parent = g[j].parent
    BY DEF Siblings
  <2>1. CASE j \notin P
    BY <1>0, <1>4, <1>7, <2>1 DEF Siblings
  <2>2. CASE j \in P
    <3>1. PICK n \in 1..N : n < N /\ n + 1 \in 1..N /\ j = parts[n] /\ i = parts[n + 1]
      BY <1>6, <2>2
    <3>2. IsPart(g, shape, parts, N, a, n) /\ IsPart(g, shape, parts, N, a, n + 1)
      BY <3>1
    <3>3. shape = "slots" \/ (shape = "bundles" /\ n > 1)
      BY <1>0, <3>1, <3>2 DEF IsPart
    <3>4. n + 1 > 1
      OBVIOUS
    <3> QED BY <3>1, <3>2, <3>3, <3>4 DEF IsPart
  <2> QED BY <2>1, <2>2
<1>10. Reached(g)
  <2> SUFFICES ASSUME NEW i \in Instructions, NEW p \in Instructions, g[i].parent = p
               PROVE  /\ g[p].child # Null
                      /\ \A X \in SUBSET Instructions :
                           g[p].child \in X /\ NextClosed(g, X) => i \in X
    BY DEF Reached
  <2>1. CASE i \notin P
    <3>1. p \notin P /\ g[p] = h[p] /\ h[i].parent = p
      BY <1>4, <2>1
    <3>2. h[p].child # Null
      BY <1>0, <3>1 DEF Reached
    <3>3. ASSUME NEW X \in SUBSET Instructions, NextClosed(g, X) PROVE NextClosed(h, X)
      <4>1. ASSUME NEW j \in X, NEW k \in Instructions, h[j].next = k PROVE k \in X
        <5>1. j \notin P
          BY <1>0, <1>3, <4>1 DEF Free
        <5>2. g[j].next = k
          BY <1>4, <4>1, <5>1
        <5> QED BY <3>3, <5>2 DEF NextClosed
      <4> QED BY <4>1 DEF NextClosed
    <3> QED BY <1>0, <3>1, <3>2, <3>3 DEF Reached
  <2>2. CASE i \in P
    <3>1. PICK n \in 1..N : parts[n] = i
      BY <1>2, <2>2
    <3>2. IsPart(g, shape, parts, N, a, n)
      OBVIOUS
    <3>3. shape # "slots" /\ n > 1
      BY <1>0, <3>1, <3>2 DEF IsPart
    <3>4. CASE shape = "chain"
      <4>1. p = parts[n - 1] /\ n - 1 \in 1..N /\ n - 1 < N /\ (n - 1) + 1 = n
        BY <3>1, <3>2, <3>3, <3>4 DEF IsPart
      <4>2. IsPart(g, shape, parts, N, a, n - 1)
        BY <4>1
      <4>3. g[p].child = i
        BY <3>1, <3>4, <4>1, <4>2 DEF IsPart
      <4> QED BY <1>0, <4>3
    <3>5. CASE shape = "bundles"
      <4>1. p = parts[1] /\ 1 \in 1..N /\ 2 \in 1..N /\ 1 < N
        BY <3>1, <3>2, <3>3, <3>5 DEF IsPart
      <4>2. g[p].child = parts[2]
        BY <3>5, <4>1 DEF IsPart
      <4>3. ASSUME NEW X \in SUBSET Instructions, parts[2] \in X, NextClosed(g, X), i \notin X
            PROVE  FALSE
        <5> DEFINE Out == {m \in 2..N : parts[m] \notin X}
        <5>1. Out \in SUBSET Nat /\ n \in Out
          BY <3>1, <3>3, <4>3
        <5>2. PICK m \in Out : \A k \in Out : m <= k
          <6> HIDE DEF Out
          <6> QED BY <5>1, Least
        <5>3. m # 2 /\ m \in 2..N /\ parts[m] \notin X
          BY <4>3
        <5>4. m - 1 \in 2..N /\ ~(m <= m - 1) /\ (m - 1) + 1 = m /\ m - 1 < N /\ m - 1 > 1
          BY <5>3
        <5>5. parts[m - 1] \in X
          BY <5>2, <5>4
        <5>6. m - 1 \in 1..N
          BY <5>4
        <5>7. g[parts[m - 1]].next = parts[m]
          BY <3>5, <5>4, <5>6 DEF IsPart
        <5> QED BY <4>3, <5>3, <5>5, <5>7 DEF NextClosed
      <4> QED BY <1>0, <4>1, <4>2, <4>3
    <3> QED BY <3>3, <3>4, <3>5
  <2> QED BY <2>1, <2>2
<1>11. ChildrenLeft(g, b, hd)
  <2> SUFFICES ASSUME NEW i \in Instructions
               PROVE  /\ Cached(b, i) => g[i].parent = Null
                      /\ Bundled(g, i) => hd[i] = 0
    BY DEF ChildrenLeft
  <2>1. CASE i \in P
    <3>1. Cached(b, i) => i = parts[1]
      BY <1>3, <2>1
    <3>2. 1 \in 1..N
      OBVIOUS
    <3>3. IsPart(g, shape, parts, N, a, 1)
      BY <3>2
    <3> QED BY <1>3, <2>1, <3>1, <3>3 DEF IsPart
  <2>2. CASE i \notin P
    <3>1. Cached(b, i) => Cached(c, i)
      BY <1>2, <2>2
    <3>2. \A j \in Instructions : g[j].next = i => h[j].next = i
      BY <1>4, <1>7, <2>2
    <3> QED BY <1>0, <1>4, <2>2, <3>1, <3>2 DEF ChildrenLeft, Bundled
  <2> QED BY <2>1, <2>2
<1> QED BY <1>8, <1>9, <1>10, <1>11 DEF Family, g

(* After a decode, the Instruction that was in the entry is released.      *)
LEMMA MadeHeap ==
  ASSUME NEW h, NEW c, NEW hd, Heap(h, c, hd, {}),
         NEW shape \in {"slots", "chain", "bundles"}, NEW a \in Nat, NEW x \in Entries,
         NEW N \in Nat \ {0}, NEW parts \in [1..N -> Instructions], IsInjective(parts),
         \A n \in 1..N : h[parts[n]].ref = 0
  PROVE  Released(Made(h, shape, parts, a), [c EXCEPT ![x] = parts[1]], hd, {c[x]} \ {Null})
<1> DEFINE g == Made(h, shape, parts, a)
           b == [c EXCEPT ![x] = parts[1]]
           P == Range(parts)
           S == {c[x]} \ {Null}
<1>1. Typed(h, c, hd) /\ OneOwner(h) /\ Family(h, c, hd) /\ OneEntry(c) /\ Counted(h, c, hd)
  BY DEF Heap
<1>2. \A y, z \in 1..N : parts[y] = parts[z] => y = z
  BY DEF IsInjective
<1>3. P \subseteq Instructions /\ \A i \in P : \E n \in 1..N : parts[n] = i
  BY DEF Range
<1>4. \A n \in 1..N : parts[n] \in P
  BY DEF Range
<1>5. g = [i \in Instructions |-> g[i]] /\ \A i \in Instructions \ P : g[i] = h[i]
  BY DEF Made
<1>6. ASSUME NEW n \in 1..N
      PROVE  IsPart(g, shape, parts, N, a, n)
  BY MadeParts
<1> HIDE DEF g, P
<1>7. ASSUME NEW i \in P
      PROVE  /\ hd[i] = 0 /\ ~Cached(c, i) /\ ~HasOwner(h, i) /\ h[i] = Free /\ Owned(h, i) = {}
  <2>1. i \in Instructions /\ h[i].ref = 0
    BY <1>3
  <2> QED BY <2>1, DeadUnused
<1>8. ASSUME NEW j \in Instructions \ P
      PROVE  Owned(g, j) = Owned(h, j) /\ Owned(h, j) \cap P = {}
  <2>1. Owned(g, j) = Owned(h, j)
    BY <1>5 DEF Owned
  <2>2. ASSUME NEW i \in P PROVE i \notin Owned(h, j)
    BY <1>3, <1>7 DEF HasOwner
  <2> QED BY <2>1, <2>2
<1>9. ASSUME NEW j \in P, NEW i \in Owned(g, j)
      PROVE  \E n \in 1..N : n < N /\ j = parts[n] /\ i = parts[n + 1] /\ n + 1 \in 1..N
  <2>1. PICK n \in 1..N : parts[n] = j
    BY <1>3
  <2>2. n < N
    BY <1>6, <1>9, <2>1 DEF IsPart
  <2>3. i = parts[n + 1]
    BY <1>6, <1>9, <2>1, <2>2 DEF IsPart
  <2>4. n + 1 \in 1..N
    BY <2>2
  <2> QED BY <2>1, <2>2, <2>3, <2>4
<1>10. Typed(g, b, hd)
  <2>1. ASSUME NEW i \in Instructions PROVE g[i] \in Objects
    BY <1>1, <1>3, <1>5, <1>6 DEF Typed, IsPart
  <2>2. parts[1] \in Pointers
    BY DEF Pointers
  <2>3. g \in [Instructions -> Objects]
    BY <1>5, <2>1
  <2>4. b \in [Entries -> Pointers]
    BY <1>1, <2>2 DEF Typed
  <2> QED BY <1>1, <2>3, <2>4 DEF Typed
<1>11. OneOwner(g)
  <2> SUFFICES ASSUME NEW i \in Instructions, NEW j \in Instructions, NEW k \in Instructions,
                      i \in Owned(g, j), i \in Owned(g, k)
               PROVE  j = k
    BY DEF OneOwner
  <2>1. CASE j \in P /\ k \in P
    <3>1. PICK n \in 1..N : n < N /\ j = parts[n] /\ i = parts[n + 1] /\ n + 1 \in 1..N
      BY <1>9, <2>1
    <3>2. PICK m \in 1..N : m < N /\ k = parts[m] /\ i = parts[m + 1] /\ m + 1 \in 1..N
      BY <1>9, <2>1
    <3>3. n + 1 = m + 1
      BY <1>2, <3>1, <3>2
    <3>4. n = m
      BY <3>3
    <3> QED BY <3>1, <3>2, <3>4
  <2>2. CASE j \notin P /\ k \notin P
    BY <1>1, <1>8, <2>2 DEF OneOwner
  <2>3. (j \in P => i \in P) /\ (k \in P => i \in P)
    BY <1>4, <1>9
  <2>4. (j \notin P => i \notin P) /\ (k \notin P => i \notin P)
    BY <1>8
  <2> QED BY <2>1, <2>2, <2>3, <2>4
<1>12. \A i \in Instructions : Cached(b, i) => i = parts[1] \/ Cached(c, i)
  BY <1>1 DEF Cached, Typed
<1>13. c \in [Entries -> Pointers] /\ b[x] = parts[1] /\ \A e \in Entries \ {x} : b[e] = c[e]
  BY <1>1 DEF Typed
<1>14. parts[1] \in P /\ parts[1] # Null
  BY <1>3, <1>4, CacheAssumption
<1> HIDE DEF b
<1>15. OneEntry(b)
  <2>1. ASSUME NEW e \in Entries PROVE c[e] # parts[1]
    BY <1>7, <1>14 DEF Cached
  <2> QED BY <1>1, <1>13, <2>1 DEF OneEntry
<1>16. ASSUME NEW i \in Instructions \ P
       PROVE  /\ i \in S => Cached(c, i) /\ ~Cached(b, i)
              /\ i \notin S => (Cached(c, i) <=> Cached(b, i))
              /\ HasOwner(g, i) <=> HasOwner(h, i)
              /\ g[i] = h[i]
  <2>0. i # Null
    BY CacheAssumption
  <2>1. i \in S => Cached(c, i) /\ ~Cached(b, i)
    <3> SUFFICES ASSUME i = c[x] PROVE Cached(c, i) /\ ~Cached(b, i)
      OBVIOUS
    <3> QED BY <1>1, <1>13, <1>14, <2>0 DEF Cached, OneEntry
  <2>2. i \notin S => (Cached(c, i) <=> Cached(b, i))
    <3> SUFFICES ASSUME i # c[x] PROVE Cached(c, i) <=> Cached(b, i)
      BY <2>0
    <3> QED BY <1>13, <1>14 DEF Cached
  <2>3. HasOwner(h, i) => HasOwner(g, i)
    BY <1>7, <1>8 DEF HasOwner
  <2>4. HasOwner(g, i) => HasOwner(h, i)
    BY <1>4, <1>8, <1>9 DEF HasOwner
  <2> QED BY <1>5, <2>1, <2>2, <2>3, <2>4
<1>17. ASSUME NEW i \in P
       PROVE  i \notin S /\ g[i].ref = hd[i] + Bit(Cached(b, i)) + Bit(HasOwner(g, i)) /\ g[i].ref = 1
  <2>1. PICK n \in 1..N : i = parts[n]
    BY <1>3
  <2>2. i \notin S
    BY <1>7, <1>17 DEF Cached
  <2>3. g[i].ref = 1 /\ hd[i] = 0 /\ \A e \in Entries : c[e] # i
    BY <1>6, <1>7, <2>1 DEF Cached, IsPart
  <2>4. Cached(b, i) <=> n = 1
    BY <1>2, <1>13, <2>1, <2>3 DEF Cached
  <2>5. HasOwner(g, i) <=> n > 1
    <3>1. ASSUME n > 1 PROVE HasOwner(g, i)
      <4>1. n - 1 \in 1..N /\ n - 1 < N /\ (n - 1) + 1 = n
        BY <3>1
      <4>2. Owned(g, parts[n - 1]) = {i}
        BY <1>6, <2>1, <4>1 DEF IsPart
      <4> QED BY <1>3, <1>4, <4>1, <4>2 DEF HasOwner
    <3>2. ASSUME HasOwner(g, i) PROVE n > 1
      <4>1. PICK j \in Instructions : i \in Owned(g, j)
        BY <3>2 DEF HasOwner
      <4>2. j \in P
        BY <1>8, <1>17, <4>1
      <4>3. PICK m \in 1..N : i = parts[m + 1] /\ m + 1 \in 1..N
        BY <1>9, <4>1, <4>2
      <4>4. n = m + 1
        BY <1>2, <2>1, <4>3
      <4> QED BY <4>4
    <3> QED BY <3>1, <3>2
  <2>6. n = 1 \/ n > 1
    OBVIOUS
  <2> QED BY <2>2, <2>3, <2>4, <2>5, <2>6 DEF Bit
<1>18. ASSUME NEW i \in Instructions
       PROVE  /\ i \in S => g[i].ref = hd[i] + Bit(Cached(b, i)) + Bit(HasOwner(g, i)) + 1
              /\ i \notin S => g[i].ref = hd[i] + Bit(Cached(b, i)) + Bit(HasOwner(g, i))
              /\ g[i].ref = 0 => g[i] = Free
  <2>1. CASE i \in P
    BY <1>17, <2>1
  <2>2. CASE i \notin P
    <3>1. h[i].ref = hd[i] + Bit(Cached(c, i)) + Bit(HasOwner(h, i)) /\ hd[i] \in Nat
      BY <1>1 DEF Counted, Typed
    <3>2. g[i] = h[i] /\ (g[i].ref = 0 => g[i] = Free)
      BY <1>16, <2>2 DEF Heap
    <3>3. CASE i \in S
      BY <1>16, <2>2, <3>1, <3>2, <3>3 DEF Bit
    <3>4. CASE i \notin S
      BY <1>16, <2>2, <3>1, <3>2, <3>4 DEF Bit
    <3> QED BY <3>2, <3>3, <3>4
  <2> QED BY <2>1, <2>2
<1>19. Family(g, b, hd)
  BY <1>12, MadeFamily DEF g
<1> QED BY <1>1, <1>10, <1>11, <1>15, <1>18, <1>19 DEF Released, b, g

-----------------------------------------------------------------------------
(* The operations keep the heap.                                           *)

LEMMA IndexTyped ==
  ASSUME NEW a \in Nat
  PROVE  Index(a) \in Entries
<1>1. num_entries_ \in Nat \ {0} /\ address_inc_ \in Nat \ {0}
  BY CacheAssumption
<1>2. a \div address_inc_ \in Nat
  BY <1>1
<1> QED BY <1>1, <1>2 DEF Index, Entries

LEMMA InitHeap ==
  ASSUME Init
  PROVE  HeapInv
<1>1. Free \in Objects
  BY DEF Free, Objects, Pointers
<1>2. \A i \in Instructions : inst[i] = Free /\ held[i] = 0
  BY DEF Init
<1>3. \A i \in Instructions : Owned(inst, i) = {}
  BY <1>2 DEF Owned, Free
<1>4. \A i \in Instructions : ~HasOwner(inst, i) /\ ~Cached(instruction_cache_, i)
  BY <1>3, CacheAssumption DEF HasOwner, Cached, Init
<1>5. Typed(inst, instruction_cache_, held)
  BY <1>1 DEF Init, Typed, Pointers
<1>6. Family(inst, instruction_cache_, held)
  BY <1>2, <1>4, CacheAssumption DEF Family, ChildrenKnow, Siblings, Reached, ChildrenLeft, Free
<1>7. Counted(inst, instruction_cache_, held)
  BY <1>2, <1>4 DEF Counted, Bit, Free
<1> QED BY <1>2, <1>3, <1>5, <1>6, <1>7 DEF HeapInv, Heap, OneOwner, OneEntry, Init

LEMMA RemoveHeap ==
  ASSUME HeapInv, NEW es \in SUBSET Entries, \A e \in es : instruction_cache_[e] # Null,
         NEW as, Remove(es, as)
  PROVE  /\ HeapInv'
         /\ \A e \in es : instruction_cache_'[e] = Null
         /\ \A e \in Entries \ es :
              LET i == instruction_cache_[e] IN
              instruction_cache_'[e] = i /\ (i # Null => inst'[i].address = inst[i].address)
<1> DEFINE c == instruction_cache_
           b == instruction_cache_'
           S == {c[e] : e \in es}
<1>1. /\ Typed(inst, c, held) /\ OneOwner(inst) /\ Family(inst, c, held) /\ OneEntry(c)
      /\ Counted(inst, c, held) /\ \A i \in Instructions : inst[i].ref = 0 => inst[i] = Free
  BY DEF HeapInv, Heap
<1>2. inst' = DecRef(inst, S) /\ held' = held
  BY DEF Remove
<1>3. /\ b = [e \in Entries |-> b[e]]
      /\ \A e \in es : b[e] = Null
      /\ \A e \in Entries \ es : b[e] = c[e]
  BY DEF Remove
<1>4. c \in [Entries -> Pointers]
  BY <1>1 DEF Typed
<1>5. S \in SUBSET Instructions
  BY <1>4 DEF Pointers
<1>6. Typed(inst, b, held)
  <2>1. \A e \in Entries : b[e] \in Pointers
    BY <1>3, <1>4 DEF Pointers
  <2>2. b \in [Entries -> Pointers]
    BY <1>3, <2>1
  <2> QED BY <1>1, <2>2 DEF Typed
<1>7. OneEntry(b)
  BY <1>1, <1>3 DEF OneEntry
<1>8. ASSUME NEW i \in Instructions
      PROVE  /\ i \in S => Cached(c, i) /\ ~Cached(b, i)
             /\ i \notin S => (Cached(c, i) <=> Cached(b, i))
  <2>0. i # Null
    BY CacheAssumption
  <2>1. CASE i \in S
    <3>1. PICK e \in es : c[e] = i
      BY <2>1
    <3>2. \A f \in Entries : c[f] = i => f = e
      BY <1>1, <2>0, <3>1 DEF OneEntry
    <3> QED BY <1>3, <2>0, <2>1, <3>1, <3>2 DEF Cached
  <2>2. CASE i \notin S
    BY <1>3, <2>0, <2>2 DEF Cached
  <2> QED BY <2>1, <2>2
<1>9. ASSUME NEW i \in Instructions
      PROVE  /\ i \in S => inst[i].ref = held[i] + Bit(Cached(b, i)) + Bit(HasOwner(inst, i)) + 1
             /\ i \notin S => inst[i].ref = held[i] + Bit(Cached(b, i)) + Bit(HasOwner(inst, i))
  <2>1. inst[i].ref = held[i] + Bit(Cached(c, i)) + Bit(HasOwner(inst, i)) /\ held[i] \in Nat
    BY <1>1 DEF Counted, Typed
  <2> HIDE DEF S, b
  <2>2. CASE i \in S
    BY <1>8, <2>1, <2>2 DEF Bit
  <2>3. CASE i \notin S
    BY <1>8, <2>1, <2>3 DEF Bit
  <2> QED BY <2>2, <2>3
<1> HIDE DEF S, b
<1>10. Released(inst, b, held, S)
  <2>1. \A i \in Instructions : Cached(b, i) => Cached(c, i)
    BY <1>8
  <2>2. Family(inst, b, held)
    BY <1>1, <2>1 DEF Family, ChildrenLeft
  <2> QED BY <1>1, <1>6, <1>7, <1>9, <2>2 DEF Released
<1>11. LET g == DecRef(inst, S) IN
       /\ Heap(g, b, held, {})
       /\ \A i \in Instructions : Cached(b, i) => g[i].address = inst[i].address
  BY <1>5, <1>10, DecRefHeap
<1>12. Heap(inst', b, held', {})
       /\ \A i \in Instructions : Cached(b, i) => inst'[i].address = inst[i].address
  BY <1>2, <1>11
<1>13. HeapInv'
  BY <1>12 DEF HeapInv, b
<1>14. ASSUME NEW e \in Entries \ es, c[e] # Null
       PROVE  inst'[c[e]].address = inst[c[e]].address
  <2>1. c[e] \in Instructions /\ Cached(b, c[e])
    BY <1>3, <1>4, <1>14 DEF Pointers, Cached
  <2> QED BY <1>12, <2>1
<1> QED BY <1>3, <1>13, <1>14 DEF b

LEMMA MissHeap ==
  ASSUME HeapInv, NEW a \in Addresses, GetDecodedInstruction(a)
  PROVE  /\ HeapInv'
         /\ \E p \in Instructions :
              /\ inst[p].ref = 0
              /\ instruction_cache_'[Index(a)] = p /\ inst'[p].address = a
         /\ \A e \in Entries \ {Index(a)} :
              LET i == instruction_cache_[e] IN
              instruction_cache_'[e] = i /\ (i # Null => inst'[i].address = inst[i].address)
<1> DEFINE c == instruction_cache_
           x == Index(a)
<1>1. PICK shape \in Shapes, parts \in FreshParts :
        /\ inst' = DecRef(Made(inst, shape, parts, a), {c[x]} \ {Null})
        /\ instruction_cache_' = [c EXCEPT ![x] = parts[1]]
  BY DEF GetDecodedInstruction, Made
<1>2. a \in Nat /\ x \in Entries /\ held' = held
  BY CacheAssumption, IndexTyped DEF GetDecodedInstruction
<1>3. Typed(inst, c, held) /\ OneEntry(c) /\ Counted(inst, c, held)
  BY DEF HeapInv, Heap
<1>4. c \in [Entries -> Pointers]
  BY <1>3 DEF Typed
<1>5. PICK N \in Nat \ {0} :
        /\ parts \in [1..N -> Instructions] /\ IsInjective(parts)
        /\ \A n \in 1..N : inst[parts[n]].ref = 0
  <2>1. PICK N \in 1..(MaxParts + 1) : parts \in [1..N -> {i \in Instructions : ~Alive(i)}]
    BY DEF FreshParts
  <2>2. N \in Nat \ {0}
    BY CacheAssumption
  <2>3. IsInjective(parts)
    BY DEF FreshParts
  <2>4. ASSUME NEW n \in 1..N PROVE parts[n] \in Instructions /\ inst[parts[n]].ref = 0
    <3>1. parts[n] \in Instructions /\ ~(inst[parts[n]].ref > 0)
      BY <2>1 DEF Alive
    <3>2. inst[parts[n]].ref \in Nat
      BY <1>3, <3>1 DEF Typed, Objects
    <3> QED BY <3>1, <3>2
  <2> QED BY <2>1, <2>2, <2>3, <2>4
<1> DEFINE m == Made(inst, shape, parts, a)
           b == [c EXCEPT ![x] = parts[1]]
           S == {c[x]} \ {Null}
           p == parts[1]
<1>6. Released(m, b, held, S)
  BY <1>1, <1>2, <1>5, MadeHeap, CacheAssumption DEF HeapInv
<1>7. IsPart(m, shape, parts, N, a, 1)
  <2>1. shape \in {"slots", "chain", "bundles"} /\ 1 \in 1..N
    BY CacheAssumption
  <2> QED BY <1>2, <1>5, <2>1, MadeParts
<1>8. m[p].address = a
  BY <1>7 DEF IsPart
<1>9. S \in SUBSET Instructions /\ p \in Instructions /\ inst[p].ref = 0
  BY <1>2, <1>4, <1>5 DEF Pointers
<1>10. /\ Heap(DecRef(m, S), b, held, {})
       /\ \A i \in Instructions : Cached(b, i) => DecRef(m, S)[i].address = m[i].address
  <2> HIDE DEF m, b, S
  <2> QED BY <1>6, <1>9, DecRefHeap
<1>11. b[x] = p /\ \A e \in Entries \ {x} : b[e] = c[e]
  BY <1>2, <1>4
<1>12. \A i \in Instructions \ Range(parts) : m[i] = inst[i]
  BY DEF Made
<1>13. ASSUME NEW i \in Range(parts) PROVE ~Cached(c, i)
  <2>1. i \in Instructions /\ inst[i].ref = 0
    BY <1>5 DEF Range
  <2> QED BY <2>1, DeadUnused DEF HeapInv
<1>14. inst' = DecRef(m, S) /\ instruction_cache_' = b
  BY <1>1
<1> HIDE DEF m, b, S, p
<1>15. HeapInv'
  BY <1>2, <1>10, <1>14 DEF HeapInv
<1>16. \A i \in Instructions : Cached(b, i) => inst'[i].address = m[i].address
  BY <1>10, <1>14
<1>17. inst'[p].address = a
  BY <1>2, <1>8, <1>9, <1>11, <1>16 DEF Cached
<1>18. ASSUME NEW e \in Entries \ {x}, c[e] # Null PROVE inst'[c[e]].address = inst[c[e]].address
  <2>1. c[e] \in Instructions /\ Cached(b, c[e]) /\ Cached(c, c[e])
    BY <1>4, <1>11, <1>18 DEF Pointers, Cached
  <2>2. m[c[e]] = inst[c[e]]
    BY <1>12, <1>13, <2>1
  <2> QED BY <1>16, <2>1, <2>2
<1> QED BY <1>9, <1>11, <1>14, <1>15, <1>17, <1>18

LEMMA IncRefHeap ==
  ASSUME ~BundlesKept, HeapInv, NEW k \in Instructions, ClientIncRef(k)
  PROVE  /\ HeapInv'
         /\ \A i \in Instructions :
              inst'[i].address = inst[i].address /\ (inst[i].ref > 0 => inst'[i].ref > 0)
<1> DEFINE c == instruction_cache_
<1>1. /\ Typed(inst, c, held) /\ OneOwner(inst) /\ Family(inst, c, held) /\ OneEntry(c)
      /\ Counted(inst, c, held) /\ \A i \in Instructions : inst[i].ref = 0 => inst[i] = Free
  BY DEF HeapInv, Heap
<1>2. c' = c /\ inst' = [inst EXCEPT ![k].ref = @ + 1] /\ held' = [held EXCEPT ![k] = @ + 1]
  BY DEF ClientIncRef
<1>3. ASSUME NEW i \in Instructions
      PROVE  inst[i] \in Objects /\ inst[i].ref \in Nat /\ held[i] \in Nat
  BY <1>1 DEF Typed, Objects
<1>4. ASSUME NEW i \in Instructions, i # k PROVE inst'[i] = inst[i] /\ held'[i] = held[i]
  BY <1>1, <1>2, <1>4 DEF Typed
<1>5. inst'[k] = [inst[k] EXCEPT !.ref = @ + 1] /\ held'[k] = held[k] + 1
  BY <1>1, <1>2 DEF Typed
<1>6. /\ inst'[k] \in Objects /\ inst'[k].ref = inst[k].ref + 1 /\ inst'[k].address = inst[k].address
      /\ inst'[k].child = inst[k].child /\ inst'[k].next = inst[k].next
      /\ inst'[k].parent = inst[k].parent
  BY <1>3, <1>5 DEF Objects
<1>7. ASSUME NEW i \in Instructions
      PROVE  /\ inst'[i] \in Objects /\ inst'[i].address = inst[i].address
             /\ inst'[i].child = inst[i].child /\ inst'[i].next = inst[i].next
             /\ inst'[i].parent = inst[i].parent
  BY <1>3, <1>4, <1>6
<1>8. \A i \in Instructions : Owned(inst', i) = Owned(inst, i)
  BY <1>7 DEF Owned
<1>9. \A i \in Instructions : HasOwner(inst', i) <=> HasOwner(inst, i)
  BY <1>8 DEF HasOwner
<1>10. Typed(inst', c', held')
  <2>0. inst = [i \in Instructions |-> inst[i]]
    BY <1>1 DEF Typed
  <2>1. inst' = [i \in Instructions |-> inst'[i]]
    BY <1>2, <2>0
  <2>2. inst' \in [Instructions -> Objects]
    BY <1>7, <2>1
  <2>3. held[k] + 1 \in Nat
    BY <1>3
  <2>4. held' \in [Instructions -> Nat]
    BY <1>1, <1>2, <2>3 DEF Typed
  <2> QED BY <1>1, <1>2, <2>2, <2>4 DEF Typed
<1>11. OneOwner(inst') /\ Family(inst', c', held') /\ OneEntry(c')
  <2>1. OneOwner(inst')
    BY <1>1, <1>8 DEF OneOwner
  <2>2. Family(inst', c, held)
    BY <1>1, <1>7, SameFamily
  <2>3. \A i \in Instructions : Bundled(inst', i) => held'[i] = held[i]
    <3>1. Bundled(inst', k) <=> Bundled(inst, k)
      BY <1>7 DEF Bundled
    <3> QED BY <1>4, <3>1 DEF ClientIncRef
  <2>4. Family(inst', c', held')
    BY <1>2, <2>2, <2>3 DEF Family, ChildrenLeft
  <2> QED BY <1>1, <1>2, <2>1, <2>4
<1>12. Counted(inst', c', held')
  <2> SUFFICES ASSUME NEW i \in Instructions
               PROVE  inst'[i].ref = held'[i] + Bit(Cached(c, i)) + Bit(HasOwner(inst', i))
    BY <1>2 DEF Counted
  <2>1. /\ HasOwner(inst', i) <=> HasOwner(inst, i)
        /\ inst[i].ref = held[i] + Bit(Cached(c, i)) + Bit(HasOwner(inst, i)) /\ held[i] \in Nat
    BY <1>1, <1>3, <1>9 DEF Counted
  <2>2. CASE i = k
    <3>1. inst'[i].ref = inst[i].ref + 1 /\ held'[i] = held[i] + 1
      BY <1>5, <1>6, <2>2
    <3> QED BY <2>1, <3>1 DEF Bit
  <2>3. CASE i # k
    <3>1. inst'[i] = inst[i] /\ held'[i] = held[i]
      BY <1>4, <2>3
    <3> QED BY <2>1, <3>1 DEF Bit
  <2> QED BY <2>2, <2>3
<1>13. ASSUME NEW i \in Instructions
       PROVE  /\ inst[i].ref > 0 => inst'[i].ref > 0
              /\ inst'[i].ref = 0 => inst'[i] = Free
  <2>1. inst[i].ref \in Nat
    BY <1>3
  <2> QED BY <1>1, <1>4, <1>6, <2>1
<1> QED BY <1>7, <1>10, <1>11, <1>12, <1>13 DEF HeapInv, Heap

LEMMA ClientDecRefHeap ==
  ASSUME HeapInv, NEW k \in Instructions, ClientDecRef(k)
  PROVE  /\ HeapInv' /\ instruction_cache_' = instruction_cache_
         /\ \A i \in Instructions : Cached(instruction_cache_, i) => inst'[i].address = inst[i].address
<1> DEFINE c == instruction_cache_
           hd == [held EXCEPT ![k] = @ - 1]
<1>1. /\ Typed(inst, c, held) /\ OneOwner(inst) /\ Family(inst, c, held) /\ OneEntry(c)
      /\ Counted(inst, c, held) /\ \A i \in Instructions : inst[i].ref = 0 => inst[i] = Free
  BY DEF HeapInv, Heap
<1>2. c' = c /\ held' = hd /\ inst' = DecRef(inst, {k}) /\ held[k] > 0
  BY DEF ClientDecRef
<1>3. held \in [Instructions -> Nat]
  BY <1>1 DEF Typed
<1>4. hd[k] = held[k] - 1 /\ \A i \in Instructions \ {k} : hd[i] = held[i]
  BY <1>3
<1>5. held[k] - 1 \in Nat
  BY <1>2, <1>3
<1>6. Typed(inst, c, hd)
  BY <1>1, <1>3, <1>5 DEF Typed
<1> HIDE DEF hd
<1>7. ASSUME NEW i \in Instructions
      PROVE  /\ i \in {k} => inst[i].ref = hd[i] + Bit(Cached(c, i)) + Bit(HasOwner(inst, i)) + 1
             /\ i \notin {k} => inst[i].ref = hd[i] + Bit(Cached(c, i)) + Bit(HasOwner(inst, i))
  <2>1. inst[i].ref = held[i] + Bit(Cached(c, i)) + Bit(HasOwner(inst, i)) /\ held[i] \in Nat
    BY <1>1 DEF Counted, Typed
  <2>2. CASE i = k
    <3>1. hd[i] = held[i] - 1
      BY <1>4, <2>2
    <3> QED BY <2>1, <2>2, <3>1 DEF Bit
  <2>3. CASE i # k
    BY <1>4, <2>1, <2>3
  <2> QED BY <2>2, <2>3
<1>8. Released(inst, c, hd, {k})
  <2>1. Family(inst, c, hd)
    BY <1>1, <1>2, <1>4 DEF Family, ChildrenLeft
  <2> QED BY <1>1, <1>6, <1>7, <2>1 DEF Released
<1>9. /\ Heap(DecRef(inst, {k}), c, hd, {})
      /\ \A i \in Instructions : Cached(c, i) => DecRef(inst, {k})[i].address = inst[i].address
  BY <1>8, DecRefHeap
<1> QED BY <1>2, <1>9 DEF HeapInv

(* The entries a range covers hold what is in the range.                   *)
LEMMA HitsTyped ==
  ASSUME NEW as \in SUBSET Addresses
  PROVE  LET es == {Index(a) : a \in {b \in as : Hit(b)}} IN
         es \in SUBSET Entries /\ \A e \in es : instruction_cache_[e] # Null
<1>1. ASSUME NEW b \in as, Hit(b)
      PROVE  Index(b) \in Entries /\ instruction_cache_[Index(b)] # Null
  BY <1>1, CacheAssumption, IndexTyped DEF Hit
<1> QED BY <1>1

LEMMA NextHeap ==
  ASSUME ~BundlesKept, HeapInv, [Next]_vars
  PROVE  HeapInv'
<1>1. ASSUME NEW a \in Addresses, GetDecodedInstruction(a) PROVE HeapInv'
  BY <1>1, MissHeap
<1>2. ASSUME NEW a \in Addresses, Invalidate(a) PROVE HeapInv'
  <2> DEFINE es == IF Hit(a) THEN {Index(a)} ELSE {}
  <2>1. es \in SUBSET Entries /\ \A e \in es : instruction_cache_[e] # Null
    BY CacheAssumption, IndexTyped DEF Hit
  <2>2. Remove(es, {a})
    BY <1>2 DEF Invalidate
  <2> HIDE DEF es
  <2> QED BY <2>1, <2>2, RemoveHeap
<1>3. ASSUME NEW start \in RangeStarts, NEW end \in Addresses, InvalidateRange(start, end)
      PROVE  HeapInv'
  <2> DEFINE es == {Index(a) : a \in {b \in Locs(start, end) : Hit(b)}}
  <2>1. Locs(start, end) \in SUBSET Addresses
    BY DEF Locs
  <2>2. es \in SUBSET Entries /\ \A e \in es : instruction_cache_[e] # Null
    BY <2>1, HitsTyped
  <2>3. Remove(es, {a \in Addresses : start <= a /\ a < end})
    BY <1>3 DEF InvalidateRange
  <2> HIDE DEF es
  <2> QED BY <2>2, <2>3, RemoveHeap
<1>4. CASE InvalidateAll
  <2> DEFINE es == {e \in Entries : instruction_cache_[e] # Null}
  <2>1. es \in SUBSET Entries /\ \A e \in es : instruction_cache_[e] # Null
    OBVIOUS
  <2>2. Remove(es, Addresses)
    BY <1>4 DEF InvalidateAll
  <2> HIDE DEF es
  <2> QED BY <2>1, <2>2, RemoveHeap
<1>5. ASSUME NEW i \in Instructions, ClientIncRef(i) PROVE HeapInv'
  BY <1>5, IncRefHeap
<1>6. ASSUME NEW i \in Instructions, ClientDecRef(i) PROVE HeapInv'
  BY <1>6, ClientDecRefHeap
<1>7. CASE UNCHANGED vars
  BY <1>7 DEF vars, HeapInv
<1> QED BY <1>1, <1>2, <1>3, <1>4, <1>5, <1>6, <1>7 DEF Next

-----------------------------------------------------------------------------
(* The operations keep the cache current.                                  *)

(* The start of a range is a multiple of the increment away from what may  *)
(* be decoded behind it: InvalidateRange() steps on it.                    *)
Aligned ==
  \A a \in Addresses \ Undecodable, start \in RangeStarts :
    start <= a => (a - start) % address_inc_ = 0

LEMMA InitCurrent ==
  ASSUME Init
  PROVE  Current
BY DEF Init, Current

LEMMA RemoveCurrent ==
  ASSUME HeapInv, Current, NEW es \in SUBSET Entries,
         \A e \in es : instruction_cache_[e] # Null, NEW as, Remove(es, as),
         \A e \in Entries :
           instruction_cache_[e] # Null /\ inst[instruction_cache_[e]].address \in as => e \in es
  PROVE  Current'
<1>1. /\ \A e \in es : instruction_cache_'[e] = Null
      /\ \A e \in Entries \ es :
           LET i == instruction_cache_[e] IN
           instruction_cache_'[e] = i /\ (i # Null => inst'[i].address = inst[i].address)
  BY RemoveHeap
<1>2. stale' = {i \in Instructions :
                  inst'[i].ref > 0 /\ (i \in stale \/ inst[i].address \in as)}
  BY DEF Remove
<1>3. stale' \subseteq {i \in Instructions : inst'[i].ref > 0}
  BY <1>2
<1>4. ASSUME NEW e \in Entries, instruction_cache_'[e] # Null
      PROVE  LET i == instruction_cache_'[e] IN
             /\ i \notin stale'
             /\ inst'[i].address \in Addresses \ Undecodable /\ Index(inst'[i].address) = e
  <2> DEFINE i == instruction_cache_[e]
  <2>1. e \notin es
    BY <1>1, <1>4
  <2>2. instruction_cache_'[e] = i /\ i # Null /\ inst'[i].address = inst[i].address
    BY <1>1, <1>4, <2>1
  <2>3. /\ i \notin stale /\ inst[i].address \in Addresses \ Undecodable
        /\ Index(inst[i].address) = e
    BY <2>2 DEF Current
  <2>4. i \notin stale'
    BY <1>2, <2>1, <2>2, <2>3
  <2> HIDE DEF i
  <2> QED BY <2>2, <2>3, <2>4
<1> QED BY <1>3, <1>4 DEF Current

LEMMA MissCurrent ==
  ASSUME HeapInv, Current, NEW a \in Addresses, GetDecodedInstruction(a)
  PROVE  Current'
<1> DEFINE x == Index(a)
<1>1. PICK p \in Instructions :
        inst[p].ref = 0 /\ instruction_cache_'[x] = p /\ inst'[p].address = a
  BY MissHeap
<1>2. \A e \in Entries \ {x} :
        LET i == instruction_cache_[e] IN
        instruction_cache_'[e] = i /\ (i # Null => inst'[i].address = inst[i].address)
  BY MissHeap
<1>3. stale' = {i \in stale : inst'[i].ref > 0} /\ a \notin Undecodable
  BY DEF GetDecodedInstruction
<1>4. stale \subseteq {i \in Instructions : inst[i].ref > 0}
  BY DEF Current
<1>5. stale' \subseteq {i \in Instructions : inst'[i].ref > 0}
  BY <1>3, <1>4
<1>6. p \notin stale
  BY <1>1, <1>4
<1> HIDE DEF x
<1>7. ASSUME NEW e \in Entries, instruction_cache_'[e] # Null
      PROVE  LET i == instruction_cache_'[e] IN
             /\ i \notin stale'
             /\ inst'[i].address \in Addresses \ Undecodable /\ Index(inst'[i].address) = e
  <2>1. CASE e = x
    BY <1>1, <1>3, <1>6, <2>1 DEF x
  <2>2. CASE e # x
    <3> DEFINE i == instruction_cache_[e]
    <3>1. instruction_cache_'[e] = i /\ i # Null /\ inst'[i].address = inst[i].address
      BY <1>2, <1>7, <2>2
    <3>2. /\ i \notin stale /\ inst[i].address \in Addresses \ Undecodable
          /\ Index(inst[i].address) = e
      BY <3>1 DEF Current
    <3>3. i \notin stale'
      BY <1>3, <3>2
    <3> HIDE DEF i
    <3> QED BY <3>1, <3>2, <3>3
  <2> QED BY <2>1, <2>2
<1> QED BY <1>5, <1>7 DEF Current

LEMMA ClientsCurrent ==
  ASSUME ~BundlesKept, HeapInv, Current, NEW k \in Instructions, ClientIncRef(k) \/ ClientDecRef(k)
  PROVE  Current'
<1>1. instruction_cache_' = instruction_cache_
  BY DEF ClientIncRef, ClientDecRef
<1>2. \A i \in Instructions : Cached(instruction_cache_, i) => inst'[i].address = inst[i].address
  BY IncRefHeap, ClientDecRefHeap
<1>3. stale' \subseteq stale /\ stale' \subseteq {i \in Instructions : inst'[i].ref > 0}
  <2>1. stale \subseteq {i \in Instructions : inst[i].ref > 0}
    BY DEF Current
  <2>2. CASE ClientIncRef(k)
    BY <2>1, <2>2, IncRefHeap DEF ClientIncRef
  <2>3. CASE ClientDecRef(k)
    BY <2>1, <2>3 DEF ClientDecRef
  <2> QED BY <2>2, <2>3
<1>4. instruction_cache_ \in [Entries -> Pointers]
  BY DEF HeapInv, Heap, Typed
<1>5. ASSUME NEW e \in Entries, instruction_cache_'[e] # Null
      PROVE  LET i == instruction_cache_'[e] IN
             /\ i \notin stale'
             /\ inst'[i].address \in Addresses \ Undecodable /\ Index(inst'[i].address) = e
  <2> DEFINE i == instruction_cache_[e]
  <2>1. instruction_cache_'[e] = i /\ i \in Instructions /\ Cached(instruction_cache_, i)
    BY <1>1, <1>4, <1>5 DEF Pointers, Cached
  <2>2. inst'[i].address = inst[i].address
    BY <1>2, <2>1
  <2>3. /\ i \notin stale /\ inst[i].address \in Addresses \ Undecodable
        /\ Index(inst[i].address) = e
    BY <1>1, <1>5 DEF Current
  <2> HIDE DEF i
  <2> QED BY <1>3, <2>1, <2>2, <2>3
<1> QED BY <1>3, <1>5 DEF Current

LEMMA NextCurrent ==
  ASSUME ~BundlesKept, Aligned, HeapInv, Current, [Next]_vars
  PROVE  Current'
<1>0. ASSUME NEW e \in Entries, instruction_cache_[e] # Null
      PROVE  LET b == inst[instruction_cache_[e]].address IN
             b \in Addresses \ Undecodable /\ Index(b) = e /\ Hit(b)
  BY <1>0 DEF Current, Hit
<1>1. ASSUME NEW a \in Addresses, GetDecodedInstruction(a) PROVE Current'
  BY <1>1, MissCurrent
<1>2. ASSUME NEW a \in Addresses, Invalidate(a) PROVE Current'
  <2> DEFINE es == IF Hit(a) THEN {Index(a)} ELSE {}
  <2>1. es \in SUBSET Entries /\ \A e \in es : instruction_cache_[e] # Null
    BY CacheAssumption, IndexTyped DEF Hit
  <2>2. Remove(es, {a})
    BY <1>2 DEF Invalidate
  <2>3. ASSUME NEW e \in Entries,
               instruction_cache_[e] # Null, inst[instruction_cache_[e]].address \in {a}
        PROVE  e \in es
    BY <1>0, <2>3
  <2> HIDE DEF es
  <2> QED BY <2>1, <2>2, <2>3, RemoveCurrent
<1>3. ASSUME NEW start \in RangeStarts, NEW end \in Addresses, InvalidateRange(start, end)
      PROVE  Current'
  <2> DEFINE as == {a \in Addresses : start <= a /\ a < end}
             es == {Index(a) : a \in {b \in Locs(start, end) : Hit(b)}}
  <2>1. Locs(start, end) \in SUBSET Addresses
    BY DEF Locs
  <2>2. es \in SUBSET Entries /\ \A e \in es : instruction_cache_[e] # Null
    BY <2>1, HitsTyped
  <2>3. Remove(es, as)
    BY <1>3 DEF InvalidateRange
  <2>4. ASSUME NEW e \in Entries,
               instruction_cache_[e] # Null, inst[instruction_cache_[e]].address \in as
        PROVE  e \in es
    <3> DEFINE b == inst[instruction_cache_[e]].address
    <3>1. b \in Addresses \ Undecodable /\ Index(b) = e /\ Hit(b)
      BY <1>0, <2>4
    <3>2. start <= b /\ b < end /\ (b - start) % address_inc_ = 0
      BY <2>4, <3>1 DEF Aligned
    <3> HIDE DEF b
    <3>5. b \in Locs(start, end)
      BY <3>1, <3>2 DEF Locs
    <3> QED BY <3>1, <3>5
  <2> HIDE DEF es, as
  <2> QED BY <2>2, <2>3, <2>4, RemoveCurrent
<1>4. CASE InvalidateAll
  <2> DEFINE es == {e \in Entries : instruction_cache_[e] # Null}
  <2>1. es \in SUBSET Entries /\ \A e \in es : instruction_cache_[e] # Null
    OBVIOUS
  <2>2. Remove(es, Addresses)
    BY <1>4 DEF InvalidateAll
  <2>3. \A e \in Entries : instruction_cache_[e] # Null => e \in es
    OBVIOUS
  <2> HIDE DEF es
  <2> QED BY <2>1, <2>2, <2>3, RemoveCurrent
<1>5. ASSUME NEW i \in Instructions, ClientIncRef(i) \/ ClientDecRef(i) PROVE Current'
  BY <1>5, ClientsCurrent
<1>6. CASE UNCHANGED vars
  BY <1>6 DEF vars, Current
<1> QED BY <1>1, <1>2, <1>3, <1>4, <1>5, <1>6 DEF Next

-----------------------------------------------------------------------------
LEMMA AlwaysHeap ==
  ASSUME ~BundlesKept
  PROVE  Spec => []HeapInv
<1>1. Init => HeapInv
  BY InitHeap
<1>2. HeapInv /\ [Next]_vars => HeapInv'
  BY NextHeap
<1> QED BY <1>1, <1>2, PTL DEF Spec

(* The reference count of an Instruction is the number of cache entries,   *)
(* child_ and next_ pointers and clients that refer to it, after any       *)
(* evictions, invalidations, IncRef()s and DecRef()s (instruction.cc,      *)
(* decode_cache.cc).                                                       *)
THEOREM ExactCounts ==
  ASSUME ~BundlesKept
  PROVE  Spec => []RefCountExact
<1>1. ASSUME HeapInv PROVE RefCountExact
  <2> SUFFICES ASSUME NEW i \in Instructions
               PROVE  inst[i].ref = held[i]
                        + Cardinality({e \in Entries : instruction_cache_[e] = i})
                        + Cardinality({j \in Instructions : Alive(j) /\ i \in Owned(inst, j)})
    BY DEF RefCountExact
  <2> DEFINE E == {e \in Entries : instruction_cache_[e] = i}
             O == {j \in Instructions : Alive(j) /\ i \in Owned(inst, j)}
  <2>1. inst[i].ref = held[i] + Bit(Cached(instruction_cache_, i)) + Bit(HasOwner(inst, i))
    BY <1>1 DEF HeapInv, Heap, Counted
  <2>2. OneOwner(inst) /\ OneEntry(instruction_cache_) /\ inst \in [Instructions -> Objects]
    BY <1>1 DEF HeapInv, Heap, Typed
  <2>3. i # Null
    BY CacheAssumption
  <2>4. O = OwnersIn(inst, Instructions, i)
    <3>1. ASSUME NEW j \in Instructions, i \in Owned(inst, j) PROVE Alive(j)
      <4>1. inst[j].ref \in Nat
        BY <2>2 DEF Objects
      <4>2. inst[j].ref # 0
        BY <1>1, <3>1, DeadUnused DEF HeapInv
      <4> QED BY <4>1, <4>2 DEF Alive
    <3> QED BY <3>1 DEF OwnersIn
  <2>5. Cardinality(O) = Bit(HasOwner(inst, i))
    <3>1. Instructions \in SUBSET Instructions
      OBVIOUS
    <3>2. Cardinality(O) = IF \E j \in Instructions : i \in Owned(inst, j) THEN 1 ELSE 0
      BY <2>2, <2>4, <3>1, FewOwners
    <3> QED BY <3>2 DEF Bit, HasOwner
  <2>6. Cardinality(E) = Bit(Cached(instruction_cache_, i))
    <3>1. CASE Cached(instruction_cache_, i)
      <4>1. PICK e \in Entries : instruction_cache_[e] = i
        BY <3>1 DEF Cached
      <4>2. E = {e}
        BY <2>2, <2>3, <4>1 DEF OneEntry
      <4> QED BY <3>1, <4>2, FS_Singleton DEF Bit
    <3>2. CASE ~Cached(instruction_cache_, i)
      <4>1. E = {}
        BY <3>2 DEF Cached
      <4> QED BY <3>2, <4>1, FS_EmptySet DEF Bit
    <3> QED BY <3>1, <3>2
  <2> HIDE DEF E, O
  <2>7. inst[i].ref = held[i] + Cardinality(E) + Cardinality(O)
    BY <2>1, <2>5, <2>6
  <2> QED BY <2>7 DEF E, O
<1>2. HeapInv => RefCountExact
  BY <1>1
<1> QED BY <1>2, AlwaysHeap, PTL

(* Unless a client keeps one of several bundles, parent_ of an Instruction *)
(* points to a live Instruction that has it in its child list:             *)
(* ~Instruction() may follow it (instruction.cc).                          *)
THEOREM Parents ==
  ASSUME ~BundlesKept
  PROVE  Spec => []ParentsValid
<1>1. ASSUME HeapInv PROVE ParentsValid
  <2> SUFFICES ASSUME NEW i \in Instructions, inst[i].parent # Null
               PROVE  LET p == inst[i].parent IN
                      /\ Alive(p)
                      /\ \/ inst[p].child = i
                         \/ \E j \in Instructions : inst[j].next = i /\ inst[j].parent = p
    BY DEF ParentsValid
  <2> DEFINE p == inst[i].parent
  <2>1. inst \in [Instructions -> Objects] /\ Siblings(inst) /\ Reached(inst)
    BY <1>1 DEF HeapInv, Heap, Typed, Family
  <2>2. p \in Instructions /\ inst[p].child \in Pointers /\ inst[p].ref \in Nat
    BY <2>1 DEF Objects, Pointers
  <2>3. /\ inst[p].child # Null
        /\ inst[p].child = i \/ \E j \in Instructions : inst[j].next = i /\ inst[j].parent = p
    BY <2>1, <2>2, ChildPlace
  <2>4. inst[p].ref # 0
    BY <1>1, <2>2, <2>3 DEF HeapInv, Heap, Free
  <2>5. Alive(p)
    BY <2>2, <2>4 DEF Alive
  <2> QED BY <2>3, <2>5
<1>2. HeapInv => ParentsValid
  BY <1>1
<1> QED BY <1>2, AlwaysHeap, PTL

(* If InvalidateRange() is called with a start from which its steps reach  *)
(* the instructions in the range, what GetDecodedInstruction() finds in    *)
(* the cache was decoded after the last Invalidate(), InvalidateRange() or *)
(* InvalidateAll() of its address (decode_cache.cc).                       *)
THEOREM Fresh ==
  ASSUME ~BundlesKept, Aligned
  PROVE  Spec => []NeverStale
<1>1. Init => HeapInv /\ Current
  BY InitHeap, InitCurrent
<1>2. HeapInv /\ Current /\ [Next]_vars => (HeapInv /\ Current)'
  BY NextHeap, NextCurrent
<1>3. ASSUME Current PROVE NeverStale
  <2>1. \A a \in Addresses : Index(a) \in Entries
    BY CacheAssumption, IndexTyped
  <2> QED BY <1>3, <2>1 DEF Current, NeverStale, Hit
<1>4. HeapInv /\ Current => NeverStale
  BY <1>3
<1> QED BY <1>1, <1>2, <1>4, PTL DEF Spec
=============================================================================
