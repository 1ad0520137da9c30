------------------------ MODULE SingleInitiatorRouter ------------------------
(***************************************************************************)
(* SingleInitiatorRouter (mpact/sim/util/memory/single_initiator_router.cc)*)
(* in front of an AtomicTaggedMemory, the TaggedFlatDemandMemory below it  *)
(* and a device: the addresses of an access choose its target.             *)
(*                                                                         *)
(* Each of the three interfaces has a map from disjoint ranges to targets  *)
(* and a default.  Loads have no action: what the router does with them is *)
(* RouteLoad and RouteVectorLoad, and the memories do not change.          *)
(***************************************************************************)
EXTENDS TaggedMemory

CONSTANTS Ranges,      \* bound: the ranges [base, top] targets are added with
          Sizes,       \* bound: the sizes of scalar accesses
          Vectors,     \* bound: the vector accesses [addresses, mask, el_size]
          MaxTargets   \* bound: ranges and defaults added in all

(* "address_db->size<uint64_t>)() is either 1 or N, mask_db->size<bool>()  *)
(* is N" (memory_interface.h).                                             *)
ASSUME RouterAssumption ==
  /\ Ranges \subseteq [base : Nat, top : Nat]
  /\ Sizes \subseteq Nat \ {0}
  /\ Vectors \subseteq [addresses : Seq(Nat), mask : Seq(BOOLEAN) \ {<< >>}, el_size : Nat \ {0}]
  /\ \A v \in Vectors : Len(v.addresses) \in {1, Len(v.mask)}
  /\ MaxTargets \in Nat

Interfaces == {"memory", "tagged", "atomic"}

(* What a target supports: the atomic memory everything, the memory below  *)
(* it tagged accesses, the device plain ones.                              *)
Supports == [memory |-> {"atomic_tagged", "device"},
             tagged |-> {"atomic_tagged", "flat_tagged"},
             atomic |-> {"atomic_tagged"}]

NoTarget == "none"

VARIABLES targets,         \* the three maps: sets of [base, top, target]
          default_target   \* the three defaults

vars == <<memVars, targets, default_target>>
mapVars == <<targets, default_target>>

Init ==
  /\ MemInit
  /\ targets = [i \in Interfaces |-> {}]
  /\ default_target = [i \in Interfaces |-> NoTarget]

-----------------------------------------------------------------------------
(* The map's order puts ranges that overlap on a par, so find() returns a  *)
(* range that overlaps lo .. hi, the lowest.                               *)
Overlapping(i, lo, hi) == {r \in targets[i] : r.top >= lo /\ r.base <= hi}

Lowest(ranges) == CHOOSE r \in ranges : \A s \in ranges : r.base <= s.base

Added ==
  Cardinality(UNION {{i} \X targets[i] : i \in Interfaces})
    + Cardinality({i \in Interfaces : default_target[i] # NoTarget})

AddTargetUnchecked(i, range, t) ==
  /\ Added < MaxTargets
  /\ range.base < range.top
  /\ targets' = [targets EXCEPT ![i] = @ \cup {[base |-> range.base, top |-> range.top, target |-> t]}]
  /\ UNCHANGED <<memVars, default_target>>

(* AddTarget(): a range that overlaps another is refused, or ignored if it *)
(* is the same range.                                                      *)
AddTarget(i, range, t) ==
  /\ Added < MaxTargets
  /\ range.base < range.top
  /\ Overlapping(i, range.base, range.top) = {}
  /\ targets' = [targets EXCEPT ![i] = @ \cup {[base |-> range.base, top |-> range.top, target |-> t]}]
  /\ UNCHANGED <<memVars, default_target>>

(* AddDefaultTarget(): one default for an interface, until it is withdrawn *)
(* (by adding a null pointer).                                             *)
AddDefaultTarget(i, t) ==
  /\ t # NoTarget => default_target[i] = NoTarget /\ Added < MaxTargets
  /\ default_target' = [default_target EXCEPT ![i] = t]
  /\ UNCHANGED <<memVars, targets>>

-----------------------------------------------------------------------------
(* What a look-up of lo .. hi gives an access that needs lo .. last: the   *)
(* target of the range found, if it holds all of the access; the default,  *)
(* only if there was no match.                                             *)
LookupLoose(i, lo, hi, last) ==
  LET found == Overlapping(i, lo, hi)
      r == Lowest(found)
  IN  IF found = {} THEN default_target[i]
      ELSE IF r.base <= lo THEN r.target ELSE NoTarget

Lookup(i, lo, hi, last) ==
  LET found == Overlapping(i, lo, hi)
      r == Lowest(found)
  IN  IF found = {} THEN default_target[i]
      ELSE IF r.base <= lo /\ r.top >= last THEN r.target ELSE NoTarget

OrElse(first, second) == IF first # NoTarget THEN first ELSE second

RouteLoad(a, n) ==
  OrElse(Lookup("memory", a, a + n - 1, a + n - 1), Lookup("tagged", a, a, a + n - 1))

(* Store() looks up one byte more than Load() does.                        *)
RouteStore(a, n) ==
  OrElse(Lookup("memory", a, a + n, a + n - 1), Lookup("tagged", a, a, a + n - 1))

RouteTagged(a, n) == Lookup("tagged", a, a + n - 1, a + n - 1)

RouteAtomic(a, n) == Lookup("atomic", a, a + n - 1, a + n - 1)

(* A vector access: the addresses that are not masked off are looked up in *)
(* order, until one has no target.  The targets seen are none, one, or     *)
(* several, in which case the access is dropped.                           *)
VectorTargets(i, v, reach) ==
  LET enabled == {k \in DOMAIN v.addresses : v.mask[k]}
      home(k) == Lookup(i, v.addresses[k], v.addresses[k] + reach, v.addresses[k] + reach)
  IN  {home(k) : k \in {k \in enabled : \A j \in enabled : j <= k => home(j) # NoTarget}}

RouteVector(v, tagged_reach) ==
  LET seen == VectorTargets("memory", v, v.el_size - 1)
      tagged_seen == VectorTargets("tagged", v, tagged_reach)
      only(S) == IF Cardinality(S) = 1 THEN CHOOSE t \in S : TRUE ELSE NoTarget
  IN  IF seen # {} THEN only(seen) ELSE only(tagged_seen)

RouteVectorLoad(v) == RouteVector(v, v.el_size - 1)

(* In the tagged map the store takes each element for a byte longer.       *)
RouteVectorStore(v) == RouteVector(v, v.el_size)

-----------------------------------------------------------------------------
(* The stores, as far as the memories: what reaches the device, or no      *)
(* target, changes nothing here.                                           *)
Elsewhere(t) == t \in {"device", NoTarget} /\ UNCHANGED memVars

Store(a, n) ==
  LET t == RouteStore(a, n) IN
  /\ \/ t = "atomic_tagged" /\ StoreAtomic(a, n)
     \/ t = "flat_tagged" /\ StoreDirect(a, n)
     \/ Elsewhere(t)
  /\ UNCHANGED mapVars

VectorStore(v) ==
  LET t == RouteVectorStore(v) IN
  /\ \/ t = "atomic_tagged" /\ VectorStoreAtomic(v)
     \/ t = "flat_tagged" /\ VectorStoreDirect(v)
     \/ Elsewhere(t)
  /\ UNCHANGED mapVars

TaggedStore(a, n, set) ==
  LET t == RouteTagged(a, n) IN
  /\ \/ t = "atomic_tagged" /\ TaggedStoreAtomic(a, n, set)
     \/ t = "flat_tagged" /\ TaggedStoreDirect(a, n, set)
     \/ Elsewhere(t)
  /\ UNCHANGED mapVars

PerformMemoryOp(a, n) ==
  LET t == RouteAtomic(a, n) IN
  /\ \/ t = "atomic_tagged" /\ LoadLinked(a)
     \/ t = "atomic_tagged" /\ StoreConditional(a, n)
     \/ t = "atomic_tagged" /\ StoreConditionalFails(a)
     \/ t = "atomic_tagged" /\ ReadModifyWrite(a, n)
     \/ Elsewhere(t)
  /\ UNCHANGED mapVars

InMemory(a, n) == a + n - 1 \in Addresses

Next ==
  \/ \E i \in Interfaces, range \in Ranges : \E t \in Supports[i] : AddTarget(i, range, t)
  \/ \E i \in Interfaces : \E t \in Supports[i] \cup {NoTarget} : AddDefaultTarget(i, t)
  \/ \E a \in Addresses, n \in Sizes : InMemory(a, n) /\ Store(a, n)
  \/ \E v \in Vectors : VectorStore(v)
  \/ \E a \in Addresses, n \in Sizes, set \in BOOLEAN : InMemory(a, n) /\ TaggedStore(a, n, set)
  \/ \E a \in Addresses, n \in Sizes : InMemory(a, n) /\ PerformMemoryOp(a, n)

Spec == Init /\ [][Next]_vars

-----------------------------------------------------------------------------
(* The ranges of an interface never overlap, so the map's order is one:    *)
(* find() depends on it, AddTarget() keeps it.                             *)
RangesDisjoint ==
  \A i \in Interfaces : \A r, s \in targets[i] : r # s => r.top < s.base \/ s.top < r.base

Holds(i, t, a, n) ==
  \E r \in targets[i] : r.target = t /\ Bytes(a, n) \subseteq r.base .. r.top

Claimed(i, a) == \E r \in targets[i] : a \in r.base .. r.top

Unclaimed(i, t, bytes) == default_target[i] = t /\ \A b \in bytes : ~Claimed(i, b)

(* A scalar access reaches only a target that has all of its bytes in one  *)
(* range, or a default none of whose interface's ranges has any of them    *)
(* ("Only use default if there was no match"); but the tagged default gets *)
(* plain accesses of which only the first byte is free.                    *)
ScalarsCovered ==
  \A a \in Addresses, n \in Sizes :
    /\ \A t \in {RouteLoad(a, n), RouteStore(a, n)} \ {NoTarget} :
         \/ Holds("memory", t, a, n) \/ Unclaimed("memory", t, Bytes(a, n))
         \/ Holds("tagged", t, a, n) \/ Unclaimed("tagged", t, {a})
    /\ LET t == RouteTagged(a, n)
       IN  t # NoTarget => Holds("tagged", t, a, n) \/ Unclaimed("tagged", t, Bytes(a, n))
    /\ LET t == RouteAtomic(a, n)
       IN  t # NoTarget => Holds("atomic", t, a, n) \/ Unclaimed("atomic", t, Bytes(a, n))

(* A gather or scatter each of whose enabled elements has a plain target   *)
(* goes where its elements would have gone one by one, and nowhere when    *)
(* they would have parted ("Vector memory loads will not be split across   *)
(* multiple targets").                                                     *)
VectorsUnsplit ==
  \A v \in Vectors :
    LET homes == {Lookup("memory", a, a + v.el_size - 1, a + v.el_size - 1) : a \in EnabledAddresses(v)}
    IN  homes # {} /\ NoTarget \notin homes =>
          \A t \in {RouteVectorLoad(v), RouteVectorStore(v)} :
            t = IF Cardinality(homes) = 1 THEN CHOOSE h \in homes : TRUE ELSE NoTarget

(* An access reaches the one target that has all it touches, as a whole.   *)
DeliveryCovered == ScalarsCovered /\ VectorsUnsplit
=============================================================================
