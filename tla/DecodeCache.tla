---------------------------- MODULE DecodeCache ----------------------------
(***************************************************************************)
(* The direct-mapped DecodeCache (decode_cache.h/.cc) and the reference    *)
(* counted Instruction objects in it (instruction.h/.cc, ref_count.h).     *)
(*                                                                         *)
(* A decoder returns an Instruction with the others it is made of linked   *)
(* to it, in one of the shapes the generated decoders build: slots in a    *)
(* next_ list, the parts of one slot in a chain of child_ pointers, or     *)
(* bundles in a child list.  child_ and next_ own a reference; parent_     *)
(* points back and owns none.                                              *)
(* Clients (a load in flight, a profiler) keep Instructions of their own   *)
(* with IncRef() and drop them with DecRef().  BundlesKept says whether    *)
(* they keep one of several bundles apart from the Instruction it is in.   *)
(*                                                                         *)
(* stale is a history variable: the Instructions decoded before the last   *)
(* invalidation of their address.                                          *)
(***************************************************************************)
EXTENDS Integers, Sequences, FiniteSets, Functions

CONSTANTS Instructions,        \* addresses of Instruction objects
          Null,
          Addresses,           \* program addresses
          Undecodable,         \* those at which the decoder returns nullptr
          num_entries_,        \* a power of two
          address_inc_,        \* minimum_pc_increment, a power of two
          Shapes,              \* a subset of "slots", "chain", "bundles"
          BundlesKept,         \* clients may keep one of several bundles
          RangeStarts,         \* start addresses passed to InvalidateRange()
          MaxParts,            \* bound: Instructions linked to one
          MaxHeld              \* bound: references clients keep in all

ASSUME CacheAssumption ==
  /\ num_entries_ \in Nat \ {0} /\ \E k \in 0 .. num_entries_ : num_entries_ = 2^k
  /\ address_inc_ \in Nat \ {0} /\ \E k \in 0 .. address_inc_ : address_inc_ = 2^k
  /\ Addresses \subseteq Nat /\ Undecodable \subseteq Addresses
  /\ Shapes \subseteq {"slots", "chain", "bundles"} /\ BundlesKept \in BOOLEAN
  /\ RangeStarts \subseteq Nat
  /\ MaxParts \in Nat /\ MaxHeld \in Nat
  /\ Null \notin Instructions

VARIABLES instruction_cache_,  \* entry -> Instruction or Null
          inst,                \* Instruction -> its members
          held,                \* Instruction -> references clients own
          stale                \* Instructions that must not be executed again

vars == <<instruction_cache_, inst, held, stale>>

Entries == 0..(num_entries_ - 1)

(* Freed memory; ref is inc_count_ - dec_count_, 0 for no object.          *)
Free == [ref |-> 0, address |-> 0, child |-> Null, next |-> Null, parent |-> Null]

Alive(i) == inst[i].ref > 0

Init ==
  /\ instruction_cache_ = [e \in Entries |-> Null]
  /\ inst = [i \in Instructions |-> Free]
  /\ held = [i \in Instructions |-> 0]
  /\ stale = {}

-----------------------------------------------------------------------------
(* Instruction.                                                            *)

(* The objects i owns a reference to.                                      *)
Owned(h, i) == {h[i].child, h[i].next} \ {Null}

(* The objects that ~Instruction() deletes when the last reference to one  *)
(* of roots is dropped: those reached through objects deleted as well and  *)
(* owned by nobody else.                                                   *)
Deleted(h, roots) ==
  LET Closed(D) == \A j \in D : \A k \in Owned(h, j) : h[k].ref = 1 => k \in D
  IN  {j \in Instructions :
         \A D \in SUBSET Instructions : roots \subseteq D /\ Closed(D) => j \in D}

(* ~Instruction() of a set of objects: each drops what it owns, its child_ *)
(* (but no later child) forgets its parent, and it is taken out of its     *)
(* parent, or of whatever the memory of its parent is used for now.        *)
DestroyForgetsNothing(h, D) ==
  [i \in Instructions |->
    IF i \in D THEN Free
    ELSE [h[i] EXCEPT
            !.ref = @ - Cardinality({j \in D : i \in Owned(h, j)}),
            !.child = IF \E j \in D : h[j].parent = i THEN Null ELSE @]]

DestroyKeepsChildren(h, D) ==
  [i \in Instructions |->
    IF i \in D THEN Free
    ELSE [h[i] EXCEPT
            !.parent = IF \E j \in D : h[j].child = i THEN Null ELSE @,
            !.child = IF \E j \in D : h[j].parent = i THEN Null ELSE @]]

Destroy(h, D) ==
  [i \in Instructions |->
    IF i \in D THEN Free
    ELSE [h[i] EXCEPT
            !.ref = @ - Cardinality({j \in D : i \in Owned(h, j)}),
            !.parent = IF \E j \in D : h[j].child = i THEN Null ELSE @,
            !.child = IF \E j \in D : h[j].parent = i THEN Null ELSE @]]

(* DecRef() of every object of a set.                                      *)
DecRef(h, S) ==
  LET dropped == [i \in Instructions |->
                    IF i \in S THEN [h[i] EXCEPT !.ref = @ - 1] ELSE h[i]]
      zero    == {i \in S : dropped[i].ref = 0}
  IN  Destroy(dropped, Deleted(dropped, zero))

(* The members of the n-th Instruction of parts, as AppendChild() and      *)
(* Append() leave them.  The decoder DecRefs each part once it is linked,  *)
(* so the link owns its only reference.                                    *)
Linked(shape, parts, n, a) ==
  LET following == IF n < Len(parts) THEN parts[n + 1] ELSE Null
  IN  [ref     |-> 1,
       address |-> a,
       child   |-> IF shape = "chain" \/ (shape = "bundles" /\ n = 1) THEN following ELSE Null,
       next    |-> IF shape = "slots" \/ (shape = "bundles" /\ n > 1) THEN following ELSE Null,
       parent  |-> IF n = 1 \/ shape = "slots" THEN Null
                   ELSE IF shape = "chain" THEN parts[n - 1] ELSE parts[1]]

-----------------------------------------------------------------------------
(* DecodeCache.                                                            *)

Index(a) == (a \div address_inc_) % num_entries_

(* The entry for a holds the Instruction for a.                            *)
Hit(a) ==
  LET i == instruction_cache_[Index(a)] IN i # Null /\ inst[i].address = a

(* Sequences of new objects.                                               *)
FreshParts ==
  {p \in UNION {[1..n -> {i \in Instructions : ~Alive(i)}] : n \in 1..(MaxParts + 1)} :
     IsInjective(p)}

(* A miss: decode, then drop the Instruction that was in the entry.        *)
(* GetDecodedInstruction() of a hit changes nothing, and neither does one  *)
(* that fails to decode.                                                   *)
GetDecodedInstruction(a) ==
  /\ a \notin Undecodable
  /\ ~Hit(a)
  /\ \E shape \in Shapes, parts \in FreshParts :
       LET old    == instruction_cache_[Index(a)]
           new(i) == IF i \in Range(parts)
                     THEN Linked(shape, parts, CHOOSE n \in DOMAIN parts : parts[n] = i, a)
                     ELSE inst[i]
           made   == [i \in Instructions |-> new(i)]
       IN  /\ inst' = DecRef(made, {old} \ {Null})
           /\ instruction_cache_' = [instruction_cache_ EXCEPT ![Index(a)] = parts[1]]
           /\ stale' = {i \in stale : inst'[i].ref > 0}
  /\ UNCHANGED held

(* Take the Instructions of some entries out of the cache, to invalidate   *)
(* some addresses.                                                         *)
Remove(es, as) ==
  /\ inst' = DecRef(inst, {instruction_cache_[e] : e \in es})
  /\ instruction_cache_' = [e \in Entries |-> IF e \in es THEN Null ELSE instruction_cache_[e]]
  /\ stale' = {i \in Instructions :
                 inst'[i].ref > 0 /\ (i \in stale \/ inst[i].address \in as)}
  /\ UNCHANGED held

Invalidate(a) == Remove(IF Hit(a) THEN {Index(a)} ELSE {}, {a})

(* The addresses InvalidateRange() passes to Invalidate().                 *)
LocsAfterStart(start, end) ==
  {a \in Addresses : start < a /\ a < end /\ (a - start) % address_inc_ = 0}

Locs(start, end) ==
  {a \in Addresses : start <= a /\ a < end /\ (a - start) % address_inc_ = 0}

InvalidateRange(start, end) ==
  Remove({Index(a) : a \in {b \in Locs(start, end) : Hit(b)}},
         {a \in Addresses : start <= a /\ a < end})

InvalidateAll == Remove({e \in Entries : instruction_cache_[e] # Null}, Addresses)

-----------------------------------------------------------------------------
(* Clients.                                                                *)

(* One of several in the child list of its parent.                         *)
Bundled(h, i) ==
  /\ h[i].parent # Null
  /\ h[i].next # Null \/ \E j \in Instructions : h[j].next = i

ClientIncRef(i) ==
  /\ Alive(i) /\ (BundlesKept \/ ~Bundled(inst, i))
  /\ Cardinality({r \in Instructions \X (1..MaxHeld) : r[2] <= held[r[1]]}) < MaxHeld
  /\ inst' = [inst EXCEPT ![i].ref = @ + 1]
  /\ held' = [held EXCEPT ![i] = @ + 1]
  /\ UNCHANGED <<instruction_cache_, stale>>

ClientDecRef(i) ==
  /\ held[i] > 0
  /\ inst' = DecRef(inst, {i})
  /\ held' = [held EXCEPT ![i] = @ - 1]
  /\ stale' = {j \in stale : inst'[j].ref > 0}
  /\ UNCHANGED instruction_cache_

Next ==
  \/ \E a \in Addresses : GetDecodedInstruction(a) \/ Invalidate(a)
  \/ \E start \in RangeStarts, end \in Addresses : InvalidateRange(start, end)
  \/ InvalidateAll
  \/ \E i \in Instructions : ClientIncRef(i) \/ ClientDecRef(i)

Spec == Init /\ [][Next]_vars

-----------------------------------------------------------------------------
(* The reference count of an Instruction is the number of cache entries,   *)
(* child_ and next_ pointers of other Instructions and clients that refer  *)
(* to it: nothing leaks, and nothing in use is deleted, whatever order     *)
(* evictions, invalidations and late DecRef()s of clients come in.         *)
RefCountExact ==
  \A i \in Instructions :
    inst[i].ref = held[i]
                  + Cardinality({e \in Entries : instruction_cache_[e] = i})
                  + Cardinality({j \in Instructions : Alive(j) /\ i \in Owned(inst, j)})

(* What GetDecodedInstruction() finds in the cache was decoded after the   *)
(* last Invalidate(), InvalidateRange() over [start, end) or               *)
(* InvalidateAll() of its address.  (InvalidateRange() keeps this only if  *)
(* start is a multiple of the increment away from what is in the range.)   *)
NeverStale ==
  \A a \in Addresses : Hit(a) => instruction_cache_[Index(a)] \notin stale

(* parent_ of an Instruction points to a live Instruction that has it in   *)
(* its child list: the destructor may follow it.  (~Instruction() resets   *)
(* parent_ of its first child only: of several bundles, one that a client  *)
(* keeps for longer than the others is left with a dangling parent_.)      *)
ParentsValid ==
  \A i \in Instructions : LET p == inst[i].parent IN
    p # Null => /\ Alive(p)
                /\ \/ inst[p].child = i
                   \/ \E j \in Instructions : inst[j].next = i /\ inst[j].parent = p
=============================================================================
