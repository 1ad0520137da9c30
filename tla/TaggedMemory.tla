---------------------------- MODULE TaggedMemory ----------------------------
(***************************************************************************)
(* AtomicTaggedMemory on top of TaggedFlatDemandMemory                     *)
(* (mpact/sim/util/memory/atomic_tagged_memory.cc and                      *)
(* tagged_flat_demand_memory.cc): memory with a tag for every TagGranule   *)
(* bytes, which says that the granule holds what a tagged store put there, *)
(* and with reservations for load-linked / store-conditional.              *)
(*                                                                         *)
(* The contents of a byte is abstracted to whether it came from a tagged   *)
(* store that set its tag.  AtomicMemory (atomic_memory.cc) is the same    *)
(* without tags.                                                           *)
(***************************************************************************)
EXTENDS Integers, Sequences, FiniteSets

CONSTANTS LastAddress,  \* bound: the memory is 0 .. LastAddress
          TagGranule,   \* tag_granule_
          LLGranule     \* 2 ^ kTagShift

ASSUME TaggedMemoryAssumption ==
  /\ LastAddress \in Nat
  /\ TagGranule \in Nat \ {0} /\ LLGranule \in Nat \ {0}

Addresses == 0 .. LastAddress
Granule(a) == a \div TagGranule
LLTag(a) == a \div LLGranule

VARIABLES tags,         \* the granules whose tag is set
          ll_tag_set,   \* reservations, by address >> kTagShift
          capability,   \* history: bytes last stored to by a tagged store that
                        \*   is aligned and sets the tag
          stored,       \* history: granules, by address >> kTagShift, a byte of which was
                        \*   written through AtomicTaggedMemory since they were reserved
          contained     \* history: every such write was a store that kept to the granules
                        \*   of its addresses

memVars == <<tags, ll_tag_set, capability, stored, contained>>
llVars == <<ll_tag_set, stored, contained>>

MemInit ==
  /\ tags = {} /\ ll_tag_set = {} /\ capability = {}
  /\ stored = {} /\ contained = TRUE

-----------------------------------------------------------------------------
Bytes(a, n) == a .. (a + n - 1)

(* ClearTags(): the granules of size bytes from address on.                *)
ClearTagsFirst(a, n) == {Granule(a)}

ClearTags(a, n) == Granule(a) .. Granule(a + n - 1)

(* A vector access: one address for each element, or a single address for  *)
(* elements that follow each other.                                        *)
IsGather(v) == Len(v.addresses) > 1

ElementAddress(v, i) ==
  IF IsGather(v) THEN v.addresses[i] ELSE v.addresses[1] + (i - 1) * v.el_size

VectorBytes(v) ==
  UNION {Bytes(ElementAddress(v, i), v.el_size) : i \in {j \in DOMAIN v.mask : v.mask[j]}}

EnabledAddresses(v) == {v.addresses[i] : i \in {j \in DOMAIN v.addresses : v.mask[j]}}

(* Untagged stores: the tags of what is written are cleared.  For a vector *)
(* the addresses are gone through, each with its share of the data.        *)
DataStore(bytes, cleared) ==
  /\ capability' = capability \ bytes
  /\ tags' = tags \ cleared

StoreTagged(a, n) == DataStore(Bytes(a, n), ClearTags(a, n))

VectorStoreTagged(v) ==
  LET store_size == (Len(v.mask) * v.el_size) \div Len(v.addresses)
  IN  DataStore(VectorBytes(v),
                UNION {ClearTags(v.addresses[i], store_size) :
                         i \in {j \in DOMAIN v.addresses : v.mask[j]}})

(* Tagged store: refused unless it is aligned to the granule.              *)
CheckRequest(a, n) == a % TagGranule = 0 /\ n % TagGranule = 0

TaggedStoreTagged(a, n, set) ==
  IF CheckRequest(a, n)
  THEN /\ capability' = IF set THEN capability \cup Bytes(a, n) ELSE capability \ Bytes(a, n)
       /\ tags' = IF set THEN tags \cup ClearTags(a, n) ELSE tags \ ClearTags(a, n)
  ELSE UNCHANGED <<capability, tags>>

-----------------------------------------------------------------------------
(* AtomicTaggedMemory: the stores remove the reservations of the addresses *)
(* they are given, whatever their masks, and are passed on.                *)
Erased(addresses) == ll_tag_set \ {LLTag(a) : a \in addresses}

(* What is written, byte by byte, whatever is erased for it.               *)
Written(bytes, within) ==
  /\ stored' = stored \cup {LLTag(b) : b \in bytes}
  /\ contained' = (contained /\ within)

(* An access that ends in the granule it begins in, and a vector each of   *)
(* whose addresses has what is stored from there on in its own granule.    *)
Within(a, n) == LLTag(a + n - 1) = LLTag(a)

VectorWithin(v) ==
  IF IsGather(v) THEN \A i \in DOMAIN v.addresses : Within(v.addresses[i], v.el_size)
                 ELSE Within(v.addresses[1], Len(v.mask) * v.el_size)

StoreAtomic(a, n) ==
  /\ ll_tag_set' = Erased({a})
  /\ Written(Bytes(a, n), Within(a, n))
  /\ StoreTagged(a, n)

VectorStoreAtomicFirst(v) ==
  /\ ll_tag_set' = Erased({v.addresses[1]})
  /\ Written(VectorBytes(v), VectorWithin(v))
  /\ VectorStoreTagged(v)

VectorStoreAtomic(v) ==
  /\ ll_tag_set' = Erased({v.addresses[i] : i \in DOMAIN v.addresses})
  /\ Written(VectorBytes(v), VectorWithin(v))
  /\ VectorStoreTagged(v)

(* The tagged store passes on its data without the tags: what is stored is *)
(* a capability to the caller, and plain data in memory.                   *)
TaggedStoreAtomic(a, n, set) ==
  /\ ll_tag_set' = Erased({a})
  /\ Written(Bytes(a, n), Within(a, n))
  /\ tags' = tags \ ClearTags(a, n)
  /\ capability' = IF set /\ CheckRequest(a, n) THEN capability \cup Bytes(a, n)
                                                ELSE capability \ Bytes(a, n)

(* PerformMemoryOp(): a reservation, the store that depends on it, and the *)
(* operations that read, modify and write.                                 *)
LoadLinked(a) ==
  /\ ll_tag_set' = ll_tag_set \cup {LLTag(a)}
  /\ stored' = stored \ {LLTag(a)}
  /\ UNCHANGED <<tags, capability, contained>>

StoreConditional(a, n) ==
  /\ LLTag(a) \in ll_tag_set
  /\ ll_tag_set' = ll_tag_set \ {LLTag(a)}
  /\ Written(Bytes(a, n), Within(a, n))
  /\ StoreTagged(a, n)

StoreConditionalFails(a) == LLTag(a) \notin ll_tag_set /\ UNCHANGED memVars

ReadModifyWrite(a, n) ==
  /\ UNCHANGED ll_tag_set
  /\ Written(Bytes(a, n), FALSE)
  /\ StoreTagged(a, n)

-----------------------------------------------------------------------------
(* A TaggedFlatDemandMemory that is mapped directly: its stores do not     *)
(* reach the reservations.                                                 *)
StoreDirect(a, n) == StoreTagged(a, n) /\ UNCHANGED llVars

VectorStoreDirect(v) == VectorStoreTagged(v) /\ UNCHANGED llVars

TaggedStoreDirect(a, n, set) == TaggedStoreTagged(a, n, set) /\ UNCHANGED llVars

-----------------------------------------------------------------------------
(* A tag that is set vouches for every byte of its granule: each was last  *)
(* stored to by a tagged store that set the tag (ClearTags() after every   *)
(* other store, CheckRequest() before the tagged ones).                    *)
TagsHonest ==
  \A a \in Addresses : Granule(a) \in tags => a \in capability

(* No reservation outlives a write to a byte of its granule through        *)
(* AtomicTaggedMemory (ll_tag_set_, "used to track if there is an          *)
(* intervening store between the ll and the sc instruction").  The code    *)
(* erases the reservations of the addresses a store is given, and none for *)
(* a read-modify-write: not the one of a granule that a long store, or a   *)
(* later element of a unit stride vector, reaches into.                    *)
NoInterveningStore == ll_tag_set \cap stored = {}

(* While the only writes through AtomicTaggedMemory are stores that keep   *)
(* to the granules of the addresses they are given, masked scatters, unit  *)
(* stride vectors, tagged stores and store-conditionals among them, no     *)
(* reservation outlives a write to its granule.                            *)
ReservationsTracked == contained => NoInterveningStore
=============================================================================
