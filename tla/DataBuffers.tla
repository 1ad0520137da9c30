---------------------------- MODULE DataBuffers ----------------------------
(***************************************************************************)
(* The life of a DataBuffer: allocated from the DataBufferFactory for a    *)
(* destination operand, filled by an instruction, submitted, carried by    *)
(* the data buffer delay line, installed in a register or a fifo, and      *)
(* recycled when the last reference is dropped (data_buffer.h/.cc,         *)
(* ref_count.h, register.h/.cc, fifo.h/.cc, devnull_operand.h), until      *)
(* ~ArchState() (arch_state.cc) takes everything down.                     *)
(*                                                                         *)
(* One size class of buffers is modelled; the free lists of two sizes do   *)
(* not interact.  The delay line is the shift register of DelayLineSpec,   *)
(* which DelayLine is shown to implement.  held counts the references that *)
(* instructions and other clients own; the code does not record them.      *)
(***************************************************************************)
EXTENDS Integers, Sequences, FiniteSets, SequencesExt

CONSTANTS Buffers,     \* addresses of DataBuffer instances
          Registers, Fifos,
          Null,        \* nullptr; also the DevNullOperand's destination
          Values, Zero,
          Latencies,   \* latencies of destination operands, 0 included
          Horizon,     \* their maximum
          Capacity,    \* capacity_ of every fifo
          MaxHeld,     \* bound: references to one buffer owned by clients
          MaxReserved, \* bound: reserved_ of a fifo, which Reserve() does not check
          MaxRecords   \* bound: records in the delay line

ASSUME DataBuffersAssumption ==
  /\ IsFiniteSet(Registers) /\ IsFiniteSet(Fifos) /\ Registers \cap Fifos = {}
  /\ Null \notin Buffers /\ Null \notin Registers \cup Fifos
  /\ Horizon \in Nat /\ Latencies \subseteq 0 .. Horizon
  /\ Capacity \in Nat /\ MaxHeld \in Nat \ {0} /\ MaxReserved \in Nat /\ MaxRecords \in Nat

Destinations == Registers \cup Fifos

VARIABLES heap,         \* made, deleted: sets; ref: inc_count_ - dec_count_;
                        \* free: the free list of the factory
          value,        \* contents of a buffer
          destination,  \* destination_
          held,         \* references owned by clients
          reg,          \* data_buffer_ of a register; Null before its constructor
          fifo,         \* fifo_
          reserved,     \* reserved_
          due,          \* the data buffer delay line
          applied,      \* records applied by the running Advance(), not yet cleared
          phase         \* how far ~ArchState() is

vars == <<heap, value, destination, held, reg, fifo, reserved, due,
          applied, phase>>

DelayLine == INSTANCE DelayLineSpec WITH Records <- Buffers \X Destinations

Init ==
  /\ heap = [made |-> {}, deleted |-> {}, ref |-> [b \in Buffers |-> 0], free |-> << >>]
  /\ value = [b \in Buffers |-> Zero]
  /\ destination = [b \in Buffers |-> Null]
  /\ held = [b \in Buffers |-> 0]
  /\ reg = [r \in Registers |-> Null]
  /\ fifo = [f \in Fifos |-> << >>]
  /\ reserved = [f \in Fifos |-> 0]
  /\ DelayLine!Init
  /\ applied = << >>
  /\ phase = "running"

-----------------------------------------------------------------------------
(* ReferenceCount and DataBufferFactory, as operators on the heap.         *)

IncRef(h, b) == [h EXCEPT !.ref[b] = @ + 1]

(* DecRef() recycles the buffer when the count reaches zero.               *)
DecRef(h, b) ==
  [h EXCEPT !.ref[b] = @ - 1,
            !.free = IF h.ref[b] = 1 THEN Append(@, b) ELSE @]

(* DecRef() of every buffer of a sequence, in order.                       *)
DecRefAll(h, s) ==
  LET dropped[n \in 0 .. Len(s)] == IF n = 0 THEN h ELSE DecRef(dropped[n - 1], s[n])
  IN  dropped[Len(s)]

(* Allocate() takes the most recently recycled buffer, or a new one.       *)
CanAllocate(h, b) ==
  IF h.free # << >> THEN b = Last(h.free) ELSE b \in Buffers \ h.made

Allocate(h, b) ==
  [h EXCEPT !.made = @ \cup {b},
            !.ref[b] = 1,
            !.free = IF @ # << >> THEN Front(@) ELSE @]

(* SetDataBuffer() of a register drops the old buffer before it takes the  *)
(* new one; of a fifo it is Push(), which fails if the fifo is full once   *)
(* one reservation is used up.                                             *)
PushedOffByOne(f) ==
  LET left == IF reserved[f] > 0 THEN reserved[f] - 1 ELSE 0
  IN  [reserved |-> left, ok |-> Len(fifo[f]) + left <= Capacity]

Pushed(f) ==
  LET left == IF reserved[f] > 0 THEN reserved[f] - 1 ELSE 0
  IN  [reserved |-> left, ok |-> Len(fifo[f]) + left < Capacity]

SetDataBufferHeapNoInc(h, d, b) ==
  IF d \in Registers
  THEN IF reg[d] = Null THEN h ELSE DecRef(h, reg[d])
  ELSE IF Pushed(d).ok THEN IncRef(h, b) ELSE h

SetDataBufferHeap(h, d, b) ==
  IF d \in Registers
  THEN IncRef(IF reg[d] = Null THEN h ELSE DecRef(h, reg[d]), b)
  ELSE IF Pushed(d).ok THEN IncRef(h, b) ELSE h

SetDataBuffer(d, b) ==
  IF d \in Registers
  THEN /\ reg' = [reg EXCEPT ![d] = b]
       /\ UNCHANGED <<fifo, reserved>>
  ELSE /\ fifo' = IF Pushed(d).ok THEN [fifo EXCEPT ![d] = Append(@, b)] ELSE fifo
       /\ reserved' = [reserved EXCEPT ![d] = Pushed(d).reserved]
       /\ UNCHANGED reg

-----------------------------------------------------------------------------
(* Construction of a register: a buffer of its own, all zero.              *)
NewRegister(r) ==
  \E b \in Buffers :
    /\ phase = "running"
    /\ reg[r] = Null
    /\ CanAllocate(heap, b)
    /\ heap' = DecRef(SetDataBufferHeap(Allocate(heap, b), r, b), b)
    /\ value' = [value EXCEPT ![b] = Zero]
    /\ SetDataBuffer(r, b)
    /\ UNCHANGED <<destination, held, due, applied, phase>>

(* A destination that exists.                                              *)
Usable(d) == d \in Registers => reg[d] # Null

(* AllocateDataBuffer() of the destination operand for d, and the          *)
(* instruction storing v in it.                                            *)
AllocateDataBuffer(d, v) ==
  \E b \in Buffers :
    /\ phase = "running"
    /\ Usable(d)
    /\ CanAllocate(heap, b)
    /\ heap' = Allocate(heap, b)
    /\ value' = [value EXCEPT ![b] = v]
    /\ destination' = [destination EXCEPT ![b] = d]
    /\ held' = [held EXCEPT ![b] = @ + 1]
    /\ UNCHANGED <<reg, fifo, reserved, due, applied, phase>>

(* CopyDataBuffer() of a register's destination operand: MakeCopyOf() the  *)
(* register's current buffer.                                              *)
CopyDataBuffer(r) ==
  \E b \in Buffers :
    /\ phase = "running"
    /\ Usable(r)
    /\ CanAllocate(heap, b)
    /\ heap' = Allocate(heap, b)
    /\ value' = [value EXCEPT ![b] = value[reg[r]]]
    /\ destination' = [destination EXCEPT ![b] = r]
    /\ held' = [held EXCEPT ![b] = @ + 1]
    /\ UNCHANGED <<reg, fifo, reserved, due, applied, phase>>

(* InitializeDataBuffer() of another destination operand on a buffer the   *)
(* client still owns, in flight or not.                                    *)
InitializeDataBuffer(b, d) ==
  /\ phase = "running"
  /\ held[b] > 0
  /\ Usable(d)
  /\ destination' = [destination EXCEPT ![b] = d]
  /\ UNCHANGED <<heap, value, held, reg, fifo, reserved, due, applied, phase>>

(* A client keeps a second reference, or drops one.                        *)
ClientIncRef(b) ==
  /\ phase = "running"
  /\ held[b] \in 1 .. MaxHeld - 1
  /\ heap' = IncRef(heap, b)
  /\ held' = [held EXCEPT ![b] = @ + 1]
  /\ UNCHANGED <<value, destination, reg, fifo, reserved, due, applied, phase>>

ClientDecRef(b) ==
  /\ phase # "done"
  /\ held[b] > 0
  /\ heap' = DecRef(heap, b)
  /\ held' = [held EXCEPT ![b] = @ - 1]
  /\ UNCHANGED <<value, destination, reg, fifo, reserved, due, applied, phase>>

(* Submit(latency), where Submit() passes the latency_ the operand stored: *)
(* the client's reference passes to the delay record, or is dropped once   *)
(* the destination has taken its own.                                      *)
SubmitDrops(b, l) ==
  LET d == destination[b] IN
  \/ /\ d = Null
     /\ heap' = DecRef(heap, b)
     /\ UNCHANGED <<reg, fifo, reserved, due>>
  \/ /\ d # Null /\ l = 0
     /\ heap' = DecRef(SetDataBufferHeap(heap, d, b), b)
     /\ SetDataBuffer(d, b)
     /\ UNCHANGED due
  \/ /\ d # Null /\ l # 0
     /\ heap' = DecRef(heap, b)
     /\ DelayLine!Add(l, <<b, d>>)
     /\ UNCHANGED <<reg, fifo, reserved>>

SubmitTo(b, l) ==
  LET d == destination[b] IN
  \/ /\ d = Null
     /\ heap' = DecRef(heap, b)
     /\ UNCHANGED <<reg, fifo, reserved, due>>
  \/ /\ d # Null /\ l = 0
     /\ heap' = DecRef(SetDataBufferHeap(heap, d, b), b)
     /\ SetDataBuffer(d, b)
     /\ UNCHANGED due
  \/ /\ d # Null /\ l # 0
     /\ DelayLine!Add(l, <<b, d>>)
     /\ UNCHANGED <<heap, reg, fifo, reserved>>

InFlight == MapThenSumSet(LAMBDA k : Len(due[k]), 0 .. Horizon)

Submit(b, l) ==
  /\ phase = "running"
  /\ l # 0 => InFlight < MaxRecords
  /\ held[b] > 0
  /\ Usable(destination[b])
  /\ SubmitTo(b, l)
  /\ held' = [held EXCEPT ![b] = @ - 1]
  /\ UNCHANGED <<value, destination, applied, phase>>

(* Advance() of the delay line: the next slot, SetDataBuffer() for each of *)
(* its records (a fifo may call back into a client in between), and the    *)
(* destruction of the records.                                             *)
BeginAdvance ==
  /\ phase = "running"
  /\ applied = << >>
  /\ DelayLine!Tick
  /\ UNCHANGED <<heap, value, destination, held, reg, fifo, reserved, applied, phase>>

ApplyRecord ==
  /\ phase = "running"
  /\ DelayLine!Apply
  /\ LET b == Head(due[0])[1]
         d == Head(due[0])[2]
     IN  /\ heap' = SetDataBufferHeap(heap, d, b)
         /\ SetDataBuffer(d, b)
         /\ applied' = Append(applied, b)
  /\ UNCHANGED <<value, destination, held, phase>>

ClearSlot ==
  /\ phase = "running"
  /\ due[0] = << >>
  /\ applied # << >>
  /\ heap' = DecRefAll(heap, applied)
  /\ applied' = << >>
  /\ UNCHANGED <<value, destination, held, reg, fifo, reserved, due, phase>>

(* FifoBase::Pop() and Reserve() by a client.                              *)
Pop(f) ==
  /\ phase = "running"
  /\ fifo[f] # << >>
  /\ heap' = DecRef(heap, Head(fifo[f]))
  /\ fifo' = [fifo EXCEPT ![f] = Tail(@)]
  /\ UNCHANGED <<value, destination, held, reg, reserved, due, applied, phase>>

Reserve(f) ==
  /\ phase = "running"
  /\ reserved[f] < MaxReserved
  /\ reserved' = [reserved EXCEPT ![f] = @ + 1]
  /\ UNCHANGED <<heap, value, destination, held, reg, fifo, due, applied, phase>>

-----------------------------------------------------------------------------
(* ~ArchState(), in its order.                                             *)

(* The buffers of the records due in k calls of Advance().                 *)
Carried(k) == [i \in DOMAIN due[k] |-> due[k][i][1]]

(* The delay line's records drop their buffers, slot by slot.              *)
DeleteDelayLines ==
  /\ phase = "running"
  /\ due[0] = << >> /\ applied = << >>
  /\ LET cleared[k \in 0 .. Horizon] ==
           IF k = 0 THEN heap ELSE DecRefAll(cleared[k - 1], Carried(k))
     IN  heap' = cleared[Horizon]
  /\ due' = [k \in 0 .. Horizon |-> << >>]
  /\ phase' = "deleting"
  /\ UNCHANGED <<value, destination, held, reg, fifo, reserved, applied>>

(* ~RegisterBase(), in the unspecified order of the hash map.              *)
DeleteRegister(r) ==
  /\ phase = "deleting"
  /\ reg[r] # Null
  /\ heap' = DecRef(heap, reg[r])
  /\ reg' = [reg EXCEPT ![r] = Null]
  /\ UNCHANGED <<value, destination, held, fifo, reserved, due, applied, phase>>

RegistersDeleted == \A r \in Registers : reg[r] = Null

(* ~FifoBase() pops what is left.                                          *)
DeleteFifo(f) ==
  /\ phase = "deleting"
  /\ RegistersDeleted
  /\ fifo[f] # << >>
  /\ heap' = DecRefAll(heap, fifo[f])
  /\ fifo' = [fifo EXCEPT ![f] = << >>]
  /\ UNCHANGED <<value, destination, held, reg, reserved, due, applied, phase>>

(* ~DataBufferFactory() deletes the recycled buffers.                      *)
DeleteFactory ==
  /\ phase = "deleting"
  /\ RegistersDeleted
  /\ \A f \in Fifos : fifo[f] = << >>
  /\ heap' = [heap EXCEPT !.deleted = ToSet(heap.free), !.free = << >>]
  /\ phase' = "done"
  /\ UNCHANGED <<value, destination, held, reg, fifo, reserved, due, applied>>

Next ==
  \/ \E r \in Registers : NewRegister(r)
  \/ \E d \in Destinations \cup {Null}, v \in Values : AllocateDataBuffer(d, v)
  \/ \E r \in Registers : CopyDataBuffer(r)
  \/ \E b \in Buffers, d \in Destinations \cup {Null} : InitializeDataBuffer(b, d)
  \/ \E b \in Buffers : ClientIncRef(b) \/ ClientDecRef(b)
  \/ \E b \in Buffers, l \in Latencies : Submit(b, l)
  \/ BeginAdvance \/ ApplyRecord \/ ClearSlot
  \/ \E f \in Fifos : Pop(f) \/ Reserve(f)
  \/ DeleteDelayLines
  \/ \E r \in Registers : DeleteRegister(r)
  \/ \E f \in Fifos : DeleteFifo(f)
  \/ DeleteFactory

Spec == Init /\ [][Next]_vars

-----------------------------------------------------------------------------
(* Types of the members; a fifo never holds more than its capacity,        *)
(* whatever is reserved, submitted with a delay or pushed directly.        *)
TypeOK ==
  /\ heap.made \subseteq Buffers /\ heap.deleted \subseteq heap.made
  /\ heap.ref \in [Buffers -> Int] /\ heap.free \in Seq(Buffers)
  /\ value \in [Buffers -> Values \cup {Zero}]
  /\ destination \in [Buffers -> Destinations \cup {Null}]
  /\ held \in [Buffers -> 0 .. MaxHeld]
  /\ reg \in [Registers -> Buffers \cup {Null}]
  /\ fifo \in [Fifos -> Seq(Buffers)] /\ \A f \in Fifos : Len(fifo[f]) <= Capacity
  /\ reserved \in [Fifos -> 0 .. MaxReserved]
  /\ due \in [0 .. Horizon -> Seq(Buffers \X Destinations)]
  /\ applied \in Seq(Buffers)
  /\ phase \in {"running", "deleting", "done"}

Occurrences(b, s) == Cardinality({i \in DOMAIN s : s[i] = b})

(* The same, in all sequences of a function.                               *)
Spots(q) == UNION {{k} \X DOMAIN q[k] : k \in DOMAIN q}
OccurrencesIn(b, q) == Cardinality({p \in Spots(q) : q[p[1]][p[2]] = b})

(* The references the simulated state holds to a buffer.                   *)
StateRefs(b) ==
  Cardinality({r \in Registers : reg[r] = b})
    + OccurrencesIn(b, fifo)
    + OccurrencesIn(b, [k \in 0 .. Horizon |-> Carried(k)])
    + Occurrences(b, applied)

(* ref_count() is the number of pointers to the buffer: what registers,    *)
(* fifos, delay records and clients hold, through Submit(), overwritten    *)
(* registers, failed pushes and destructors.                               *)
RefCountExact == \A b \in Buffers : heap.ref[b] = held[b] + StateRefs(b)

(* The free list holds each unreferenced buffer once and no other: a       *)
(* buffer is neither recycled while in use, nor twice, nor forgotten.      *)
FreeListExact ==
  /\ IsInjective(heap.free)
  /\ ToSet(heap.free) = {b \in heap.made \ heap.deleted : heap.ref[b] = 0}

(* After ~ArchState() every buffer is deleted but those a client kept.     *)
TeardownFreesAll ==
  phase = "done" => heap.deleted = {b \in heap.made : held[b] = 0}

(* Every buffer is accounted for: its count is the number of its holders,  *)
(* DataBufferFactory may hand it out again just when there is none, and    *)
(* the destructors leave none behind.                                      *)
BuffersAccounted == RefCountExact /\ FreeListExact /\ TeardownFreesAll

InUse(b) == StateRefs(b) > 0

(* A value in a register, a fifo or in flight never changes under its      *)
(* owner: nobody is handed a buffer to write that the state still uses.    *)
ValueStable == \A b \in Buffers : InUse(b) /\ InUse(b)' => value'[b] = value[b]

StoredValuesStable == [][ValueStable]_vars
=============================================================================
