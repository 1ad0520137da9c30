# A verification project for MPACT-Sim

MPACT-Sim (`mpact/sim`) is a C++ framework for instruction set simulators. It has a run-time
library (architectural state, delayed write-back, decode cache, memories, breakpoints, debug
front ends), an assembler library, and three compilers that turn ISA and encoding descriptions
into decoders. This directory holds TLA+ models of the stateful core of the library, of the
compilers and of the assembler, TLC runs on small instances, and TLAPS proofs.

Paths below are relative to `mpact/sim/`. `PROJECT.json` lists for every definition the lines it
models, for every property a mutant of the code that breaks it, and the hazards the properties
are aimed at.

## 1. Inventory

### Run-time library, `generic/`

| Component | State | Operations | Correct if |
|---|---|---|---|
| Delay lines (`delay_line.h`, `function_delay_line.h`) | ring of lists of records, `current_`, `num_entries_` | `Add`, `Resize`, `Advance`, which runs callbacks that may call `Add` | a record is applied exactly its latency later, in order, and none is stranded |
| Data buffers, registers, fifos, `ArchState` | inc/dec counts, free lists by size, pointer in a register, deque and reservations of a fifo | `Allocate`, `IncRef`, `DecRef`, `Submit`, `SetDataBuffer`, `Push`, `Pop`, `Reserve`, destructors | the count is the number of pointers; nothing is recycled in use, written under its owner, or leaked |
| Token fifos, fifos with notification | a store of tokens shared by fifos; callbacks | `Push`, `Pop`, `Reserve` | tokens taken are tokens used; the callback sees the fifo as it is |
| Resources (`resource_bitset`, `simple_resource`, `complex_resource`) | bit sets; a bitmap of cycles, shifted lazily | `IsFree`, `Acquire`, `Release`, `Advance` | a resource has one user in a cycle and is released when its delay is over |
| Instructions, decode cache | entries by address; `child_`, `next_`, `parent_`, counts | `GetDecodedInstruction`, `Invalidate`, `InvalidateRange`, `InvalidateAll`, destructor | nothing invalidated is executed again; nothing in use is deleted; pointers back are valid |
| Action points, breakpoints | map address to actions with ids and an active count; map address to id | `SetAction`, `ClearAction`, `EnableAction`, `DisableAction`, `ClearAllActionPoints`, `PerformActions`, and those of `BreakpointManager` | the instruction is in memory exactly while some action is enabled; both maps agree |
| Program errors | raised and masked sets in a controller | `Raise`, `Mask`, `ClearAll` | an unmasked error is seen until cleared |
| Components, configuration, counters; control and status registers; operands | a tree of named values; masked writes | accessors, import and export | mostly pure data |

### Memories, `util/memory/`

| Component | State | Operations | Correct if |
|---|---|---|---|
| Flat, demand and tagged memories | blocks, tags per granule | scalar, vector and tagged loads and stores | a tag does not outlive an untagged store |
| Atomic memories | set of reserved granules | load-linked, store-conditional, read-modify-write | a store to the granule ends the reservation |
| `SingleInitiatorRouter`, `MemoryRouter` | three maps of ranges to targets, defaults | `AddTarget`, `AddDefaultTarget`, all accesses | an access reaches the one target that covers it |
| Watchers, profiler | ranges with callbacks, bitmaps | set, clear, all accesses | a callback runs exactly for an overlap |
| Cache | lines: tag, valid, dirty, pinned, lru | lookup and replacement, forwarding | a set has no duplicate tags, pinned lines stay, references are given back |

### Debug front ends, `util/`

| Component | State | Operations | Correct if |
|---|---|---|---|
| `RenodeCLITop` (`renode/`) | mutex, `cli_status_`, step counts of both sides, `program_done_` | `RenodeStep`, `CLIStep`, `CLIRun`, `CLIHalt`, `SetConnected`, guarded accesses | steps are counted once, one side has control at a time, blocked calls return |
| `RenodeAgent`, `CLIForwarder`, `SocketCLI` | registry of instances, a thread and a socket | C entry points, construct, destroy | every instance is found under its id and freed once |
| GDB server (`gdbserver/`) | no-ack mode and its latch, thread selection, `halt_reasons_`, one connection | packets and acknowledgements, one handler per command | both sides stay in step; each command runs once and is answered |
| Assembler, ELF loader, UART, profilers | sections, symbols, relocations; a histogram | two passes; load | symbols resolve to their final addresses |

### Decoder compilers, `decoder/`, and the assembler, `util/asm/`

| Component | State | Operations | Correct if |
|---|---|---|---|
| Binary format compiler (`bin_format_visitor`, `format`, `overlay`, `encoding_group`, `instruction_group`) | declarations, formats with fields, overlays and extractors, groups of encodings, a tree of encoding groups | read and include files; build formats and groups lazily; promote extractors; split groups; emit | the emitted decoder names an encoding that the word satisfies; inserters and extractors agree |
| ISA compiler (`instruction_set_visitor`, `slot`, `opcode`, `instruction`, `template_expression`, `instruction_set`) | slots with base slots and template arguments, opcodes, resources, attributes, tables of shared setters | inherit, override, delete and generate opcodes; evaluate template expressions; emit setters and enumerations | an instruction gets what its own description and its bases say; every name used is declared |
| Proto format compiler (`proto_format_visitor`, `proto_encoding_group`, `proto_instruction_encoding`, `proto_constraint_value_set`) | groups of encodings with constraints and setters on message fields; a tree of decoders | constraints and setters below one-ofs; ambiguity check; split by the best field; emit | a message decodes as an instruction whose constraints it satisfies; a setter reads what is there |
| Assembler (`simple_assembler`) | lines, sections, location counters, symbol table and its indices, relocations | two passes, executable and relocatable output | labels are the addresses of their lines; relocations name their symbols |

The compilers are sequential and build their state in one walk over parse trees. What is hard in
them is order: formats and groups are visited when first referred to, extractors and opcodes move
between levels, and the emitted code leaves out tests and shares functions on the strength of
bookkeeping made elsewhere.

### How the parts interact

* A semantic function allocates a data buffer for a destination operand, fills it and submits it.
  The delay line holds it and, `latency` calls of `Advance()` later, gives it to the register or
  fifo. Loads go through routers, caches and atomic memories, which hold the instruction, its
  context and the buffer by reference until the data is there.
* The decode cache owns instructions; loads in flight and profilers hold them longer.
* The core, the command line and the GDB server set breakpoints through `BreakpointManager`,
  which shares one `ActionPointManagerBase` with other clients, and that writes to memory.
* The binary format compiler and the ISA compiler are separate programs: the first emits the
  decoder from words to opcodes, the second the classes that build an `Instruction` for an opcode.
  The proto compiler takes the place of the first for instructions that are messages. The
  assembler matches text with the tables that the ISA compiler emits (`GenerateEncClasses`).
* Renode's thread and the CLI thread step the same core through `RenodeCLITop`.

### What is hard

* **Concurrency**: only `RenodeCLITop` and `SocketCLI` have two threads. Everything else is
  sequential but re-entrant: callbacks of delay lines, watchers, fifos and action points.
* **Lifetimes**: manual reference counts across delay lines, caches and destructors.
* **Failure**: memory writes that fail in the middle of an operation (action points), `Step()`
  that fails or halts early (Renode), packets that arrive garbled or twice (GDB).
* **Boundaries**: ring sizes, first and last byte of a range, granules, capacities.

## 2. Modules

| Module | Models | Actions |
|---|---|---|
| `DelayLineSpec` | what a delay line promises: a shift register of records | `Add`, `Tick`, `Apply` |
| `DelayLine` | `generic/delay_line.h` | `Add` (with `Resize`), `BeginAdvance`, `ApplyRecord`; `Add` may happen between two records of one `Advance()` |
| `DataBuffers` | `generic/` `ref_count.h`, `data_buffer`, `register`, `fifo`, `arch_state` | one per operation on buffers, registers and fifos, and the steps of `~ArchState()` |
| `ActionPoints` | `generic/action_point_manager_base` | operators, one per method |
| `Breakpoints` | `generic/breakpoint_manager`, composed with `ActionPoints` and a second client | one per method, `OtherClient`, `Reset` |
| `DecodeCache` | `generic/decode_cache`, `generic/instruction`, and what generated decoders build | decode, the three invalidations, references of clients |
| `TaggedMemory` | tags (`tagged_flat_demand_memory`) and reservations (`atomic_tagged_memory`) | operators, one per kind of store |
| `SingleInitiatorRouter` | the router, composed with `TaggedMemory` | `AddTarget`, `AddDefaultTarget`, `Store`, `VectorStore`, `TaggedStore`, `PerformMemoryOp` |
| `RenodeControl` | `util/renode/renode_cli_top` | Renode's and the CLI's calls, split where the mutex is released |
| `GdbServer` | `util/gdbserver/gdbserver` with a debugger, a connection and a core | one per packet read, response, acknowledgement and handler; the debugger's and the core's steps |
| `BinFormats` | `decoder/format`, `overlay`, `extract` | operators: widths and positions, extractors, inserters |
| `EncodingGroups` | `decoder/instruction_encoding`, `encoding_group`, `instruction_group` | operators: constraints, the tree of groups, what the emitted decoder computes |
| `BinFormatVisitor` | `decoder/bin_format_visitor`, `bin_encoding_info`, composed with the two above | one per file read, included or left, decoder group, referring format, pass of promotion, specialization, check and emission |
| `TemplateExpressions` | `decoder/template_expression` and the visitor of expressions | operators |
| `Slots` | `decoder/slot`, `opcode`, `instruction` | operators: inheritance, derived opcodes, the setters and their keys |
| `InstructionSetVisitor` | `decoder/instruction_set_visitor`, `instruction_set`, `bundle`, composed with the two above | files, declarations, slots, opcodes, resources, checks, each slot's class, encoders |
| `ProtoEncodings` | `decoder/proto_instruction_encoding`, `proto_constraint_value_set`, `proto_encoding_group` | operators: constraints and setters, the check for overlaps, the tree, what the decoder returns |
| `ProtoFormatVisitor` | `decoder/proto_format_visitor`, `proto_encoding_info`, `proto_instruction_group` | imports, declarations, includes, each attribute of the decoder, the tree of each group, emission |
| `SimpleAssembler` | `util/asm/simple_assembler` | `ReadLine`, `EndOfStream`, `CreateExecutable`, `CreateRelocatable` |
| `DelayLineProofs`, `DataBuffersProofs`, `BreakpointsProofs`, `DecodeCacheProofs`, `SingleInitiatorRouterProofs` (with `TaggedMemory`), `RenodeControlProofs`, `GdbServerProofs`, `SimpleAssemblerProofs` | theorems, section 4 | |
| `MC...` | instances for TLC | |

How state is abstracted:

* **Time** in a delay line is slots of the ring; a record is a model value. The range-for loop of
  `Advance()` is `next` and `last`, its end iterator being taken once.
* **A buffer** is an address with a count, a value and a destination; `held` is a history of what
  clients own. The delay line below it is `DelayLineSpec`'s shift register, which `DelayLine` is
  shown to implement.
* **Memory writes** of the action points succeed or fail by address, in environments with
  `writes_fail`; `resets` says whether somebody may clear the shared manager.
* **An instruction** is a record of its pointers; `stale` is a history of invalidations. The three
  shapes are the ones `Slot`, `Bundle` and `InstructionSet` generate code for.
* **Data in memory** is left out: what counts is which bytes an access writes, whether it clears
  or sets a tag, and whether it ends a reservation; `capability`, `stored` and
  `contained` are histories of that, of bytes written and not of what the code does about them.
* **The mutex** of `RenodeCLITop` is held in the states `stepping` and `command`; a thread blocked
  on a condition is in an `...Await` state and goes on when condition and mutex allow.
* **Packets** hold a command or the kind of a response, never text. `orderly` marks sessions whose
  debugger greets, uses the thread it was told of and does not interrupt, and whose core does not
  refuse to tell its state. Handlers that only touch registers or memory are reduced to the
  responses they may give.
* **Descriptions** given to the compilers are parse trees, as records; names are model values with
  the orders that the code sorts them in (`NameOrder`, `PascalRank`). Iteration over hash maps is
  any order; `std::sort` of the small groups that occur keeps equal elements in place. A null or
  past-the-end dereference ends the compiler (`crashed`). Errors are kinds, not texts.
* **Emitted code** is modelled by what it computes on a word or a message: `EmitDecoders(tree, w)`
  is the value that the emitted functions return. Spelling is left out.
* **A word** is the set of its bits that are one; widths at which the emitted code changes (8, 64,
  128 bits) are constants (`ByteBits`, `Narrow`, `Wide`). `Half32` and `Half64` stand for the
  ranges of the 32- and 64-bit types of message fields.
* **A line** of assembler source is a label and a statement; the ELF writer is a symbol table with
  positions and sections with bytes.

## 3. Runs

Passing runs:

| Run | Shows | Bounds and why they are enough |
|---|---|---|
| `delay_line` | the ring implements the shift register; no record is stranded | latencies 1 to 9 on rings of 4, 8 and 16 slots: wrap-around, one and two resizes, a resize inside `Advance()`, several records in a slot (4 in flight) |
| `data_buffers` | counts, free list, stable values, tear-down | two buffers, a register and a fifo of one element: a register overwritten by its own or another buffer, overflow, recycling, a client holding two references, more reservations than capacity, records at tear-down |
| `breakpoints` | counts, planted instructions, agreement of the two maps, other clients left alone | two addresses, two ids per address: a first, a second and a re-used action |
| `renode_control` | steps counted once, control of one side at a time, blocked calls return | quanta and CLI steps of up to 3: a CLI step shorter than, equal to and longer than the quantum |
| `decode_cache` | counts, no stale hits, valid parents | slots, chains and bundles; two entries and three decodable addresses, two of which conflict; six objects, so that an instruction of three, its successor and kept parts live together. Clients keep any part but one of several bundles, and ranges start at instructions: the table below drops these conditions |
| `memory_router` | disjoint ranges, covered deliveries, unsplit vectors, honest tags, tracked reservations | four bytes in two granules: adjacent, nested and one-byte ranges, accesses that span granules and ranges, masked scatters and unit stride vectors within a granule and across, three targets. Reservations are checked while every store keeps to the granules of its addresses and nothing reads, modifies and writes; `NoInterveningStore` drops that. A view of the state leaves out the part of the history that `ReservationsTracked` does not look at |
| `gdb_session` | both sides in step, answers that match, commands run once and are answered, a resting core, true stop replies | sessions of any length; one packet garbled or one interrupt, each of which can hit any packet in either direction; the five attempts of `Respond()`; a reason that goes on, `done` and `semihost`. In sessions that are not orderly only the commands that can tell the difference are sent |
| `bin_format_compiler` | decoded as described, inserted is extracted, promoted extractors agree, includes end | every set of up to three of fourteen encodings of a six-bit word, and thirteen together: equalities on fields and overlays, sign-extended, extracted, compared with a value or a field, of four formats over two levels of derivation; all 64 words; formats and packed structs below, at, between and above the widths. Groups in which two formats' items of one name are different bits are built, and excluded from what is said of decoders; generators, specializations, combined groups, refused descriptions, recursive and `once` includes |
| `isa_compiler` | what is generated is what is described; the encoders fit; names are declared | slots over two levels of inheritance with up to two opcodes overridden or deleted, template arguments 0, 1 and 3, chains of parts, shared setters, of which the rows of all slots are compared with the description; simple and complex resources, lists of them and both under one name; names that sort differently; descriptions that are refused or end the compiler. Two slots with as many attributes of other names, instructions that differ in the cycles only, and lists of complex resources are compiled, and excluded: the table below is about them |
| `assembler` | the two passes agree; relocations match; what the first pass accepts is assembled, if the operands fit | every source of up to five of sixteen lines: labels alone and with statements, in three sections, references forward, backward and to nothing, data of two widths, gaps, lines in error |
| `proto_format_compiler` | decoded as constrained; setters guarded | every group of up to three of twelve instructions: enums, integers, 64-bit values, ranges, one-ofs, two fields with one short name, contradictions; 72 messages; combined groups, includes and errors. Decoders that look up a one-of, or whose text names a one-of of an inner message where it is not, are built, and excluded from what is said of decoders: two of three in this pool, in which half of the instructions are about one-ofs; the table below is about them |

`data_buffers`, `breakpoints`, `renode_control`, `gdb_session`, `assembler` and
`proto_format_compiler` do not check for deadlock: after `~ArchState()`, with all ids used up, after
the CLI is gone, after a session has ended and when the output is written, the system may stop.

A run that shows the code disagreeing with its documentation:

* `assembler_unresolved`: `resolver.cc` says that unresolved symbols of an executable "will result
  in an error"; the code enters them with value 0, empties `undefined_symbols_`
  (`simple_assembler.cc:398`) and goes on.

Several properties have a condition without which the code breaks them. The condition is a constant
of the configuration or a guard of the property; for the second kind the module also has the
statement without the guard. TLC refutes each within seconds: to see the behaviour, put the
statement, or the constant, into the configuration that is named here.

| Configuration | Check | What the code does |
|---|---|---|
| `DecodeCache` | `ParentsValid` with `BundlesKept = TRUE` | `~Instruction()` resets `parent_` of the first in its child list only (`instruction.cc:106`); a bundle that outlives the instruction through a client's reference has a dangling `parent_`, through which its own destructor writes |
| `DecodeCache` | `NeverStale` with 1 in `RangeStarts` | `InvalidateRange()` steps from `start_address` by the pc increment and removes exact addresses: from a start between two instructions it removes none of `[start, end)` (`decode_cache.h:73`) |
| `SingleInitiatorRouter` | `NoInterveningStore` | `ll_tag_set_` is there "to track if there is an intervening store between the ll and the sc instruction" (`atomic_tagged_memory.h:88`); an atomic operation that reads, modifies and writes leaves it alone (`atomic_tagged_memory.cc:261`), and so do a store that reaches into the granule and the later elements of a unit stride vector |
| `BinFormatVisitor` | `DecodesEveryFormat` | a leaf of the decoder extracts each name once, for the first encoding that needs it (`encoding_group.cc:597`, `627`), and tests another format's item of that name on its bits |
| `BinFormatVisitor` | `ExtractorsGenerated` | a failed promotion erases the base format's own extractor (`format.cc:264`, `282`), although each is "generated within a namespace specific to the format" |
| `InstructionSetVisitor` | `CyclesAsDescribed`, `AttributesAsDescribed` | the keys that decide which instructions share a setter are meant to be unique, but have no cycles of simple resources (`slot.cc:834`), and of the slot's attributes that the instruction does not have only the number (`slot.cc:250`) |
| `InstructionSetVisitor` | `ListNamesDeclared` | the setter of a list of a complex resource runs the enumerator and the begin cycle together (`slot.cc:977`) |
| `SimpleAssembler` | `ContentsComplete` with `Bases = {9000}` | a statement that fails in the second pass, such as an instruction whose operand does not fit once its symbol is known, is left out: the status that is tested at `simple_assembler.cc:749` is not the one that was returned |
| `ProtoFormatVisitor` | `OneofsDecoded` | a comment has the presence of a member as an equality "on the '_value()' function of the one_of field" (`proto_encoding_group.cc:92-93`); the decoder looks up the value of the first constraint's identifier (:569), which may be outside of its table |
| `ProtoFormatVisitor` | `GuardsFindOneofs` | the guard of a setter below two one-ofs looks for the inner one in the outermost message (`proto_instruction_encoding.cc:353`) |

The properties of the compilers are stated for what the code can keep, and say so in their
comments: `InsertedIsExtracted` leaves out fields of 65 to 128 bit formats and replicated formats of
at most 128 bits, `EncoderFits` opcodes that sort differently in snake and Pascal case,
`GeneratedAsDescribed` and `NamesDeclared` what the table has of them,
`DecodesAsConstrained` values that do not fit the keys of the emitted maps, `ExecutableInPlace`
gaps in sections with contents, what comes before the first section directive, and labels whose
entry was made without a section (used in one stream, defined on a directive in a later one), and
all three properties of the assembler operands that do not fit. Section 5 lists what happens there.

### Fairness

* `DelayLine`: weak fairness of `Advance()` and of the records it applies. Simulators call
  `Advance()` every cycle, and the loop inside runs to its end. Nothing is assumed of `Add()`.
* `RenodeControl`: each thread keeps taking its steps. `absl::Mutex` wakes a thread whose condition
  holds; strong fairness is assumed only of Renode's acquisition (`RenodeStep`, `RenodeAwakes`),
  which competes for the mutex with a CLI that may take and release it for ever. Renode keeps
  calling `RenodeStep()`, as an emulator's time quantum does. The CLI is not required to ask for
  anything.
* `BinFormatVisitor`: the reading of files goes on. It is a sequential program.
* `GdbServer`: the server's loop runs and the debugger reads what it is sent. The program need not
  ever halt, and the debugger need not send anything.

## 4. Proofs

Proved by TLAPS for every value of the constants that meets the named assumptions: every safety
property of the runs `delay_line`, `data_buffers`, `breakpoints`, `decode_cache`, `memory_router`,
`renode_control`, `gdb_session` and `assembler`, the action properties and the refinement included.

Loops over data of any length (the records that `~DelayLine()` clears, the references that a
destructor drops, the parts of a `vCont`, the lines of a source) are recursive functions or folds in
the model. What the proofs need of them is shown by the least counterexample in `Nat`, since the
library's induction theorems cannot be instantiated.

**`DelayLineProofs`** (assumes `RingAssumption` and `NoFullTurn`: no latency equals a ring size,
see section 5).
`IInv` is the types and `CurrentSlotDrained` (proved only; no run needs it): the current slot holds only the records of the
running loop. Without it a record could be filed where `Advance()` has already been. `Drained`
proves it inductive through resizes and re-entrant `Add()`. `Implements` proves that `DelayLine`
implements `DelayLineSpec`: the lemmas `AddDue`, `BeginAdvanceDue` and `ApplyRecordDue` say what
each action does to the list `k` calls of `Advance()` away, over the arithmetic of `SlotIndex`.

**`BreakpointsProofs`** (assumes `ActionPointsAssumption`, `BreakpointsAssumption`).
`Counted`: `num_active_` is the number of enabled actions, whatever write fails; its invariant
`APInv` adds the types of the maps. `Planted`: while memory can be written, the instruction is
planted exactly while the count is positive. `Recorded`: no halt action without a record in the
`BreakpointManager`, even if writes fail and somebody resets the shared manager. `Agreement`: if
undisturbed, each record has its action, `IsBreakpoint()` tells the truth
(`IsBreakpointHonest`, which is only proved). `Courtesy`: unless somebody resets the shared
manager, no operation of the `BreakpointManager` changes another client's action, an action
property. It holds also when writes fail and the manager keeps the id of an action that is gone:
`OwnIds` says that such an id was handed out before and never names an action of anybody else.

**`RenodeControlProofs`** (assumes `RenodeControlAssumption`).
`Accounted`: the steps of a quantum are counted once, whoever makes them. `StepExclusive`: nobody
else steps the core during a `CLIStep()`. Neither is inductive: `StatusInv` adds which thread may
find which `cli_status_`. `InControl`: in an orderly environment the CLI steps only inside the
quantum Renode waits for. `AccessAlone`: Renode's accesses, which take no mutex, overlap with no
step or command of the CLI until the program is done. Both rest on `ControlInv`: the CLI has
control only while `RenodeStep()` waits with steps left.

**`DataBuffersProofs`** (assumes `DataBuffersAssumption`).
`TypeCorrect`, `EveryBufferAccounted` and `ValuesStable`, for any number of buffers, registers,
fifos and latencies. The invariant is `Sound(heap, Total)`: the count of each buffer is what
clients hold, plus the registers and fifo elements that point to it, plus the records under way
and the list being applied; the free list has each buffer of count zero once. It has to be stated
for any assignment of counts `n`, not just the current one, because an action is several
references one after the other (`SetDataBuffer()` takes one, drops another and is followed by a
`DecRef()` of the delay line's), with states between that no run observes. During `~ArchState()`
the delay line is empty, so that only clients keep buffers; when it is done the heap is gone and
`BuffersAccounted` itself is the invariant. `ValuesStable` follows: what `Allocate()` hands out is
free, so its count is zero, so nothing stored points to it.

**`SingleInitiatorRouterProofs`** (assumes `RouterAssumption`, `TaggedMemoryAssumption`).
`Disjoint`: no two ranges of a map overlap. `Delivery`: an access reaches only a target that has
all it touches, or the default for what nobody has, and a vector goes as a whole where each of its
elements would; it rests on `Disjoint`, without which the lookup by comparison is not one.
`TagsAreHonest`: a set tag vouches for every byte of its granule. `Reservations`: none outlives a
write to a byte of its granule, while the writes are stores that keep to the granules of their
addresses (`NoInterveningStore`, which is without the condition, is violated). For any ranges, granule, sizes, strides and masks; the lemmas are
about which granules an access meets.

**`DecodeCacheProofs`** (assumes `CacheAssumption`: sizes are powers of two).
`ExactCounts`: a reference count is the entries, owners and clients that point to the instruction.
`Parents`: `parent_` points to a live instruction that has this one in its child list. `Fresh`: no
lookup returns an instruction of before an invalidation of its address. All three shapes are
covered: slots, chains of parts, bundles. The invariant `HeapInv` adds that an
instruction has one owner and is in one entry, that what has count zero is free, and `Family`: the
child list of an instruction starts at `child_`, goes on by `next_`, and is exactly what has the
instruction for `parent_`; none of it is cached, and no client keeps one out of several. That every
child is on the list is stated by closed sets (`Reached`), so that it can be carried through
`Deleted`, itself a least closed set, without induction. `HeapInv` is stated with a set `dying`, what
`DecRef()` has taken to zero and not yet destroyed. `Fresh` adds `Current`: what is cached belongs to
its entry. Hypotheses: `~BundlesKept`, since of several bundles only the first has its `parent_`
reset; for `Fresh` also `Aligned`, starts of ranges that are a multiple of `address_inc_` away from
the instructions behind them, without which `InvalidateRange()` passes an instruction. The
table of section 3 shows that neither can be dropped.

**`GdbServerProofs`** (assumes `GdbServerAssumption`).
`StaysInStep`, `NoStaleAnswer`, `AtRest` and `HaltsToldTruly`: in an orderly session of any length,
with any number of garbled packets, neither side takes a packet for what it is not, a response to
an earlier command is never found where one to the last is due, the core rests whenever the server
does not wait for it, and a stop reply tells of the exit exactly if there was one. The invariant
says in which of nine stages the session is (`Stage`: `Quiet`, `Requested`, `Refused`, `Busy`,
`Answered`, `Rejected`, `Delivered`, `Left`, `Over`), each with all that the two queues may hold,
and `Modes` when the two sides may differ on acknowledgements: only between the response to
`QStartNoAckMode` and the plus to it. `Once`: a command runs at most once, in any session, orderly
or not, by the invariant `OnceInv` on the order of packets and acknowledgements under way.

**`SimpleAssemblerProofs`** (assumes `AssemblerAssumption`: what a statement may be).
`TwoPassesAgree`, `RelocationsRight` and `AcceptedAssembles`, for sources of any length
and in any number of streams that choose a section before they use one and leave gaps only in bss
(`WithoutGaps`, as in the properties), and whose operands fit once the symbols are known. None of the properties is inductive: they
speak of the state after both passes, so the argument follows the passes.
* *First pass.* `Reading` is the invariant while lines are read: `FirstPass(asm, source)` says that
  table and indices correspond, each location counter is the sum of the sizes of its section's lines,
  `lines_` is the source without its bare labels (by an increasing map from saved statements to lines
  of the source), each label is in the table at its section and offset, and each name used is known or
  noted as undefined. `ReadLine` has one lemma per kind of line; `EndOfStream` moves the noted names
  into the table, in any order.
* *Second pass.* After `n` saved statements the pass is in the section of the line they came from,
  without an error, and the table is as it was (`InPass`); the locations are the section's start plus
  the sizes before, and contents and relocations are those of the lines so far (`InPlace`). Both hold
  for every `n` because there is no least one for which they do not. The pass starts in the section in
  which the first one ended; that does no harm, since the first statement that is saved of such a
  source is a change of section.
* *Output.* `UpdateSymbolsForExecutable()` moves each entry by its section's start
  (`TwoPassesAgree`); the sorting of the table keeps its entries, and the indices are taken anew from
  it (`RelocationsRight`).

`TwoPassesAgree` has the hypothesis `DataAddressUnit = 1`, the default of `data_address_unit_`
(`simple_assembler.h:194`): a label alone on its line in data or bss is divided by the unit, other
labels and the starts of the segments are not (section 5).

Only model-checked, and why:

* Liveness under fairness: `EntriesDrain`, `CallsReturn`, `CommandAnswered`, `IncludesEnd`. The
  prover has no rules for `ENABLED`.
* The compilers: `DecodesAsDescribed`, `InsertedIsExtracted`, `PromotedOverlaysAgree`,
  `GeneratedAsDescribed`, `EncoderFits`, `NamesDeclared`, `DecodesAsConstrained`, `SettersGuarded`.
  They say what recursion over trees of any depth computes (`RECURSIVE` operators, induction over
  data).

## 5. Observations without a run of their own

* `EnableAction()` whose write fails returns an error and leaves the action enabled and counted.
  `ClearBreakpoint()` whose restoring write fails keeps an entry that can then be neither cleared
  nor set again. `PlantedIffActive` and `BackedUndisturbed` are stated for writable memory.
* `PerformActions()` dereferences `end()` for an address without actions; its callers ask first.
* After `program_done_` Renode's unguarded accesses may overlap with a CLI command.
* A unit-stride vector store directly to `TaggedFlatDemandMemory` whose first element is masked
  off clears no tag.
* The router forwards a vector whose later element has no target, and refuses ranges of one byte.
* GDB server: an interrupt character is taken for a refused response; a `vCont` with a bad second
  part has already done the first; `c` to a running core is not answered; thread 0 in `vCont` and
  any thread in `H` index past the one core; a step that ends the program is answered with `T05`
  (the next stop reply is right); watchpoints are advertised, but only `Z0` and `z0` are parsed.
* `UnescapeCommand()` doubles an escaped character (`gdbserver.cc:56-67`). The commands of the model
  have none: it is the identity on them.
* A latency equal to the size of the ring does not grow it (`delay_line.h:128`): the record lies in
  the current slot and is on time only if no resize comes between.
* `program_done_` stays set after a breakpoint (`renode_cli_top.cc:91`), so a later `CLIStep()` asks
  for zero steps.
* `SingleInitiatorRouter::Store()` looks up one byte more than it writes
  (`single_initiator_router.cc:268`) and can miss the default target that the load uses. A tagged
  store through `AtomicTaggedMemory` passes on an untagged one (`atomic_tagged_memory.cc:149`).
* `TokenFifo::Push()` takes a token even if the base class refuses (`token_fifo.cc:70`). The code
  generated for a nested bundle does not release its parts (`bundle.cc:127`).

Binary format compiler:

* `IsSimpleDecode()` refuses encodings without a specialization, where it should refuse those with
  one (`encoding_group.cc:121`): a plain group gets no simple table, and duplicates in it are not
  reported.
* Specializations are attached after the check for errors and are lost in combined groups' copies.
  Contradictory equalities may decode. `FieldOrFormat::operator==` (`format.cc:48`) takes fields of
  one name on different bits for equal, and a failed promotion is not passed on to the next level,
  where another format's extractor of that name may be promoted.
* The extractors of a packed struct of just 64 bits take a pointer (`format.cc:362`, `783`) and read
  the bytes of the pointer (`375`, `796`). The second extractor of a format whose width is no power
  of two, for byte arrays, does not extend the sign. An encoding with specializations whose own
  constraints are all settled by the index is emitted with a brace too many.
* Cyclic bases, combined groups or formats that refer to each other recurse without end; an
  undefined format is dereferenced. A 65 to 128 bit field's inserter does not shift; the extractor
  and inserter of replicated formats count from different ends; overlay inserters do not clear.

ISA compiler:

* Overrides are made once per base slot, with `at(name)` (`instruction_set_visitor.cc:1203`): an
  opcode of the second base ends the compiler. Cyclic base slots and bundles recurse without end.
* Attribute setters are shared by a key that only counts the attributes of the slot that the
  instruction does not have (`slot.cc:250`), disassembly setters by one without the order of
  operands, resource setters by one without the cycles of simple resources (`slot.cc:834`), and these
  pass the first instruction's opcode. Complex acquires are added to the holds, and those of lists do
  not compile (`slot.cc:977`, `1084`). A resource that is a list in one place and a single one in
  another is in the enumeration of the last reference only, although `instruction_set_visitor.cc:1423`
  means to keep the two apart.
* `encode_fcns[]` is ordered by snake case names and indexed by the Pascal case enumeration; the
  matcher uses the overridden disassembly, the encoder the original one. Global constants cannot be
  used in latencies. An address without an operand in a format ends the compiler (`slot.cc:447`).

Proto format compiler:

* Included files are parsed twice and their declarations taken from the second, empty, parse
  (`proto_format_visitor.cc:431-439`): nothing in them is declared. The text of a generator is
  parsed as an instruction group: nothing is generated, silently.
* A comparison below exactly one one-of is dropped (`proto_instruction_encoding.cc:159-171`), a
  second constraint below the same member is refused. Literals with a suffix are invalid.
* The emitted text reads other places than the constraints are about. A lookup among the members of
  a one-of is by the identifier of the first constraint (`proto_encoding_group.cc:101, 157`): an
  integer of another meaning, or a message used as an index. The condition for a one-of looks in
  the message that the identifier is in (:439-443), the guard of a setter in the outermost one
  (`proto_instruction_encoding.cc:352-356`); a one-of further out, or further in, is not there.
  The model keeps which place is read (`ident`, `ConditionReads`, `GuardsRead`, `Compiles`). It
  leaves out that comparisons are printed without the accessor's parentheses (:460), nested
  prefixes with a second dot (:443, :455), and guards with an enumeration that no message qualifies:
  a condition is taken as if these were mended. One-ofs of different messages are taken to have
  different names.
* Table lookups have no bounds, and map keys are `int32_t` (`proto_encoding_group.cc:527`). One-ofs
  are keyed by type: the same sub-message in two places is confused. The check for overlaps asks
  the left range for `min_included` twice, and finds none when the constrained fields differ.
* An undefined last field, `HAS` outside of a one-of, an `if_not` setter with an open guard and two
  constraints on a field of an ambiguous group are dereferences of null or of nothing. A combined
  group's deleted children stay in the map.

Assembler:

* The status of the second pass is shadowed (`simple_assembler.cc:742-750`): its errors are lost,
  and so is the statement.
  `current_section_` is not reset between the passes; an instruction that names a symbol in a source
  without sections takes the index of a null section (`simple_assembler.cc:753`). `.align` and `.space` move the location and
  add no bytes to text and data; `.align 0` sets the location to 0.
* `GetValues()` stops silently at what is not a number; a duplicate label on a directive is not
  reported, and one that is the name of a section is dropped; every `.rela` section is said to apply
  to text; undefined symbols stay local.
* The unit of data addresses divides the value of a label alone on its line, and of no other.

## 6. Plan

Done: the run-time core (delay lines, buffers, decode cache, breakpoints), the router with tagged
memories, Renode's control, the GDB session, the three compilers and the assembler. Next:

1. **Proofs** for the parts below as they are modelled.
2. **Fifos and resources**: `TokenFifo`, `FifoWithNotify`, `SimpleResource`, `ComplexResource` with
   the delay line that releases them. Abstract specification: one user per resource and cycle.
3. **Memory system**: `MemoryWatcher`, `Cache`, demand blocks, `MemoryRouter`.
4. **Registry of the Renode agent** and program errors.

## 7. Not modelled

* Sockets, files, ELF, logging and formatting: input and output without state of their own.
* Typed access to buffers, operands, template helpers: pure data. The spelling of generated text,
  namespaces, file names and number formats of the disassembly.
* String and floating point constraints of the proto compiler; ANTLR's lexers and parsers.
* `ClientIncRef` without a matching owner, double `DecRef()` and other misuse by clients.
* The C# side of Renode and the emulator's own scheduler.
* More than one core behind the GDB server: the constructor drops all but the first.
* Wrap-around of 64-bit addresses and of the reference counters.
