---------------------------- MODULE ActionPoints ----------------------------
(***************************************************************************)
(* ActionPointManagerBase (mpact/sim/generic/action_point_manager_base.h   *)
(* and .cc): several clients attach actions to an instruction address; as  *)
(* long as one of them is enabled the instruction in memory is replaced by *)
(* a software breakpoint, and when it executes all enabled actions run.    *)
(*                                                                         *)
(* The memory is reached through ActionPointMemoryInterface, whose two     *)
(* writes may fail; ok is the outcome of the one an operation makes.       *)
(***************************************************************************)
EXTENDS Integers, FiniteSets

CONSTANTS Addresses,
          Functions,      \* the callables attached by clients
          MaxId           \* bound: actions ever attached to one action point

ASSUME ActionPointsAssumption == MaxId \in Nat /\ Functions # {}

Ids == 0 .. MaxId

VARIABLES action_point_map,  \* the addresses with an ActionPointInfo
          next_id, num_active, \* its counters
          action_map,        \* its ids
          enabled,           \* the ids with is_enabled
          action_fcn,        \* action_fcn of an id
          memory,            \* the instruction at an address
          performed,         \* the actions run by the last PerformActions()
          crashed,           \* an end() iterator was dereferenced
          writes_fail,       \* the environment: memory writes may fail
          resets             \* the environment: somebody calls ClearAllActionPoints()

apVars == <<action_point_map, next_id, num_active, action_map, enabled,
            action_fcn, memory, performed, crashed>>
environment == <<writes_fail, resets>>

APInit ==
  /\ action_point_map = {}
  /\ next_id = [a \in Addresses |-> 0]
  /\ num_active = [a \in Addresses |-> 0]
  /\ action_map = [a \in Addresses |-> {}]
  /\ enabled = [a \in Addresses |-> {}]
  /\ action_fcn = [a \in Addresses |-> [id \in Ids |-> CHOOSE f \in Functions : TRUE]]
  /\ memory = [a \in Addresses |-> "original"]
  /\ performed = {}
  /\ crashed = FALSE
  /\ writes_fail \in BOOLEAN /\ resets \in BOOLEAN

WriteOutcomes == IF writes_fail THEN BOOLEAN ELSE {TRUE}

-----------------------------------------------------------------------------
(* ActionPointMemoryInterface: a failed write leaves the memory alone.     *)
WriteBreakpointInstruction(a, ok) ==
  memory' = IF ok THEN [memory EXCEPT ![a] = "breakpoint"] ELSE memory

WriteOriginalInstruction(a, ok) ==
  memory' = IF ok THEN [memory EXCEPT ![a] = "original"] ELSE memory

(* SetAction(): the breakpoint is written first if no action is active; if *)
(* that fails nothing else happens.                                        *)
SetAction(a, fcn, ok) ==
  /\ next_id[a] < MaxId
  /\ IF num_active[a] = 0 THEN WriteBreakpointInstruction(a, ok) ELSE UNCHANGED memory
  /\ IF num_active[a] = 0 /\ ~ok
     THEN UNCHANGED <<action_point_map, next_id, num_active, action_map, enabled, action_fcn>>
     ELSE /\ action_point_map' = action_point_map \cup {a}
          /\ action_map' = [action_map EXCEPT ![a] = @ \cup {next_id[a]}]
          /\ enabled' = [enabled EXCEPT ![a] = @ \cup {next_id[a]}]
          /\ action_fcn' = [action_fcn EXCEPT ![a][next_id[a]] = fcn]
          /\ next_id' = [next_id EXCEPT ![a] = @ + 1]
          /\ num_active' = [num_active EXCEPT ![a] = @ + 1]
  /\ UNCHANGED <<performed, crashed>>

(* An operation on an action that does not exist returns NotFound.         *)
Exists(a, id) == a \in action_point_map /\ id \in action_map[a]

(* ClearAction(): the action is gone even if the write fails.              *)
ClearActionAlwaysCounts(a, id, ok) ==
  LET n == num_active[a] - 1 IN
  /\ Exists(a, id)
  /\ action_map' = [action_map EXCEPT ![a] = @ \ {id}]
  /\ enabled' = [enabled EXCEPT ![a] = @ \ {id}]
  /\ num_active' = [num_active EXCEPT ![a] = n]
  /\ IF n = 0 THEN WriteOriginalInstruction(a, ok) ELSE UNCHANGED memory
  /\ UNCHANGED <<action_point_map, next_id, action_fcn, performed, crashed>>

ClearAction(a, id, ok) ==
  LET n == IF id \in enabled[a] THEN num_active[a] - 1 ELSE num_active[a] IN
  /\ Exists(a, id)
  /\ action_map' = [action_map EXCEPT ![a] = @ \ {id}]
  /\ enabled' = [enabled EXCEPT ![a] = @ \ {id}]
  /\ num_active' = [num_active EXCEPT ![a] = n]
  /\ IF n = 0 THEN WriteOriginalInstruction(a, ok) ELSE UNCHANGED memory
  /\ UNCHANGED <<action_point_map, next_id, action_fcn, performed, crashed>>

(* EnableAction(): counted as active before the write that may fail.       *)
EnableAction(a, id, ok) ==
  /\ Exists(a, id)
  /\ id \notin enabled[a]
  /\ enabled' = [enabled EXCEPT ![a] = @ \cup {id}]
  /\ num_active' = [num_active EXCEPT ![a] = @ + 1]
  /\ IF num_active[a] = 0 THEN WriteBreakpointInstruction(a, ok) ELSE UNCHANGED memory
  /\ UNCHANGED <<action_point_map, next_id, action_map, action_fcn, performed, crashed>>

DisableActionWrites(a, id, ok) ==
  /\ Exists(a, id)
  /\ id \in enabled[a]
  /\ enabled' = [enabled EXCEPT ![a] = @ \ {id}]
  /\ num_active' = [num_active EXCEPT ![a] = @ - 1]
  /\ WriteOriginalInstruction(a, ok)
  /\ UNCHANGED <<action_point_map, next_id, action_map, action_fcn, performed, crashed>>

DisableAction(a, id, ok) ==
  /\ Exists(a, id)
  /\ id \in enabled[a]
  /\ enabled' = [enabled EXCEPT ![a] = @ \ {id}]
  /\ num_active' = [num_active EXCEPT ![a] = @ - 1]
  /\ IF num_active[a] = 1 THEN WriteOriginalInstruction(a, ok) ELSE UNCHANGED memory
  /\ UNCHANGED <<action_point_map, next_id, action_map, action_fcn, performed, crashed>>

(* ClearAllActionPoints() ignores the outcome of its writes, ok of which   *)
(* is the set of addresses where they succeed.                             *)
ClearAllActionPoints(ok) ==
  /\ resets
  /\ action_point_map' = {}
  /\ next_id' = [a \in Addresses |-> 0]
  /\ num_active' = [a \in Addresses |-> 0]
  /\ action_map' = [a \in Addresses |-> {}]
  /\ enabled' = [a \in Addresses |-> {}]
  /\ memory' = [a \in Addresses |->
                  IF a \in action_point_map \cap ok THEN "original" ELSE memory[a]]
  /\ UNCHANGED <<action_fcn, performed, crashed>>

(* PerformActions(), which the handler of an executed breakpoint calls.    *)
(* Without an action point it logs an error and goes on to dereference the *)
(* end iterator.  The actions do not call back into the manager here.      *)
PerformActions(a) ==
  /\ a \in action_point_map
  /\ performed' = {action_fcn[a][id] : id \in action_map[a] \cap enabled[a]}
  /\ UNCHANGED <<action_point_map, next_id, num_active, action_map, enabled,
                 action_fcn, memory, crashed>>

PerformNoActions(a) ==
  /\ a \notin action_point_map
  /\ crashed' = TRUE
  /\ UNCHANGED <<action_point_map, next_id, num_active, action_map, enabled,
                 action_fcn, memory, performed>>

(* The subsets of addresses that ClearAllActionPoints() can write.         *)
Writable == IF writes_fail THEN SUBSET Addresses ELSE {Addresses}

-----------------------------------------------------------------------------
(* Ids are handed out in increasing order, and what is enabled is in the   *)
(* map.                                                                    *)
IdsKnown ==
  \A a \in Addresses : /\ enabled[a] \subseteq action_map[a]
                       /\ \A id \in action_map[a] : id < next_id[a]
                       /\ a \notin action_point_map => next_id[a] = 0

(* Types of the members, with what is known of the ids.                    *)
APTypeOK ==
  /\ action_point_map \subseteq Addresses
  /\ next_id \in [Addresses -> Ids]
  /\ num_active \in [Addresses -> Int]
  /\ action_map \in [Addresses -> SUBSET Ids]
  /\ enabled \in [Addresses -> SUBSET Ids]
  /\ action_fcn \in [Addresses -> [Ids -> Functions]]
  /\ memory \in [Addresses -> {"original", "breakpoint"}]
  /\ performed \subseteq Functions
  /\ crashed \in BOOLEAN
  /\ IdsKnown

(* num_active_, on which every decision to write the memory rests, is the  *)
(* number of enabled actions, failed writes and repeated calls included.   *)
ActiveCounted == \A a \in Addresses : num_active[a] = Cardinality(enabled[a])

(* A breakpoint instruction is in memory exactly while an action at the    *)
(* address is enabled: no client's Disable or Clear uncovers the           *)
(* instruction another one still watches, and none leaves it behind, as    *)
(* long as the memory can be written.                                      *)
PlantedIffActive ==
  ~writes_fail => \A a \in Addresses : memory[a] = "breakpoint" <=> enabled[a] # {}
=============================================================================
