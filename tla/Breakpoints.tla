---------------------------- MODULE Breakpoints ----------------------------
(***************************************************************************)
(* BreakpointManager (mpact/sim/generic/breakpoint_manager.h and .cc) on   *)
(* top of the ActionPointManagerBase it shares with other clients, which   *)
(* attach actions of their own.  A breakpoint is an action that requests a *)
(* halt; breakpoint_map remembers its id.                                  *)
(***************************************************************************)
EXTENDS ActionPoints

CONSTANTS Halt,          \* DoBreakpointAction bound to this manager
          None           \* no breakpoint

ASSUME BreakpointsAssumption ==
  /\ Halt \in Functions
  /\ None \notin Ids

VARIABLES breakpoint_map,  \* address |-> id of its BreakpointInfo, or None
          last_breakpoint, \* last_breakpoint_address_
          halt             \* a halt was requested

bpVars == <<breakpoint_map, last_breakpoint, halt>>
vars == <<apVars, bpVars, environment>>

Init ==
  /\ APInit
  /\ breakpoint_map = [a \in Addresses |-> None]
  /\ last_breakpoint = None
  /\ halt = FALSE

HasBreakpoint(a) == breakpoint_map[a] # None

(* SetBreakpoint(): recorded only if SetAction() returned an id.           *)
SetBreakpointAgain(a, ok) ==
  /\ SetAction(a, Halt, ok)
  /\ breakpoint_map' = IF num_active[a] = 0 /\ ~ok THEN breakpoint_map
                       ELSE [breakpoint_map EXCEPT ![a] = next_id[a]]
  /\ UNCHANGED <<last_breakpoint, halt>>

SetBreakpointByCount(a, ok) ==
  /\ ~HasBreakpoint(a)
  /\ SetAction(a, Halt, ok)
  /\ breakpoint_map' = IF num_active[a] = 0 /\ ~ok THEN breakpoint_map
                       ELSE [breakpoint_map EXCEPT ![a] = num_active[a]]
  /\ UNCHANGED <<last_breakpoint, halt>>

SetBreakpoint(a, ok) ==
  /\ ~HasBreakpoint(a)
  /\ SetAction(a, Halt, ok)
  /\ breakpoint_map' = IF num_active[a] = 0 /\ ~ok THEN breakpoint_map
                       ELSE [breakpoint_map EXCEPT ![a] = next_id[a]]
  /\ UNCHANGED <<last_breakpoint, halt>>

(* ClearBreakpoint(): forgotten only if ClearAction() returned OK.         *)
Cleared(a, ok) == num_active'[a] # 0 \/ ok

ClearBreakpointKeeps(a, ok) ==
  /\ HasBreakpoint(a)
  /\ ClearAction(a, breakpoint_map[a], ok)
  /\ UNCHANGED bpVars

ClearBreakpoint(a, ok) ==
  /\ HasBreakpoint(a)
  /\ ClearAction(a, breakpoint_map[a], ok)
  /\ breakpoint_map' = IF Cleared(a, ok) THEN [breakpoint_map EXCEPT ![a] = None]
                       ELSE breakpoint_map
  /\ UNCHANGED <<last_breakpoint, halt>>

DisableBreakpoint(a, ok) ==
  /\ HasBreakpoint(a)
  /\ DisableAction(a, breakpoint_map[a], ok)
  /\ UNCHANGED bpVars

EnableBreakpoint(a, ok) ==
  /\ HasBreakpoint(a)
  /\ EnableAction(a, breakpoint_map[a], ok)
  /\ UNCHANGED bpVars

(* ClearAllBreakpoints() ignores what ClearAction() returns; ok is the set *)
(* of addresses whose memory write succeeds.                               *)
ClearAllBreakpoints(ok) ==
  LET known == {a \in Addresses : HasBreakpoint(a) /\ Exists(a, breakpoint_map[a])}
      left == [a \in Addresses |->
                 IF a \in known /\ breakpoint_map[a] \in enabled[a] THEN num_active[a] - 1
                 ELSE num_active[a]]
  IN  /\ \E a \in Addresses : HasBreakpoint(a)
      /\ action_map' = [a \in Addresses |->
           IF a \in known THEN action_map[a] \ {breakpoint_map[a]} ELSE action_map[a]]
      /\ enabled' = [a \in Addresses |->
           IF a \in known THEN enabled[a] \ {breakpoint_map[a]} ELSE enabled[a]]
      /\ num_active' = left
      /\ memory' = [a \in Addresses |->
           IF a \in known \cap ok /\ left[a] = 0 THEN "original" ELSE memory[a]]
      /\ breakpoint_map' = [a \in Addresses |-> None]
      /\ UNCHANGED <<action_point_map, next_id, action_fcn, performed, crashed, last_breakpoint, halt>>

(* The breakpoint at a is executed: PerformActions() runs                  *)
(* DoBreakpointAction() if it is among the enabled actions.                *)
ExecuteBreakpoint(a) ==
  /\ memory[a] = "breakpoint"
  /\ PerformActions(a)
  /\ IF Halt \in performed'
     THEN last_breakpoint' = a /\ halt' = TRUE
     ELSE UNCHANGED <<last_breakpoint, halt>>
  /\ UNCHANGED breakpoint_map

(* A breakpoint instruction of the program itself, where there may be no   *)
(* action point.                                                           *)
ExecuteProgramBreakpoint(a) == PerformNoActions(a) /\ UNCHANGED bpVars

(* The debugger resumes the core.                                          *)
Resume == halt /\ halt' = FALSE /\ UNCHANGED <<apVars, breakpoint_map, last_breakpoint>>

(* Another client of the action point manager, which uses the ids it was   *)
(* given: those whose function is not ours.                                *)
OtherClient ==
  /\ \E a \in Addresses, ok \in WriteOutcomes :
       \/ \E f \in Functions \ {Halt} : SetAction(a, f, ok)
       \/ \E id \in {i \in action_map[a] : action_fcn[a][i] # Halt} :
            ClearAction(a, id, ok) \/ EnableAction(a, id, ok) \/ DisableAction(a, id, ok)
  /\ UNCHANGED bpVars

Reset ==
  /\ \E ok \in Writable : ClearAllActionPoints(ok)
  /\ UNCHANGED bpVars

(* The operations of the BreakpointManager itself.                         *)
ManagerStep ==
  \/ \E a \in Addresses, ok \in WriteOutcomes :
       \/ SetBreakpoint(a, ok) \/ ClearBreakpoint(a, ok)
       \/ DisableBreakpoint(a, ok) \/ EnableBreakpoint(a, ok)
  \/ \E ok \in Writable : ClearAllBreakpoints(ok)

Next ==
  /\ ~crashed
  /\ \/ ManagerStep
     \/ \E a \in Addresses : ExecuteBreakpoint(a)
     \/ Resume
     \/ OtherClient
     \/ Reset
     \/ \E a \in Addresses : ExecuteProgramBreakpoint(a)
  /\ UNCHANGED environment

Spec == Init /\ [][Next]_vars

-----------------------------------------------------------------------------
EnvironmentOK == writes_fail \in BOOLEAN /\ resets \in BOOLEAN

(* Types of the manager's members.                                         *)
TypeOK ==
  /\ APTypeOK /\ EnvironmentOK
  /\ breakpoint_map \in [Addresses -> Ids \cup {None}]
  /\ last_breakpoint \in Addresses \cup {None}
  /\ halt \in BOOLEAN

(* Each of our actions in the action point manager is recorded, so it can  *)
(* be found, disabled and cleared and does not halt the core for ever.     *)
HaltActionsRecorded ==
  \A a \in Addresses : \A id \in action_map[a] :
    action_fcn[a][id] = Halt => breakpoint_map[a] = id

(* Each recorded breakpoint is an action of ours in the action point       *)
(* manager: ClearBreakpoint() will find it, and SetBreakpoint() is not     *)
(* refused for a breakpoint that is gone.  (Somebody who resets the shared *)
(* manager takes the actions away from under the BreakpointManager.)       *)
BreakpointsBacked ==
  ~resets => \A a \in Addresses :
    HasBreakpoint(a) => /\ Exists(a, breakpoint_map[a])
                        /\ action_fcn[a][breakpoint_map[a]] = Halt

(* The same while no memory write fails.                                   *)
BackedUndisturbed == ~writes_fail => BreakpointsBacked

Undisturbed == ~writes_fail /\ ~resets

IsBreakpoint(a) ==
  /\ HasBreakpoint(a)
  /\ a \in action_point_map
  /\ breakpoint_map[a] \in action_map[a] \cap enabled[a]

(* What IsBreakpoint() reports as an active breakpoint will halt the core: *)
(* the instruction is planted and the enabled action is our own, unless    *)
(* the environment interfered.                                             *)
IsBreakpointHonest ==
  Undisturbed => \A a \in Addresses :
    IsBreakpoint(a) => /\ memory[a] = "breakpoint"
                       /\ action_fcn[a][breakpoint_map[a]] = Halt

(* The actions of other clients.                                           *)
Foreign(a) == {id \in action_map[a] : action_fcn[a][id] # Halt}

OthersUnchanged ==
  \A a \in Addresses : /\ Foreign(a)' = Foreign(a)
                       /\ (enabled[a] \cap Foreign(a))' = enabled[a] \cap Foreign(a)

(* No operation of the BreakpointManager removes, enables or disables an   *)
(* action of another client, even if writes fail: the id of an action that *)
(* is gone, which ClearBreakpoint() then keeps, is not given to anybody    *)
(* else until somebody resets the shared manager.                          *)
LeavesOthersAlone == [][~resets /\ ManagerStep => OthersUnchanged]_vars
=============================================================================
