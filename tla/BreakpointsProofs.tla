------------------------- MODULE BreakpointsProofs -------------------------
(***************************************************************************)
(* Proofs about Breakpoints for every set of addresses and functions and   *)
(* every number of actions: first what holds whatever fails, then what     *)
(* holds while the memory can be written, then the agreement of the two    *)
(* managers while nobody resets the shared one.                            *)
(***************************************************************************)
EXTENDS Breakpoints, FiniteSetTheorems, TLAPS

LEMMA EnabledCard ==
  ASSUME NEW S \in SUBSET Ids, NEW x \in Ids
  PROVE  /\ Cardinality(S) \in Nat
         /\ Cardinality(S) = 0 <=> S = {}
         /\ Cardinality(S \cup {x}) = IF x \in S THEN Cardinality(S) ELSE Cardinality(S) + 1
         /\ Cardinality(S \ {x}) = IF x \in S THEN Cardinality(S) - 1 ELSE Cardinality(S)
<1>1. IsFiniteSet(S)
  <2>1. IsFiniteSet(0 .. MaxId)
    BY FS_Interval, ActionPointsAssumption
  <2> QED BY <2>1, FS_Subset DEF Ids
<1>2. Cardinality(S) \in Nat /\ (Cardinality(S) = 0 <=> S = {})
  BY <1>1, FS_CardinalityType, FS_EmptySet
<1>3. Cardinality(S \cup {x}) = IF x \in S THEN Cardinality(S) ELSE Cardinality(S) + 1
  BY <1>1, FS_AddElement
<1>4. Cardinality(S \ {x}) = IF x \in S THEN Cardinality(S) - 1 ELSE Cardinality(S)
  BY <1>1, FS_RemoveElement
<1> QED BY <1>2, <1>3, <1>4

-----------------------------------------------------------------------------
(* What every operation of the action point manager preserves.             *)
APInv == APTypeOK /\ ActiveCounted

LEMMA SetActionInv ==
  ASSUME APInv, NEW a \in Addresses, NEW fcn \in Functions, NEW ok \in WriteOutcomes,
         SetAction(a, fcn, ok)
  PROVE  APInv'
<1>1. CASE num_active[a] = 0 /\ ~ok
  BY <1>1 DEF APInv, APTypeOK, IdsKnown, ActiveCounted, SetAction, WriteBreakpointInstruction
<1>2. CASE ~(num_active[a] = 0 /\ ~ok)
  <2>1. /\ action_point_map' = action_point_map \cup {a}
        /\ action_map' = [action_map EXCEPT ![a] = @ \cup {next_id[a]}]
        /\ enabled' = [enabled EXCEPT ![a] = @ \cup {next_id[a]}]
        /\ action_fcn' = [action_fcn EXCEPT ![a][next_id[a]] = fcn]
        /\ next_id' = [next_id EXCEPT ![a] = @ + 1]
        /\ num_active' = [num_active EXCEPT ![a] = @ + 1]
        /\ next_id[a] < MaxId
        /\ performed' = performed /\ crashed' = crashed
    BY <1>2 DEF SetAction
  <2>2. memory' \in [Addresses -> {"original", "breakpoint"}]
    BY DEF SetAction, WriteBreakpointInstruction, APInv, APTypeOK
  <2>3. next_id[a] \in Ids /\ next_id[a] + 1 \in Ids /\ next_id[a] \notin action_map[a]
    BY <2>1, ActionPointsAssumption DEF APInv, APTypeOK, IdsKnown, Ids
  <2>4. APTypeOK'
    <3>1. /\ action_point_map' \subseteq Addresses
          /\ next_id' \in [Addresses -> Ids]
          /\ num_active' \in [Addresses -> Int]
          /\ action_map' \in [Addresses -> SUBSET Ids]
          /\ enabled' \in [Addresses -> SUBSET Ids]
      BY <2>1, <2>3 DEF APInv, APTypeOK
    <3>2. action_fcn' \in [Addresses -> [Ids -> Functions]]
      BY <2>1, <2>3 DEF APInv, APTypeOK
    <3>3. performed' \subseteq Functions /\ crashed' \in BOOLEAN
      BY <2>1, Zenon DEF APInv, APTypeOK
    <3>4. IdsKnown'
      <4> SUFFICES ASSUME NEW b \in Addresses
                   PROVE  /\ enabled'[b] \subseteq action_map'[b]
                          /\ \A id \in action_map'[b] : id < next_id'[b]
                          /\ b \notin action_point_map' => next_id'[b] = 0
        BY DEF IdsKnown
      <4>1. CASE b = a
        BY <2>1, <2>3, <4>1, ActionPointsAssumption DEF APInv, APTypeOK, IdsKnown, Ids
      <4>2. CASE b # a
        BY <2>1, <4>2 DEF APInv, APTypeOK, IdsKnown
      <4> QED BY <4>1, <4>2
    <3> QED BY <2>2, <3>1, <3>2, <3>3, <3>4 DEF APTypeOK
  <2>5. Cardinality(enabled[a] \cup {next_id[a]}) = Cardinality(enabled[a]) + 1
    <3>1. enabled[a] \in SUBSET Ids /\ next_id[a] \notin enabled[a]
      BY <2>3 DEF APInv, APTypeOK, IdsKnown
    <3> QED BY <2>3, <3>1, EnabledCard
  <2>6. ActiveCounted'
    BY <2>1, <2>5 DEF APInv, APTypeOK, ActiveCounted
  <2> QED BY <2>4, <2>6 DEF APInv
<1> QED BY <1>1, <1>2

LEMMA ClearActionInv ==
  ASSUME APInv, NEW a \in Addresses, NEW id \in Ids, NEW ok \in WriteOutcomes,
         ClearAction(a, id, ok)
  PROVE  APInv'
<1>1. enabled[a] \in SUBSET Ids /\ num_active[a] = Cardinality(enabled[a])
  BY DEF APInv, APTypeOK, ActiveCounted
<1>2. Cardinality(enabled[a] \ {id})
        = IF id \in enabled[a] THEN num_active[a] - 1 ELSE num_active[a]
  BY <1>1, EnabledCard
<1>3. memory' \in [Addresses -> {"original", "breakpoint"}]
  BY DEF ClearAction, WriteOriginalInstruction, APInv, APTypeOK
<1>4. APTypeOK'
  <2>1. /\ action_point_map' \subseteq Addresses
        /\ next_id' \in [Addresses -> Ids]
        /\ num_active' \in [Addresses -> Int]
        /\ action_map' \in [Addresses -> SUBSET Ids]
        /\ enabled' \in [Addresses -> SUBSET Ids]
        /\ action_fcn' \in [Addresses -> [Ids -> Functions]]
    BY DEF ClearAction, APInv, APTypeOK
  <2>2. performed' \subseteq Functions /\ crashed' \in BOOLEAN
    BY Zenon DEF ClearAction, APInv, APTypeOK
  <2>3. IdsKnown'
    BY DEF ClearAction, Exists, APInv, APTypeOK, IdsKnown
  <2> QED BY <1>3, <2>1, <2>2, <2>3 DEF APTypeOK
<1>5. ActiveCounted'
  BY <1>2 DEF ClearAction, APInv, APTypeOK, ActiveCounted
<1> QED BY <1>4, <1>5 DEF APInv

LEMMA EnableActionInv ==
  ASSUME APInv, NEW a \in Addresses, NEW id \in Ids, NEW ok \in WriteOutcomes,
         EnableAction(a, id, ok)
  PROVE  APInv'
<1>1. /\ enabled[a] \in SUBSET Ids /\ num_active[a] = Cardinality(enabled[a])
      /\ id \notin enabled[a]
  BY DEF APInv, APTypeOK, ActiveCounted, EnableAction
<1>2. Cardinality(enabled[a] \cup {id}) = num_active[a] + 1
  BY <1>1, EnabledCard
<1>3. memory' \in [Addresses -> {"original", "breakpoint"}]
  BY DEF EnableAction, WriteBreakpointInstruction, APInv, APTypeOK
<1>4. APTypeOK'
  <2>1. /\ action_point_map' \subseteq Addresses
        /\ next_id' \in [Addresses -> Ids]
        /\ num_active' \in [Addresses -> Int]
        /\ action_map' \in [Addresses -> SUBSET Ids]
        /\ enabled' \in [Addresses -> SUBSET Ids]
        /\ action_fcn' \in [Addresses -> [Ids -> Functions]]
    BY DEF EnableAction, APInv, APTypeOK
  <2>2. performed' \subseteq Functions /\ crashed' \in BOOLEAN
    BY Zenon DEF EnableAction, APInv, APTypeOK
  <2>3. IdsKnown'
    BY DEF EnableAction, Exists, APInv, APTypeOK, IdsKnown
  <2> QED BY <1>3, <2>1, <2>2, <2>3 DEF APTypeOK
<1>5. ActiveCounted'
  BY <1>2 DEF EnableAction, APInv, APTypeOK, ActiveCounted
<1> QED BY <1>4, <1>5 DEF APInv

LEMMA DisableActionInv ==
  ASSUME APInv, NEW a \in Addresses, NEW id \in Ids, NEW ok \in WriteOutcomes,
         DisableAction(a, id, ok)
  PROVE  APInv'
<1>1. /\ enabled[a] \in SUBSET Ids /\ num_active[a] = Cardinality(enabled[a])
      /\ id \in enabled[a]
  BY DEF APInv, APTypeOK, ActiveCounted, DisableAction
<1>2. Cardinality(enabled[a] \ {id}) = num_active[a] - 1
  BY <1>1, EnabledCard
<1>3. memory' \in [Addresses -> {"original", "breakpoint"}]
  BY DEF DisableAction, WriteOriginalInstruction, APInv, APTypeOK
<1>4. APTypeOK'
  <2>1. /\ action_point_map' \subseteq Addresses
        /\ next_id' \in [Addresses -> Ids]
        /\ num_active' \in [Addresses -> Int]
        /\ action_map' \in [Addresses -> SUBSET Ids]
        /\ enabled' \in [Addresses -> SUBSET Ids]
        /\ action_fcn' \in [Addresses -> [Ids -> Functions]]
    BY DEF DisableAction, APInv, APTypeOK
  <2>2. performed' \subseteq Functions /\ crashed' \in BOOLEAN
    BY Zenon DEF DisableAction, APInv, APTypeOK
  <2>3. IdsKnown'
    BY DEF DisableAction, Exists, APInv, APTypeOK, IdsKnown
  <2> QED BY <1>3, <2>1, <2>2, <2>3 DEF APTypeOK
<1>5. ActiveCounted'
  BY <1>2 DEF DisableAction, APInv, APTypeOK, ActiveCounted
<1> QED BY <1>4, <1>5 DEF APInv

LEMMA ClearAllInv ==
  ASSUME APInv, NEW ok, ClearAllActionPoints(ok)
  PROVE  APInv'
<1>1. Cardinality({}) = 0
  BY FS_EmptySet
<1>2. /\ 0 \in Ids
      /\ memory' \in [Addresses -> {"original", "breakpoint"}]
  BY ActionPointsAssumption DEF APInv, APTypeOK, ClearAllActionPoints, Ids
<1>3. performed' \subseteq Functions /\ crashed' \in BOOLEAN
  BY Zenon DEF APInv, APTypeOK, ClearAllActionPoints
<1>4. APTypeOK' /\ ActiveCounted'
  BY <1>1, <1>2, <1>3 DEF APInv, APTypeOK, IdsKnown, ActiveCounted, ClearAllActionPoints
<1> QED BY <1>4 DEF APInv

LEMMA PerformActionsInv ==
  ASSUME APInv, NEW a \in Addresses, PerformActions(a) \/ PerformNoActions(a)
  PROVE  APInv'
<1>1. performed' \subseteq Functions
  BY DEF APInv, APTypeOK, PerformActions, PerformNoActions
<1>2. crashed' \in BOOLEAN
  BY Zenon DEF APInv, APTypeOK, PerformActions, PerformNoActions
<1>3. UNCHANGED <<action_point_map, next_id, num_active, action_map, enabled, action_fcn, memory>>
  BY DEF PerformActions, PerformNoActions
<1> QED BY <1>1, <1>2, <1>3 DEF APInv, APTypeOK, IdsKnown, ActiveCounted

LEMMA ClearAllBreakpointsInv ==
  ASSUME APInv, NEW ok, ClearAllBreakpoints(ok)
  PROVE  APInv'
<1> DEFINE known == {a \in Addresses : HasBreakpoint(a) /\ Exists(a, breakpoint_map[a])}
           left == [a \in Addresses |->
                      IF a \in known /\ breakpoint_map[a] \in enabled[a] THEN num_active[a] - 1
                      ELSE num_active[a]]
<1>1. /\ action_map' = [a \in Addresses |->
           IF a \in known THEN action_map[a] \ {breakpoint_map[a]} ELSE action_map[a]]
      /\ enabled' = [a \in Addresses |->
           IF a \in known THEN enabled[a] \ {breakpoint_map[a]} ELSE enabled[a]]
      /\ num_active' = left
      /\ memory' = [a \in Addresses |->
           IF a \in known \cap ok /\ left[a] = 0 THEN "original" ELSE memory[a]]
      /\ UNCHANGED <<action_point_map, next_id, action_fcn, performed, crashed>>
  BY DEF ClearAllBreakpoints
<1>2. \A a \in known : breakpoint_map[a] \in Ids
  BY DEF Exists, APInv, APTypeOK
<1> HIDE DEF known
<1>3. /\ action_point_map' \subseteq Addresses
      /\ next_id' \in [Addresses -> Ids]
      /\ num_active' \in [Addresses -> Int]
      /\ action_map' \in [Addresses -> SUBSET Ids]
      /\ enabled' \in [Addresses -> SUBSET Ids]
      /\ action_fcn' \in [Addresses -> [Ids -> Functions]]
  BY <1>1 DEF APInv, APTypeOK
<1>4. memory' \in [Addresses -> {"original", "breakpoint"}]
  BY <1>1 DEF APInv, APTypeOK
<1>5. performed' \subseteq Functions /\ crashed' \in BOOLEAN
  BY <1>1, Zenon DEF APInv, APTypeOK
<1>6. IdsKnown'
  BY <1>1 DEF APInv, APTypeOK, IdsKnown
<1>7. ActiveCounted'
  <2> SUFFICES ASSUME NEW a \in Addresses
               PROVE  num_active'[a] = Cardinality(enabled'[a])
    BY DEF ActiveCounted
  <2>1. enabled[a] \in SUBSET Ids /\ num_active[a] = Cardinality(enabled[a])
    BY DEF APInv, APTypeOK, ActiveCounted
  <2>2. CASE a \in known
    <3>1. Cardinality(enabled[a] \ {breakpoint_map[a]})
            = IF breakpoint_map[a] \in enabled[a] THEN num_active[a] - 1 ELSE num_active[a]
      BY <1>2, <2>1, <2>2, EnabledCard
    <3> QED BY <1>1, <2>2, <3>1
  <2>3. CASE a \notin known
    BY <1>1, <2>1, <2>3
  <2> QED BY <2>2, <2>3
<1> QED BY <1>3, <1>4, <1>5, <1>6, <1>7 DEF APInv, APTypeOK

-----------------------------------------------------------------------------
(* What holds whatever fails.                                              *)
BPTypeOK ==
  /\ breakpoint_map \in [Addresses -> Ids \cup {None}]
  /\ last_breakpoint \in Addresses \cup {None}
  /\ halt \in BOOLEAN

LEMMA InitInv == Init => APInv /\ BPTypeOK
<1> SUFFICES ASSUME Init PROVE APInv /\ BPTypeOK
  OBVIOUS
<1>1. Cardinality({}) = 0
  BY FS_EmptySet
<1>2. 0 \in Ids /\ (CHOOSE f \in Functions : TRUE) \in Functions
  BY ActionPointsAssumption DEF Ids
<1>3. APTypeOK
  <2>1. PICK f \in Functions : f = CHOOSE g \in Functions : TRUE
    BY <1>2
  <2>2. action_fcn = [a \in Addresses |-> [id \in Ids |-> f]]
    BY <2>1 DEF Init, APInit
  <2>3. action_fcn \in [Addresses -> [Ids -> Functions]]
    BY <2>2
  <2>4. crashed \in BOOLEAN
    BY Zenon DEF Init, APInit
  <2>5. /\ action_point_map \subseteq Addresses
        /\ next_id \in [Addresses -> Ids]
        /\ num_active \in [Addresses -> Int]
        /\ action_map \in [Addresses -> SUBSET Ids]
        /\ enabled \in [Addresses -> SUBSET Ids]
        /\ memory \in [Addresses -> {"original", "breakpoint"}]
        /\ performed \subseteq Functions
    BY <1>2 DEF Init, APInit
  <2>6. IdsKnown
    BY DEF Init, APInit, IdsKnown
  <2> QED BY <2>3, <2>4, <2>5, <2>6 DEF APTypeOK
<1>4. ActiveCounted
  BY <1>1 DEF Init, APInit, ActiveCounted
<1>5. BPTypeOK
  BY DEF Init, BPTypeOK
<1> QED BY <1>3, <1>4, <1>5 DEF APInv

(* What a step of the system is for the action point manager.              *)
LEMMA Steps ==
  ASSUME APInv, BPTypeOK, [Next]_vars
  PROVE  \/ \E a \in Addresses, ok \in WriteOutcomes :
              \/ \E f \in Functions : SetAction(a, f, ok)
              \/ \E id \in Ids : \/ ClearAction(a, id, ok)
                                 \/ EnableAction(a, id, ok)
                                 \/ DisableAction(a, id, ok)
         \/ \E ok \in Writable : resets /\ ClearAllActionPoints(ok)
         \/ \E ok \in Writable : ClearAllBreakpoints(ok)
         \/ \E a \in Addresses : PerformActions(a) \/ PerformNoActions(a)
         \/ UNCHANGED apVars
<1>1. ASSUME NEW a \in Addresses, NEW id, Exists(a, id) PROVE id \in Ids
  BY <1>1 DEF Exists, APInv, APTypeOK
<1>2. ASSUME NEW a \in Addresses, NEW ok \in WriteOutcomes,
             \/ SetBreakpoint(a, ok) \/ ClearBreakpoint(a, ok)
             \/ DisableBreakpoint(a, ok) \/ EnableBreakpoint(a, ok)
      PROVE  \/ \E f \in Functions : SetAction(a, f, ok)
             \/ \E id \in Ids : \/ ClearAction(a, id, ok)
                                \/ EnableAction(a, id, ok)
                                \/ DisableAction(a, id, ok)
  <2>1. CASE SetBreakpoint(a, ok)
    BY <2>1, BreakpointsAssumption DEF SetBreakpoint
  <2>2. CASE ClearBreakpoint(a, ok)
    <3>1. ClearAction(a, breakpoint_map[a], ok)
      BY <2>2 DEF ClearBreakpoint
    <3>2. breakpoint_map[a] \in Ids
      BY <1>1, <3>1 DEF ClearAction
    <3> QED BY <3>1, <3>2
  <2>3. CASE DisableBreakpoint(a, ok)
    <3>1. DisableAction(a, breakpoint_map[a], ok)
      BY <2>3 DEF DisableBreakpoint
    <3>2. breakpoint_map[a] \in Ids
      BY <1>1, <3>1 DEF DisableAction
    <3> QED BY <3>1, <3>2
  <2>4. CASE EnableBreakpoint(a, ok)
    <3>1. EnableAction(a, breakpoint_map[a], ok)
      BY <2>4 DEF EnableBreakpoint
    <3>2. breakpoint_map[a] \in Ids
      BY <1>1, <3>1 DEF EnableAction
    <3> QED BY <3>1, <3>2
  <2> QED BY <1>2, <2>1, <2>2, <2>3, <2>4
<1>3. ASSUME OtherClient
      PROVE  \E a \in Addresses, ok \in WriteOutcomes :
               \/ \E f \in Functions : SetAction(a, f, ok)
               \/ \E id \in Ids : \/ ClearAction(a, id, ok)
                                  \/ EnableAction(a, id, ok)
                                  \/ DisableAction(a, id, ok)
  <2>1. \A a \in Addresses : action_map[a] \subseteq Ids
    BY DEF APInv, APTypeOK
  <2> QED BY <1>3, <2>1 DEF OtherClient
<1>4. CASE Reset
  BY <1>4 DEF Reset, ClearAllActionPoints
<1>5. ASSUME NEW a \in Addresses, ExecuteBreakpoint(a) PROVE PerformActions(a)
  BY <1>5 DEF ExecuteBreakpoint
<1>6. ASSUME NEW a \in Addresses, ExecuteProgramBreakpoint(a) PROVE PerformNoActions(a)
  BY <1>6 DEF ExecuteProgramBreakpoint
<1>7. CASE Resume \/ UNCHANGED vars
  BY <1>7 DEF Resume, vars, apVars
<1> QED BY <1>2, <1>3, <1>4, <1>5, <1>6, <1>7 DEF Next, ManagerStep

LEMMA NextAPInv ==
  ASSUME APInv, BPTypeOK, [Next]_vars
  PROVE  APInv'
<1>1. ASSUME NEW a \in Addresses, NEW ok \in WriteOutcomes,
             \/ \E f \in Functions : SetAction(a, f, ok)
             \/ \E id \in Ids : \/ ClearAction(a, id, ok)
                                \/ EnableAction(a, id, ok)
                                \/ DisableAction(a, id, ok)
      PROVE  APInv'
  BY <1>1, SetActionInv, ClearActionInv, EnableActionInv, DisableActionInv
<1>2. ASSUME NEW ok, ClearAllActionPoints(ok) PROVE APInv'
  BY <1>2, ClearAllInv
<1>3. ASSUME NEW ok, ClearAllBreakpoints(ok) PROVE APInv'
  BY <1>3, ClearAllBreakpointsInv
<1>4. ASSUME NEW a \in Addresses, PerformActions(a) \/ PerformNoActions(a) PROVE APInv'
  BY <1>4, PerformActionsInv
<1>5. CASE UNCHANGED apVars
  BY <1>5 DEF apVars, APInv, APTypeOK, IdsKnown, ActiveCounted
<1> QED BY <1>1, <1>2, <1>3, <1>4, <1>5, Steps

LEMMA NextBPTypeOK ==
  ASSUME APInv, BPTypeOK, [Next]_vars
  PROVE  BPTypeOK'
<1>1. ASSUME NEW a \in Addresses, NEW ok \in WriteOutcomes, SetBreakpoint(a, ok)
      PROVE  BPTypeOK'
  BY <1>1 DEF SetBreakpoint, BPTypeOK, APInv, APTypeOK
<1>2. ASSUME NEW a \in Addresses, NEW ok \in WriteOutcomes, ClearBreakpoint(a, ok)
      PROVE  BPTypeOK'
  BY <1>2 DEF ClearBreakpoint, BPTypeOK
<1>3. ASSUME NEW a \in Addresses, ExecuteBreakpoint(a)
      PROVE  BPTypeOK'
  BY <1>3 DEF ExecuteBreakpoint, BPTypeOK
<1>4. ASSUME NEW ok, ClearAllBreakpoints(ok) PROVE BPTypeOK'
  BY <1>4 DEF ClearAllBreakpoints, BPTypeOK
<1>5. CASE Resume
  BY <1>5 DEF Resume, BPTypeOK
<1>6. ASSUME UNCHANGED bpVars PROVE BPTypeOK'
  BY <1>6 DEF bpVars, BPTypeOK
<1> QED BY <1>1, <1>2, <1>3, <1>4, <1>5, <1>6
        DEF Next, ManagerStep, vars, OtherClient, Reset, ExecuteProgramBreakpoint, DisableBreakpoint,
            EnableBreakpoint

LEMMA SameEnvironment == [Next]_vars => writes_fail' = writes_fail /\ resets' = resets
  BY DEF Next, vars, environment

(* num_active_ counts the enabled actions, and all members keep their      *)
(* types, whatever write fails and whoever resets the manager.             *)
THEOREM Counted == Spec => [](TypeOK /\ ActiveCounted)
<1>1. Init => APInv /\ BPTypeOK /\ EnvironmentOK
  BY InitInv DEF Init, APInit, EnvironmentOK
<1>2. APInv /\ BPTypeOK /\ EnvironmentOK /\ [Next]_vars
        => APInv' /\ BPTypeOK' /\ EnvironmentOK'
  BY NextAPInv, NextBPTypeOK, SameEnvironment DEF EnvironmentOK
<1>3. APInv /\ BPTypeOK /\ EnvironmentOK => TypeOK /\ ActiveCounted
  BY DEF APInv, BPTypeOK, TypeOK
<1> QED BY <1>1, <1>2, <1>3, PTL DEF Spec

-----------------------------------------------------------------------------
(* While the memory can be written: the breakpoint instruction is there    *)
(* exactly while an action is enabled.                                     *)
LEMMA ActiveZero ==
  ASSUME APInv, NEW a \in Addresses
  PROVE  num_active[a] = 0 <=> enabled[a] = {}
<1>1. enabled[a] \in SUBSET Ids /\ num_active[a] = Cardinality(enabled[a]) /\ 0 \in Ids
  BY ActionPointsAssumption DEF APInv, APTypeOK, ActiveCounted, Ids
<1> QED BY <1>1, EnabledCard

LEMMA PlantedStep ==
  ASSUME ~writes_fail, APInv, APInv', BPTypeOK, PlantedIffActive, [Next]_vars
  PROVE  PlantedIffActive'
<1> SUFFICES ASSUME NEW b \in Addresses
             PROVE  memory'[b] = "breakpoint" <=> enabled'[b] # {}
  BY DEF PlantedIffActive
<1>1. /\ memory[b] = "breakpoint" <=> enabled[b] # {}
      /\ memory \in [Addresses -> {"original", "breakpoint"}]
      /\ enabled \in [Addresses -> SUBSET Ids]
  BY DEF PlantedIffActive, APInv, APTypeOK
<1>2. num_active[b] = 0 <=> enabled[b] = {}
  BY ActiveZero
<1>3. num_active'[b] = 0 <=> enabled'[b] = {}
  <2>1. enabled'[b] \in SUBSET Ids /\ num_active'[b] = Cardinality(enabled'[b]) /\ 0 \in Ids
    BY ActionPointsAssumption DEF APInv, APTypeOK, ActiveCounted, Ids
  <2> QED BY <2>1, EnabledCard
<1>4. ASSUME NEW a \in Addresses, NEW f \in Functions, SetAction(a, f, TRUE)
      PROVE  memory'[b] = "breakpoint" <=> enabled'[b] # {}
  BY <1>1, <1>2, <1>4 DEF SetAction, WriteBreakpointInstruction
<1>5. ASSUME NEW a \in Addresses, NEW id \in Ids, ClearAction(a, id, TRUE)
      PROVE  memory'[b] = "breakpoint" <=> enabled'[b] # {}
  <2>1. CASE a = b /\ num_active'[a] = 0
    BY <1>1, <1>3, <1>5, <2>1 DEF ClearAction, WriteOriginalInstruction, APInv, APTypeOK
  <2>2. CASE a = b /\ num_active'[a] # 0
    <3>1. memory' = memory /\ enabled'[b] = enabled[b] \ {id}
      BY <1>1, <1>5, <2>2 DEF ClearAction, APInv, APTypeOK
    <3> QED BY <1>1, <1>3, <2>2, <3>1
  <2>3. CASE a # b
    BY <1>1, <1>5, <2>3 DEF ClearAction, WriteOriginalInstruction
  <2> QED BY <2>1, <2>2, <2>3
<1>6. ASSUME NEW a \in Addresses, NEW id \in Ids, EnableAction(a, id, TRUE)
      PROVE  memory'[b] = "breakpoint" <=> enabled'[b] # {}
  BY <1>1, <1>2, <1>6 DEF EnableAction, WriteBreakpointInstruction
<1>7. ASSUME NEW a \in Addresses, NEW id \in Ids, DisableAction(a, id, TRUE)
      PROVE  memory'[b] = "breakpoint" <=> enabled'[b] # {}
  <2>1. CASE a = b
    <3>1. num_active'[b] = num_active[b] - 1 /\ num_active[b] \in Int /\ enabled[b] # {}
      BY <1>7, <2>1 DEF DisableAction, APInv, APTypeOK
    <3>2. CASE num_active[a] = 1
      BY <1>1, <1>3, <1>7, <2>1, <3>1, <3>2 DEF DisableAction, WriteOriginalInstruction
    <3>3. CASE num_active[a] # 1
      <4>1. memory' = memory
        BY <1>7, <3>3 DEF DisableAction
      <4> QED BY <1>1, <1>3, <2>1, <3>1, <3>3, <4>1
    <3> QED BY <3>2, <3>3
  <2>2. CASE a # b
    BY <1>1, <1>7, <2>2 DEF DisableAction, WriteOriginalInstruction
  <2> QED BY <2>1, <2>2
<1>8. ASSUME ClearAllActionPoints(Addresses)
      PROVE  memory'[b] = "breakpoint" <=> enabled'[b] # {}
  <2>1. b \notin action_point_map => enabled[b] = {}
    BY DEF APInv, APTypeOK, IdsKnown, Ids
  <2> QED BY <1>1, <1>8, <2>1 DEF ClearAllActionPoints
<1>9. ASSUME ClearAllBreakpoints(Addresses)
      PROVE  memory'[b] = "breakpoint" <=> enabled'[b] # {}
  <2> DEFINE known == HasBreakpoint(b) /\ Exists(b, breakpoint_map[b])
  <2>1. CASE known /\ num_active'[b] = 0
    BY <1>1, <1>3, <1>9, <2>1 DEF ClearAllBreakpoints
  <2>2. CASE known /\ num_active'[b] # 0
    <3>1. memory'[b] = memory[b] /\ enabled'[b] = enabled[b] \ {breakpoint_map[b]}
      BY <1>9, <2>2 DEF ClearAllBreakpoints
    <3> QED BY <1>1, <1>3, <2>2, <3>1
  <2>3. CASE ~known
    BY <1>1, <1>9, <2>3 DEF ClearAllBreakpoints
  <2> QED BY <2>1, <2>2, <2>3
<1>10. ASSUME NEW a \in Addresses, PerformActions(a) \/ PerformNoActions(a)
       PROVE  memory'[b] = "breakpoint" <=> enabled'[b] # {}
  BY <1>1, <1>10 DEF PerformActions, PerformNoActions
<1>11. ASSUME UNCHANGED apVars
       PROVE  memory'[b] = "breakpoint" <=> enabled'[b] # {}
  BY <1>1, <1>11 DEF apVars
<1>12. Writable = {Addresses} /\ WriteOutcomes = {TRUE}
  BY DEF Writable, WriteOutcomes
<1> QED BY <1>4, <1>5, <1>6, <1>7, <1>8, <1>9, <1>10, <1>11, <1>12, Steps

(* ActionPointManagerBase plants and removes the breakpoint instruction at *)
(* the right moments, for every number of clients' actions: it is in       *)
(* memory exactly while an action at the address is enabled.               *)
THEOREM Planted == Spec => []PlantedIffActive
<1> DEFINE Inv == APInv /\ BPTypeOK /\ PlantedIffActive
<1>1. Init => Inv
  <2>1. Init => PlantedIffActive
    BY DEF Init, APInit, PlantedIffActive
  <2> QED BY <2>1, InitInv
<1>2. Inv /\ [Next]_vars => Inv'
  <2> SUFFICES ASSUME Inv, [Next]_vars PROVE Inv'
    OBVIOUS
  <2>1. APInv' /\ BPTypeOK'
    BY NextAPInv, NextBPTypeOK
  <2>2. PlantedIffActive'
    BY <2>1, PlantedStep, SameEnvironment DEF PlantedIffActive
  <2> QED BY <2>1, <2>2
<1> QED BY <1>1, <1>2, PTL DEF Spec

-----------------------------------------------------------------------------
(* The agreement of the two managers.  What an operation does to the       *)
(* actions at an address b, told by their functions.                       *)
LEMMA SetActionActions ==
  ASSUME APInv, NEW a \in Addresses, NEW f \in Functions, NEW ok, SetAction(a, f, ok),
         NEW b \in Addresses
  PROVE  /\ \A id \in action_map[b] : /\ id \in action_map'[b]
                                      /\ action_fcn'[b][id] = action_fcn[b][id]
                                      /\ id \in enabled'[b] <=> id \in enabled[b]
         /\ \A id \in action_map'[b] \ action_map[b] :
              /\ b = a /\ ~(num_active[a] = 0 /\ ~ok)
              /\ id = next_id[a] /\ action_fcn'[b][id] = f
         /\ action_point_map \subseteq action_point_map'
<1>1. CASE num_active[a] = 0 /\ ~ok
  BY <1>1 DEF SetAction
<1>2. CASE ~(num_active[a] = 0 /\ ~ok)
  <2>1. /\ action_point_map' = action_point_map \cup {a}
        /\ action_map' = [action_map EXCEPT ![a] = @ \cup {next_id[a]}]
        /\ enabled' = [enabled EXCEPT ![a] = @ \cup {next_id[a]}]
        /\ action_fcn' = [action_fcn EXCEPT ![a][next_id[a]] = f]
    BY <1>2 DEF SetAction
  <2>2. /\ next_id[a] \in Ids /\ next_id[a] \notin action_map[a]
        /\ action_map \in [Addresses -> SUBSET Ids]
        /\ enabled \in [Addresses -> SUBSET Ids]
        /\ action_fcn \in [Addresses -> [Ids -> Functions]]
    BY DEF APInv, APTypeOK, IdsKnown, Ids
  <2>3. CASE b = a
    BY <1>2, <2>1, <2>2, <2>3
  <2>4. CASE b # a
    BY <2>1, <2>2, <2>4
  <2> QED BY <2>1, <2>3, <2>4
<1> QED BY <1>1, <1>2

LEMMA OtherActions ==
  ASSUME APInv, NEW a \in Addresses, NEW id, NEW ok,
         ClearAction(a, id, ok) \/ EnableAction(a, id, ok) \/ DisableAction(a, id, ok),
         NEW b \in Addresses
  PROVE  /\ action_map'[b] \subseteq action_map[b]
         /\ \A i \in action_map[b] : (b = a => i # id) =>
              i \in action_map'[b] /\ (i \in enabled'[b] <=> i \in enabled[b])
         /\ ~ClearAction(a, id, ok) => action_map' = action_map
         /\ action_fcn' = action_fcn
         /\ action_point_map' = action_point_map
  BY DEF APInv, APTypeOK, ClearAction, EnableAction, DisableAction

(* Who can make a step.                                                    *)
LEMMA StepCases ==
  ASSUME [Next]_vars, NEW G,
         \A a \in Addresses, ok \in WriteOutcomes : SetBreakpoint(a, ok) => G,
         \A a \in Addresses, ok \in WriteOutcomes : ClearBreakpoint(a, ok) => G,
         \A a \in Addresses, ok \in WriteOutcomes :
           DisableBreakpoint(a, ok) \/ EnableBreakpoint(a, ok) => G,
         \A ok \in Writable : ClearAllBreakpoints(ok) => G,
         OtherClient => G,
         Reset => G,
         UNCHANGED <<action_point_map, next_id, action_map, enabled, action_fcn, breakpoint_map>>
           => G
  PROVE  G
<1>1. ASSUME NEW a \in Addresses, ExecuteBreakpoint(a) PROVE G
  BY <1>1 DEF ExecuteBreakpoint, PerformActions
<1>2. ASSUME NEW a \in Addresses, ExecuteProgramBreakpoint(a) PROVE G
  BY <1>2 DEF ExecuteProgramBreakpoint, PerformNoActions, bpVars
<1>3. CASE Resume \/ UNCHANGED vars
  BY <1>3 DEF Resume, vars, apVars, bpVars
<1> QED BY <1>1, <1>2, <1>3 DEF Next, ManagerStep

LEMMA RecordedStep ==
  ASSUME APInv, BPTypeOK, HaltActionsRecorded, [Next]_vars
  PROVE  HaltActionsRecorded'
<1>1. \A a \in Addresses : \A id \in action_map[a] :
        action_fcn[a][id] = Halt => breakpoint_map[a] = id
  BY DEF HaltActionsRecorded
<1>2. \A a \in Addresses : action_map[a] # {} => a \in action_point_map
  BY DEF APInv, APTypeOK, IdsKnown, Ids
<1>3. \A a \in Addresses : action_map[a] \subseteq Ids
  BY DEF APInv, APTypeOK
<1>4. breakpoint_map \in [Addresses -> Ids \cup {None}]
  BY DEF BPTypeOK
<1> SUFFICES ASSUME NEW b \in Addresses, NEW i \in action_map'[b], action_fcn'[b][i] = Halt
             PROVE  breakpoint_map'[b] = i
  BY DEF HaltActionsRecorded
<1>5. ASSUME NEW a \in Addresses, NEW ok \in WriteOutcomes, SetBreakpoint(a, ok)
      PROVE  breakpoint_map'[b] = i
  <2>1. /\ SetAction(a, Halt, ok)
        /\ breakpoint_map[a] = None
        /\ breakpoint_map' = IF num_active[a] = 0 /\ ~ok THEN breakpoint_map
                             ELSE [breakpoint_map EXCEPT ![a] = next_id[a]]
    BY <1>5 DEF SetBreakpoint, HasBreakpoint
  <2>2. CASE i \in action_map[b]
    <3>1. action_fcn[b][i] = Halt
      BY <2>1, <2>2, SetActionActions, BreakpointsAssumption
    <3>2. breakpoint_map[b] = i /\ i \in Ids
      BY <1>1, <1>3, <2>2, <3>1
    <3>3. b # a
      BY <2>1, <3>2, BreakpointsAssumption
    <3> QED BY <1>4, <2>1, <3>2, <3>3
  <2>3. CASE i \notin action_map[b]
    <3>1. b = a /\ ~(num_active[a] = 0 /\ ~ok) /\ i = next_id[a]
      BY <2>1, <2>3, SetActionActions, BreakpointsAssumption
    <3> QED BY <1>4, <2>1, <3>1
  <2> QED BY <2>2, <2>3
<1>6. ASSUME NEW a \in Addresses, NEW ok \in WriteOutcomes, ClearBreakpoint(a, ok)
      PROVE  breakpoint_map'[b] = i
  <2>1. /\ action_map' = [action_map EXCEPT ![a] = @ \ {breakpoint_map[a]}]
        /\ action_fcn' = action_fcn
        /\ \/ breakpoint_map' = breakpoint_map
           \/ breakpoint_map' = [breakpoint_map EXCEPT ![a] = None]
    BY <1>6 DEF ClearBreakpoint, ClearAction
  <2>2. i \in action_map[b] /\ (b = a => i # breakpoint_map[a])
    BY <2>1 DEF APInv, APTypeOK
  <2> QED BY <1>1, <1>4, <2>1, <2>2
<1>7. ASSUME NEW a \in Addresses, NEW ok \in WriteOutcomes,
             DisableBreakpoint(a, ok) \/ EnableBreakpoint(a, ok)
      PROVE  breakpoint_map'[b] = i
  BY <1>1, <1>7 DEF DisableBreakpoint, EnableBreakpoint, DisableAction, EnableAction, bpVars
<1>8. ASSUME NEW ok \in Writable, ClearAllBreakpoints(ok)
      PROVE  breakpoint_map'[b] = i
  <2>1. i \in action_map[b] /\ action_fcn[b][i] = Halt
    BY <1>8 DEF ClearAllBreakpoints
  <2>2. breakpoint_map[b] = i /\ i # None /\ Exists(b, i)
    BY <1>1, <1>2, <1>3, <2>1, BreakpointsAssumption DEF Exists
  <2>3. i \notin action_map'[b]
    BY <1>8, <2>2 DEF ClearAllBreakpoints, HasBreakpoint
  <2> QED BY <2>3
<1>9. ASSUME OtherClient PROVE breakpoint_map'[b] = i
  <2>1. breakpoint_map' = breakpoint_map
    BY <1>9 DEF OtherClient, bpVars
  <2>2. ASSUME NEW a \in Addresses, NEW ok, NEW f \in Functions \ {Halt}, SetAction(a, f, ok)
        PROVE  i \in action_map[b] /\ action_fcn[b][i] = Halt
    BY <2>2, SetActionActions
  <2>3. ASSUME NEW a \in Addresses, NEW ok, NEW id,
               ClearAction(a, id, ok) \/ EnableAction(a, id, ok) \/ DisableAction(a, id, ok)
        PROVE  i \in action_map[b] /\ action_fcn[b][i] = Halt
    BY <2>3, OtherActions
  <2>4. i \in action_map[b] /\ action_fcn[b][i] = Halt
    BY <1>9, <2>2, <2>3 DEF OtherClient
  <2> QED BY <1>1, <2>1, <2>4
<1>10. ASSUME Reset PROVE breakpoint_map'[b] = i
  BY <1>10 DEF Reset, ClearAllActionPoints
<1>11. ASSUME UNCHANGED <<action_point_map, next_id, action_map, enabled, action_fcn,
                          breakpoint_map>>
       PROVE  breakpoint_map'[b] = i
  BY <1>1, <1>11
<1> QED BY <1>5, <1>6, <1>7, <1>8, <1>9, <1>10, <1>11, StepCases

(* No halt action is ever left in the action point manager without a       *)
(* record in breakpoint_map_, whatever write fails and whoever resets the  *)
(* shared manager: the core is never stopped by a breakpoint that nobody   *)
(* can name any more.                                                      *)
THEOREM Recorded == Spec => []HaltActionsRecorded
<1> DEFINE Inv == APInv /\ BPTypeOK /\ HaltActionsRecorded
<1>1. Init => Inv
  <2>1. Init => HaltActionsRecorded
    BY DEF Init, APInit, HaltActionsRecorded
  <2> QED BY <2>1, InitInv
<1>2. Inv /\ [Next]_vars => Inv'
  BY NextAPInv, NextBPTypeOK, RecordedStep
<1> QED BY <1>1, <1>2, PTL DEF Spec

LEMMA BackedStep ==
  ASSUME Undisturbed,
         APInv, BPTypeOK, BreakpointsBacked, [Next]_vars
  PROVE  BreakpointsBacked'
<1> DEFINE Backed(b) == /\ b \in action_point_map /\ breakpoint_map[b] \in action_map[b]
                        /\ action_fcn[b][breakpoint_map[b]] = Halt
<1> ~resets /\ WriteOutcomes = {TRUE}
  BY DEF Undisturbed, WriteOutcomes
<1>1. \A b \in Addresses : breakpoint_map[b] # None => Backed(b)
  BY DEF BreakpointsBacked, HasBreakpoint, Exists
<1>2. breakpoint_map \in [Addresses -> Ids \cup {None}]
  BY DEF BPTypeOK
<1> SUFFICES ASSUME NEW b \in Addresses, breakpoint_map'[b] # None
             PROVE  Backed(b)'
  BY DEF BreakpointsBacked, HasBreakpoint, Exists
<1>3. ASSUME NEW a \in Addresses, NEW ok \in WriteOutcomes, SetBreakpoint(a, ok)
      PROVE  Backed(b)'
  <2>1. /\ SetAction(a, Halt, ok) /\ ok
        /\ breakpoint_map' = [breakpoint_map EXCEPT ![a] = next_id[a]]
    BY <1>3 DEF SetBreakpoint
  <2>2. CASE b = a
    <3>1. /\ action_point_map' = action_point_map \cup {a}
          /\ action_map' = [action_map EXCEPT ![a] = @ \cup {next_id[a]}]
          /\ action_fcn' = [action_fcn EXCEPT ![a][next_id[a]] = Halt]
      BY <2>1 DEF SetAction
    <3>2. /\ next_id[a] \in Ids
          /\ action_map \in [Addresses -> SUBSET Ids]
          /\ action_fcn \in [Addresses -> [Ids -> Functions]]
      BY DEF APInv, APTypeOK
    <3> QED BY <1>2, <2>1, <2>2, <3>1, <3>2
  <2>3. CASE b # a
    <3>1. breakpoint_map'[b] = breakpoint_map[b] /\ Backed(b)
      BY <1>1, <1>2, <2>1, <2>3
    <3>2. ASSUME NEW any, SetAction(a, Halt, any)
          PROVE  /\ breakpoint_map[b] \in action_map'[b]
                 /\ action_fcn'[b][breakpoint_map[b]] = Halt
                 /\ action_point_map \subseteq action_point_map'
      BY <3>1, <3>2, SetActionActions, BreakpointsAssumption
    <3> QED BY <2>1, <3>1, <3>2
  <2> QED BY <2>2, <2>3
<1>4. ASSUME NEW a \in Addresses, NEW ok \in WriteOutcomes, ClearBreakpoint(a, ok)
      PROVE  Backed(b)'
  <2>1. /\ action_map' = [action_map EXCEPT ![a] = @ \ {breakpoint_map[a]}]
        /\ action_fcn' = action_fcn /\ action_point_map' = action_point_map
        /\ breakpoint_map' = [breakpoint_map EXCEPT ![a] = None]
    BY <1>4 DEF ClearBreakpoint, ClearAction, Cleared
  <2>2. b # a /\ breakpoint_map'[b] = breakpoint_map[b] /\ action_map'[b] = action_map[b]
    BY <1>2, <2>1 DEF APInv, APTypeOK
  <2> QED BY <1>1, <2>1, <2>2
<1>5. ASSUME NEW a \in Addresses, NEW ok \in WriteOutcomes,
             DisableBreakpoint(a, ok) \/ EnableBreakpoint(a, ok)
      PROVE  Backed(b)'
  BY <1>1, <1>5 DEF DisableBreakpoint, EnableBreakpoint, DisableAction, EnableAction, bpVars
<1>6. ASSUME NEW ok \in Writable, ClearAllBreakpoints(ok) PROVE Backed(b)'
  BY <1>6 DEF ClearAllBreakpoints
<1>7. ASSUME OtherClient PROVE Backed(b)'
  <2>1. breakpoint_map' = breakpoint_map /\ Backed(b)
    BY <1>1, <1>7 DEF OtherClient, bpVars
  <2>2. ASSUME NEW a \in Addresses, NEW ok, NEW f \in Functions \ {Halt}, SetAction(a, f, ok)
        PROVE  Backed(b)'
    BY <2>1, <2>2, SetActionActions
  <2>3. ASSUME NEW a \in Addresses, NEW ok, NEW id \in action_map[a], action_fcn[a][id] # Halt,
               ClearAction(a, id, ok) \/ EnableAction(a, id, ok) \/ DisableAction(a, id, ok)
        PROVE  Backed(b)'
    <3>1. b = a => breakpoint_map[b] # id
      BY <2>1, <2>3
    <3> QED BY <2>1, <2>3, <3>1, OtherActions
  <2> QED BY <1>7, <2>2, <2>3 DEF OtherClient
<1>8. ASSUME Reset PROVE Backed(b)'
  BY <1>8 DEF Reset, ClearAllActionPoints
<1>9. ASSUME UNCHANGED <<action_point_map, next_id, action_map, enabled, action_fcn,
                         breakpoint_map>>
      PROVE  Backed(b)'
  BY <1>1, <1>9
<1> HIDE DEF Backed
<1> QED BY <1>3, <1>4, <1>5, <1>6, <1>7, <1>8, <1>9, StepCases

(* Unless the shared manager is reset, an id that the BreakpointManager     *)
(* remembers was handed out, and if it names an action, one of ours.       *)
OwnIds ==
  ~resets => \A a \in Addresses : HasBreakpoint(a) =>
    /\ breakpoint_map[a] < next_id[a]
    /\ breakpoint_map[a] \in action_map[a] => action_fcn[a][breakpoint_map[a]] = Halt

LEMMA OwnIdsStep ==
  ASSUME ~resets, APInv, BPTypeOK, OwnIds, [Next]_vars
  PROVE  OwnIds'
<1> DEFINE Own(b) == /\ breakpoint_map[b] < next_id[b]
                     /\ breakpoint_map[b] \in action_map[b] => action_fcn[b][breakpoint_map[b]] = Halt
<1>1. \A b \in Addresses : breakpoint_map[b] # None => Own(b)
  BY DEF OwnIds, HasBreakpoint
<1>2. /\ breakpoint_map \in [Addresses -> Ids \cup {None}]
      /\ next_id \in [Addresses -> Ids] /\ Ids \subseteq Int
      /\ action_map \in [Addresses -> SUBSET Ids]
      /\ action_fcn \in [Addresses -> [Ids -> Functions]]
  BY DEF BPTypeOK, APInv, APTypeOK, Ids
<1> SUFFICES ASSUME NEW b \in Addresses, breakpoint_map'[b] # None
             PROVE  Own(b)'
  BY DEF OwnIds, HasBreakpoint
<1>3. ASSUME NEW a \in Addresses, NEW ok, NEW f \in Functions, SetAction(a, f, ok),
             breakpoint_map'[b] = breakpoint_map[b]
      PROVE  Own(b)'
  <2>1. Own(b)
    BY <1>1, <1>3
  <2>2. next_id[b] \in Int /\ breakpoint_map[b] \in Int
    BY <1>2, <1>3
  <2>3. breakpoint_map[b] < next_id'[b]
    <3>1. next_id' = next_id \/ next_id' = [next_id EXCEPT ![a] = @ + 1]
      BY <1>3 DEF SetAction
    <3> QED BY <1>2, <2>1, <2>2, <3>1
  <2>4. ASSUME breakpoint_map[b] \in action_map'[b] PROVE action_fcn'[b][breakpoint_map[b]] = Halt
    <3>1. \/ action_map' = action_map
          \/ action_map' = [action_map EXCEPT ![a] = @ \cup {next_id[a]}]
      BY <1>3 DEF SetAction
    <3>2. breakpoint_map[b] \in action_map[b]
      <4>1. b = a => breakpoint_map[b] # next_id[a]
        BY <2>1, <2>2
      <4> QED BY <1>2, <2>4, <3>1, <4>1
    <3> QED BY <1>3, <2>1, <3>2, SetActionActions
  <2> QED BY <1>3, <2>3, <2>4
<1>4. ASSUME NEW a \in Addresses, NEW id, NEW ok, breakpoint_map'[b] = breakpoint_map[b],
             ClearAction(a, id, ok) \/ EnableAction(a, id, ok) \/ DisableAction(a, id, ok)
      PROVE  Own(b)'
  <2>1. Own(b) /\ next_id' = next_id
    BY <1>1, <1>4 DEF ClearAction, EnableAction, DisableAction
  <2> QED BY <1>4, <2>1, OtherActions
<1>5. ASSUME NEW a \in Addresses, NEW ok \in WriteOutcomes, SetBreakpoint(a, ok)
      PROVE  Own(b)'
  <2>1. /\ SetAction(a, Halt, ok)
        /\ breakpoint_map' = IF num_active[a] = 0 /\ ~ok THEN breakpoint_map
                             ELSE [breakpoint_map EXCEPT ![a] = next_id[a]]
    BY <1>5 DEF SetBreakpoint
  <2>2. CASE b = a /\ ~(num_active[a] = 0 /\ ~ok)
    <3>1. /\ action_fcn' = [action_fcn EXCEPT ![a][next_id[a]] = Halt]
          /\ next_id' = [next_id EXCEPT ![a] = @ + 1]
      BY <2>1, <2>2 DEF SetAction
    <3>2. breakpoint_map'[b] = next_id[a] /\ next_id[a] \in Ids /\ next_id[a] \in Int
      BY <1>2, <2>1, <2>2
    <3>3. next_id'[b] = next_id[a] + 1
      BY <1>2, <2>2, <3>1
    <3>4. action_fcn'[b][next_id[a]] = Halt
      BY <1>2, <2>2, <3>1, <3>2
    <3> QED BY <3>2, <3>3, <3>4
  <2>3. CASE ~(b = a /\ ~(num_active[a] = 0 /\ ~ok))
    <3>1. breakpoint_map'[b] = breakpoint_map[b]
      BY <1>2, <2>1, <2>3
    <3> QED BY <1>3, <2>1, <3>1, BreakpointsAssumption
  <2> QED BY <2>2, <2>3
<1>6. ASSUME NEW a \in Addresses, NEW ok \in WriteOutcomes, ClearBreakpoint(a, ok)
      PROVE  Own(b)'
  <2>1. /\ ClearAction(a, breakpoint_map[a], ok)
        /\ breakpoint_map'[b] = breakpoint_map[b]
    BY <1>2, <1>6 DEF ClearBreakpoint
  <2> QED BY <1>4, <2>1
<1>7. ASSUME NEW a \in Addresses, NEW ok \in WriteOutcomes,
             DisableBreakpoint(a, ok) \/ EnableBreakpoint(a, ok)
      PROVE  Own(b)'
  BY <1>4, <1>7 DEF DisableBreakpoint, EnableBreakpoint, bpVars
<1>8. ASSUME NEW ok \in Writable, ClearAllBreakpoints(ok) PROVE Own(b)'
  BY <1>8 DEF ClearAllBreakpoints
<1>9. ASSUME OtherClient PROVE Own(b)'
  <2>1. breakpoint_map' = breakpoint_map
    BY <1>9 DEF OtherClient, bpVars
  <2> QED BY <1>3, <1>4, <1>9, <2>1 DEF OtherClient
<1>10. ASSUME Reset PROVE Own(b)'
  BY <1>10 DEF Reset, ClearAllActionPoints
<1>11. ASSUME UNCHANGED <<action_point_map, next_id, action_map, enabled, action_fcn,
                          breakpoint_map>>
       PROVE  Own(b)'
  BY <1>1, <1>11
<1> HIDE DEF Own
<1> QED BY <1>5, <1>6, <1>7, <1>8, <1>9, <1>10, <1>11, StepCases

LEMMA OthersStep ==
  ASSUME ~resets, APInv, BPTypeOK, OwnIds, ManagerStep
  PROVE  OthersUnchanged
<1> SUFFICES ASSUME NEW b \in Addresses
             PROVE  /\ Foreign(b)' = Foreign(b)
                    /\ (enabled[b] \cap Foreign(b))' = enabled[b] \cap Foreign(b)
  BY DEF OthersUnchanged
<1> DEFINE Same == /\ {i \in action_map'[b] : action_fcn'[b][i] # Halt}
                        = {i \in action_map[b] : action_fcn[b][i] # Halt}
                   /\ enabled'[b] \cap {i \in action_map'[b] : action_fcn'[b][i] # Halt}
                        = enabled[b] \cap {i \in action_map[b] : action_fcn[b][i] # Halt}
<1>1. \A a \in Addresses : HasBreakpoint(a) /\ breakpoint_map[a] \in action_map[a] =>
        action_fcn[a][breakpoint_map[a]] = Halt
  BY DEF OwnIds
<1>2. ASSUME NEW a \in Addresses, NEW ok \in WriteOutcomes, SetBreakpoint(a, ok) PROVE Same
  <2>1. SetAction(a, Halt, ok)
    BY <1>2 DEF SetBreakpoint
  <2> QED BY <2>1, SetActionActions, BreakpointsAssumption
<1>3. ASSUME NEW a \in Addresses, HasBreakpoint(a), NEW ok,
             \/ ClearAction(a, breakpoint_map[a], ok)
             \/ EnableAction(a, breakpoint_map[a], ok)
             \/ DisableAction(a, breakpoint_map[a], ok)
      PROVE  Same
  <2>1. action_fcn[a][breakpoint_map[a]] = Halt
    BY <1>1, <1>3 DEF ClearAction, EnableAction, DisableAction, Exists
  <2>2. /\ action_map'[b] \subseteq action_map[b]
        /\ \A i \in action_map[b] : (b = a => i # breakpoint_map[a]) =>
             i \in action_map'[b] /\ (i \in enabled'[b] <=> i \in enabled[b])
        /\ action_fcn' = action_fcn
    BY <1>3, OtherActions
  <2> QED BY <2>1, <2>2
<1>4. ASSUME NEW a \in Addresses, NEW ok \in WriteOutcomes, ClearBreakpoint(a, ok) PROVE Same
  BY <1>3, <1>4 DEF ClearBreakpoint
<1>5. ASSUME NEW a \in Addresses, NEW ok \in WriteOutcomes,
             DisableBreakpoint(a, ok) \/ EnableBreakpoint(a, ok)
      PROVE  Same
  BY <1>3, <1>5 DEF DisableBreakpoint, EnableBreakpoint
<1>6. ASSUME NEW ok \in Writable, ClearAllBreakpoints(ok) PROVE Same
  <2>1. /\ action_fcn' = action_fcn
        /\ \/ action_map'[b] = action_map[b] /\ enabled'[b] = enabled[b]
           \/ /\ HasBreakpoint(b) /\ breakpoint_map[b] \in action_map[b]
              /\ action_map'[b] = action_map[b] \ {breakpoint_map[b]}
              /\ enabled'[b] = enabled[b] \ {breakpoint_map[b]}
    BY <1>6 DEF ClearAllBreakpoints, Exists
  <2> QED BY <1>1, <2>1
<1>7. Same
  <2> HIDE DEF Same
  <2> QED BY <1>2, <1>4, <1>5, <1>6 DEF ManagerStep
<1> QED BY <1>7 DEF Foreign

AgreeInv == APInv /\ BPTypeOK /\ PlantedIffActive /\ BackedUndisturbed

LEMMA AlwaysAgree == Spec => []AgreeInv
<1>1. Init => AgreeInv
  <2>1. Init => PlantedIffActive /\ BackedUndisturbed
    BY DEF Init, APInit, PlantedIffActive, BackedUndisturbed, BreakpointsBacked, HasBreakpoint
  <2> QED BY <2>1, InitInv DEF AgreeInv
<1>2. AgreeInv /\ [Next]_vars => AgreeInv'
  <2> SUFFICES ASSUME AgreeInv, [Next]_vars PROVE AgreeInv'
    OBVIOUS
  <2>1. APInv' /\ BPTypeOK'
    BY NextAPInv, NextBPTypeOK DEF AgreeInv
  <2>2. PlantedIffActive'
    BY <2>1, PlantedStep, SameEnvironment DEF PlantedIffActive, AgreeInv
  <2>3. BackedUndisturbed'
    <3>1. CASE Undisturbed
      <4>1. BreakpointsBacked
        BY <3>1 DEF BackedUndisturbed, Undisturbed, AgreeInv
      <4> QED BY <3>1, <4>1, BackedStep DEF BackedUndisturbed, AgreeInv
    <3>2. CASE ~Undisturbed
      BY <3>2, SameEnvironment DEF BackedUndisturbed, BreakpointsBacked, Undisturbed, AgreeInv
    <3> QED BY <3>1, <3>2
  <2> QED BY <2>1, <2>2, <2>3 DEF AgreeInv
<1> QED BY <1>1, <1>2, PTL DEF Spec

(* While the memory can be written and nobody resets the shared manager, a *)
(* recorded breakpoint is an action of ours (so it can be cleared), and    *)
(* what IsBreakpoint() reports will halt the core.                         *)
THEOREM Agreement == Spec => []BackedUndisturbed /\ []IsBreakpointHonest
<1>1. AgreeInv => BackedUndisturbed /\ IsBreakpointHonest
  BY DEF PlantedIffActive, BackedUndisturbed, BreakpointsBacked, IsBreakpointHonest,
         IsBreakpoint, Undisturbed, AgreeInv
<1> QED BY <1>1, AlwaysAgree, PTL

LEMMA AlwaysOwnIds == Spec => [](APInv /\ BPTypeOK /\ OwnIds)
<1> DEFINE Inv == APInv /\ BPTypeOK /\ OwnIds
<1>1. Init => Inv
  <2>1. Init => OwnIds
    BY DEF Init, APInit, OwnIds, HasBreakpoint
  <2> QED BY <2>1, InitInv
<1>2. Inv /\ [Next]_vars => Inv'
  <2> SUFFICES ASSUME Inv, [Next]_vars PROVE Inv'
    OBVIOUS
  <2>1. OwnIds'
    <3>1. CASE ~resets
      BY <3>1, OwnIdsStep
    <3>2. CASE resets
      BY <3>2, SameEnvironment DEF OwnIds
    <3> QED BY <3>1, <3>2
  <2> QED BY <2>1, NextAPInv, NextBPTypeOK
<1> QED BY <1>1, <1>2, PTL DEF Spec

(* Unless somebody resets the shared manager, no operation of the          *)
(* BreakpointManager removes, enables or disables an action of another     *)
(* client, whichever writes fail.                                          *)
THEOREM Courtesy == Spec => LeavesOthersAlone
<1>1. APInv /\ BPTypeOK /\ OwnIds /\ [Next]_vars => [~resets /\ ManagerStep => OthersUnchanged]_vars
  BY OthersStep
<1> QED BY <1>1, AlwaysOwnIds, PTL DEF Spec, LeavesOthersAlone
=============================================================================
