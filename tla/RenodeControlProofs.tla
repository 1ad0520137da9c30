------------------------- MODULE RenodeControlProofs -------------------------
(***************************************************************************)
(* Proofs about RenodeControl for every number of steps.  The mutex shows  *)
(* up as exclusion between "stepping" and "command"; what carries the      *)
(* proofs is which thread may find which cli_status.                       *)
(***************************************************************************)
EXTENDS RenodeControl, TLAPS

(* Renode steps the core only while the CLI runs; in the shell cli_status  *)
(* is kRunning only after the end of the program, during CLIStep() never.  *)
StatusInv ==
  /\ renode = "stepping" => /\ cli_status = "running"
                            /\ cli \notin {"stepping", "command"}
                            /\ renode_taken < renode_to_take
  /\ cli \in {"shell", "run", "commandAwait", "command"} /\ cli_status = "running"
       => halt_reason = "done"
  /\ cli \in {"stepAwait", "stepping"} => cli_status # "running" /\ halt_reason # "done"

Inv == TypeOK /\ QuantumAccounted /\ CLIStepExclusive /\ StatusInv

LEMMA StepsToTakeBounds ==
  ASSUME TypeOK
  PROVE  /\ StepsToTake \in Nat
         /\ StepsToTake <= cli_to_take - cli_taken
         /\ StepsToTake <= renode_to_take - renode_taken
BY DEF TypeOK, StepsToTake, Counts

(* What top_->Step(n) may return.                                          *)
LEMMA StepResultsBounds ==
  ASSUME NEW n \in Nat, NEW r \in StepResults(n)
  PROVE  /\ r.taken \in Nat /\ r.taken <= n
         /\ r.reason \in {"none", "break", "done"}
         /\ halt_reason = "done" => r.reason = "done"
<1>1. r \in [taken : 0 .. n, reason : HaltReasons]
  BY DEF StepResults
<1>2. r.taken \in 0 .. n /\ r.reason \in HaltReasons
  BY <1>1
<1>3. HaltReasons \subseteq {"none", "break", "done"}
  BY DEF HaltReasons
<1>4. halt_reason = "done" => r.reason = "done"
  BY DEF StepResults
<1>5. r.taken \in Nat /\ r.taken <= n
  BY <1>2
<1>6. r.reason \in {"none", "break", "done"}
  BY <1>2, <1>3, Zenon
<1> QED BY <1>4, <1>5, <1>6

LEMMA InitInv == Init => Inv
<1> SUFFICES ASSUME Init PROVE Inv
  OBVIOUS
<1>1. 0 \in Counts
  BY RenodeControlAssumption DEF Counts
<1>2. cli_status \in {"halted", "running"}
  BY DEF Init
<1>3. program_done \in BOOLEAN /\ orderly \in BOOLEAN
  BY Zenon DEF Init
<1>4. TypeOK
  BY <1>1, <1>2, <1>3 DEF Init, TypeOK
<1>5. QuantumAccounted /\ CLIStepExclusive /\ StatusInv
  BY DEF Init, QuantumAccounted, CLIStepExclusive, StatusInv
<1> QED BY <1>4, <1>5 DEF Inv

LEMMA NextInv ==
  ASSUME Inv, [Next]_vars
  PROVE  Inv'
<1>0. /\ TypeOK /\ QuantumAccounted /\ CLIStepExclusive /\ StatusInv
      /\ MaxSteps \in Nat /\ 0 \in Counts
  BY RenodeControlAssumption DEF Inv, Counts
<1>1. ASSUME NEW n \in 1 .. MaxSteps, RenodeStep(n) PROVE Inv'
  <2>1. program_done' \in BOOLEAN /\ orderly' \in BOOLEAN
    BY <1>0, <1>1, Zenon DEF RenodeStep, TypeOK
  <2>2. TypeOK'
    BY <1>0, <1>1, <2>1 DEF RenodeStep, TypeOK, Counts
  <2>3. QuantumAccounted' /\ CLIStepExclusive' /\ StatusInv'
    BY <1>0, <1>1 DEF RenodeStep, TypeOK, QuantumAccounted, CLIStepExclusive, StatusInv
  <2> QED BY <2>2, <2>3 DEF Inv
<1>2. CASE RenodeAwakes
  <2>1. program_done' \in BOOLEAN /\ orderly' \in BOOLEAN
    BY <1>0, <1>2, Zenon DEF RenodeAwakes, TypeOK
  <2>2. TypeOK'
    BY <1>0, <1>2, <2>1 DEF RenodeAwakes, TypeOK, Counts
  <2>3. QuantumAccounted' /\ CLIStepExclusive'
    BY <1>0, <1>2 DEF RenodeAwakes, QuantumAccounted, CLIStepExclusive
  <2>4. StatusInv'
    <3>1. renode' = "stepping" => cli_status = "running" /\ renode_taken < renode_to_take
      BY <1>0, <1>2 DEF RenodeAwakes, RenodeTakesControl, TypeOK, Counts
    <3> QED BY <1>0, <1>2, <3>1 DEF RenodeAwakes, MutexFree, StatusInv
  <2> QED BY <2>2, <2>3, <2>4 DEF Inv
<1>3. ASSUME NEW r \in StepResults(renode_to_take - renode_taken), RenodeStepped(r) PROVE Inv'
  <2>1. /\ r.taken \in Nat /\ r.taken <= renode_to_take - renode_taken
        /\ r.reason \in {"none", "break", "done"}
        /\ halt_reason = "done" => r.reason = "done"
    <3>1. renode_to_take - renode_taken \in Nat
      BY <1>0 DEF TypeOK, Counts
    <3> QED BY <3>1, StepResultsBounds
  <2>2. program_done' \in BOOLEAN /\ orderly' \in BOOLEAN
    BY <1>0, <1>3, Zenon DEF RenodeStepped, TypeOK
  <2>3. /\ renode = "stepping" /\ cli_status = "running" /\ cli \notin {"stepAwait", "stepping"}
    BY <1>0, <1>3 DEF RenodeStepped, StatusInv
  <2>4. /\ renode_taken' = renode_taken + r.taken
        /\ quantum' = quantum + r.taken
        /\ span' = span
        /\ halt_reason' = r.reason
        /\ cli_status' = IF r.reason = "none" THEN cli_status ELSE "halted"
        /\ renode' \in {"idle", "await"}
        /\ UNCHANGED <<renode_to_take, cli_taken, cli_to_take, cli>>
    BY <1>3, <2>3 DEF RenodeStepped
  <2>5. TypeOK'
    BY <1>0, <2>1, <2>2, <2>4 DEF TypeOK, Counts, QuantumAccounted
  <2>6. QuantumAccounted'
    BY <1>0, <2>1, <2>4 DEF TypeOK, Counts, QuantumAccounted
  <2>7. CLIStepExclusive' /\ StatusInv'
    BY <1>0, <2>1, <2>3, <2>4 DEF CLIStepExclusive, StatusInv
  <2> QED BY <2>5, <2>6, <2>7 DEF Inv
<1>4. ASSUME /\ RenodeStepFailed \/ RenodeAccess \/ CLIStepFailed \/ DoWhenInControl PROVE Inv'
  <2>1. program_done' \in BOOLEAN /\ orderly' \in BOOLEAN
    BY <1>0, <1>4, Zenon
    DEF RenodeStepFailed, RenodeAccess, CLIStepFailed, DoWhenInControl, TypeOK
  <2>2. UNCHANGED <<cli_status, renode_taken, renode_to_take, cli_taken, cli_to_take,
                    halt_reason, quantum, span>>
    BY <1>4 DEF RenodeStepFailed, RenodeAccess, CLIStepFailed, DoWhenInControl
  <2>3. \/ renode' \in {"idle", "access"} /\ cli' = cli
        \/ /\ renode' = renode
           /\ \/ cli = "stepping" /\ cli' = "shell"
              \/ cli = "shell" /\ cli' = "commandAwait"
              \/ cli = "commandAwait" /\ cli' = "command" /\ renode # "stepping"
              \/ cli = "command" /\ cli' = "shell"
    BY <1>4 DEF RenodeStepFailed, RenodeAccess, CLIStepFailed, DoWhenInControl, MutexFree
  <2>4. TypeOK'
    BY <1>0, <2>1, <2>2, <2>3 DEF TypeOK
  <2>5. QuantumAccounted' /\ CLIStepExclusive'
    BY <1>0, <2>2, <2>3 DEF QuantumAccounted, CLIStepExclusive
  <2>6. StatusInv'
    BY <1>0, <2>2, <2>3 DEF StatusInv
  <2> QED BY <2>4, <2>5, <2>6 DEF Inv
<1>5. ASSUME (\E connected \in BOOLEAN : SetConnected(connected)) \/ CLIHalt \/ CLIRun PROVE Inv'
  <2>1. program_done' \in BOOLEAN /\ orderly' \in BOOLEAN
    BY <1>0, <1>5, Zenon DEF SetConnected, CLIHalt, CLIRun, TypeOK
  <2>2. UNCHANGED <<renode_taken, renode_to_take, cli_taken, cli_to_take, halt_reason,
                    renode, quantum, span>>
    BY <1>5 DEF SetConnected, CLIHalt, CLIRun
  <2>3. \/ cli = "accept" /\ cli' = "shell" /\ cli_status' = "halted" /\ MutexFree
        \/ cli = "shell" /\ cli' = "gone" /\ cli_status' = "running" /\ MutexFree
        \/ cli' = cli /\ cli_status' = "halted" /\ MutexFree
        \/ cli = "shell" /\ cli' = "run" /\ cli_status' = cli_status
        \/ cli = "run" /\ cli' = "shell" /\ cli_status' = cli_status /\ MutexFree
        \/ cli = "run" /\ cli' = "runAwait" /\ cli_status' = "running" /\ MutexFree
        \/ /\ cli = "runAwait" /\ cli' = "shell" /\ cli_status' = cli_status /\ MutexFree
           /\ cli_status # "running"
    BY <1>5 DEF SetConnected, CLIHalt, CLIRun
  <2>4. TypeOK'
    BY <1>0, <2>1, <2>2, <2>3 DEF TypeOK
  <2>5. QuantumAccounted' /\ CLIStepExclusive'
    BY <1>0, <2>2, <2>3 DEF QuantumAccounted, CLIStepExclusive
  <2>6. StatusInv'
    BY <1>0, <2>2, <2>3 DEF StatusInv, MutexFree
  <2> QED BY <2>4, <2>5, <2>6 DEF Inv
<1>6. ASSUME NEW n \in 1 .. MaxSteps, CLIStep(n) PROVE Inv'
  <2>1. program_done' \in BOOLEAN /\ orderly' \in BOOLEAN
    BY <1>0, <1>6, Zenon DEF CLIStep, TypeOK
  <2>2. TypeOK'
    BY <1>0, <1>6, <2>1 DEF CLIStep, TypeOK, Counts
  <2>3. QuantumAccounted' /\ CLIStepExclusive' /\ StatusInv'
    BY <1>0, <1>6 DEF CLIStep, MutexFree, TypeOK, QuantumAccounted, CLIStepExclusive, StatusInv
  <2> QED BY <2>2, <2>3 DEF Inv
<1>7. CASE CLIStepAwakes
  <2>1. program_done' \in BOOLEAN /\ orderly' \in BOOLEAN
    BY <1>0, <1>7, Zenon DEF CLIStepAwakes, TypeOK
  <2>2. TypeOK'
    BY <1>0, <1>7, <2>1 DEF CLIStepAwakes, TypeOK
  <2>3. QuantumAccounted' /\ CLIStepExclusive' /\ StatusInv'
    BY <1>0, <1>7 DEF CLIStepAwakes, MutexFree, QuantumAccounted, CLIStepExclusive, StatusInv
  <2> QED BY <2>2, <2>3 DEF Inv
<1>8. ASSUME NEW r \in StepResults(StepsToTake), CLIStepped(r) PROVE Inv'
  <2>1. StepsToTake \in Nat /\ StepsToTake <= cli_to_take - cli_taken
          /\ StepsToTake <= renode_to_take - renode_taken
    BY <1>0, StepsToTakeBounds
  <2>2. /\ r.taken \in Nat /\ r.taken <= StepsToTake
        /\ r.reason \in {"none", "break", "done"}
    BY <2>1, StepResultsBounds
  <2>3. program_done' \in BOOLEAN /\ orderly' \in BOOLEAN
    BY <1>0, <1>8, Zenon DEF CLIStepped, TypeOK
  <2>4. /\ cli = "stepping" /\ cli_status # "running" /\ renode # "stepping"
    BY <1>0, <1>8 DEF CLIStepped, StatusInv
  <2>5. /\ cli_taken' = cli_taken + r.taken
        /\ renode_taken' = renode_taken + r.taken
        /\ quantum' = quantum + r.taken
        /\ span' = span + r.taken
        /\ halt_reason' = r.reason
        /\ UNCHANGED <<renode_to_take, cli_to_take, renode>>
    BY <1>8 DEF CLIStepped
  <2>6. \/ cli' = "stepAwait" /\ cli_status' = cli_status /\ r.reason = "none"
        \/ cli' = "shell" /\ cli_status' = "running" /\ r.reason = "done"
        \/ cli' = "shell" /\ cli_status' = "halted"
    <3>1. CASE r.reason = "done"
      BY <1>8, <3>1 DEF CLIStepped
    <3>2. CASE r.reason = "none" /\ renode_taken + r.taken >= renode_to_take
      BY <1>8, <3>2 DEF CLIStepped
    <3>3. CASE r.reason # "done" /\ ~(r.reason = "none" /\ renode_taken + r.taken >= renode_to_take)
      BY <1>8, <3>3 DEF CLIStepped
    <3> QED BY <3>1, <3>2, <3>3
  <2>7. TypeOK'
    BY <1>0, <2>1, <2>2, <2>3, <2>4, <2>5, <2>6 DEF TypeOK, Counts, QuantumAccounted
  <2>8. QuantumAccounted'
    BY <1>0, <2>1, <2>2, <2>5 DEF TypeOK, Counts, QuantumAccounted
  <2>9. CLIStepExclusive'
    BY <1>0, <2>1, <2>2, <2>4, <2>5, <2>6 DEF TypeOK, Counts, CLIStepExclusive
  <2>10. StatusInv'
    BY <1>0, <2>2, <2>4, <2>5, <2>6 DEF StatusInv
  <2> QED BY <2>7, <2>8, <2>9, <2>10 DEF Inv
<1>9. CASE UNCHANGED vars
  <2>1. program_done' \in BOOLEAN /\ orderly' \in BOOLEAN
    BY <1>0, <1>9, Zenon DEF vars, TypeOK
  <2> QED BY <1>0, <1>9, <2>1
          DEF vars, Inv, TypeOK, QuantumAccounted, CLIStepExclusive, StatusInv
<1> QED BY <1>1, <1>2, <1>3, <1>4, <1>5, <1>6, <1>7, <1>8, <1>9
        DEF Next, RenodeReturns, CLIStepReturns

LEMMA Invariance == Spec => []Inv
BY InitInv, NextInv, PTL DEF Spec

(* RenodeStep() counts every step of the core since it was called exactly  *)
(* once, whichever thread made it, and the quantum is never exceeded: for  *)
(* every number of steps, whatever halts, errors and interruptions occur.  *)
THEOREM Accounted == Spec => [](TypeOK /\ QuantumAccounted)
<1>1. Inv => TypeOK /\ QuantumAccounted
  BY DEF Inv
<1> QED BY <1>1, Invariance, PTL

(* Nobody else steps the core while CLIStep() is under way, however many   *)
(* calls of RenodeStep() it takes.                                         *)
THEOREM StepExclusive == Spec => []CLIStepExclusive
<1>1. Inv => CLIStepExclusive
  BY DEF Inv
<1> QED BY <1>1, Invariance, PTL

-----------------------------------------------------------------------------
(* While the core stops only for the end of the program: the CLI is in     *)
(* control only while RenodeStep() waits.                                  *)
ControlInv ==
  /\ program_done <=> halt_reason = "done"
  /\ renode \in {"idle", "access"} => renode_taken = renode_to_take \/ halt_reason = "done"
  /\ cli = "stepping" => /\ renode = "await"
                         /\ renode_taken < renode_to_take
                         /\ cli_taken < cli_to_take
  /\ cli = "command" => halt_reason = "done" \/ renode = "await"

LEMMA ControlStep ==
  ASSUME orderly, Inv, ControlInv, [Next]_vars
  PROVE  ControlInv'
<1>0. TypeOK /\ StatusInv /\ ControlInv
  BY DEF Inv
<1>1. ASSUME NEW n \in 1 .. MaxSteps, RenodeStep(n) PROVE ControlInv'
  BY <1>0, <1>1 DEF RenodeStep, MutexFree, ControlInv
<1>2. CASE RenodeAwakes
  <2>1. renode' = "idle" => renode_taken = renode_to_take
    BY <1>0, <1>2 DEF RenodeAwakes, TypeOK, Counts
  <2> QED BY <1>0, <1>2, <2>1 DEF RenodeAwakes, MutexFree, ControlInv
<1>3. ASSUME NEW r \in StepResults(renode_to_take - renode_taken), RenodeStepped(r)
      PROVE  ControlInv'
  <2>1. /\ r.reason \in {"none", "done"}
        /\ halt_reason = "done" => r.reason = "done"
    <3>1. renode_to_take - renode_taken \in Nat
      BY <1>0 DEF TypeOK, Counts
    <3>2. r.reason \in {"none", "break", "done"} /\ (halt_reason = "done" => r.reason = "done")
      BY <3>1, StepResultsBounds
    <3>3. r.reason # "break"
      BY DEF StepResults, HaltReasons
    <3> QED BY <3>2, <3>3
  <2>2. r.reason = "none" => r.taken = renode_to_take - renode_taken
    BY <2>1 DEF StepResults
  <2>3. /\ halt_reason' = r.reason
        /\ renode_taken' = renode_taken + r.taken
        /\ program_done' <=> program_done \/ r.reason # "none"
        /\ renode' = "idle" \/ renode' = "await"
        /\ UNCHANGED <<renode_to_take, cli>>
        /\ cli \notin {"stepping", "command"}
    BY <1>0, <1>3 DEF RenodeStepped, StatusInv
  <2>4. /\ renode_to_take \in Nat /\ renode_taken \in Nat
    BY <1>0 DEF TypeOK, Counts
  <2>5. program_done' <=> halt_reason' = "done"
    BY <1>0, <2>1, <2>3 DEF ControlInv
  <2>6. r.reason = "none" => renode_taken' = renode_to_take'
    BY <2>2, <2>3, <2>4
  <2>7. halt_reason' = "done" \/ renode_taken' = renode_to_take'
    BY <2>1, <2>3, <2>6
  <2> QED BY <2>3, <2>5, <2>7 DEF ControlInv
<1>4. ASSUME RenodeAccess PROVE ControlInv'
  BY <1>0, <1>4 DEF RenodeAccess, ControlInv
<1>5. ASSUME (\E connected \in BOOLEAN : SetConnected(connected)) \/ CLIHalt \/ CLIRun
      PROVE  ControlInv'
  <2>1. /\ UNCHANGED <<renode_taken, renode_to_take, cli_taken, cli_to_take, halt_reason,
                       renode, program_done>>
        /\ cli' = cli \/ cli' \in {"shell", "gone", "run", "runAwait"}
    BY <1>5 DEF SetConnected, CLIHalt, CLIRun
  <2> QED BY <1>0, <2>1 DEF ControlInv
<1>6. ASSUME NEW n \in 1 .. MaxSteps, CLIStep(n) PROVE ControlInv'
  BY <1>0, <1>6 DEF CLIStep, ControlInv
<1>7. CASE CLIStepAwakes
  <2>1. /\ cli = "stepAwait" /\ halt_reason # "done" /\ renode # "stepping"
        /\ renode_taken < renode_to_take
    BY <1>0, <1>7 DEF CLIStepAwakes, MutexFree, CLIInControl, StatusInv, ControlInv, TypeOK, Counts
  <2>2. renode = "await"
    BY <1>0, <2>1 DEF ControlInv, TypeOK, Counts
  <2>3. /\ UNCHANGED <<renode_taken, renode_to_take, cli_taken, cli_to_take, halt_reason,
                       renode, program_done>>
        /\ cli' = "shell" \/ (cli' = "stepping" /\ cli_taken < cli_to_take)
    BY <1>0, <1>7 DEF CLIStepAwakes, TypeOK, Counts
  <2> QED BY <1>0, <2>1, <2>2, <2>3 DEF ControlInv
<1>8. ASSUME NEW r \in StepResults(StepsToTake), CLIStepped(r) PROVE ControlInv'
  <2>1. renode = "await" /\ ~program_done
    BY <1>0, <1>8 DEF CLIStepped, StatusInv, ControlInv
  <2>2. /\ halt_reason' = r.reason
        /\ program_done' <=> program_done \/ r.reason = "done"
        /\ renode' = renode
        /\ cli' \in {"stepAwait", "shell"}
    BY <1>8 DEF CLIStepped
  <2> QED BY <2>1, <2>2 DEF ControlInv
<1>9. ASSUME DoWhenInControl PROVE ControlInv'
  <2>1. UNCHANGED <<renode_taken, renode_to_take, cli_taken, cli_to_take, halt_reason,
                    renode, program_done>>
    BY <1>9 DEF DoWhenInControl
  <2>2. cli' = "command" => halt_reason = "done" \/ renode = "await"
    BY <1>0, <1>9 DEF DoWhenInControl, MutexFree, CLIInControl, ControlInv, TypeOK, Counts
  <2>3. cli' # "stepping"
    BY <1>9 DEF DoWhenInControl
  <2> QED BY <1>0, <2>1, <2>2, <2>3 DEF ControlInv
<1>10. CASE UNCHANGED vars
  BY <1>0, <1>10 DEF vars, ControlInv
<1> QED BY <1>1, <1>2, <1>3, <1>4, <1>5, <1>6, <1>7, <1>8, <1>9, <1>10
        DEF Next, RenodeReturns, CLIStepReturns, RenodeStepFailed, CLIStepFailed

LEMMA SameOrder == [Next]_vars => orderly' = orderly
  BY DEF Next, vars, RenodeStep, RenodeAwakes, RenodeReturns, RenodeStepped, RenodeStepFailed,
         RenodeAccess, SetConnected, CLIHalt, CLIRun, CLIStep, CLIStepAwakes, CLIStepReturns,
         CLIStepped, CLIStepFailed, DoWhenInControl

LEMMA OrderlyInvariance == Spec => [](Inv /\ (orderly => ControlInv))
<1> DEFINE OrderlyInv == orderly => ControlInv
<1>1. Init => Inv /\ OrderlyInv
  <2>1. Init => ControlInv
    BY DEF Init, ControlInv
  <2> QED BY <2>1, InitInv
<1>2. Inv /\ OrderlyInv /\ [Next]_vars => Inv' /\ OrderlyInv'
  BY NextInv, ControlStep, SameOrder
<1> QED BY <1>1, <1>2, PTL DEF Spec

(* If Step() never fails and the core halts only because the program is    *)
(* done, the CLI steps the core only inside the quantum that RenodeStep()  *)
(* waits for and by at least one step.                                     *)
THEOREM InControl == Spec => []CLIWithinQuantum
<1>1. Inv /\ (orderly => ControlInv) => CLIWithinQuantum
  <2> SUFFICES ASSUME Inv, orderly, ControlInv PROVE CLIWithinQuantum
    BY DEF CLIWithinQuantum
  <2>1. cli = "stepping" => StepsToTake >= 1
    BY DEF Inv, ControlInv, TypeOK, Counts, StepsToTake
  <2> QED BY <2>1 DEF ControlInv, CLIWithinQuantum
<1> QED BY <1>1, OrderlyInvariance, PTL

(* Renode's accesses, which take no mutex, do not overlap with a step or a *)
(* command of the CLI until the program is done, if Step() never fails and *)
(* the core halts only because the program is done.                        *)
THEOREM AccessAlone == Spec => []RenodeAccessAlone
<1>1. Inv /\ (orderly => ControlInv) => RenodeAccessAlone
  BY DEF ControlInv, RenodeAccessAlone
<1> QED BY <1>1, OrderlyInvariance, PTL
=============================================================================
