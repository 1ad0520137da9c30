--------------------------- MODULE RenodeControl ---------------------------
(***************************************************************************)
(* RenodeCLITop (mpact/sim/util/renode/renode_cli_top.h and .cc): two      *)
(* threads share one core.  Renode asks for a quantum of steps at a time;  *)
(* the command line interface (CLI) may use up steps of that quantum when  *)
(* it is in control, and hands control to Renode when it runs.             *)
(*                                                                         *)
(* run_control_mutex_ is held by a thread that is inside top_->Step() or   *)
(* inside a guarded command; every other critical section is one action,   *)
(* enabled when the mutex is free and the condition it waits for holds.    *)
(* SetConnected() is called by the one CLI thread of SocketCLI.            *)
(***************************************************************************)
EXTENDS Integers, FiniteSets

CONSTANT MaxSteps       \* bound: steps asked for in one call

ASSUME RenodeControlAssumption == MaxSteps \in Nat \ {0}

Counts == 0 .. MaxSteps

VARIABLES cli_status,
          renode_taken, renode_to_take,  \* renode_steps_taken_, renode_steps_to_take_
          cli_taken, cli_to_take,        \* cli_steps_taken_, cli_steps_to_take_
          program_done,
          halt_reason,     \* what GetLastHaltReason() of the core returns
          renode, cli,     \* where the two threads are
          quantum,         \* history: steps of the core since RenodeStep() began
          span,            \* history: steps of the core since CLIStep() began
          orderly          \* the environment: only the end of the program halts the
                           \* core, Step() does not fail and nobody calls CLIHalt()

vars == <<cli_status, renode_taken, renode_to_take, cli_taken, cli_to_take,
          program_done, halt_reason, renode, cli, quantum, span, orderly>>

HaltReasons == IF orderly THEN {"none", "done"} ELSE {"none", "break", "done"}

(* wait_for_cli_ decides who begins.                                       *)
Init ==
  /\ cli_status \in {"halted", "running"}
  /\ renode_taken = 0 /\ renode_to_take = 0
  /\ cli_taken = 0 /\ cli_to_take = 0
  /\ program_done = FALSE
  /\ halt_reason = "none"
  /\ renode = "idle" /\ cli = "accept"
  /\ quantum = 0 /\ span = 0
  /\ orderly \in BOOLEAN

-----------------------------------------------------------------------------
(* run_control_mutex_ and the conditions it is waited for with.            *)
MutexFree == renode # "stepping" /\ cli \notin {"stepping", "command"}

RenodeTakesControlUnlessHalted ==
  cli_status # "halted" \/ renode_taken >= renode_to_take

RenodeTakesControl == cli_status = "running" \/ renode_taken >= renode_to_take

CLIInControlUnlessRunning == program_done \/ cli_status # "running"

CLIInControl ==
  program_done \/ (cli_status # "running" /\ renode_to_take > renode_taken)

(* CoreDebugInterface::Step(n): the core executes all n instructions, or   *)
(* fewer and gives the reason; once the program is done it executes no     *)
(* more.                                                                   *)
StepResults(n) ==
  {r \in [taken : 0 .. n, reason : HaltReasons] :
     IF halt_reason = "done" THEN r.taken = 0 /\ r.reason = "done"
     ELSE r.reason = "none" => r.taken = n}

-----------------------------------------------------------------------------
(* RenodeStep(num).                                                        *)
RenodeStep(n) ==
  /\ renode = "idle" /\ MutexFree
  /\ renode_taken' = 0
  /\ renode_to_take' = n
  /\ quantum' = 0
  /\ renode' = "await"
  /\ UNCHANGED <<cli_status, cli_taken, cli_to_take, program_done, halt_reason, cli,
                 span, orderly>>

(* The quantum may have been used up while the CLI was stepping.           *)
RenodeAwakes ==
  /\ renode = "await" /\ MutexFree /\ RenodeTakesControl
  /\ renode' = IF renode_to_take <= renode_taken THEN "idle" ELSE "stepping"
  /\ UNCHANGED <<cli_status, renode_taken, renode_to_take, cli_taken, cli_to_take,
                 program_done, halt_reason, cli, quantum, span, orderly>>

(* top_->Step() returns to RenodeStep(): a halt hands control to the CLI,  *)
(* a finished program ends the call as well.                               *)
RenodeSteppedKeepsStatus(r) ==
  /\ renode = "stepping"
  /\ renode_taken' = renode_taken + r.taken
  /\ quantum' = quantum + r.taken
  /\ span' = IF cli = "stepAwait" THEN span + r.taken ELSE span
  /\ halt_reason' = r.reason
  /\ program_done' = (program_done \/ r.reason # "none")
  /\ renode' = IF r.reason = "done" \/ (r.reason = "none" /\ renode_to_take <= renode_taken')
               THEN "idle" ELSE "await"
  /\ UNCHANGED <<cli_status, renode_to_take, cli_taken, cli_to_take, cli, orderly>>

RenodeStepped(r) ==
  /\ renode = "stepping"
  /\ renode_taken' = renode_taken + r.taken
  /\ quantum' = quantum + r.taken
  /\ span' = IF cli = "stepAwait" THEN span + r.taken ELSE span
  /\ halt_reason' = r.reason
  /\ IF r.reason = "none"
     THEN UNCHANGED <<cli_status, program_done>>
     ELSE cli_status' = "halted" /\ program_done' = TRUE
  /\ renode' = IF r.reason = "done" \/ (r.reason = "none" /\ renode_to_take <= renode_taken')
               THEN "idle" ELSE "await"
  /\ UNCHANGED <<renode_to_take, cli_taken, cli_to_take, cli, orderly>>

RenodeStepFailed ==
  /\ ~orderly
  /\ renode = "stepping"
  /\ renode' = "idle"
  /\ UNCHANGED <<cli_status, renode_taken, renode_to_take, cli_taken, cli_to_take,
                 program_done, halt_reason, cli, quantum, span, orderly>>

(* RenodeReadRegister() and the like, which take no mutex.                 *)
RenodeAccess ==
  /\ \/ renode = "idle" /\ renode' = "access"
     \/ renode = "access" /\ renode' = "idle"
  /\ UNCHANGED <<cli_status, renode_taken, renode_to_take, cli_taken, cli_to_take,
                 program_done, halt_reason, cli, quantum, span, orderly>>

-----------------------------------------------------------------------------
(* SetConnected(), by the thread that then runs the command shell.         *)
SetConnected(connected) ==
  /\ MutexFree
  /\ IF connected THEN cli = "accept" /\ cli' = "shell" ELSE cli = "shell" /\ cli' = "gone"
  /\ cli_status' = IF connected THEN "halted" ELSE "running"
  /\ UNCHANGED <<renode_taken, renode_to_take, cli_taken, cli_to_take, program_done,
                 halt_reason, renode, quantum, span, orderly>>

(* CLIHalt(): top_->Halt(), which may end a Step() early, takes no mutex.  *)
CLIHalt ==
  /\ ~orderly
  /\ MutexFree
  /\ cli_status' = "halted"
  /\ UNCHANGED <<renode_taken, renode_to_take, cli_taken, cli_to_take, program_done,
                 halt_reason, renode, cli, quantum, span, orderly>>

(* CLIRun(): waits to be in charge, lets Renode run, waits for a halt.     *)
CLIRun ==
  /\ \/ cli = "shell" /\ cli' = "run" /\ UNCHANGED cli_status
     \/ /\ cli = "run" /\ MutexFree /\ cli_status # "running"
        /\ IF halt_reason = "done" THEN cli' = "shell" /\ UNCHANGED cli_status
           ELSE cli' = "runAwait" /\ cli_status' = "running"
     \/ cli = "runAwait" /\ MutexFree /\ cli_status # "running" /\ cli' = "shell"
        /\ UNCHANGED cli_status
  /\ UNCHANGED <<renode_taken, renode_to_take, cli_taken, cli_to_take, program_done,
                 halt_reason, renode, quantum, span, orderly>>

(* CLIStep(num): refused when the program is done.                         *)
CLIStep(n) ==
  /\ cli = "shell" /\ MutexFree
  /\ halt_reason # "done"
  /\ cli_to_take' = n
  /\ cli_taken' = 0
  /\ span' = 0
  /\ cli' = "stepAwait"
  /\ UNCHANGED <<cli_status, renode_taken, renode_to_take, program_done, halt_reason,
                 renode, quantum, orderly>>

CLIStepAwakes ==
  /\ cli = "stepAwait" /\ MutexFree /\ CLIInControl
  /\ IF cli_to_take <= cli_taken
     THEN cli_status' = "halted" /\ cli' = "shell"
     ELSE cli_status' = "singleStep" /\ cli' = "stepping"
  /\ UNCHANGED <<renode_taken, renode_to_take, cli_taken, cli_to_take, program_done,
                 halt_reason, renode, quantum, span, orderly>>

(* The steps CLIStep() asks the core for.                                  *)
StepsToTake ==
  LET c == cli_to_take - cli_taken
      r == renode_to_take - renode_taken
  IN  IF c < r THEN c ELSE r

(* top_->Step() returns to CLIStep(), which goes on in the next quantum if *)
(* this one is used up.                                                    *)
CLISteppedUncounted(r) ==
  /\ cli = "stepping"
  /\ cli_taken' = cli_taken + r.taken
  /\ quantum' = quantum + r.taken
  /\ span' = span + r.taken
  /\ halt_reason' = r.reason
  /\ program_done' = (program_done \/ r.reason = "done")
  /\ cli_status' = CASE r.reason = "done" -> "running"
                     [] r.reason = "none" /\ renode_taken >= renode_to_take -> cli_status
                     [] OTHER -> "halted"
  /\ cli' = IF r.reason = "none" /\ renode_taken >= renode_to_take
            THEN "stepAwait" ELSE "shell"
  /\ UNCHANGED <<renode_taken, renode_to_take, cli_to_take, renode, orderly>>

CLIStepped(r) ==
  LET used == renode_taken + r.taken >= renode_to_take IN
  /\ cli = "stepping"
  /\ cli_taken' = cli_taken + r.taken
  /\ renode_taken' = renode_taken + r.taken
  /\ quantum' = quantum + r.taken
  /\ span' = span + r.taken
  /\ halt_reason' = r.reason
  /\ program_done' = (program_done \/ r.reason = "done")
  /\ cli_status' = CASE r.reason = "done" -> "running"
                     [] r.reason = "none" /\ used -> cli_status
                     [] OTHER -> "halted"
  /\ cli' = IF r.reason = "none" /\ used THEN "stepAwait" ELSE "shell"
  /\ UNCHANGED <<renode_to_take, cli_to_take, renode, orderly>>

CLIStepFailed ==
  /\ ~orderly
  /\ cli = "stepping"
  /\ cli' = "shell"
  /\ UNCHANGED <<cli_status, renode_taken, renode_to_take, cli_taken, cli_to_take,
                 program_done, halt_reason, renode, quantum, span, orderly>>

(* DoWhenInControl(): a register, memory or breakpoint command.            *)
DoWhenInControl ==
  /\ \/ cli = "shell" /\ cli' = "commandAwait"
     \/ cli = "commandAwait" /\ MutexFree /\ CLIInControl /\ cli' = "command"
     \/ cli = "command" /\ cli' = "shell"
  /\ UNCHANGED <<cli_status, renode_taken, renode_to_take, cli_taken, cli_to_take,
                 program_done, halt_reason, renode, quantum, span, orderly>>

RenodeReturns == RenodeStepFailed \/ \E r \in StepResults(renode_to_take - renode_taken) :
                                       RenodeStepped(r)
CLIStepReturns == CLIStepFailed \/ \E r \in StepResults(StepsToTake) : CLIStepped(r)

Next ==
  \/ \E n \in 1 .. MaxSteps : RenodeStep(n)
  \/ RenodeAwakes \/ RenodeReturns \/ RenodeAccess
  \/ \E connected \in BOOLEAN : SetConnected(connected)
  \/ CLIHalt \/ CLIRun
  \/ \E n \in 1 .. MaxSteps : CLIStep(n)
  \/ CLIStepAwakes \/ CLIStepReturns \/ DoWhenInControl

Spec == Init /\ [][Next]_vars

(* Step() returns, the mutex is granted to a thread that can have it, to   *)
(* Renode also if the CLI keeps taking it in between, and Renode keeps     *)
(* asking for steps.  The CLI's user need not do anything.                 *)
FairSpec ==
  /\ Spec
  /\ SF_vars(\E n \in 1 .. MaxSteps : RenodeStep(n))
  /\ SF_vars(RenodeAwakes) /\ WF_vars(RenodeReturns)
  /\ WF_vars(renode = "access" /\ RenodeAccess)
  /\ WF_vars(CLIStepAwakes) /\ WF_vars(CLIStepReturns)
  /\ WF_vars(cli # "shell" /\ CLIRun)
  /\ WF_vars(cli # "shell" /\ DoWhenInControl)

-----------------------------------------------------------------------------
(* Types; the counters stay within what was asked for.                     *)
TypeOK ==
  /\ cli_status \in {"halted", "running", "singleStep"}
  /\ renode_taken \in 0 .. renode_to_take /\ renode_to_take \in Counts
  /\ cli_taken \in 0 .. cli_to_take /\ cli_to_take \in Counts
  /\ program_done \in BOOLEAN
  /\ halt_reason \in {"none", "break", "done"}
  /\ renode \in {"idle", "await", "stepping", "access"}
  /\ cli \in {"accept", "shell", "run", "runAwait", "stepAwait", "stepping",
              "commandAwait", "command", "gone"}
  /\ quantum \in Counts /\ span \in Nat
  /\ orderly \in BOOLEAN

(* What RenodeStep() will return is the number of steps the core has made  *)
(* since the call, whoever asked for them, and never exceeds the quantum.  *)
QuantumAccounted == renode_taken = quantum /\ quantum <= renode_to_take

(* While CLIStep(n) is under way nobody else advances the core, however    *)
(* many of Renode's calls it spans: the n steps are the CLI's own.         *)
CLIStepExclusive ==
  cli \in {"stepAwait", "stepping"} => span = cli_taken /\ span <= cli_to_take

(* The CLI steps the core only within the quantum Renode is waiting for,   *)
(* and by at least one step, while the environment is orderly.             *)
CLIWithinQuantum ==
  orderly /\ cli = "stepping" => renode = "await" /\ StepsToTake >= 1

(* Renode's accesses to the core, which take no mutex, do not overlap with *)
(* a command or a step of the CLI as long as the program is not done.      *)
RenodeAccessAlone ==
  orderly /\ renode = "access" /\ ~program_done => cli \notin {"stepping", "command"}

(* The calls that block return: RenodeStep() when its quantum is used up,  *)
(* CLIStep() also when it needs several quanta, and CLIRun() when the      *)
(* program is done or the core is halted.                                  *)
CallsReturn ==
  /\ (orderly /\ renode = "await" /\ renode_taken >= renode_to_take) ~> (renode = "idle")
  /\ (orderly /\ cli = "stepAwait") ~> (cli = "shell")
  /\ (orderly /\ cli \in {"run", "runAwait"} /\ program_done) ~> (cli = "shell")
=============================================================================
