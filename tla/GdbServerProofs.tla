--------------------------- MODULE GdbServerProofs ---------------------------
(***************************************************************************)
(* Proofs about a GDB session for any commands, halt reasons, number of    *)
(* attempts and amount of noise.                                           *)
(*                                                                         *)
(* An orderly session is always at one of a few stages, which say what is  *)
(* on its way in either direction, where the debugger is with its command  *)
(* and where the server is in Connect().                                   *)
(***************************************************************************)
EXTENDS GdbServer, TLAPS, WellFoundedInduction, SequenceTheorems

AllCommands == Commands \cup RoughCommands

Texts == {"", "data", "OK", "E.", "E01", "W00", "T02", "T03", "T05", "T06"}

Replies == [text : Texts, last : BOOLEAN]

Messages(contents) ==
  {Ack, Nack, Interrupt} \cup
  [kind : {"$"}, contents : contents, id : {0, 1}, intact : BOOLEAN]

Clients ==
  [state : {"idle", "sent", "awaiting", "gone"}, command : AllCommands \cup {NoCommand},
   id : {0, 1}, acks : BOOLEAN]

TypeOK ==
  /\ to_server \in Seq(Messages(AllCommands)) /\ to_client \in Seq(Messages(Texts))
  /\ client \in Clients
  /\ client.state \in {"sent", "awaiting"} => client.command \in AllCommands
  /\ phase \in {"connecting", "reading", "replying", "acking", "waiting", "closed"}
  /\ reply \in Replies
  /\ no_ack_mode \in BOOLEAN /\ no_ack_mode_latch \in BOOLEAN
  /\ core \in CoreStates
  /\ serving \in {0, 1} /\ executed \in Nat
  /\ orderly \in BOOLEAN

-----------------------------------------------------------------------------
(* The stages of an orderly session.                                       *)

(* The packet of the command under way; if the debugger has left, of any.  *)
Unread(cl, p) ==
  \E c \in Commands, b \in BOOLEAN :
    /\ cl.state # "gone" => c = cl.command
    /\ p = Packet(c, cl.id, b)

(* Nothing is under way, but for the greeting or the last plus.            *)
Quiet ==
  /\ client.state = "idle" /\ to_client = << >>
  /\ \/ phase = "connecting" /\ to_server = <<Ack>>
     \/ phase = "reading" /\ to_server = << >>
     \/ phase = "acking" /\ to_server = <<Ack>> /\ serving = client.id

(* A command is under way to the server.                                   *)
Requested ==
  /\ client.state = IF client.acks THEN "sent" ELSE "awaiting"
  /\ to_client = << >>
  /\ \E p : /\ Unread(client, p)
            /\ \/ phase = "connecting" /\ to_server = <<Ack, p>>
               \/ phase = "reading" /\ to_server = <<p>>
               \/ phase = "acking" /\ to_server = <<Ack, p>> /\ serving # client.id

(* It came garbled and is asked for again.                                 *)
Refused ==
  /\ client.state = "sent" /\ phase = "reading"
  /\ to_server = << >> /\ to_client = <<Nack>>

(* The server works on it.                                                 *)
Busy ==
  /\ phase \in {"replying", "waiting"} /\ serving = client.id
  /\ to_server = << >>
  /\ \/ client.state = "sent" /\ to_client = <<Ack>>
     \/ client.state = "awaiting" /\ to_client = << >>

(* The response is under way, to be acknowledged.                          *)
Answered ==
  /\ phase = "acking" /\ client.acks /\ serving = client.id
  /\ to_server = << >>
  /\ \E b \in BOOLEAN : LET p == Packet(reply.text, client.id, b) IN
       \/ client.state = "sent" /\ to_client = <<Ack, p>>
       \/ client.state = "awaiting" /\ to_client = <<p>>

(* It came garbled and is asked for again.                                 *)
Rejected ==
  /\ client.state = "awaiting" /\ client.acks
  /\ phase = "acking" /\ serving = client.id
  /\ to_server = <<Nack>> /\ to_client = << >>

(* The response is under way, not to be acknowledged.                      *)
Delivered ==
  /\ client.state = "awaiting" /\ ~client.acks
  /\ phase = "reading" /\ to_server = << >>
  /\ \E t : to_client = <<Packet(t, client.id, TRUE)>>

AnswersTo(id, q) == \A p \in ToSet(q) : p.kind = "$" => p.id = id

(* The debugger has left, at any of these.                                 *)
Left ==
  /\ client.state = "gone" /\ AnswersTo(client.id, to_client)
  /\ \/ phase = "connecting" /\ to_server = <<Ack>>
     \/ phase = "reading" /\ to_server = << >>
     \/ phase \in {"replying", "waiting"} /\ to_server = << >> /\ serving = client.id
     \/ phase = "acking" /\ to_server \in {<< >>, <<Ack>>, <<Nack>>} /\ serving = client.id
     \/ \E p : /\ Unread(client, p)
               /\ \/ phase \in {"connecting", "acking"} /\ to_server = <<Ack, p>>
                  \/ phase = "reading" /\ to_server = <<p>>

(* The session is over.                                                    *)
Over ==
  /\ phase = "closed"
  /\ \/ to_client = << >>
     \/ client.state = "sent" /\ to_client = <<Ack>>
     \/ client.state = "awaiting" /\ \E t, b : to_client = <<Packet(t, client.id, b)>>
     \/ client.state = "gone" /\ AnswersTo(client.id, to_client)

Stage ==
  Quiet \/ Requested \/ Refused \/ Busy \/ Answered \/ Rejected \/ Delivered \/ Left \/ Over

(* The two sides agree on acknowledgements, but for the exchange that does *)
(* away with them: the server waits for the plus to its own OK.            *)
Modes ==
  /\ no_ack_mode => no_ack_mode_latch /\ ~client.acks /\ phase \notin {"connecting", "acking"}
  /\ ~client.acks => no_ack_mode_latch /\ phase # "connecting"
  /\ ~client.acks /\ ~no_ack_mode =>
       phase = "acking" /\ (to_server = <<Ack>> \/ \E p : to_server = <<Ack, p>>)
  /\ client.acks /\ no_ack_mode_latch =>
       /\ phase \in {"replying", "acking"} /\ reply.text = "OK"
       /\ client.state = "gone"
            \/ (client.command.op = "QStartNoAckMode" /\ client.state \in {"sent", "awaiting"})
       /\ to_server = << >> \/ to_server = <<Nack>>
  /\ client.command.op = "QStartNoAckMode" /\ serving = client.id
       /\ phase \in {"replying", "waiting", "acking"} => no_ack_mode_latch
  /\ client.state = "sent" => client.acks
  /\ client.state \in {"sent", "awaiting"} => client.command \in Commands
  /\ client.state \in {"idle", "gone"} => client.command = NoCommand

(* The core, and what the server knows of it.                              *)
CoreInv ==
  /\ thread_select = [t \in {"c", "g"} |-> 1]
  /\ core.running => phase = "waiting"
  /\ core.reason = "done" => ~core.running
  /\ halt_reason = "done" => core.reason = "done"

Sequenced == phase = "closed" <=> closed # "no"

OrderlyInv ==
  /\ CoreInv /\ Sequenced /\ Stage
  /\ phase # "closed" => Modes
  /\ closed \notin {"desync", "handshake", "crash"}
  /\ StopRepliesTrue

Inv == TypeOK /\ (orderly => OrderlyInv)

-----------------------------------------------------------------------------
(* The core.                                                               *)

CoreOK(c) ==
  /\ c \in CoreStates
  /\ c.reason = "done" => ~c.running
  /\ core.reason = "done" => c.reason = "done"

LEMMA CoreFields ==
  ASSUME NEW c \in CoreStates
  PROVE  c.running \in BOOLEAN /\ c = [running |-> c.running, reason |-> c.reason]
BY DEF CoreStates

LEMMA ResumedOK ==
  ASSUME NEW c, CoreOK(c), NEW action, NEW d \in Resumed(c, action)
  PROVE  CoreOK(d)
<1>0. c \in CoreStates
  BY DEF CoreOK
<1>1. CASE d = c
  BY <1>1
<1>2. CASE d = [c EXCEPT !.running = TRUE] /\ c.reason # "done"
  BY <1>0, <1>2 DEF CoreOK, CoreStates
<1>3. ASSUME NEW r \in HaltReasons \cup {"none"}, d = [c EXCEPT !.reason = r],
             ~c.running, c.reason # "done"
      PROVE  CoreOK(d)
  BY <1>0, <1>3 DEF CoreOK, CoreStates
<1> QED BY <1>1, <1>2, <1>3 DEF Resumed

(* However many parts a vCont has, a program that is done stays done and   *)
(* does not run.                                                           *)
LEMMA AfterPartsOK ==
  ASSUME CoreOK(core), NEW parts \in Seq([action : {"c", "s"}, tid : Int]), NEW c \in AfterParts(parts)
  PROVE  CoreOK(c)
<1> DEFINE n == Len(parts)
<1>1. PICK f \in [0 .. n -> CoreStates] :
        /\ c = f[n] /\ f[0] = core
        /\ \A i \in DOMAIN parts : f[i] \in Resumed(f[i - 1], parts[i].action)
  BY DEF AfterParts
<1> DEFINE bad == {i \in 0 .. n : ~CoreOK(f[i])}
<1>2. n \in Nat /\ DOMAIN parts = 1 .. n
  OBVIOUS
<1> SUFFICES ASSUME bad # {} PROVE FALSE
  BY <1>1, <1>2
<1> HIDE DEF n
<1>3. bad \subseteq Nat
  BY <1>2
<1>4. PICK i \in bad : \A j \in bad : ~(<<j, i>> \in OpToRel(<, Nat))
  BY <1>3, WFMin, NatLessThanWellFounded
<1>5. i \in 0 .. n /\ ~CoreOK(f[i]) /\ \A j \in bad : ~(j < i)
  BY <1>2, <1>3, <1>4 DEF OpToRel
<1>6. i # 0
  BY <1>1, <1>5
<1>7. i \in 1 .. n /\ i - 1 \in 0 .. n /\ i - 1 < i
  BY <1>2, <1>5, <1>6
<1>8. CoreOK(f[i - 1])
  BY <1>5, <1>7
<1>9. f[i] \in Resumed(f[i - 1], parts[i].action)
  BY <1>1, <1>2, <1>7
<1> QED BY <1>5, <1>8, <1>9, ResumedOK

-----------------------------------------------------------------------------
(* The handlers, in an orderly session.                                    *)

StopTexts == {"W00", "T02", "T03", "T05", "T06"}

StopTrue(text) == text \in StopTexts => (text = "W00" <=> core'.reason \in {"done", "semihost"})

CoreAfter ==
  /\ core' \in CoreStates
  /\ core'.reason = "done" => ~core'.running
  /\ halt_reason' = "done" => core'.reason = "done"

(* A handler answers, waits for the core or ends the session; the answer   *)
(* to a command that may report a halt is true.                            *)
Outcome(command) ==
  /\ CoreAfter
  /\ thread_select' = [t \in {"c", "g"} |-> 1]
  /\ \/ /\ phase' = "replying" /\ closed' = closed /\ ~core'.running
        /\ command.op \in {"?", "c", "vCont"} => StopTrue(reply'.text)
     \/ phase' = "waiting" /\ closed' = closed
     \/ phase' = "closed" /\ closed' = "client" /\ ~core'.running
  /\ IF command.op = "QStartNoAckMode"
     THEN no_ack_mode_latch' = TRUE /\ phase' = "replying" /\ reply'.text = "OK"
     ELSE no_ack_mode_latch' = no_ack_mode_latch

Ready == TypeOK /\ CoreInv /\ orderly /\ ~core.running

LEMMA CoreSame ==
  ASSUME Ready, UNCHANGED <<core, halt_reason>>
  PROVE  CoreAfter /\ ~core'.running
BY DEF Ready, TypeOK, CoreInv, CoreAfter

LEMMA AnswerOutcome ==
  ASSUME Ready, NEW command, command.op # "QStartNoAckMode",
         NEW texts, Answer(texts), \A t \in texts : t \notin StopTexts
  PROVE  Outcome(command)
<1>1. UNCHANGED <<core, halt_reason, thread_select, no_ack_mode_latch, closed>>
  BY DEF Answer, Say, Settings
<1>2. phase' = "replying" /\ reply'.text \notin StopTexts
  BY DEF Answer, Say
<1>3. CoreAfter /\ ~core'.running
  BY <1>1, CoreSame
<1> QED BY <1>1, <1>2, <1>3 DEF Outcome, StopTrue, Ready, CoreInv

LEMMA HaltReplyTrue ==
  ASSUME NEW r
  PROVE  /\ HaltReply(r) = "W00" <=> r \in {"done", "semihost"}
         /\ VContReply(r) = "W00" <=> r \in {"done", "semihost"}
BY DEF HaltReply, VContReply

LEMMA SayHaltReasonOutcome ==
  ASSUME Ready, NEW command, command.op # "QStartNoAckMode",
         SayHaltReason, UNCHANGED <<Settings, core>>
  PROVE  Outcome(command)
<1>1. UNCHANGED <<core, thread_select, no_ack_mode_latch, closed>> /\ phase' = "replying"
  BY DEF SayHaltReason, Say, Settings
<1>2. \/ reply'.text = "E01" /\ halt_reason' = halt_reason
      \/ reply'.text = HaltReply(core.reason) /\ halt_reason' = core.reason
  BY DEF SayHaltReason, Say
<1>3. CoreAfter /\ ~core'.running
  BY <1>1, <1>2 DEF Ready, TypeOK, CoreInv, CoreAfter
<1>4. StopTrue(reply'.text)
  BY <1>1, <1>2, HaltReplyTrue DEF StopTrue, StopTexts
<1> QED BY <1>1, <1>3, <1>4 DEF Outcome, Ready, CoreInv

LEMMA ContinueOutcome ==
  ASSUME Ready, NEW command, command.op = "c", GdbContinue
  PROVE  Outcome(command)
<1>1. CASE halt_reason = "done" /\ Answer({"W00"})
  <2>1. /\ UNCHANGED <<core, halt_reason, thread_select, no_ack_mode_latch, closed>>
        /\ phase' = "replying" /\ reply'.text = "W00"
    BY <1>1 DEF Answer, Say, Settings
  <2>2. core'.reason = "done"
    BY <1>1, <2>1 DEF Ready, CoreInv
  <2>3. CoreAfter /\ ~core'.running
    BY <2>1, CoreSame
  <2> QED BY <2>1, <2>2, <2>3 DEF Outcome, StopTrue, Ready, CoreInv
<1>2. CASE Answer({"E."})
  BY <1>2, AnswerOutcome DEF StopTexts
<1>3. CASE halt_reason # "done" /\ CoreRun /\ AwaitCore("c")
  <2>1. /\ UNCHANGED <<halt_reason, thread_select, no_ack_mode_latch, closed>>
        /\ phase' = "waiting"
    BY <1>3 DEF AwaitCore, Settings
  <2>2. core' = core \/ (core.reason # "done" /\ core' = [core EXCEPT !.running = TRUE])
    BY <1>3 DEF CoreRun
  <2>3. CoreAfter
    BY <1>3, <2>1, <2>2 DEF Ready, TypeOK, CoreInv, CoreAfter, CoreStates
  <2> QED BY <2>1, <2>3 DEF Outcome, Ready, CoreInv
<1> QED BY <1>1, <1>2, <1>3 DEF GdbContinue, Ready

LEMMA StepOutcome ==
  ASSUME Ready, NEW command, command.op = "s", GdbStep
  PROVE  Outcome(command)
<1>1. CASE Answer({"E."})
  BY <1>1, AnswerOutcome DEF StopTexts
<1>2. CASE CoreStep /\ Say("T05") /\ UNCHANGED <<Settings, halt_reason>>
  <2>1. /\ UNCHANGED <<halt_reason, thread_select, no_ack_mode_latch, closed>>
        /\ phase' = "replying"
    BY <1>2 DEF Say, Settings
  <2>2. PICK r \in HaltReasons \cup {"none"} :
          (core.reason = "done" => r = "done") /\ core' = [core EXCEPT !.reason = r]
    BY <1>2 DEF CoreStep
  <2>3. CoreAfter /\ ~core'.running
    BY <2>1, <2>2 DEF Ready, TypeOK, CoreInv, CoreAfter, CoreStates
  <2> QED BY <2>1, <2>3 DEF Outcome, Ready, CoreInv
<1> QED BY <1>1, <1>2 DEF GdbStep

LEMMA VContinueOutcome ==
  ASSUME Ready, NEW command \in Commands, command.op = "vCont", GdbVContinue(command.parts)
  PROVE  Outcome(command)
<1>1. /\ command.parts \in Seq([action : {"c", "s"}, tid : Int])
      /\ \A i \in DOMAIN command.parts : command.parts[i].tid \in {-1, 1}
  BY GdbServerAssumption
<1>2. GoodParts(command.parts) = command.parts
  BY <1>1 DEF GoodParts
<1>3. CASE Answer({"data", "E."})
  BY <1>3, AnswerOutcome DEF StopTexts
<1>4. CASE VContWaits(command.parts)
  <2>1. /\ UNCHANGED <<halt_reason, thread_select, no_ack_mode_latch, closed>>
        /\ phase' = "waiting"
    BY <1>4 DEF VContWaits, AwaitCore, Settings
  <2>2. CoreOK(core)
    BY DEF CoreOK, Ready, TypeOK, CoreInv
  <2>3. CoreOK(core')
    BY <1>1, <1>4, <2>2, AfterPartsOK DEF VContWaits
  <2>4. CoreAfter
    BY <2>1, <2>3 DEF CoreAfter, CoreOK, Ready, CoreInv
  <2> QED BY <2>1, <2>4 DEF Outcome, Ready, CoreInv
<1> QED BY <1>2, <1>3, <1>4 DEF GdbVContinue

LEMMA OneThread ==
  ASSUME Ready, NEW type \in {"c", "g"}
  PROVE  GetThreadId(type) = {1}
BY DEF Ready, CoreInv, GetThreadId, ThreadIds

LEMMA OnThreadContinue ==
  ASSUME Ready, OnThread("c", GdbContinue)
  PROVE  GdbContinue
BY OneThread DEF OnThread

LEMMA OnThreadStep ==
  ASSUME Ready, OnThread("c", GdbStep)
  PROVE  GdbStep
BY OneThread DEF OnThread

LEMMA OnThreadAnswer ==
  ASSUME Ready, NEW texts, OnThread("g", Answer(texts))
  PROVE  Answer(texts)
BY OneThread DEF OnThread

LEMMA SettingOutcome ==
  ASSUME Ready, NEW command, command.op = "qSupported" \/ command.op = "QThreadSuffixSupported",
         GdbSupported \/ ThreadSuffixSupported
  PROVE  Outcome(command)
<1>1. /\ UNCHANGED <<core, halt_reason, thread_select, no_ack_mode_latch, closed>>
      /\ phase' = "replying"
  BY DEF GdbSupported, ThreadSuffixSupported, Say
<1>2. CoreAfter /\ ~core'.running
  BY <1>1, CoreSame
<1> QED BY <1>1, <1>2 DEF Outcome, Ready, CoreInv

LEMMA NoAckOutcome ==
  ASSUME Ready, NEW command, command.op = "QStartNoAckMode", StartNoAckMode
  PROVE  Outcome(command)
<1>1. /\ UNCHANGED <<core, halt_reason, thread_select, closed>>
      /\ phase' = "replying" /\ reply'.text = "OK" /\ no_ack_mode_latch' = TRUE
  BY DEF StartNoAckMode, Say
<1>2. CoreAfter /\ ~core'.running
  BY <1>1, CoreSame
<1> QED BY <1>1, <1>2 DEF Outcome, Ready, CoreInv

LEMMA SelectOutcome ==
  ASSUME Ready, NEW command, command.op = "H", GdbSelectThread
  PROVE  Outcome(command)
<1>1. CASE Answer({"E."})
  BY <1>1, AnswerOutcome DEF StopTexts
<1>2. CASE ~Answer({"E."})
  <2>1. /\ UNCHANGED <<core, halt_reason, no_ack_mode_latch, closed>> /\ phase' = "replying"
        /\ \E t \in {"c", "g"}, id \in ThreadIds : thread_select' = [thread_select EXCEPT ![t] = id]
    BY <1>2 DEF GdbSelectThread, Say
  <2>2. thread_select' = [t \in {"c", "g"} |-> 1]
    BY <2>1 DEF Ready, CoreInv, ThreadIds
  <2>3. CoreAfter /\ ~core'.running
    BY <2>1, CoreSame
  <2> QED BY <2>1, <2>2, <2>3 DEF Outcome
<1> QED BY <1>1, <1>2

LEMMA EndOutcome ==
  ASSUME Ready, NEW command, (command.op = "D" /\ GdbDetach) \/ (command.op = "k" /\ GdbKill)
  PROVE  Outcome(command)
<1>1. UNCHANGED <<core, halt_reason, thread_select, no_ack_mode_latch>>
  BY DEF GdbDetach, GdbKill, Settings
<1>2. \/ phase' = "replying" /\ closed' = closed
      \/ phase' = "closed" /\ closed' = "client"
  BY DEF GdbDetach, GdbKill, Terminate
<1>3. CoreAfter /\ ~core'.running
  BY <1>1, CoreSame
<1>4. command.op \notin {"?", "c", "vCont", "QStartNoAckMode"}
  OBVIOUS
<1> QED BY <1>1, <1>2, <1>3, <1>4 DEF Outcome, Ready, CoreInv

(* ParseGdbCommand(), whatever the command.                                *)
LEMMA ParseOutcome ==
  ASSUME Ready, NEW command \in Commands, ParseGdbCommand(command)
  PROVE  Outcome(command)
<1> DEFINE Plain == {{"data", Error}, {"OK", Error}, {"data", "E."}, {"OK", "E."},
                     {"OK", "", "E."}, {"data", ""}, {"", "E."}}
<1>1. \A texts \in Plain : \A t \in texts : t \notin StopTexts
  BY DEF Error, StopTexts
<1>2. ASSUME command.op # "QStartNoAckMode", NEW texts \in Plain,
             Answer(texts) \/ OnThread("g", Answer(texts))
      PROVE  Outcome(command)
  BY <1>1, <1>2, AnswerOutcome, OnThreadAnswer
<1>3. CASE \/ command.op = "g" /\ OnThread("g", GdbReadGprRegisters)
           \/ command.op = "G" /\ OnThread("g", GdbWriteGprRegisters)
           \/ command.op = "p" /\ OnThread("g", GdbReadRegister)
           \/ command.op = "P" /\ OnThread("g", GdbWriteRegister)
  BY <1>2, <1>3
     DEF GdbReadGprRegisters, GdbWriteGprRegisters, GdbReadRegister, GdbWriteRegister
<1>4. CASE \/ command.op = "m" /\ GdbReadMemory
           \/ command.op = "M" /\ GdbWriteMemory
           \/ command.op = "Z0" /\ GdbAddBreakpoint
           \/ command.op = "z0" /\ GdbRemoveBreakpoint
           \/ command.op = "q" /\ GdbQuery
           \/ command.op = "unknown" /\ Unsupported
  BY <1>2, <1>4
     DEF GdbReadMemory, GdbWriteMemory, GdbAddBreakpoint, GdbRemoveBreakpoint, GdbQuery, Unsupported
<1>5. CASE command.op = "?" /\ GdbHaltReason
  BY <1>5, SayHaltReasonOutcome DEF GdbHaltReason
<1>6. CASE command.op = "c" /\ OnThread("c", GdbContinue)
  BY <1>6, OnThreadContinue, ContinueOutcome
<1>7. CASE command.op = "s" /\ OnThread("c", GdbStep)
  BY <1>7, OnThreadStep, StepOutcome
<1>8. CASE command.op = "vCont" /\ GdbVContinue(command.parts)
  BY <1>8, VContinueOutcome
<1>9. CASE command.op = "H" /\ GdbSelectThread
  BY <1>9, SelectOutcome
<1>10. CASE \/ command.op = "qSupported" /\ GdbSupported
            \/ command.op = "QThreadSuffixSupported" /\ ThreadSuffixSupported
  BY <1>10, SettingOutcome
<1>11. CASE command.op = "QStartNoAckMode" /\ StartNoAckMode
  BY <1>11, NoAckOutcome
<1>12. CASE (command.op = "D" /\ GdbDetach) \/ (command.op = "k" /\ GdbKill)
  BY <1>12, EndOutcome
<1> QED BY <1>3, <1>4, <1>5, <1>6, <1>7, <1>8, <1>9, <1>10, <1>11, <1>12
       DEF ParseGdbCommand

(* Wait() returns with the core at rest, and the reply is true.            *)
LEMMA WaitOutcome ==
  ASSUME TypeOK, CoreInv, orderly, WaitReturns
  PROVE  /\ phase = "waiting" /\ phase' = "replying" /\ closed' = closed /\ ~core'.running
         /\ CoreAfter /\ StopTrue(reply'.text)
<1>1. ~core.running /\ core' = core
  BY DEF WaitReturns
<1>2. CASE SayHaltReason
  <2>1. \/ reply'.text = "E01" /\ halt_reason' = halt_reason
        \/ reply'.text = HaltReply(core.reason) /\ halt_reason' = core.reason
    BY <1>2 DEF SayHaltReason, Say
  <2>2. CoreAfter
    BY <1>1, <2>1 DEF TypeOK, CoreInv, CoreAfter
  <2>3. StopTrue(reply'.text)
    BY <1>1, <2>1, HaltReplyTrue DEF StopTrue, StopTexts
  <2> QED BY <1>1, <1>2, <2>2, <2>3 DEF WaitReturns, SayHaltReason, Say
<1>3. CASE VContReport
  <2>1. \/ halt_reason = "done" /\ reply'.text = "W00" /\ halt_reason' = halt_reason
        \/ /\ halt_reason' = core.reason
           /\ reply'.text = "E01" \/ reply'.text = VContReply(core.reason)
    BY <1>3 DEF VContReport, Say
  <2>2. CoreAfter
    BY <1>1, <2>1 DEF TypeOK, CoreInv, CoreAfter
  <2>3. StopTrue(reply'.text)
    BY <1>1, <2>1, HaltReplyTrue DEF StopTrue, StopTexts, CoreInv
  <2> QED BY <1>1, <1>3, <2>2, <2>3 DEF WaitReturns, VContReport, Say
<1> QED BY <1>2, <1>3 DEF WaitReturns

-----------------------------------------------------------------------------
(* Queues of at most two, and what is in them.                             *)

LEMMA Pair ==
  ASSUME NEW x, NEW y
  PROVE  Append(<<x>>, y) = <<x, y>>
<1> DEFINE S == {x, y}
           s == Append(<<x>>, y)
           t == <<x, y>>
<1>1. s \in Seq(S) /\ t \in Seq(S) /\ Len(s) = 2 /\ Len(t) = 2
  OBVIOUS
<1>2. s[1] = t[1] /\ s[2] = t[2]
  OBVIOUS
<1> HIDE DEF S, s, t
<1>3. \A i \in 1 .. Len(s) : s[i] = t[i]
  BY <1>1, <1>2
<1> QED BY <1>1, <1>3, SeqEqual DEF s, t

LEMMA Short ==
  ASSUME NEW x, NEW y
  PROVE  /\ << >> # <<x>> /\ << >> # <<x, y>>
         /\ Head(<<x>>) = x /\ Tail(<<x>>) = << >>
         /\ Head(<<x, y>>) = x /\ Tail(<<x, y>>) = <<y>>
         /\ Append(<< >>, x) = <<x>> /\ Append(<<x>>, y) = <<x, y>>
<1>1. << >> # <<x>> /\ << >> # <<x, y>>
  OBVIOUS
<1>2. Head(<<x>>) = x /\ Tail(<<x>>) = << >> /\ Append(<< >>, x) = <<x>>
  OBVIOUS
<1>3. Head(<<x, y>>) = x /\ Tail(<<x, y>>) = <<y>>
  OBVIOUS
<1> QED BY <1>1, <1>2, <1>3, Pair

LEMMA ShortEqual ==
  ASSUME NEW x, NEW y, NEW z
  PROVE  (<<x>> = <<y>> => x = y) /\ <<x, y>> # <<z>>
OBVIOUS

LEMMA Characters ==
  /\ Ack # Nack /\ Ack.kind = "+" /\ Nack.kind = "-"
BY DEF Ack, Nack

LEMMA Packets ==
  ASSUME NEW c, NEW i, NEW b
  PROVE  /\ Packet(c, i, b).kind = "$" /\ Packet(c, i, b).contents = c
         /\ Packet(c, i, b).id = i /\ Packet(c, i, b).intact = b
         /\ Packet(c, i, b) # Ack /\ Packet(c, i, b) # Nack
<1>1. /\ Packet(c, i, b).kind = "$" /\ Packet(c, i, b).contents = c
      /\ Packet(c, i, b).id = i /\ Packet(c, i, b).intact = b
  BY DEF Packet
<1> QED BY <1>1, Characters

LEMMA ShortAnswers ==
  ASSUME NEW id, NEW c, NEW b
  PROVE  /\ AnswersTo(id, << >>) /\ AnswersTo(id, <<Ack>>) /\ AnswersTo(id, <<Nack>>)
         /\ AnswersTo(id, <<Packet(c, id, b)>>)
         /\ AnswersTo(id, <<Ack, Packet(c, id, b)>>)
BY Characters, Packets DEF AnswersTo, ToSet

-----------------------------------------------------------------------------
(* The debugger's steps, from stage to stage.                              *)

LEMMA ServerSame ==
  ASSUME OrderlyInv, UNCHANGED <<serverVars, core>>
  PROVE  CoreInv' /\ Sequenced' /\ closed' \notin {"desync", "handshake", "crash"}
BY DEF OrderlyInv, CoreInv, Sequenced, serverVars

LEMMA ClientSendInv ==
  ASSUME TypeOK, orderly, OrderlyInv, NEW command, NEW intact \in BOOLEAN, ClientSend(command, intact)
  PROVE  OrderlyInv'
<1>1. /\ client'.state = (IF client.acks THEN "sent" ELSE "awaiting")
      /\ client'.command = command /\ client'.id = 1 - client.id /\ client'.acks = client.acks
      /\ client'.id # client.id
  BY DEF TypeOK, Clients, ClientSend
<1>2. /\ UNCHANGED <<to_client, serverVars, core>> /\ command \in Commands
      /\ to_server' = Append(to_server, Packet(command, client'.id, intact))
  BY <1>1 DEF ClientSend
<1>3. phase # "closed" /\ client.state = "idle" /\ Modes
  BY DEF ClientSend, OrderlyInv, Sequenced
<1>4. Quiet
  BY <1>3 DEF OrderlyInv, Stage, Requested, Refused, Busy, Answered, Rejected, Delivered, Left, Over
<1> DEFINE p == Packet(command, client'.id, intact)
<1>5. Unread(client', p) /\ to_server' = Append(to_server, p)
  BY <1>1, <1>2 DEF Unread
<1> HIDE DEF p
<1>6. UNCHANGED <<phase, reply, no_ack_mode, no_ack_mode_latch, serving>>
  BY <1>2 DEF serverVars
<1>7. \/ phase = "connecting" /\ to_server' = <<Ack, p>>
      \/ phase = "reading" /\ to_server' = <<p>>
      \/ phase = "acking" /\ to_server' = <<Ack, p>> /\ serving # client'.id
  BY <1>1, <1>4, <1>5, Short, ZenonT(30) DEF Quiet
<1>8. Requested'
  BY <1>1, <1>2, <1>4, <1>5, <1>6, <1>7 DEF Requested, Quiet
<1>9. Modes'
  BY <1>1, <1>2, <1>3, <1>6, <1>7 DEF Modes, TypeOK, Clients
<1>10. StopRepliesTrue'
  BY <1>6, <1>7 DEF StopRepliesTrue
<1> QED BY <1>2, <1>8, <1>9, <1>10, ServerSame DEF OrderlyInv, Stage

LEMMA ClientResendInv ==
  ASSUME TypeOK, orderly, OrderlyInv, NEW intact \in BOOLEAN, ClientResend(intact)
  PROVE  OrderlyInv'
<1>1. /\ UNCHANGED <<client, serverVars, core>> /\ client.state = "sent"
      /\ to_client # << >> /\ Head(to_client) = Nack /\ to_client' = Tail(to_client)
      /\ to_server' = Append(to_server, Packet(client.command, client.id, intact))
  BY DEF ClientResend
<1>2. Refused
  BY <1>1, Short, Characters, Packets
     DEF OrderlyInv, Stage, Quiet, Requested, Busy, Answered, Rejected, Delivered, Left, Over
<1> DEFINE p == Packet(client.command, client.id, intact)
<1>3. to_server' = <<p>> /\ to_client' = << >> /\ phase = "reading"
  BY <1>1, <1>2, Short DEF Refused
<1>4. Modes
  BY <1>3 DEF OrderlyInv
<1>5. UNCHANGED <<phase, reply, no_ack_mode, no_ack_mode_latch, serving>>
  BY <1>1 DEF serverVars
<1>6. Unread(client', p)
  BY <1>1, <1>4 DEF Unread, Modes
<1> HIDE DEF p
<1>7. Requested'
  BY <1>1, <1>3, <1>4, <1>5, <1>6 DEF Requested, Modes
<1>8. Modes'
  BY <1>1, <1>3, <1>4, <1>5 DEF Modes
<1>9. StopRepliesTrue'
  BY <1>3, <1>5 DEF StopRepliesTrue
<1> QED BY <1>1, <1>7, <1>8, <1>9, ServerSame DEF OrderlyInv, Stage

(* What a step that leaves the server and the debugger's command alone     *)
(* keeps.                                                                  *)
LEMMA StopSame ==
  ASSUME StopRepliesTrue, UNCHANGED <<phase, reply, serving, core, orderly>>,
         client'.id = client.id,
         client'.command = client.command \/ client'.command = NoCommand
  PROVE  StopRepliesTrue'
<1>1. NoCommand.op \notin {"?", "c", "vCont"}
  BY DEF NoCommand
<1> QED BY <1>1 DEF StopRepliesTrue

LEMMA NoCommandOp == NoCommand.op = "none"
BY DEF NoCommand

LEMMA ClientReadAckInv ==
  ASSUME TypeOK, orderly, OrderlyInv, ClientReadAck
  PROVE  OrderlyInv'
<1>1. /\ client'.state = "awaiting" /\ client'.command = client.command
      /\ client'.id = client.id /\ client'.acks = client.acks
      /\ client.state = "sent"
  BY DEF TypeOK, Clients, ClientReadAck
<1>2. /\ UNCHANGED <<to_server, serverVars, core, orderly>>
      /\ to_client # << >> /\ Head(to_client) = Ack /\ to_client' = Tail(to_client)
  BY DEF ClientReadAck
<1>3. UNCHANGED <<phase, reply, no_ack_mode, no_ack_mode_latch, serving, closed>>
  BY <1>2 DEF serverVars
<1>4. StopRepliesTrue'
  BY <1>1, <1>2, <1>3, StopSame DEF OrderlyInv
<1>5. ASSUME Modes PROVE Modes'
  BY <1>1, <1>2, <1>3, <1>5 DEF Modes
<1>6. Busy \/ Answered \/ Over
  BY <1>1, <1>2, Short, Characters
     DEF OrderlyInv, Stage, Quiet, Requested, Refused, Rejected, Delivered, Left
<1>7. CASE Busy
  <2>1. to_client' = << >>
    BY <1>1, <1>2, <1>7, Short DEF Busy
  <2>2. Busy'
    BY <1>1, <1>2, <1>3, <1>7, <2>1 DEF Busy
  <2> QED BY <1>2, <1>3, <1>4, <1>5, <2>2, ServerSame DEF OrderlyInv, Stage
<1>8. CASE Answered
  <2>1. PICK b \in BOOLEAN : to_client = <<Ack, Packet(reply.text, client.id, b)>>
    BY <1>1, <1>8 DEF Answered
  <2>2. to_client' = <<Packet(reply.text, client.id, b)>>
    BY <1>2, <2>1, Short
  <2>3. Answered'
    BY <1>1, <1>2, <1>3, <1>8, <2>2 DEF Answered
  <2> QED BY <1>2, <1>3, <1>4, <1>5, <2>3, ServerSame DEF OrderlyInv, Stage
<1>9. CASE Over
  <2>1. to_client' = << >>
    BY <1>1, <1>2, <1>9, Short DEF Over
  <2>2. Over'
    BY <1>3, <1>9, <2>1 DEF Over
  <2> QED BY <1>2, <1>3, <1>4, <1>5, <2>2, ServerSame DEF OrderlyInv, Stage
<1> QED BY <1>6, <1>7, <1>8, <1>9

LEMMA ClientIgnoresPacketInv ==
  ASSUME TypeOK, orderly, OrderlyInv, ClientIgnoresPacket
  PROVE  FALSE
<1>1. client.state = "sent" /\ to_client # << >> /\ Head(to_client).kind = "$"
  BY DEF ClientIgnoresPacket
<1>2. Head(<<Ack>>).kind # "$" /\ Head(<<Nack>>).kind # "$"
  BY Short, Characters
<1>3. ASSUME NEW p PROVE Head(<<Ack, p>>).kind # "$"
  BY Short, Characters
<1> QED BY <1>1, <1>2, <1>3
     DEF OrderlyInv, Stage, Quiet, Requested, Refused, Busy, Answered, Rejected, Delivered, Left, Over

LEMMA ClientLeavesInv ==
  ASSUME TypeOK, orderly, OrderlyInv, ClientLeaves
  PROVE  OrderlyInv'
<1>1. /\ client'.state = "gone" /\ client'.command = NoCommand
      /\ client'.id = client.id /\ client'.acks = client.acks
      /\ client.state # "gone" /\ closed = "no"
  BY DEF TypeOK, Clients, ClientLeaves
<1>2. UNCHANGED <<to_server, to_client, serverVars, core, orderly>>
  BY DEF ClientLeaves
<1>3. UNCHANGED <<phase, reply, no_ack_mode, no_ack_mode_latch, serving, closed>>
  BY <1>2 DEF serverVars
<1>4. StopRepliesTrue'
  BY <1>1, <1>2, <1>3, StopSame DEF OrderlyInv
<1>5. phase # "closed" /\ Modes
  BY <1>1 DEF OrderlyInv, Sequenced
<1>6. Modes'
  BY <1>1, <1>2, <1>3, <1>5, NoCommandOp DEF Modes
<1>7. \A p : Unread(client, p) => Unread(client', p)
  BY <1>1 DEF Unread
<1>8. AnswersTo(client.id, to_client)
  BY <1>1, <1>5, ShortAnswers
     DEF OrderlyInv, Stage, Quiet, Requested, Refused, Busy, Answered, Rejected, Delivered, Left, Over
<1>9. Left'
  BY <1>1, <1>2, <1>3, <1>5, <1>7, <1>8
     DEF OrderlyInv, Stage, Quiet, Requested, Refused, Busy, Answered, Rejected, Delivered, Left, Over
<1> QED BY <1>2, <1>4, <1>6, <1>9, ServerSame DEF OrderlyInv, Stage

(* The core halts only while the server waits for it.                      *)
LEMMA CoreHaltsInv ==
  ASSUME TypeOK, orderly, OrderlyInv, CoreHalts
  PROVE  OrderlyInv'
<1>1. /\ core.running /\ ~core'.running
      /\ UNCHANGED <<to_server, to_client, client, serverVars, orderly>>
  BY DEF CoreHalts
<1>2. /\ UNCHANGED <<phase, reply, no_ack_mode, no_ack_mode_latch, serving, closed,
                     thread_select, halt_reason>>
      /\ UNCHANGED <<to_server, to_client, client>>
  BY <1>1 DEF serverVars
<1>3. phase = "waiting" /\ halt_reason # "done" /\ Modes
  BY <1>1 DEF OrderlyInv, CoreInv
<1>4. CoreInv' /\ Sequenced' /\ StopRepliesTrue'
  BY <1>1, <1>2, <1>3 DEF OrderlyInv, CoreInv, Sequenced, StopRepliesTrue
<1>5. Modes'
  BY <1>2, <1>3 DEF Modes
<1>6. Stage'
  BY <1>2 DEF OrderlyInv, Stage, Quiet, Requested, Refused, Busy, Answered, Rejected, Delivered, Left, Over
<1> QED BY <1>2, <1>4, <1>5, <1>6 DEF OrderlyInv

LEMMA ClientReadResponseInv ==
  ASSUME TypeOK, orderly, OrderlyInv, ClientReadResponse
  PROVE  OrderlyInv'
<1> DEFINE p == Head(to_client)
           quiet == client.command.op = "QStartNoAckMode" /\ p.contents = "OK"
<1>1. /\ client.state \in {"idle", "awaiting"} /\ to_client # << >>
      /\ to_client' = Tail(to_client)
      /\ to_server' = IF client.acks THEN Append(to_server, IF p.intact THEN Ack ELSE Nack) ELSE to_server
      /\ UNCHANGED <<serverVars, core, orderly>>
  BY DEF ClientReadResponse
<1>2. IF p.intact \/ ~client.acks
      THEN /\ client'.state = "idle" /\ client'.command = NoCommand /\ client'.id = client.id
           /\ client'.acks = (client.acks /\ ~quiet)
      ELSE client' = client
  BY DEF TypeOK, Clients, ClientReadResponse
<1>3. UNCHANGED <<phase, reply, no_ack_mode, no_ack_mode_latch, serving, closed>>
  BY <1>1 DEF serverVars
<1>4. StopRepliesTrue'
  BY <1>1, <1>2, <1>3, StopSame DEF OrderlyInv
<1>5. Answered \/ Delivered \/ Over
  BY <1>1 DEF OrderlyInv, Stage, Quiet, Requested, Refused, Busy, Rejected, Left
<1> HIDE DEF p, quiet
<1>6. CASE Answered
  <2>1. PICK b \in BOOLEAN : to_client = <<Packet(reply.text, client.id, b)>>
    BY <1>1, <1>6 DEF Answered
  <2>2. /\ p.intact = b /\ to_client' = << >> /\ client.state = "awaiting" /\ client.acks
        /\ quiet <=> client.command.op = "QStartNoAckMode" /\ reply.text = "OK"
    BY <1>1, <1>6, <2>1, Short, Packets DEF p, quiet, Answered
  <2>3. to_server = << >> /\ phase = "acking" /\ serving = client.id /\ Modes
    BY <1>6 DEF Answered, OrderlyInv
  <2>4. CASE b
    <3>1. to_server' = <<Ack>>
      BY <1>1, <2>2, <2>3, <2>4, Short
    <3>2. Quiet'
      BY <1>2, <1>3, <2>2, <2>3, <2>4, <3>1 DEF Quiet
    <3>3. no_ack_mode_latch <=> quiet
      BY <2>2, <2>3 DEF Modes
    <3>4. Modes'
      BY <1>2, <1>3, <2>2, <2>3, <2>4, <3>1, <3>3, NoCommandOp DEF Modes
    <3> QED BY <1>1, <1>4, <3>2, <3>4, ServerSame DEF OrderlyInv, Stage
  <2>5. CASE ~b
    <3>1. to_server' = <<Nack>> /\ client' = client
      BY <1>1, <1>2, <2>2, <2>3, <2>5, Short
    <3>2. Rejected'
      BY <1>3, <2>2, <2>3, <3>1 DEF Rejected
    <3>3. Modes'
      BY <1>3, <2>2, <2>3, <3>1 DEF Modes
    <3> QED BY <1>1, <1>4, <3>2, <3>3, ServerSame DEF OrderlyInv, Stage
  <2> QED BY <2>4, <2>5
<1>7. CASE Delivered
  <2>1. PICK t : to_client = <<Packet(t, client.id, TRUE)>>
    BY <1>7 DEF Delivered
  <2>2. /\ to_client' = << >> /\ to_server' = << >> /\ to_server = << >>
        /\ phase = "reading" /\ ~client.acks /\ Modes
    BY <1>1, <1>7, <2>1, Short DEF Delivered, OrderlyInv
  <2>3. client'.state = "idle" /\ client'.command = NoCommand /\ client'.acks = FALSE
    BY <1>2, <2>2
  <2>4. Quiet'
    BY <1>3, <2>2, <2>3 DEF Quiet
  <2>5. Modes'
    BY <1>3, <2>2, <2>3, NoCommandOp DEF Modes
  <2> QED BY <1>1, <1>4, <2>4, <2>5, ServerSame DEF OrderlyInv, Stage
<1>8. CASE Over
  <2>1. to_client' = << >>
    BY <1>1, <1>8, Short DEF Over
  <2>2. Over' /\ phase' = "closed"
    BY <1>3, <1>8, <2>1 DEF Over
  <2> QED BY <1>1, <1>4, <2>2, ServerSame DEF OrderlyInv, Stage
<1> QED BY <1>5, <1>6, <1>7, <1>8

-----------------------------------------------------------------------------
(* The server's steps, from stage to stage.                                *)

LEMMA HandshakeInv ==
  ASSUME TypeOK, orderly, OrderlyInv, Handshake
  PROVE  OrderlyInv'
<1>1. /\ phase = "connecting"
      /\ UNCHANGED <<to_client, client, no_ack_mode, no_ack_mode_latch, thread_select, halt_reason,
                     core, serving, orderly>>
      /\ to_server # << >> => to_server' = Tail(to_server)
  BY DEF Handshake, Settings
<1>2. to_server = <<Ack>> \/ \E p : to_server = <<Ack, p>>
  BY <1>1
     DEF OrderlyInv, Stage, Quiet, Requested, Refused, Busy, Answered, Rejected, Delivered, Left, Over
<1>3. to_server # << >> /\ Head(to_server) = Ack
  BY <1>2, Short
<1>4. phase' = "reading" /\ UNCHANGED <<closed, reply>>
  BY <1>3 DEF Handshake
<1>5. Modes
  BY <1>1 DEF OrderlyInv
<1>6. Modes'
  BY <1>1, <1>4, <1>5 DEF Modes, TypeOK, Clients
<1>7. CoreInv' /\ Sequenced' /\ StopRepliesTrue' /\ closed' \notin {"desync", "handshake", "crash"}
  BY <1>1, <1>4 DEF OrderlyInv, CoreInv, Sequenced, StopRepliesTrue
<1>8. CASE to_server = <<Ack>>
  <2>1. to_server' = << >>
    BY <1>1, <1>3, <1>8, Short
  <2>2. Quiet \/ Left
    BY <1>1, <1>8, ShortEqual
       DEF OrderlyInv, Stage, Requested, Refused, Busy, Answered, Rejected, Delivered, Over
  <2>3. Quiet' \/ Left'
    BY <1>1, <1>4, <2>1, <2>2 DEF Quiet, Left
  <2> QED BY <1>6, <1>7, <2>3 DEF OrderlyInv, Stage
<1>9. ASSUME NEW p, to_server = <<Ack, p>>
      PROVE  OrderlyInv'
  <2>1. to_server' = <<p>>
    BY <1>1, <1>3, <1>9, Short
  <2>2. Requested \/ Left
    BY <1>1, <1>9
       DEF OrderlyInv, Stage, Quiet, Refused, Busy, Answered, Rejected, Delivered, Over
  <2>3. Unread(client, p)
    BY <1>1, <1>9, <2>2 DEF Requested, Left
  <2>4. Unread(client', p)
    BY <1>1, <2>3
  <2>5. Requested' \/ Left'
    BY <1>1, <1>4, <2>1, <2>2, <2>4 DEF Requested, Left
  <2> QED BY <1>6, <1>7, <2>5 DEF OrderlyInv, Stage
<1> QED BY <1>2, <1>8, <1>9

LEMMA ReadOtherInv ==
  ASSUME TypeOK, orderly, OrderlyInv, ReadOther
  PROVE  OrderlyInv'
<1>1. /\ phase = "reading" /\ phase' = "closed" /\ UNCHANGED reply
      /\ UNCHANGED <<to_server, to_client, client, thread_select, halt_reason, core, serving, orderly>>
      /\ \/ to_server # << >> /\ Head(to_server).kind # "$"
         \/ client.state = "gone" /\ closed' = "client"
  BY DEF ReadOther, Terminate, Settings
<1>2. to_server = << >> \/ \E p : Unread(client, p) /\ to_server = <<p>>
  BY <1>1
     DEF OrderlyInv, Stage, Quiet, Requested, Refused, Busy, Answered, Rejected, Delivered, Left, Over
<1>3. client.state = "gone" /\ closed' = "client"
  BY <1>1, <1>2, Short, Packets DEF Unread
<1>4. Over'
  BY <1>1, <1>3 DEF OrderlyInv, Stage, Quiet, Requested, Refused, Busy, Answered, Rejected,
                    Delivered, Left, Over
<1>5. CoreInv' /\ Sequenced' /\ StopRepliesTrue'
  BY <1>1, <1>3 DEF OrderlyInv, CoreInv, Sequenced, StopRepliesTrue
<1> QED BY <1>1, <1>3, <1>4, <1>5 DEF OrderlyInv, Stage

LEMMA WaitReturnsInv ==
  ASSUME TypeOK, orderly, OrderlyInv, WaitReturns
  PROVE  OrderlyInv'
<1>1. UNCHANGED <<to_server, to_client, client, no_ack_mode, no_ack_mode_latch, thread_select, core,
                  serving, orderly>>
  BY DEF WaitReturns, Settings
<1>2. /\ phase = "waiting" /\ phase' = "replying" /\ closed' = closed /\ ~core'.running
      /\ CoreAfter /\ StopTrue(reply'.text)
  BY WaitOutcome DEF OrderlyInv
<1>3. Modes
  BY <1>2 DEF OrderlyInv
<1>4. Modes'
  BY <1>1, <1>2, <1>3 DEF Modes
<1>5. Busy \/ Left
  BY <1>2 DEF OrderlyInv, Stage, Quiet, Requested, Refused, Answered, Rejected, Delivered, Over
<1>6. Busy' \/ Left'
  BY <1>1, <1>2, <1>5 DEF Busy, Left
<1>7. CoreInv' /\ Sequenced'
  BY <1>1, <1>2 DEF OrderlyInv, CoreInv, CoreAfter, Sequenced
<1>8. StopRepliesTrue'
  BY <1>2 DEF StopRepliesTrue, StopTrue, StopTexts
<1> QED BY <1>2, <1>4, <1>6, <1>7, <1>8 DEF OrderlyInv, Stage

LEMMA AnswersAppend ==
  ASSUME NEW S, NEW q \in Seq(S), NEW id, AnswersTo(id, q), NEW x, x.kind = "$" => x.id = id
  PROVE  AnswersTo(id, Append(q, x))
<1>1. ASSUME NEW p \in ToSet(Append(q, x)) PROVE p \in ToSet(q) \/ p = x
  <2>1. PICK i \in DOMAIN Append(q, x) : p = Append(q, x)[i]
    BY <1>1 DEF ToSet
  <2>2. i \in 1 .. Len(q) + 1
    BY <2>1
  <2>3. CASE i = Len(q) + 1
    BY <2>1, <2>3
  <2>4. CASE i \in 1 .. Len(q)
    BY <2>1, <2>4 DEF ToSet
  <2> QED BY <2>2, <2>3, <2>4
<1> QED BY <1>1 DEF AnswersTo

LEMMA RespondInv ==
  ASSUME TypeOK, orderly, OrderlyInv, NEW intact \in BOOLEAN, Respond(intact)
  PROVE  OrderlyInv'
<1> DEFINE p == Packet(reply.text, client.id, intact)
<1>1. /\ phase = "replying" /\ (~client.acks => intact)
      /\ UNCHANGED <<to_server, client, no_ack_mode_latch, thread_select, halt_reason, core,
                     serving, orderly>>
      /\ to_client' = Append(to_client, Packet(reply.text, serving, intact))
  BY DEF Respond, Settings
<1>2. IF no_ack_mode THEN Responded("no") ELSE AwaitAck
  BY DEF Respond
<1>3. Busy \/ Left
  BY <1>1 DEF OrderlyInv, Stage, Quiet, Requested, Refused, Answered, Rejected, Delivered, Over
<1>4. /\ Modes /\ closed = "no" /\ serving = client.id /\ to_server = << >>
      /\ closed \notin {"desync", "handshake", "crash"} /\ CoreInv
  BY <1>1, <1>3 DEF OrderlyInv, Sequenced, Busy, Left
<1>5. to_client' = Append(to_client, p)
  BY <1>1, <1>4
<1>6. client.state = "gone" => AnswersTo(client'.id, to_client')
  BY <1>1, <1>3, <1>5, AnswersAppend, Packets DEF Busy, Left, TypeOK, Clients
<1>7. CASE no_ack_mode
  <2>1. /\ ~client.acks /\ no_ack_mode_latch /\ intact
        /\ no_ack_mode' = no_ack_mode_latch
        /\ \/ phase' = "reading" /\ closed' = "no"
           \/ phase' = "closed" /\ closed' = "client"
    BY <1>1, <1>2, <1>4, <1>7 DEF Responded, Modes
  <2>2. CoreInv' /\ Sequenced' /\ StopRepliesTrue' /\ closed' \notin {"desync", "handshake", "crash"}
    BY <1>1, <1>4, <2>1 DEF CoreInv, Sequenced, StopRepliesTrue
  <2>3. Modes'
    BY <1>1, <1>4, <2>1 DEF Modes
  <2>4. CASE client.state = "gone"
    <3>1. Left' \/ Over'
      BY <1>1, <1>4, <1>6, <2>1, <2>4 DEF Left, Over
    <3> QED BY <2>2, <2>3, <3>1 DEF OrderlyInv, Stage
  <2>5. CASE client.state # "gone"
    <3>1. client.state = "awaiting" /\ to_client = << >>
      BY <1>3, <1>4, <2>1, <2>5 DEF Busy, Left, Modes
    <3>2. to_client' = <<Packet(reply.text, client.id, TRUE)>>
      BY <1>5, <2>1, <3>1, Short
    <3>3. Delivered' \/ Over'
      BY <1>1, <1>4, <2>1, <3>1, <3>2 DEF Delivered, Over
    <3> QED BY <2>2, <2>3, <3>3 DEF OrderlyInv, Stage
  <2> QED BY <2>4, <2>5
<1>8. CASE ~no_ack_mode
  <2>1. phase' = "acking" /\ UNCHANGED <<closed, no_ack_mode, reply>>
    BY <1>2, <1>8 DEF AwaitAck
  <2>2. client.acks
    BY <1>1, <1>4, <1>8 DEF Modes
  <2>3. CoreInv' /\ Sequenced' /\ StopRepliesTrue'
    BY <1>1, <1>4, <2>1 DEF OrderlyInv, CoreInv, Sequenced, StopRepliesTrue
  <2>4. Modes'
    BY <1>1, <1>4, <1>8, <2>1, <2>2 DEF Modes
  <2>5. CASE client.state = "gone"
    <3>1. Left'
      BY <1>1, <1>4, <1>6, <2>1, <2>5 DEF Left
    <3> QED BY <1>4, <2>1, <2>3, <2>4, <3>1 DEF OrderlyInv, Stage
  <2>6. CASE client.state # "gone"
    <3>1. \/ client.state = "sent" /\ to_client = <<Ack>>
          \/ client.state = "awaiting" /\ to_client = << >>
      BY <1>3, <2>6 DEF Busy, Left
    <3> HIDE DEF p
    <3>2. \/ client.state = "sent" /\ to_client' = <<Ack, p>>
          \/ client.state = "awaiting" /\ to_client' = <<p>>
      BY <1>5, <3>1, Short, ZenonT(30)
    <3>3. Answered'
      BY <1>1, <1>4, <2>1, <2>2, <3>2 DEF Answered, p
    <3> QED BY <1>4, <2>1, <2>3, <2>4, <3>3 DEF OrderlyInv, Stage
  <2> QED BY <2>5, <2>6
<1> QED BY <1>7, <1>8

LEMMA ReadAckInv ==
  ASSUME TypeOK, orderly, OrderlyInv, ReadAck
  PROVE  OrderlyInv'
<1>1. /\ phase = "acking" /\ (to_server # << >> \/ client.state = "gone")
      /\ to_server' = IF to_server = << >> THEN to_server ELSE Tail(to_server)
      /\ UNCHANGED <<to_client, client, no_ack_mode_latch, thread_select, halt_reason, core,
                     serving, orderly>>
  BY DEF ReadAck, TakeAck, Settings
<1>2. IF Acknowledged THEN Responded("no")
      ELSE IF attempts < Attempts THEN SendAgain ELSE Responded("retries")
  BY DEF ReadAck
<1>3. Modes /\ CoreInv /\ ~core.running /\ closed = "no"
  BY <1>1 DEF OrderlyInv, Sequenced, CoreInv
<1>4. Quiet \/ Requested \/ Rejected \/ Left
  BY <1>1 DEF OrderlyInv, Stage, Refused, Busy, Answered, Delivered, Over
<1>5. \/ to_server = << >> \/ to_server = <<Ack>> \/ to_server = <<Nack>>
      \/ \E p : to_server = <<Ack, p>> /\ Unread(client, p)
  BY <1>1, <1>4 DEF Quiet, Requested, Rejected, Left
<1>6. CASE Acknowledged
  <2>1. /\ no_ack_mode' = no_ack_mode_latch
        /\ \/ phase' = "reading" /\ closed' = "no"
           \/ phase' = "closed" /\ closed' = "client"
    BY <1>2, <1>6 DEF Responded
  <2>2. CoreInv' /\ Sequenced' /\ StopRepliesTrue' /\ closed' \notin {"desync", "handshake", "crash"}
    BY <1>1, <1>3, <2>1 DEF CoreInv, Sequenced, StopRepliesTrue
  <2>3. to_server # << >> /\ to_server # <<Nack>>
    BY <1>6, Short, Characters DEF Acknowledged
  <2>4. no_ack_mode_latch => ~client.acks
    BY <1>3, <2>3 DEF Modes
  <2>5. Modes'
    BY <1>1, <1>3, <2>1, <2>4 DEF Modes, TypeOK, Clients
  <2>6. CASE to_server = <<Ack>>
    <3>1. to_server' = << >>
      BY <1>1, <2>3, <2>6, Short
    <3>2. Quiet \/ Left
      BY <1>1, <1>4, <2>3, <2>6, ShortEqual DEF Requested, Rejected
    <3>3. Quiet' \/ Left' \/ Over'
      BY <1>1, <2>1, <3>1, <3>2 DEF Quiet, Left, Over
    <3> QED BY <2>2, <2>5, <3>3 DEF OrderlyInv, Stage
  <2>7. ASSUME NEW p, to_server = <<Ack, p>>, Unread(client, p)
        PROVE  OrderlyInv'
    <3>1. to_server' = <<p>>
      BY <1>1, <2>3, <2>7, Short
    <3>2. Requested \/ Left
      BY <1>4, <2>7, ShortEqual DEF Quiet, Rejected
    <3>3. Unread(client', p)
      BY <1>1, <2>7
    <3>4. Requested' \/ Left' \/ Over'
      BY <1>1, <2>1, <3>1, <3>2, <3>3 DEF Requested, Left, Over
    <3> QED BY <2>2, <2>5, <3>4 DEF OrderlyInv, Stage
  <2> QED BY <1>5, <2>3, <2>6, <2>7
<1>7. CASE ~Acknowledged
  <2>1. to_server = << >> \/ to_server = <<Nack>>
    BY <1>5, <1>7, Short DEF Acknowledged
  <2>2. to_server' = << >>
    BY <1>1, <2>1, Short
  <2>3. Rejected \/ Left
    BY <1>1, <1>4, <2>1, ShortEqual, Characters DEF Quiet, Requested
  <2>4. /\ serving = client.id /\ client.acks
        /\ client.state = "gone" \/ (client.state = "awaiting" /\ to_client = << >>)
        /\ client.state = "gone" => AnswersTo(client.id, to_client)
        /\ ~no_ack_mode
    <3>1. ASSUME NEW p PROVE to_server # <<Ack, p>> /\ to_server # <<Ack>>
      BY <2>1, ShortEqual, Characters
    <3>2. client.acks
      BY <1>1, <1>3, <3>1 DEF Modes
    <3> QED BY <1>1, <1>3, <2>3, <3>1, <3>2 DEF Rejected, Left, Modes
  <2>5. CASE SendAgain
    <3>1. phase' = "replying" /\ UNCHANGED <<closed, no_ack_mode, reply>>
      BY <2>5 DEF SendAgain
    <3>2. CoreInv' /\ Sequenced' /\ StopRepliesTrue'
      BY <1>1, <1>3, <3>1 DEF OrderlyInv, CoreInv, Sequenced, StopRepliesTrue
    <3>3. Modes'
      BY <1>1, <1>3, <2>2, <2>4, <3>1 DEF Modes
    <3>4. Busy' \/ Left'
      BY <1>1, <2>2, <2>4, <3>1 DEF Busy, Left
    <3> QED BY <1>3, <3>1, <3>2, <3>3, <3>4 DEF OrderlyInv, Stage
  <2>6. CASE Responded("retries")
    <3>1. closed' = "retries" /\ phase' = "closed"
      BY <2>6 DEF Responded
    <3>2. CoreInv' /\ Sequenced' /\ StopRepliesTrue'
      BY <1>1, <1>3, <3>1 DEF CoreInv, Sequenced, StopRepliesTrue
    <3>3. Over'
      BY <1>1, <2>4, <3>1 DEF Over
    <3> QED BY <3>1, <3>2, <3>3 DEF OrderlyInv, Stage
  <2> QED BY <1>2, <1>7, <2>5, <2>6
<1> QED BY <1>6, <1>7

(* Between commands the two sides agree on acknowledgements.               *)
LEMMA ReadingModes ==
  ASSUME TypeOK, Modes, phase = "reading"
  PROVE  /\ client.acks <=> ~no_ack_mode
         /\ no_ack_mode_latch <=> no_ack_mode
BY DEF TypeOK, Clients, Modes

LEMMA ReadCommandInv ==
  ASSUME TypeOK, orderly, OrderlyInv, ReadCommand
  PROVE  OrderlyInv'
<1>1. /\ phase = "reading" /\ to_server # << >> /\ Head(to_server).kind = "$"
      /\ to_server' = Tail(to_server) /\ serving' = Head(to_server).id
      /\ AcceptGdbCommand(Head(to_server))
      /\ UNCHANGED <<client, no_ack_mode, orderly>>
  BY DEF ReadCommand
<1>2. Requested \/ Left
  BY <1>1 DEF OrderlyInv, Stage, Quiet, Refused, Busy, Answered, Rejected, Delivered, Over
<1>3. PICK p : Unread(client, p) /\ to_server = <<p>>
  BY <1>1, <1>2 DEF Requested, Left
<1>4. PICK command \in Commands, intact \in BOOLEAN :
        /\ client.state # "gone" => command = client.command
        /\ p = Packet(command, client.id, intact)
  BY <1>3 DEF Unread
<1>5. /\ to_server' = << >> /\ serving' = client.id /\ Head(to_server) = p
      /\ p.intact = intact /\ p.contents = command
  BY <1>1, <1>3, <1>4, Short, Packets
<1>6. Modes /\ Ready /\ closed = "no"
  BY <1>1 DEF OrderlyInv, Ready, CoreInv, Sequenced
<1>7. (client.acks <=> ~no_ack_mode) /\ (no_ack_mode_latch <=> no_ack_mode)
  BY <1>1, <1>6, ReadingModes
<1>8. \/ client.state = "sent" /\ ~no_ack_mode /\ to_client = << >>
      \/ client.state = "awaiting" /\ no_ack_mode /\ to_client = << >>
      \/ client.state = "gone" /\ AnswersTo(client.id, to_client)
  BY <1>1, <1>2, <1>7 DEF Requested, Left
<1>9. ASSUME NEW x \in {Ack, Nack} PROVE AnswersTo(client.id, to_client) => AnswersTo(client.id, Append(to_client, x))
  BY <1>9, AnswersAppend, Characters DEF TypeOK, Clients
<1> HIDE DEF Ready
<1>10. CASE /\ intact
            /\ to_client' = IF no_ack_mode THEN to_client ELSE Append(to_client, Ack)
            /\ ParseGdbCommand(command)
  <2>1. Outcome(command)
    BY <1>6, <1>10, ParseOutcome
  <2>2. \/ client.state = "sent" /\ ~no_ack_mode /\ to_client' = <<Ack>>
        \/ client.state = "awaiting" /\ no_ack_mode /\ to_client' = << >>
        \/ client.state = "gone" /\ AnswersTo(client.id, to_client')
    BY <1>8, <1>9, <1>10, Short
  <2>3. /\ CoreInv' /\ Sequenced' /\ closed' \notin {"desync", "handshake", "crash"}
        /\ phase' \in {"replying", "waiting", "closed"}
    BY <1>6, <2>1 DEF Outcome, CoreAfter, CoreInv, Sequenced
  <2>4. Busy' \/ Left' \/ Over'
    BY <1>1, <1>5, <2>2, <2>3 DEF Busy, Left, Over
  <2>5. client.command = command \/ (client.state = "gone" /\ client.command = NoCommand)
    BY <1>4, <1>6 DEF Modes
  <2>6. StopRepliesTrue'
    BY <1>1, <2>1, <2>3, <2>5, NoCommandOp DEF StopRepliesTrue, Outcome, StopTrue, StopTexts
  <2>7. phase' # "closed" => Modes'
    BY <1>1, <1>5, <1>6, <1>7, <1>8, <2>1, <2>3, <2>5, NoCommandOp DEF Modes, Outcome
  <2> QED BY <2>3, <2>4, <2>6, <2>7 DEF OrderlyInv, Stage
<1>11. CASE /\ ~intact /\ ~no_ack_mode
            /\ to_client' = Append(to_client, Nack)
            /\ UNCHANGED <<phase, closed, Settings, halt_reason, core>>
  <2>1. \/ client.state = "sent" /\ to_client' = <<Nack>>
        \/ client.state = "gone" /\ AnswersTo(client.id, to_client')
    BY <1>8, <1>9, <1>11, Short
  <2>2. Refused' \/ Left'
    BY <1>1, <1>5, <1>11, <2>1 DEF Refused, Left
  <2>3. CoreInv' /\ Sequenced' /\ StopRepliesTrue'
    BY <1>1, <1>11 DEF OrderlyInv, CoreInv, Sequenced, StopRepliesTrue, Settings
  <2>4. Modes'
    BY <1>1, <1>5, <1>6, <1>7, <1>11 DEF Modes, Settings
  <2> QED BY <1>6, <1>11, <2>2, <2>3, <2>4 DEF OrderlyInv, Stage
<1>12. CASE ~intact /\ no_ack_mode /\ Answer({"E."}) /\ UNCHANGED to_client
  <2>1. /\ phase' = "replying" /\ reply'.text = "E." /\ closed' = closed
        /\ UNCHANGED <<no_ack_mode_latch, thread_select, halt_reason, core>>
    BY <1>12 DEF Answer, Say, Settings
  <2>2. Busy' \/ Left'
    BY <1>1, <1>5, <1>8, <1>12, <2>1 DEF Busy, Left
  <2>3. CoreInv' /\ Sequenced' /\ StopRepliesTrue'
    BY <1>6, <2>1 DEF Ready, CoreInv, Sequenced, StopRepliesTrue
  <2>4. Modes'
    BY <1>1, <1>5, <1>6, <1>7, <1>12, <2>1 DEF Modes
  <2> QED BY <1>6, <2>1, <2>2, <2>3, <2>4 DEF OrderlyInv, Stage
<1>13. AcceptGdbCommand(p)
  BY <1>1, <1>5
<1> QED BY <1>5, <1>10, <1>11, <1>12, <1>13 DEF AcceptGdbCommand

-----------------------------------------------------------------------------
(* Type correctness, in any session.                                       *)

Handled ==
  /\ phase' \in {"reading", "replying", "waiting", "closed"} /\ reply' \in Replies
  /\ no_ack_mode_latch' \in BOOLEAN /\ core' \in CoreStates

LEMMA SayTyped ==
  ASSUME NEW text \in Texts, Say(text)
  PROVE  phase' = "replying" /\ reply' \in Replies
BY DEF Say, Replies

LEMMA AnswerTyped ==
  ASSUME TypeOK, NEW texts \in SUBSET Texts, Answer(texts)
  PROVE  Handled
<1>1. PICK t \in texts : Say(t)
  BY DEF Answer
<1>2. UNCHANGED <<no_ack_mode_latch, core>>
  BY DEF Answer, Settings
<1> QED BY <1>1, <1>2, SayTyped DEF Texts, Handled, TypeOK

LEMMA TerminateTyped ==
  ASSUME TypeOK, NEW why, Terminate(why), UNCHANGED no_ack_mode_latch, core' \in CoreStates
  PROVE  Handled
BY DEF Terminate, Handled, TypeOK, Replies

LEMMA StopTextsTyped ==
  ASSUME NEW r
  PROVE  HaltReply(r) \in Texts /\ VContReply(r) \in Texts
BY DEF HaltReply, VContReply, Texts

LEMMA SayHaltReasonTyped ==
  ASSUME SayHaltReason
  PROVE  phase' = "replying" /\ reply' \in Replies
BY StopTextsTyped, SayTyped DEF SayHaltReason, Texts

LEMMA VContReportTyped ==
  ASSUME VContReport
  PROVE  phase' = "replying" /\ reply' \in Replies
BY StopTextsTyped, SayTyped DEF VContReport, Texts

LEMMA CoreRunTyped ==
  ASSUME TypeOK, CoreRun \/ CoreStep
  PROVE  core' \in CoreStates
BY DEF TypeOK, CoreRun, CoreStep, CoreStates

LEMMA AfterPartsTyped ==
  ASSUME NEW parts, Len(parts) \in Nat, core' \in AfterParts(parts)
  PROVE  core' \in CoreStates
BY DEF AfterParts

LEMMA GoodPartsTyped ==
  ASSUME NEW S, NEW parts \in Seq(S)
  PROVE  Len(GoodParts(parts)) \in Nat
<1> DEFINE bad == {i \in DOMAIN parts : parts[i].tid \notin {-1, 1}}
           first == CHOOSE i \in bad : \A j \in bad : i <= j
<1>1. CASE bad = {}
  BY <1>1 DEF GoodParts
<1>2. CASE bad # {}
  <2>1. bad \subseteq Nat /\ \A i \in bad : i - 1 \in 0 .. Len(parts)
    OBVIOUS
  <2>2. PICK i \in bad : \A j \in bad : ~(<<j, i>> \in OpToRel(<, Nat))
    BY <1>2, <2>1, WFMin, NatLessThanWellFounded
  <2>3. \A j \in bad : i <= j
    <3> TAKE j \in bad
    <3>1. i \in Nat /\ j \in Nat
      BY <2>1
    <3>2. ~(j < i)
      BY <2>2, <3>1 DEF OpToRel
    <3> QED BY <3>1, <3>2
  <2>4. first \in bad
    BY <2>3
  <2>5. first - 1 \in 0 .. Len(parts)
    BY <2>1, <2>4
  <2>6. GoodParts(parts) = SubSeq(parts, 1, first - 1)
    BY <1>2 DEF GoodParts
  <2> HIDE DEF first
  <2> QED BY <2>5, <2>6
<1> QED BY <1>1, <1>2

LEMMA ContinueTyped ==
  ASSUME TypeOK, GdbContinue
  PROVE  Handled
<1>1. CASE Answer({"W00"}) \/ Answer({"E."})
  BY <1>1, AnswerTyped DEF Texts
<1>2. CASE CoreRun /\ AwaitCore("c")
  BY <1>2, CoreRunTyped DEF AwaitCore, Settings, Handled, TypeOK, Replies
<1>3. CASE phase' = "reading" /\ UNCHANGED <<reply, attempts, handler, closed, Settings, halt_reason, core>>
  BY <1>3 DEF Settings, Handled, TypeOK, Replies
<1> QED BY <1>1, <1>2, <1>3 DEF GdbContinue

LEMMA StepTyped ==
  ASSUME TypeOK, GdbStep
  PROVE  Handled
<1>1. CASE Answer({"E."})
  BY <1>1, AnswerTyped DEF Texts
<1>2. CASE CoreStep /\ Say("T05") /\ UNCHANGED <<Settings, halt_reason>>
  BY <1>2, CoreRunTyped, SayTyped DEF Texts, Settings, Handled, TypeOK
<1> QED BY <1>1, <1>2 DEF GdbStep

LEMMA VContinueTyped ==
  ASSUME TypeOK, NEW command \in AllCommands, GdbVContinue(command.parts)
  PROVE  Handled
<1> DEFINE parts == command.parts
<1>1. parts \in Seq([action : {"c", "s"}, tid : Int])
  BY GdbServerAssumption DEF AllCommands
<1>2. Len(parts) \in Nat /\ Len(GoodParts(parts)) \in Nat
  BY <1>1, GoodPartsTyped
<1>3. CASE Answer({"data", "E."})
  BY <1>3, AnswerTyped DEF Texts
<1>4. CASE VContWaits(parts)
  BY <1>2, <1>4, AfterPartsTyped DEF VContWaits, AwaitCore, Settings, Handled, TypeOK, Replies
<1>5. CASE /\ core' \in AfterParts(GoodParts(parts))
           /\ Terminate("crash") \/ Say("E.")
           /\ UNCHANGED <<Settings, halt_reason>>
  <2>1. core' \in CoreStates /\ UNCHANGED no_ack_mode_latch
    BY <1>2, <1>5, AfterPartsTyped DEF Settings
  <2> QED BY <1>5, <2>1, TerminateTyped, SayTyped DEF Texts, Handled, TypeOK
<1> QED BY <1>3, <1>4, <1>5 DEF GdbVContinue

LEMMA ParseTyped ==
  ASSUME TypeOK, NEW command \in AllCommands, ParseGdbCommand(command)
  PROVE  Handled
<1>0. Error \in Texts
  BY DEF Error, Texts
<1>1. ASSUME NEW type, OnThread(type, GdbContinue) \/ OnThread(type, GdbStep)
      PROVE  Handled
  BY <1>1, ContinueTyped, StepTyped, TerminateTyped DEF OnThread, Settings, TypeOK
<1>2. ASSUME NEW type, NEW texts \in SUBSET Texts, OnThread(type, Answer(texts))
      PROVE  Handled
  BY <1>2, AnswerTyped, TerminateTyped DEF OnThread, Settings, TypeOK
<1>3. CASE \/ command.op = "g" /\ OnThread("g", GdbReadGprRegisters)
           \/ command.op = "G" /\ OnThread("g", GdbWriteGprRegisters)
           \/ command.op = "p" /\ OnThread("g", GdbReadRegister)
           \/ command.op = "P" /\ OnThread("g", GdbWriteRegister)
  BY <1>2, <1>3
     DEF Texts, GdbReadGprRegisters, GdbWriteGprRegisters, GdbReadRegister, GdbWriteRegister
<1>4. CASE \/ GdbReadMemory \/ GdbWriteMemory \/ GdbAddBreakpoint \/ GdbRemoveBreakpoint
           \/ GdbQuery \/ Unsupported
  BY <1>0, <1>4, AnswerTyped
     DEF Texts, GdbReadMemory, GdbWriteMemory, GdbAddBreakpoint, GdbRemoveBreakpoint, GdbQuery, Unsupported
<1>5. CASE GdbHaltReason
  BY <1>5, SayHaltReasonTyped DEF GdbHaltReason, Settings, Handled, TypeOK
<1>6. CASE GdbVContinue(command.parts)
  BY <1>6, VContinueTyped
<1>7. CASE GdbSelectThread
  <2>1. CASE Answer({"E."})
    BY <2>1, AnswerTyped DEF Texts
  <2>2. CASE Say("OK") /\ UNCHANGED <<no_ack_mode_latch, core>>
    BY <2>2, SayTyped DEF Texts, Handled, TypeOK
  <2> QED BY <1>7, <2>1, <2>2 DEF GdbSelectThread
<1>8. CASE GdbSupported \/ StartNoAckMode \/ ThreadSuffixSupported
  BY <1>8, SayTyped DEF Texts, GdbSupported, StartNoAckMode, ThreadSuffixSupported, Handled, TypeOK
<1>9. CASE GdbDetach
  BY <1>9 DEF Texts, GdbDetach, Settings, Handled, TypeOK, Replies
<1>10. CASE GdbKill
  BY <1>10, TerminateTyped DEF GdbKill, Settings, TypeOK
<1> QED BY <1>1, <1>3, <1>4, <1>5, <1>6, <1>7, <1>8, <1>9, <1>10 DEF ParseGdbCommand

LEMMA Queues ==
  ASSUME NEW S, NEW q \in Seq(S)
  PROVE  /\ q # << >> => Tail(q) \in Seq(S) /\ Head(q) \in S
         /\ \A x \in S : Append(q, x) \in Seq(S)
OBVIOUS

LEMMA Singleton ==
  ASSUME NEW S, NEW x \in S
  PROVE  << >> \in Seq(S) /\ <<x>> \in Seq(S)
OBVIOUS

LEMMA MessageTypes ==
  ASSUME NEW S
  PROVE  /\ Ack \in Messages(S) /\ Nack \in Messages(S) /\ Interrupt \in Messages(S)
         /\ \A c \in S, i \in {0, 1}, b \in BOOLEAN : Packet(c, i, b) \in Messages(S)
BY DEF Messages, Packet

LEMMA PacketTypes ==
  ASSUME NEW S, NEW p \in Messages(S), p.kind = "$"
  PROVE  p.contents \in S /\ p.id \in {0, 1} /\ p.intact \in BOOLEAN
BY DEF Messages, Ack, Nack, Interrupt

LEMMA InitType ==
  Init => TypeOK
<1> SUFFICES ASSUME Init PROVE TypeOK
  OBVIOUS
<1>1. to_server \in Seq(Messages(AllCommands)) /\ to_client \in Seq(Messages(Texts))
  <2>1. to_server \in {<< >>, <<Ack>>} /\ to_client = << >>
    BY DEF Init, Ack
  <2>2. Ack \in Messages(AllCommands)
    BY MessageTypes
  <2>3. Ack \in Messages(Texts)
    BY MessageTypes
  <2> QED BY <2>1, <2>2, <2>3, Singleton
<1>2. orderly \in BOOLEAN
  BY DEF Init
<1> QED BY <1>1, <1>2 DEF Init, TypeOK, Clients, NoReply, Replies, Texts, CoreStates

LEMMA ClientType ==
  ASSUME TypeOK,
         \/ \E c \in AllCommands, b \in BOOLEAN : ClientSend(c, b)
         \/ Client \/ ClientInterrupts \/ ClientLeaves
  PROVE  TypeOK'
<1>1. UNCHANGED <<serverVars, core, orderly>>
  BY DEF ClientSend, Client, ClientResend, ClientReadAck, ClientReadResponse, ClientIgnoresPacket,
         ClientInterrupts, ClientLeaves
<1>2. UNCHANGED <<phase, reply, no_ack_mode, no_ack_mode_latch, serving, executed, core, orderly>>
  BY <1>1 DEF serverVars
<1> SUFFICES /\ to_server' \in Seq(Messages(AllCommands)) /\ to_client' \in Seq(Messages(Texts))
             /\ client' \in Clients
             /\ client'.state \in {"sent", "awaiting"} => client'.command \in AllCommands
  BY <1>2 DEF TypeOK
<1>3. ASSUME NEW c \in AllCommands, NEW b \in BOOLEAN, ClientSend(c, b)
      PROVE  /\ to_server' \in Seq(Messages(AllCommands)) /\ to_client' \in Seq(Messages(Texts))
             /\ client' \in Clients
             /\ client'.state \in {"sent", "awaiting"} => client'.command \in AllCommands
  <2> DEFINE p == Packet(c, 1 - client.id, b)
  <2>1. p \in Messages(AllCommands)
    BY MessageTypes DEF TypeOK, Clients
  <2>2. to_server' = Append(to_server, p) /\ UNCHANGED to_client
    BY <1>3 DEF ClientSend
  <2> HIDE DEF p
  <2>3. to_server' \in Seq(Messages(AllCommands))
    BY <2>1, <2>2 DEF TypeOK
  <2>4. PICK s \in {"sent", "awaiting"}, id \in {0, 1} :
          client' = [client EXCEPT !.state = s, !.command = c, !.id = id]
    <3>1. 1 - client.id \in {0, 1}
      BY DEF TypeOK, Clients
    <3> QED BY <1>3, <3>1 DEF ClientSend
  <2>5. client' \in Clients /\ client'.command = c
    BY <2>4 DEF TypeOK, Clients
  <2> QED BY <2>2, <2>3, <2>5 DEF TypeOK
<1>4. ASSUME NEW b \in BOOLEAN, ClientResend(b)
      PROVE  /\ to_server' \in Seq(Messages(AllCommands)) /\ to_client' \in Seq(Messages(Texts))
             /\ client' = client
  <2>1. client.command \in AllCommands
    BY <1>4 DEF ClientResend, TypeOK, Clients
  <2> QED BY <1>4, <2>1, Queues, MessageTypes DEF ClientResend, TypeOK, Clients
<1>5. CASE ClientReadAck
  BY <1>5, Queues DEF ClientReadAck, TypeOK, Clients
<1>6. CASE ClientReadResponse
  BY <1>6, Queues, MessageTypes DEF ClientReadResponse, TypeOK, Clients
<1>7. CASE ClientIgnoresPacket
  BY <1>7, Queues, MessageTypes DEF ClientIgnoresPacket, TypeOK, Clients
<1>8. CASE ClientInterrupts
  BY <1>8, Queues, MessageTypes DEF ClientInterrupts, TypeOK, Clients
<1>9. CASE ClientLeaves
  BY <1>9 DEF ClientLeaves, TypeOK, Clients
<1> QED BY <1>3, <1>4, <1>5, <1>6, <1>7, <1>8, <1>9 DEF Client, TypeOK, Clients

LEMMA ServerType ==
  ASSUME TypeOK, CoreHalts \/ Server
  PROVE  TypeOK'
<1>1. CASE CoreHalts
  <2>1. core' \in CoreStates
    BY <1>1 DEF CoreHalts, CoreStates
  <2> QED BY <1>1, <2>1 DEF CoreHalts, serverVars, TypeOK
<1>2. CASE Handshake
  <2>1. to_server' \in Seq(Messages(AllCommands)) /\ phase' \in {"reading", "closed"} /\ UNCHANGED reply
    BY <1>2, Queues DEF Handshake, Terminate, TypeOK
  <2> QED BY <1>2, <2>1 DEF Handshake, Settings, TypeOK
<1>3. CASE ReadOther
  BY <1>3 DEF ReadOther, Terminate, Settings, TypeOK
<1>4. CASE WaitReturns
  <2>1. phase' = "replying" /\ reply' \in Replies
    BY <1>4, SayHaltReasonTyped, VContReportTyped, SayTyped DEF WaitReturns, Texts
  <2> QED BY <1>4, <2>1 DEF WaitReturns, Settings, TypeOK
<1>5. ASSUME NEW why, Responded(why)
      PROVE  phase' \in {"reading", "closed"} /\ reply' \in Replies /\ no_ack_mode' = no_ack_mode_latch
  BY <1>5 DEF Responded, NoReply, Replies, Texts
<1>6. CASE ReadAck
  <2>1. to_server' \in Seq(Messages(AllCommands))
    BY <1>6, Queues DEF ReadAck, TakeAck, TypeOK
  <2>2. CASE SendAgain
    BY <1>6, <2>1, <2>2 DEF ReadAck, TakeAck, SendAgain, Settings, TypeOK
  <2>3. ASSUME NEW why, Responded(why) PROVE TypeOK'
    BY <1>5, <1>6, <2>1, <2>3 DEF ReadAck, TakeAck, Settings, TypeOK
  <2> QED BY <1>6, <2>2, <2>3 DEF ReadAck
<1>7. ASSUME NEW b \in BOOLEAN, Respond(b)
      PROVE  TypeOK'
  <2>1. Packet(reply.text, serving, b) \in Messages(Texts)
    BY MessageTypes DEF TypeOK, Replies
  <2>2. to_client' = Append(to_client, Packet(reply.text, serving, b))
    BY <1>7 DEF Respond
  <2>3. to_client' \in Seq(Messages(Texts))
    BY <2>1, <2>2, Queues DEF TypeOK
  <2>4. CASE AwaitAck
    BY <1>7, <2>3, <2>4 DEF Respond, AwaitAck, Settings, TypeOK
  <2>5. CASE Responded("no")
    BY <1>5, <1>7, <2>3, <2>5 DEF Respond, Settings, TypeOK
  <2> QED BY <1>7, <2>4, <2>5 DEF Respond
<1>8. CASE ReadCommand
  <2> DEFINE p == Head(to_server)
  <2>1. p.contents \in AllCommands /\ p.id \in {0, 1} /\ to_server' \in Seq(Messages(AllCommands))
    BY <1>8, Queues, PacketTypes DEF ReadCommand, TypeOK
  <2>2. AcceptGdbCommand(p) /\ UNCHANGED <<client, no_ack_mode, orderly>> /\ serving' = p.id
    BY <1>8 DEF ReadCommand
  <2>3. Before(p) \in Nat
    BY DEF Before, TypeOK
  <2> HIDE DEF p
  <2>4. executed' \in Nat
    BY <2>2, <2>3 DEF AcceptGdbCommand
  <2>5. to_client' \in Seq(Messages(Texts))
    BY <2>2, Queues, MessageTypes DEF AcceptGdbCommand, TypeOK
  <2>6. Handled
    <3>1. CASE ParseGdbCommand(p.contents)
      BY <2>1, <3>1, ParseTyped
    <3>2. CASE UNCHANGED <<phase, reply, attempts, handler, closed, Settings, halt_reason, core>>
      BY <1>8, <3>2 DEF ReadCommand, Settings, Handled, TypeOK
    <3>3. CASE Answer({"E."})
      BY <3>3, AnswerTyped DEF Texts
    <3> QED BY <2>2, <3>1, <3>2, <3>3 DEF AcceptGdbCommand
  <2> QED BY <2>1, <2>2, <2>4, <2>5, <2>6 DEF Handled, TypeOK
<1> QED BY <1>1, <1>2, <1>3, <1>4, <1>6, <1>7, <1>8 DEF Server

LEMMA NextType ==
  TypeOK /\ [Next]_vars => TypeOK'
<1>1. ASSUME TypeOK, UNCHANGED vars PROVE TypeOK'
  BY <1>1 DEF vars, serverVars, TypeOK
<1> QED BY <1>1, ClientType, ServerType DEF Next, AllCommands

LEMMA TypeInvariant ==
  Spec => []TypeOK
BY InitType, NextType, PTL DEF Spec

-----------------------------------------------------------------------------
(* The theorems about an orderly session.                                  *)

LEMMA InitOrderly ==
  Init => Inv
<1> SUFFICES ASSUME Init PROVE Inv
  OBVIOUS
<1>1. TypeOK
  BY InitType
<1>2. ASSUME orderly PROVE OrderlyInv
  <2>1. to_server = <<Ack>>
    BY <1>2 DEF Init, Ack
  <2>2. Quiet
    BY <2>1 DEF Init, Quiet
  <2>3. Modes
    BY DEF Init, Modes, NoCommand
  <2> QED BY <2>2, <2>3 DEF Init, OrderlyInv, Stage, CoreInv, Sequenced, StopRepliesTrue
<1> QED BY <1>1, <1>2 DEF Inv

LEMMA NextOrderly ==
  Inv /\ [Next]_vars => Inv'
<1> SUFFICES ASSUME Inv, [Next]_vars PROVE Inv'
  OBVIOUS
<1>1. TypeOK /\ TypeOK'
  BY NextType DEF Inv
<1>2. orderly' = orderly
  BY DEF Next, vars, ClientSend, Client, ClientResend, ClientReadAck, ClientReadResponse,
         ClientIgnoresPacket, ClientInterrupts, ClientLeaves, CoreHalts, Server, Handshake,
         ReadCommand, ReadOther, WaitReturns, ReadAck, TakeAck, Respond
<1>3. ASSUME orderly PROVE OrderlyInv'
  <2>1. OrderlyInv
    BY <1>3 DEF Inv
  <2>2. CASE UNCHANGED vars
    <3>1. UNCHANGED <<to_server, to_client, client, phase, reply, no_ack_mode, no_ack_mode_latch,
                      thread_select, halt_reason, core, serving, closed, orderly>>
      BY <2>2 DEF vars, serverVars
    <3>2. Stage'
      BY <2>1, <3>1 DEF OrderlyInv, Stage, Quiet, Requested, Refused, Busy, Answered, Rejected,
                        Delivered, Left, Over
    <3> QED BY <2>1, <3>1, <3>2 DEF OrderlyInv, CoreInv, Sequenced, Modes, StopRepliesTrue
  <2>3. CASE ClientInterrupts
    BY <1>3, <2>3 DEF ClientInterrupts
  <2>4. ASSUME NEW c, NEW b \in BOOLEAN, ClientSend(c, b) PROVE OrderlyInv'
    BY <1>1, <1>3, <2>1, <2>4, ClientSendInv
  <2>5. CASE Client
    BY <1>1, <1>3, <2>1, <2>5, ClientReadAckInv, ClientReadResponseInv, ClientIgnoresPacketInv,
       ClientResendInv DEF Client
  <2>6. CASE ClientLeaves \/ CoreHalts
    BY <1>1, <1>3, <2>1, <2>6, ClientLeavesInv, CoreHaltsInv
  <2>7. CASE Server
    BY <1>1, <1>3, <2>1, <2>7, HandshakeInv, ReadCommandInv, ReadOtherInv, WaitReturnsInv,
       ReadAckInv, RespondInv DEF Server
  <2> QED BY <2>2, <2>3, <2>4, <2>5, <2>6, <2>7 DEF Next
<1> QED BY <1>1, <1>2, <1>3 DEF Inv

LEMMA Orderly ==
  Spec => []Inv
BY InitOrderly, NextOrderly, PTL DEF Spec

(* Whatever is garbled and sent again, and whenever acknowledgements are   *)
(* done away with, an orderly session is never ended by a character where  *)
(* the server expects another (Connect(), Respond()).                      *)
THEOREM StaysInStep ==
  Spec => []InStep
<1>1. Inv => InStep
  BY DEF Inv, OrderlyInv, InStep
<1> QED BY <1>1, Orderly, PTL

(* The debugger never finds a response to an earlier command where it      *)
(* expects the one to its last (AcceptGdbCommand(), Respond()).            *)
THEOREM NoStaleAnswer ==
  Spec => []AnswersMatch
<1>1. ASSUME Inv PROVE AnswersMatch
  <2> SUFFICES ASSUME orderly
               PROVE  AnswersTo(client.id, to_client) /\ (client.state = "idle" => to_client = << >>)
    BY DEF AnswersMatch, AnswersTo, ToSet
  <2>1. Stage
    BY <1>1 DEF Inv, OrderlyInv
  <2> QED BY <2>1, ShortAnswers
       DEF Stage, Quiet, Requested, Refused, Busy, Answered, Rejected, Delivered, Left, Over
<1> QED BY <1>1, Orderly, PTL

(* In an orderly session no command finds the core running (GdbContinue(), *)
(* GdbVContinue(), Wait()).                                                *)
THEOREM AtRest ==
  Spec => []CoreAtRest
<1>1. Inv => CoreAtRest
  BY DEF Inv, OrderlyInv, CoreInv, CoreAtRest
<1> QED BY <1>1, Orderly, PTL

(* A stop reply says that the program has exited exactly if it has, however*)
(* it was resumed, and however many parts the vCont had (GetHaltReason(),  *)
(* GdbContinue(), GdbVContinue()).                                         *)
THEOREM HaltsToldTruly ==
  Spec => []StopRepliesTrue
<1>1. Inv => StopRepliesTrue
  BY DEF Inv, OrderlyInv, StopRepliesTrue
<1> QED BY <1>1, Orderly, PTL

-----------------------------------------------------------------------------
(* A command runs once, in any session.  What is on its way is told by its *)
(* kind: a packet is due to be executed, or to be asked for again.         *)

None(q, kinds) == \A i \in DOMAIN q : q[i].kind \notin kinds

One(q, kinds) == \A i, j \in DOMAIN q : q[i].kind \in kinds /\ q[j].kind \in kinds => i = j

(* The first packet of q has another id than the last one that was read,   *)
(* unless that has not been executed.                                      *)
Fresh(q, id, times) ==
  \A i \in DOMAIN q :
    q[i].kind = "$" /\ (\A k \in 1 .. i - 1 : q[k].kind # "$") => q[i].id # id \/ times = 0

(* Two packets in a row have different ids.                                *)
Alternate(q) ==
  \A i, j \in DOMAIN q :
    /\ i < j /\ q[i].kind = "$" /\ q[j].kind = "$"
    /\ \A k \in i + 1 .. j - 1 : q[k].kind # "$"
    => q[i].id # q[j].id

EndsWith(q, id) ==
  \A i \in DOMAIN q :
    q[i].kind = "$" /\ (\A k \in i + 1 .. Len(q) : q[k].kind # "$") => q[i].id = id

AcksFirst(q) == \A i, j \in DOMAIN q : i < j /\ q[i].kind = "$" => q[j] # Ack

Signs == {"+", "-"}

(* With acknowledgements: at most one packet is under way to the server,   *)
(* or one acknowledgement to the debugger.                                 *)
InTurn ==
  /\ One(to_server, {"$"}) /\ EndsWith(to_server, client.id)
  /\ Fresh(to_server, serving, executed)
  /\ client.state \in {"idle", "awaiting"} =>
       /\ None(to_server, {"$"}) /\ None(to_client, Signs)
       /\ serving = client.id
  /\ client.state = "sent" =>
       /\ One(to_client, Signs)
       /\ None(to_server, {"$"}) \/ None(to_client, Signs)
       /\ \A i \in DOMAIN to_client :
            /\ to_client[i].kind \in Signs => serving = client.id
            /\ to_client[i] = Nack => executed = 0

(* Without: any number of packets, of different commands.                  *)
Chain ==
  /\ Alternate(to_server) /\ EndsWith(to_server, client.id)
  /\ Fresh(to_server, serving, executed)
  /\ None(to_server, {"$"}) => serving = client.id

(* A server that waits for a plus which is not to come reads no packet.    *)
Doomed ==
  /\ phase \in {"replying", "acking"} /\ ~no_ack_mode
  /\ \A i \in DOMAIN to_server : to_server[i] # Ack

OnceInv ==
  /\ ExecutedOnce
  /\ phase = "waiting" => executed = 1
  /\ phase = "acking" => ~no_ack_mode
  /\ client.state = "sent" => client.acks
  /\ phase # "closed" => IF client.acks THEN InTurn ELSE AcksFirst(to_server) /\ (Chain \/ Doomed)

(* What taking the first of a queue, and adding to it, does to these.      *)
LEMMA AtTail ==
  ASSUME NEW S, NEW q \in Seq(S), q # << >>
  PROVE  /\ Len(Tail(q)) = Len(q) - 1 /\ Len(q) \in Nat \ {0} /\ Head(q) = q[1]
         /\ DOMAIN q = 1 .. Len(q) /\ DOMAIN Tail(q) = 1 .. Len(q) - 1
         /\ \A i \in 1 .. Len(q) - 1 : Tail(q)[i] = q[i + 1]
OBVIOUS

LEMMA AtEnd ==
  ASSUME NEW S, NEW q \in Seq(S), NEW x
  PROVE  /\ Len(Append(q, x)) = Len(q) + 1 /\ Len(q) \in Nat
         /\ DOMAIN q = 1 .. Len(q) /\ DOMAIN Append(q, x) = 1 .. Len(q) + 1
         /\ \A i \in 1 .. Len(q) : Append(q, x)[i] = q[i]
         /\ Append(q, x)[Len(q) + 1] = x
OBVIOUS

LEMMA TailKinds ==
  ASSUME NEW S, NEW q \in Seq(S), q # << >>, NEW kinds
  PROVE  /\ None(q, kinds) => None(Tail(q), kinds)
         /\ One(q, kinds) => One(Tail(q), kinds)
         /\ One(q, kinds) /\ Head(q).kind \in kinds => None(Tail(q), kinds)
         /\ Head(q).kind \notin kinds /\ None(Tail(q), kinds) => None(q, kinds)
<1> DEFINE n == Len(q)
           t == Tail(q)
<1>1. /\ n \in Nat \ {0} /\ DOMAIN q = 1 .. n /\ DOMAIN t = 1 .. n - 1 /\ Head(q) = q[1]
      /\ \A i \in 1 .. n - 1 : t[i] = q[i + 1]
  BY AtTail
<1> HIDE DEF n, t
<1>2. None(q, kinds) => None(t, kinds)
  BY <1>1 DEF None
<1>3. One(q, kinds) => One(t, kinds)
  <2> SUFFICES ASSUME One(q, kinds), NEW i \in 1 .. n - 1, NEW j \in 1 .. n - 1,
                      t[i].kind \in kinds, t[j].kind \in kinds
               PROVE  i = j
    BY <1>1 DEF One
  <2>1. i + 1 \in 1 .. n /\ j + 1 \in 1 .. n /\ t[i] = q[i + 1] /\ t[j] = q[j + 1]
    BY <1>1
  <2>2. i + 1 = j + 1
    BY <1>1, <2>1 DEF One
  <2> QED BY <2>2
<1>4. One(q, kinds) /\ Head(q).kind \in kinds => None(t, kinds)
  BY <1>1 DEF One, None
<1>5. Head(q).kind \notin kinds /\ None(t, kinds) => None(q, kinds)
  <2> SUFFICES ASSUME Head(q).kind \notin kinds, None(t, kinds), NEW i \in 1 .. n
               PROVE  q[i].kind \notin kinds
    BY <1>1 DEF None
  <2>1. CASE i = 1
    BY <1>1, <2>1
  <2>2. CASE i # 1
    <3>1. i - 1 \in 1 .. n - 1 /\ (i - 1) + 1 = i
      BY <1>1, <2>2
    <3>2. t[i - 1] = q[i]
      BY <1>1, <3>1
    <3> QED BY <1>1, <3>1, <3>2 DEF None
  <2> QED BY <2>1, <2>2
<1> QED BY <1>2, <1>3, <1>4, <1>5 DEF t

LEMMA AppendKinds ==
  ASSUME NEW S, NEW q \in Seq(S), NEW x, NEW kinds
  PROVE  /\ None(q, kinds) /\ x.kind \notin kinds => None(Append(q, x), kinds)
         /\ None(Append(q, x), kinds) => None(q, kinds) /\ x.kind \notin kinds
         /\ One(q, kinds) /\ x.kind \notin kinds => One(Append(q, x), kinds)
         /\ None(q, kinds) => One(Append(q, x), kinds)
<1> DEFINE n == Len(q)
           t == Append(q, x)
<1>1. /\ n \in Nat /\ DOMAIN q = 1 .. n /\ DOMAIN t = 1 .. n + 1 /\ t[n + 1] = x
      /\ \A i \in 1 .. n : t[i] = q[i]
  BY AtEnd
<1>2. \A i \in 1 .. n + 1 : i \in 1 .. n \/ i = n + 1
  BY <1>1
<1> HIDE DEF n, t
<1>3. None(q, kinds) /\ x.kind \notin kinds => None(t, kinds)
  BY <1>1, <1>2 DEF None
<1>4. None(t, kinds) => None(q, kinds) /\ x.kind \notin kinds
  BY <1>1 DEF None
<1>5. One(q, kinds) /\ x.kind \notin kinds => One(t, kinds)
  BY <1>1, <1>2 DEF One
<1>6. None(q, kinds) => One(t, kinds)
  BY <1>1, <1>2 DEF None, One
<1> QED BY <1>3, <1>4, <1>5, <1>6 DEF t

LEMMA TailChain ==
  ASSUME NEW S, NEW q \in Seq(S), q # << >>, NEW id, NEW last, NEW times
  PROVE  /\ EndsWith(q, last) => EndsWith(Tail(q), last)
         /\ Alternate(q) => Alternate(Tail(q))
         /\ AcksFirst(q) => AcksFirst(Tail(q))
         /\ Head(q).kind # "$" /\ Fresh(q, id, times) => Fresh(Tail(q), id, times)
<1> DEFINE n == Len(q)
           t == Tail(q)
<1>1. /\ n \in Nat \ {0} /\ DOMAIN q = 1 .. n /\ DOMAIN t = 1 .. n - 1 /\ Head(q) = q[1]
      /\ \A i \in 1 .. n - 1 : t[i] = q[i + 1] /\ i + 1 \in 1 .. n
      /\ Len(t) = n - 1
  BY AtTail
<1>2. n = Len(q)
  OBVIOUS
<1> HIDE DEF n, t
<1>3. ASSUME NEW i \in 1 .. n - 1, NEW j \in Nat, j <= n - 1, \A k \in i + 1 .. j : t[k].kind # "$"
      PROVE  \A k \in (i + 1) + 1 .. j + 1 : q[k].kind # "$"
  <2> TAKE k \in (i + 1) + 1 .. j + 1
  <2>1. k - 1 \in i + 1 .. j /\ k - 1 \in 1 .. n - 1 /\ (k - 1) + 1 = k
    BY <1>1, <1>3
  <2>2. t[k - 1] = q[k]
    BY <1>1, <2>1
  <2> QED BY <1>3, <2>1, <2>2
<1>4. EndsWith(q, last) => EndsWith(t, last)
  <2> SUFFICES ASSUME EndsWith(q, last), NEW i \in 1 .. n - 1, t[i].kind = "$",
                      \A k \in i + 1 .. n - 1 : t[k].kind # "$"
               PROVE  t[i].id = last
    BY <1>1 DEF EndsWith
  <2>0. n - 1 \in Nat /\ n - 1 <= n - 1
    BY <1>1
  <2>1. \A k \in (i + 1) + 1 .. (n - 1) + 1 : q[k].kind # "$"
    BY <1>3, <2>0
  <2>2. (n - 1) + 1 = n
    BY <1>1
  <2> QED BY <1>1, <1>2, <2>1, <2>2 DEF EndsWith
<1>5. Alternate(q) => Alternate(t)
  <2> SUFFICES ASSUME Alternate(q), NEW i \in 1 .. n - 1, NEW j \in 1 .. n - 1, i < j,
                      t[i].kind = "$", t[j].kind = "$", \A k \in i + 1 .. j - 1 : t[k].kind # "$"
               PROVE  t[i].id # t[j].id
    BY <1>1 DEF Alternate
  <2>1. j - 1 \in Nat /\ j - 1 <= n - 1 /\ (j - 1) + 1 = (j + 1) - 1 /\ i + 1 < j + 1
    BY <1>1
  <2>2. \A k \in (i + 1) + 1 .. (j - 1) + 1 : q[k].kind # "$"
    BY <1>3, <2>1
  <2> QED BY <1>1, <2>1, <2>2, ZenonT(40) DEF Alternate
<1>6. AcksFirst(q) => AcksFirst(t)
  BY <1>1, SMTT(30) DEF AcksFirst
<1>7. Head(q).kind # "$" /\ Fresh(q, id, times) => Fresh(t, id, times)
  <2> SUFFICES ASSUME q[1].kind # "$", Fresh(q, id, times), NEW i \in 1 .. n - 1, t[i].kind = "$",
                      \A k \in 1 .. i - 1 : t[k].kind # "$"
               PROVE  t[i].id # id \/ times = 0
    BY <1>1 DEF Fresh
  <2>1. \A k \in 1 .. (i + 1) - 1 : q[k].kind # "$"
    <3> TAKE k \in 1 .. (i + 1) - 1
    <3>1. CASE k = 1
      BY <3>1
    <3>2. CASE k # 1
      <4>1. k - 1 \in 1 .. i - 1 /\ k - 1 \in 1 .. n - 1 /\ (k - 1) + 1 = k
        BY <1>1, <3>2
      <4>2. t[k - 1] = q[k]
        BY <1>1, <4>1
      <4> QED BY <4>1, <4>2
    <3> QED BY <3>1, <3>2
  <2> QED BY <1>1, <2>1 DEF Fresh
<1> QED BY <1>4, <1>5, <1>6, <1>7 DEF t

(* Reading a packet.                                                       *)
LEMMA ReadChain ==
  ASSUME NEW S, NEW q \in Seq(S), q # << >>, Head(q).kind = "$", NEW id, NEW last, NEW times
  PROVE  /\ Fresh(q, id, times) => Head(q).id # id \/ times = 0
         /\ \A m : Alternate(q) => Fresh(Tail(q), Head(q).id, m)
         /\ EndsWith(q, last) /\ None(Tail(q), {"$"}) => Head(q).id = last
         /\ AcksFirst(q) => \A i \in DOMAIN Tail(q) : Tail(q)[i] # Ack
<1> DEFINE n == Len(q)
           t == Tail(q)
<1>1. /\ n \in Nat \ {0} /\ DOMAIN q = 1 .. n /\ DOMAIN t = 1 .. n - 1 /\ Head(q) = q[1]
      /\ \A i \in 1 .. n - 1 : t[i] = q[i + 1] /\ i + 1 \in 1 .. n
      /\ 1 \in 1 .. n
  BY AtTail
<1>2. n = Len(q)
  OBVIOUS
<1> HIDE DEF n, t
<1>3. Fresh(q, id, times) => Head(q).id # id \/ times = 0
  BY <1>1 DEF Fresh
<1>4. ASSUME NEW m, Alternate(q) PROVE Fresh(t, Head(q).id, m)
  <2> SUFFICES ASSUME NEW i \in 1 .. n - 1, t[i].kind = "$", \A k \in 1 .. i - 1 : t[k].kind # "$"
               PROVE  t[i].id # q[1].id
    BY <1>1 DEF Fresh
  <2>1. \A k \in 1 + 1 .. (i + 1) - 1 : q[k].kind # "$"
    <3> TAKE k \in 1 + 1 .. (i + 1) - 1
    <3>1. k - 1 \in 1 .. i - 1 /\ k - 1 \in 1 .. n - 1 /\ (k - 1) + 1 = k
      BY <1>1
    <3>2. t[k - 1] = q[k]
      BY <1>1, <3>1
    <3> QED BY <3>1, <3>2
  <2>2. 1 < i + 1 /\ t[i] = q[i + 1] /\ i + 1 \in 1 .. n /\ q[i + 1].kind = "$" /\ q[1].kind = "$"
    BY <1>1
  <2> QED BY <1>1, <1>4, <2>1, <2>2 DEF Alternate
<1>5. EndsWith(q, last) /\ None(t, {"$"}) => Head(q).id = last
  <2> SUFFICES ASSUME EndsWith(q, last), None(t, {"$"}) PROVE q[1].id = last
    BY <1>1
  <2>1. \A k \in 1 + 1 .. n : q[k].kind # "$"
    <3> TAKE k \in 1 + 1 .. n
    <3>1. k - 1 \in 1 .. n - 1 /\ (k - 1) + 1 = k
      BY <1>1
    <3>2. t[k - 1] = q[k]
      BY <1>1, <3>1
    <3> QED BY <1>1, <3>1, <3>2 DEF None
  <2> QED BY <1>1, <1>2, <2>1 DEF EndsWith
<1>6. AcksFirst(q) => \A i \in DOMAIN t : t[i] # Ack
  <2> SUFFICES ASSUME AcksFirst(q), NEW i \in 1 .. n - 1 PROVE t[i] # Ack
    BY <1>1
  <2>1. 1 < i + 1 /\ t[i] = q[i + 1] /\ i + 1 \in 1 .. n /\ q[1].kind = "$"
    BY <1>1
  <2> QED BY <1>1, <2>1 DEF AcksFirst
<1> QED BY <1>3, <1>4, <1>5, <1>6 DEF t

(* Sending a character, and a packet.                                      *)
LEMMA SendOther ==
  ASSUME NEW S, NEW q \in Seq(S), NEW x, x.kind # "$", NEW id, NEW last, NEW times
  PROVE  /\ EndsWith(q, last) => EndsWith(Append(q, x), last)
         /\ Alternate(q) => Alternate(Append(q, x))
         /\ Fresh(q, id, times) => Fresh(Append(q, x), id, times)
         /\ AcksFirst(q) /\ (x # Ack \/ None(q, {"$"})) => AcksFirst(Append(q, x))
<1> DEFINE n == Len(q)
           t == Append(q, x)
<1>1. /\ n \in Nat /\ DOMAIN q = 1 .. n /\ DOMAIN t = 1 .. n + 1 /\ t[n + 1] = x
      /\ \A i \in 1 .. n : t[i] = q[i]
      /\ Len(t) = n + 1
  BY AtEnd
<1>2. (\A i \in 1 .. n + 1 : i \in 1 .. n \/ i = n + 1) /\ 1 .. n \subseteq 1 .. n + 1
  BY <1>1
<1>3. n = Len(q)
  OBVIOUS
<1> HIDE DEF n, t
<1>4. EndsWith(q, last) => EndsWith(t, last)
  <2> SUFFICES ASSUME EndsWith(q, last), NEW i \in 1 .. n, t[i].kind = "$",
                      \A k \in i + 1 .. n + 1 : t[k].kind # "$"
               PROVE  t[i].id = last
    BY <1>1, <1>2 DEF EndsWith
  <2>1. \A k \in i + 1 .. n : q[k].kind # "$"
    BY <1>1
  <2> QED BY <1>1, <1>3, <2>1 DEF EndsWith
<1>5. Alternate(q) => Alternate(t)
  <2> SUFFICES ASSUME Alternate(q), NEW i \in 1 .. n, NEW j \in 1 .. n, i < j,
                      t[i].kind = "$", t[j].kind = "$", \A k \in i + 1 .. j - 1 : t[k].kind # "$"
               PROVE  t[i].id # t[j].id
    BY <1>1, <1>2 DEF Alternate
  <2>1. \A k \in i + 1 .. j - 1 : q[k].kind # "$"
    BY <1>1
  <2> QED BY <1>1, <2>1 DEF Alternate
<1>6. Fresh(q, id, times) => Fresh(t, id, times)
  <2> SUFFICES ASSUME Fresh(q, id, times), NEW i \in 1 .. n, t[i].kind = "$",
                      \A k \in 1 .. i - 1 : t[k].kind # "$"
               PROVE  t[i].id # id \/ times = 0
    BY <1>1, <1>2 DEF Fresh
  <2>1. \A k \in 1 .. i - 1 : q[k].kind # "$"
    BY <1>1
  <2> QED BY <1>1, <2>1 DEF Fresh
<1>7. AcksFirst(q) /\ (x # Ack \/ None(q, {"$"})) => AcksFirst(t)
  <2> SUFFICES ASSUME AcksFirst(q), x # Ack \/ None(q, {"$"}),
                      NEW i \in 1 .. n + 1, NEW j \in 1 .. n + 1, i < j, t[i].kind = "$"
               PROVE  t[j] # Ack
    BY <1>1 DEF AcksFirst
  <2>1. i \in 1 .. n /\ q[i].kind = "$"
    BY <1>1, <1>2
  <2>2. CASE j = n + 1
    BY <1>1, <2>1, <2>2 DEF None
  <2>3. CASE j \in 1 .. n
    BY <1>1, <2>1, <2>3 DEF AcksFirst
  <2> QED BY <1>2, <2>2, <2>3
<1> QED BY <1>4, <1>5, <1>6, <1>7 DEF t

LEMMA SendPacket ==
  ASSUME NEW S, NEW q \in Seq(S), NEW x, x.kind = "$", NEW id, NEW last, NEW times
  PROVE  /\ EndsWith(Append(q, x), x.id)
         /\ Alternate(q) /\ EndsWith(q, last) /\ x.id # last => Alternate(Append(q, x))
         /\ Fresh(q, id, times) /\ (None(q, {"$"}) => x.id # id \/ times = 0) => Fresh(Append(q, x), id, times)
         /\ AcksFirst(q) => AcksFirst(Append(q, x))
<1> DEFINE n == Len(q)
           t == Append(q, x)
<1>1. /\ n \in Nat /\ DOMAIN q = 1 .. n /\ DOMAIN t = 1 .. n + 1 /\ t[n + 1] = x
      /\ \A i \in 1 .. n : t[i] = q[i]
      /\ Len(t) = n + 1
  BY AtEnd
<1>2. (\A i \in 1 .. n + 1 : i \in 1 .. n \/ i = n + 1) /\ 1 .. n \subseteq 1 .. n + 1
  BY <1>1
<1>3. n = Len(q)
  OBVIOUS
<1> HIDE DEF n, t
<1>4. EndsWith(t, x.id)
  <2> SUFFICES ASSUME NEW i \in 1 .. n + 1, \A k \in i + 1 .. n + 1 : t[k].kind # "$"
               PROVE  t[i].id = x.id
    BY <1>1 DEF EndsWith
  <2>1. CASE i \in 1 .. n
    BY <1>1, <2>1
  <2>2. CASE i = n + 1
    BY <1>1, <2>2
  <2> QED BY <1>2, <2>1, <2>2
<1>5. Alternate(q) /\ EndsWith(q, last) /\ x.id # last => Alternate(t)
  <2> SUFFICES ASSUME Alternate(q), EndsWith(q, last), x.id # last,
                      NEW i \in 1 .. n + 1, NEW j \in 1 .. n + 1, i < j,
                      t[i].kind = "$", t[j].kind = "$", \A k \in i + 1 .. j - 1 : t[k].kind # "$"
               PROVE  t[i].id # t[j].id
    BY <1>1 DEF Alternate
  <2>1. i \in 1 .. n /\ t[i] = q[i]
    BY <1>1, <1>2
  <2>2. CASE j \in 1 .. n
    <3>1. \A k \in i + 1 .. j - 1 : q[k].kind # "$"
      BY <1>1, <2>1, <2>2
    <3>2. t[j] = q[j]
      BY <1>1, <2>2
    <3> QED BY <1>1, <2>1, <2>2, <3>1, <3>2 DEF Alternate
  <2>3. CASE j = n + 1
    <3>1. \A k \in i + 1 .. n : q[k].kind # "$"
      BY <1>1, <2>1, <2>3
    <3>2. q[i].id = last
      BY <1>1, <1>3, <2>1, <3>1 DEF EndsWith
    <3> QED BY <1>1, <2>1, <2>3, <3>2
  <2> QED BY <1>2, <2>2, <2>3
<1>6. Fresh(q, id, times) /\ (None(q, {"$"}) => x.id # id \/ times = 0) => Fresh(t, id, times)
  <2> SUFFICES ASSUME Fresh(q, id, times), None(q, {"$"}) => x.id # id \/ times = 0,
                      NEW i \in 1 .. n + 1, t[i].kind = "$", \A k \in 1 .. i - 1 : t[k].kind # "$"
               PROVE  t[i].id # id \/ times = 0
    BY <1>1 DEF Fresh
  <2>1. CASE i \in 1 .. n
    <3>1. \A k \in 1 .. i - 1 : q[k].kind # "$"
      BY <1>1, <2>1
    <3> QED BY <1>1, <2>1, <3>1 DEF Fresh
  <2>2. CASE i = n + 1
    <3>1. \A k \in 1 .. n : q[k].kind # "$"
      BY <1>1, <2>2
    <3> QED BY <1>1, <2>2, <3>1 DEF None
  <2> QED BY <1>2, <2>1, <2>2
<1>7. AcksFirst(q) => AcksFirst(t)
  <2> SUFFICES ASSUME AcksFirst(q),
                      NEW i \in 1 .. n + 1, NEW j \in 1 .. n + 1, i < j, t[i].kind = "$"
               PROVE  t[j] # Ack
    BY <1>1 DEF AcksFirst
  <2>1. i \in 1 .. n /\ q[i].kind = "$"
    BY <1>1, <1>2
  <2>2. CASE j = n + 1
    BY <1>1, <2>2, Characters
  <2>3. CASE j \in 1 .. n
    BY <1>1, <2>1, <2>3 DEF AcksFirst
  <2> QED BY <1>2, <2>2, <2>3
<1> QED BY <1>4, <1>5, <1>6, <1>7 DEF t

(* With nothing under way there is nothing to go wrong.                    *)
LEMMA NonePending ==
  ASSUME NEW q, None(q, {"$"}), NEW id, NEW times
  PROVE  /\ One(q, {"$"}) /\ Alternate(q) /\ EndsWith(q, id) /\ Fresh(q, id, times) /\ AcksFirst(q)
BY DEF None, One, Alternate, EndsWith, Fresh, AcksFirst

LEMMA Kinds ==
  ASSUME NEW S, NEW p \in Messages(S)
  PROVE  /\ p.kind \in {"$", "+", "-", "interrupt"}
         /\ p.kind = "+" <=> p = Ack
         /\ p.kind = "-" <=> p = Nack
BY DEF Messages, Ack, Nack, Interrupt

Phases == /\ ExecutedOnce
          /\ phase = "waiting" => executed = 1
          /\ phase = "acking" => ~no_ack_mode

Pending == IF client.acks THEN InTurn ELSE AcksFirst(to_server) /\ (Chain \/ Doomed)

LEMMA OnceParts ==
  OnceInv <=> /\ Phases /\ (client.state = "sent" => client.acks)
              /\ phase # "closed" => Pending
BY DEF OnceInv, Phases, Pending

LEMMA PhasesSame ==
  ASSUME Phases, UNCHANGED <<phase, reply, no_ack_mode, executed>>
  PROVE  Phases'
BY DEF Phases, ExecutedOnce

LEMMA InitOnce ==
  Init => OnceInv
<1> SUFFICES ASSUME Init PROVE OnceInv
  OBVIOUS
<1>1. to_server \in {<< >>, <<Ack>>} /\ to_client = << >> /\ client.acks /\ client.state = "idle"
  BY DEF Init, Ack
<1>2. None(to_server, {"$"}) /\ None(to_client, Signs)
  BY <1>1, Characters DEF None
<1>3. One(to_server, {"$"}) /\ EndsWith(to_server, client.id) /\ Fresh(to_server, serving, executed)
  BY <1>2, NonePending
<1>4. InTurn
  BY <1>1, <1>2, <1>3 DEF InTurn, Init
<1>5. Phases
  BY DEF Phases, ExecutedOnce, Init
<1> QED BY <1>1, <1>4, <1>5, OnceParts DEF Pending

LEMMA OnceClientSend ==
  ASSUME TypeOK, OnceInv, NEW command \in AllCommands, NEW intact \in BOOLEAN,
         ClientSend(command, intact)
  PROVE  OnceInv'
<1> DEFINE p == Packet(command, 1 - client.id, intact)
<1>1. /\ client'.state = (IF client.acks THEN "sent" ELSE "awaiting")
      /\ client'.id = 1 - client.id /\ client'.acks = client.acks /\ client'.id # client.id
      /\ client.state = "idle"
  BY DEF TypeOK, Clients, ClientSend
<1>2. /\ to_server' = Append(to_server, p) /\ to_client' = to_client
      /\ UNCHANGED <<phase, reply, no_ack_mode, serving, executed>>
  BY DEF ClientSend, serverVars
<1>3. p.kind = "$" /\ p.id = client'.id /\ p # Ack
  BY <1>1, Packets
<1>4. to_server \in Seq(Messages(AllCommands)) /\ client.acks \in BOOLEAN
  BY DEF TypeOK, Clients
<1> HIDE DEF p
<1>5. Phases'
  BY <1>2, PhasesSame, OnceParts
<1>6. ASSUME phase # "closed", client.acks PROVE InTurn'
  <2>1. None(to_server, {"$"}) /\ None(to_client, Signs) /\ serving = client.id
    BY <1>1, <1>6, OnceParts DEF Pending, InTurn
  <2>2. Fresh(to_server, serving, executed)
    BY <2>1, NonePending
  <2>3. One(to_server', {"$"}) /\ EndsWith(to_server', client'.id)
    BY <1>2, <1>3, <1>4, <2>1, AppendKinds, SendPacket
  <2>4. Fresh(to_server', serving', executed')
    BY <1>1, <1>2, <1>3, <1>4, <2>1, <2>2, SendPacket
  <2>5. None(to_client', Signs) /\ One(to_client', Signs)
    BY <1>2, <2>1 DEF None, One
  <2>6. \A i \in DOMAIN to_client' : to_client'[i].kind \notin Signs /\ to_client'[i] # Nack
    BY <2>5, Characters DEF None, Signs
  <2> QED BY <1>1, <1>6, <2>3, <2>4, <2>5, <2>6 DEF InTurn
<1>7. ASSUME phase # "closed", ~client.acks PROVE AcksFirst(to_server') /\ (Chain' \/ Doomed')
  <2>1. AcksFirst(to_server) /\ (Chain \/ Doomed)
    BY <1>7, OnceParts DEF Pending
  <2>2. AcksFirst(to_server')
    BY <1>2, <1>3, <1>4, <2>1, SendPacket
  <2>3. CASE Doomed
    <3>1. \A i \in DOMAIN to_server' : to_server'[i] # Ack
      BY <1>2, <1>3, <1>4, <2>3, AtEnd DEF Doomed
    <3> QED BY <1>2, <2>2, <2>3, <3>1 DEF Doomed
  <2>4. CASE Chain
    <3>1. EndsWith(to_server', client'.id) /\ Alternate(to_server')
      BY <1>1, <1>2, <1>3, <1>4, <2>4, SendPacket DEF Chain
    <3>2. Fresh(to_server', serving', executed')
      BY <1>1, <1>2, <1>3, <1>4, <2>4, SendPacket DEF Chain
    <3>3. ~None(to_server', {"$"})
      BY <1>2, <1>3, <1>4, AppendKinds
    <3> QED BY <2>2, <3>1, <3>2, <3>3 DEF Chain
  <2> QED BY <2>1, <2>3, <2>4
<1> QED BY <1>1, <1>2, <1>4, <1>5, <1>6, <1>7 DEF OnceInv, Phases

LEMMA OnceClientResend ==
  ASSUME TypeOK, OnceInv, NEW intact \in BOOLEAN, ClientResend(intact)
  PROVE  OnceInv'
<1> DEFINE p == Packet(client.command, client.id, intact)
<1>1. /\ client.state = "sent" /\ client' = client
      /\ to_client # << >> /\ Head(to_client) = Nack /\ to_client' = Tail(to_client)
      /\ to_server' = Append(to_server, p)
      /\ UNCHANGED <<phase, reply, no_ack_mode, serving, executed>>
  BY DEF ClientResend, serverVars
<1>2. p.kind = "$" /\ p.id = client.id
  BY Packets
<1>3. to_server \in Seq(Messages(AllCommands)) /\ to_client \in Seq(Messages(Texts)) /\ client.acks
  BY <1>1 DEF TypeOK, OnceInv
<1> HIDE DEF p
<1>4. Phases'
  BY <1>1, PhasesSame, OnceParts
<1>5. ASSUME phase # "closed" PROVE InTurn'
  <2>1. InTurn
    BY <1>3, <1>5 DEF OnceInv
  <2>2. 1 \in DOMAIN to_client /\ to_client[1] = Nack /\ Nack.kind \in Signs
    BY <1>1, <1>3, AtTail, Characters DEF Signs
  <2>3. None(to_server, {"$"}) /\ executed = 0
    BY <1>1, <2>1, <2>2 DEF InTurn, None
  <2>4. None(to_client', Signs)
    BY <1>1, <1>3, <2>1, <2>2, TailKinds DEF InTurn
  <2>5. One(to_client', Signs) /\ \A i \in DOMAIN to_client' : to_client'[i].kind \notin Signs
    BY <2>4 DEF None, One
  <2>6. One(to_server', {"$"}) /\ EndsWith(to_server', client'.id)
    BY <1>1, <1>2, <1>3, <2>3, AppendKinds, SendPacket
  <2>7. Fresh(to_server', serving', executed')
    BY <1>1, <1>2, <1>3, <2>1, <2>3, SendPacket DEF InTurn
  <2> QED BY <1>1, <2>2, <2>4, <2>5, <2>6, <2>7 DEF InTurn
<1> QED BY <1>1, <1>3, <1>4, <1>5 DEF OnceInv, Phases

LEMMA OnceClientReadAck ==
  ASSUME TypeOK, OnceInv, ClientReadAck
  PROVE  OnceInv'
<1>1. /\ client.state = "sent" /\ client'.state = "awaiting"
      /\ client'.id = client.id /\ client'.acks = client.acks
      /\ to_client # << >> /\ Head(to_client) = Ack /\ to_client' = Tail(to_client)
      /\ UNCHANGED <<to_server, phase, reply, no_ack_mode, serving, executed>>
  BY DEF ClientReadAck, serverVars, TypeOK, Clients
<1>2. to_client \in Seq(Messages(Texts)) /\ client.acks
  BY <1>1 DEF TypeOK, OnceInv
<1>3. Phases'
  BY <1>1, PhasesSame, OnceParts
<1>4. ASSUME phase # "closed" PROVE InTurn'
  <2>1. InTurn
    BY <1>2, <1>4 DEF OnceInv
  <2>2. 1 \in DOMAIN to_client /\ to_client[1] = Ack /\ Ack.kind \in Signs
    BY <1>1, <1>2, AtTail, Characters DEF Signs
  <2>3. None(to_server, {"$"}) /\ serving = client.id
    BY <1>1, <2>1, <2>2 DEF InTurn, None
  <2>4. None(to_client', Signs)
    BY <1>1, <1>2, <2>1, <2>2, TailKinds DEF InTurn
  <2> QED BY <1>1, <2>1, <2>3, <2>4 DEF InTurn
<1> QED BY <1>1, <1>2, <1>3, <1>4 DEF OnceInv, Phases

LEMMA OnceClientReadResponse ==
  ASSUME TypeOK, OnceInv, ClientReadResponse
  PROVE  OnceInv'
<1> DEFINE p == Head(to_client)
           x == IF p.intact THEN Ack ELSE Nack
<1>1. /\ client.state \in {"idle", "awaiting"} /\ client'.state \in {"idle", "awaiting"}
      /\ client'.id = client.id
      /\ ~client.acks => ~client'.acks
      /\ to_client # << >> /\ to_client' = Tail(to_client)
      /\ to_server' = IF client.acks THEN Append(to_server, x) ELSE to_server
      /\ UNCHANGED <<phase, reply, no_ack_mode, serving, executed>>
  BY DEF ClientReadResponse, serverVars, TypeOK, Clients
<1>2. /\ to_server \in Seq(Messages(AllCommands)) /\ to_client \in Seq(Messages(Texts))
      /\ client.acks \in BOOLEAN /\ client'.acks \in BOOLEAN
  BY ClientType DEF TypeOK, Clients, Client
<1>3. x \in {Ack, Nack} /\ x.kind # "$"
  BY Characters
<1> HIDE DEF p, x
<1>4. Phases'
  BY <1>1, PhasesSame, OnceParts
<1>5. ASSUME phase # "closed", client.acks PROVE Pending'
  <2>1. None(to_server, {"$"}) /\ None(to_client, Signs) /\ serving = client.id
    BY <1>1, <1>5 DEF OnceInv, InTurn
  <2>2. None(to_server', {"$"}) /\ None(to_client', Signs)
    BY <1>1, <1>2, <1>3, <1>5, <2>1, AppendKinds, TailKinds
  <2>3. /\ One(to_server', {"$"}) /\ Alternate(to_server') /\ EndsWith(to_server', client'.id)
        /\ Fresh(to_server', serving', executed') /\ AcksFirst(to_server')
    BY <2>2, NonePending
  <2> QED BY <1>1, <2>1, <2>2, <2>3 DEF Pending, InTurn, Chain
<1>6. ASSUME phase # "closed", ~client.acks PROVE Pending'
  BY <1>1, <1>6 DEF OnceInv, Pending, Chain, Doomed
<1> QED BY <1>1, <1>2, <1>4, <1>5, <1>6 DEF OnceInv, Phases, Pending

LEMMA OnceClientIgnoresPacket ==
  ASSUME TypeOK, OnceInv, ClientIgnoresPacket
  PROVE  OnceInv'
<1>1. /\ client.state = "sent" /\ client' = client
      /\ to_client # << >> /\ Head(to_client).kind = "$" /\ to_client' = Tail(to_client)
      /\ to_server' = Append(to_server, Ack)
      /\ UNCHANGED <<phase, reply, no_ack_mode, serving, executed>>
  BY DEF ClientIgnoresPacket, serverVars
<1>2. to_server \in Seq(Messages(AllCommands)) /\ to_client \in Seq(Messages(Texts)) /\ client.acks
  BY <1>1 DEF TypeOK, OnceInv
<1>3. Ack.kind \notin {"$"} /\ Ack.kind # "$"
  BY Characters
<1>4. Phases'
  BY <1>1, PhasesSame, OnceParts
<1>5. ASSUME phase # "closed" PROVE InTurn'
  <2>1. InTurn
    BY <1>2, <1>5 DEF OnceInv
  <2>2. One(to_server', {"$"}) /\ (None(to_server, {"$"}) => None(to_server', {"$"}))
    BY <1>1, <1>2, <1>3, <2>1, AppendKinds DEF InTurn
  <2>3. EndsWith(to_server', client'.id) /\ Fresh(to_server', serving', executed')
    BY <1>1, <1>2, <1>3, <2>1, SendOther DEF InTurn
  <2>4. One(to_client', Signs) /\ (None(to_client, Signs) => None(to_client', Signs))
    BY <1>1, <1>2, <2>1, TailKinds DEF InTurn
  <2>5. ASSUME NEW i \in DOMAIN to_client' PROVE \E j \in DOMAIN to_client : to_client'[i] = to_client[j]
    BY <1>1, <1>2, <2>5, AtTail
  <2>6. \A i \in DOMAIN to_client' : /\ to_client'[i].kind \in Signs => serving = client.id
                                     /\ to_client'[i] = Nack => executed = 0
    BY <1>1, <2>1, <2>5 DEF InTurn
  <2> QED BY <1>1, <2>1, <2>2, <2>3, <2>4, <2>6 DEF InTurn
<1> QED BY <1>1, <1>2, <1>4, <1>5 DEF OnceInv, Phases

LEMMA OnceClientInterrupts ==
  ASSUME TypeOK, OnceInv, ClientInterrupts
  PROVE  OnceInv'
<1>1. /\ client.state = "awaiting"
      /\ to_server' = Append(to_server, Interrupt)
      /\ UNCHANGED <<to_client, client, phase, reply, no_ack_mode, serving, executed>>
  BY DEF ClientInterrupts, serverVars
<1>2. to_server \in Seq(Messages(AllCommands))
  BY DEF TypeOK
<1>3. Interrupt.kind \notin {"$"} /\ Interrupt.kind # "$" /\ Interrupt # Ack
  BY DEF Interrupt, Ack
<1>4. Phases'
  BY <1>1, PhasesSame, OnceParts
<1>5. ASSUME phase # "closed", client.acks PROVE InTurn'
  <2>1. InTurn
    BY <1>5 DEF OnceInv
  <2>2. One(to_server', {"$"}) /\ (None(to_server, {"$"}) => None(to_server', {"$"}))
    BY <1>1, <1>2, <1>3, <2>1, AppendKinds DEF InTurn
  <2>3. EndsWith(to_server', client'.id) /\ Fresh(to_server', serving', executed')
    BY <1>1, <1>2, <1>3, <2>1, SendOther DEF InTurn
  <2> QED BY <1>1, <2>1, <2>2, <2>3 DEF InTurn
<1>6. ASSUME phase # "closed", ~client.acks PROVE AcksFirst(to_server') /\ (Chain' \/ Doomed')
  <2>1. AcksFirst(to_server) /\ (Chain \/ Doomed)
    BY <1>6 DEF OnceInv
  <2>2. AcksFirst(to_server')
    BY <1>1, <1>2, <1>3, <2>1, SendOther
  <2>3. CASE Doomed
    <3>1. \A i \in DOMAIN to_server' : to_server'[i] # Ack
      BY <1>1, <1>2, <1>3, <2>3, AtEnd DEF Doomed
    <3> QED BY <1>1, <2>2, <2>3, <3>1 DEF Doomed
  <2>4. CASE Chain
    <3>1. /\ EndsWith(to_server', client'.id) /\ Alternate(to_server')
          /\ Fresh(to_server', serving', executed')
      BY <1>1, <1>2, <1>3, <2>4, SendOther DEF Chain
    <3>2. None(to_server', {"$"}) => None(to_server, {"$"})
      BY <1>1, <1>2, AppendKinds
    <3> QED BY <1>1, <2>2, <2>4, <3>1, <3>2 DEF Chain
  <2> QED BY <2>1, <2>3, <2>4
<1> QED BY <1>1, <1>4, <1>5, <1>6 DEF OnceInv, Phases

LEMMA OnceClientLeaves ==
  ASSUME TypeOK, OnceInv, ClientLeaves
  PROVE  OnceInv'
<1>1. /\ client'.state = "gone" /\ client'.id = client.id /\ client'.acks = client.acks
      /\ UNCHANGED <<to_server, to_client, phase, reply, no_ack_mode, serving, executed>>
  BY DEF ClientLeaves, serverVars, TypeOK, Clients
<1>2. Phases'
  BY <1>1, PhasesSame, OnceParts
<1> QED BY <1>1, <1>2 DEF OnceInv, Phases, InTurn, Chain, Doomed

(* The server takes an acknowledgement from the queue.                     *)
LEMMA TakeOther ==
  ASSUME TypeOK, to_server # << >>, Head(to_server).kind # "$", to_server' = Tail(to_server),
         UNCHANGED <<to_client, client, serving, executed>>
  PROVE  /\ InTurn => InTurn' 
         /\ Chain => Chain'
         /\ AcksFirst(to_server) => AcksFirst(to_server')
<1>1. to_server \in Seq(Messages(AllCommands)) /\ Head(to_server).kind \notin {"$"}
  BY DEF TypeOK
<1>2. /\ One(to_server, {"$"}) => One(to_server', {"$"})
      /\ None(to_server, {"$"}) <=> None(to_server', {"$"})
  BY <1>1, TailKinds
<1>3. /\ EndsWith(to_server, client.id) => EndsWith(to_server', client'.id)
      /\ Fresh(to_server, serving, executed) => Fresh(to_server', serving', executed')
      /\ Alternate(to_server) => Alternate(to_server')
      /\ AcksFirst(to_server) => AcksFirst(to_server')
  BY <1>1, TailChain
<1> QED BY <1>2, <1>3 DEF InTurn, Chain

LEMMA OnceHandshake ==
  ASSUME TypeOK, OnceInv, Handshake
  PROVE  OnceInv'
<1>1. /\ phase = "connecting" /\ UNCHANGED <<to_client, client, serving, executed>>
      /\ \/ phase' = "closed"
         \/ /\ phase' = "reading" /\ to_server # << >> /\ Head(to_server) = Ack
            /\ to_server' = Tail(to_server)
  BY DEF Handshake, Terminate
<1>2. Phases'
  BY <1>1, OnceParts DEF Phases, ExecutedOnce
<1>3. ASSUME phase' # "closed" PROVE Pending'
  <2>1. Pending /\ ~Doomed
    BY <1>1, OnceParts DEF Doomed
  <2>2. (InTurn => InTurn') /\ (Chain => Chain') /\ (AcksFirst(to_server) => AcksFirst(to_server'))
    BY <1>1, <1>3, TakeOther, Characters
  <2> QED BY <1>1, <2>1, <2>2 DEF Pending
<1> QED BY <1>1, <1>2, <1>3 DEF OnceInv, Phases, Pending

(* A packet is never mistaken for an acknowledgement, but by a server that *)
(* is not going to read another.                                           *)
LEMMA OnceReadAck ==
  ASSUME TypeOK, OnceInv, ReadAck
  PROVE  OnceInv'
<1>1. /\ phase = "acking" /\ UNCHANGED <<to_client, client, serving, executed>>
      /\ to_server' = IF to_server = << >> THEN to_server ELSE Tail(to_server)
      /\ ~no_ack_mode
  BY DEF ReadAck, TakeAck, OnceInv
<1>2. \/ /\ phase' \in {"reading", "closed"} /\ reply' = NoReply
         /\ Acknowledged \/ phase' = "closed"
      \/ phase' = "replying" /\ UNCHANGED <<no_ack_mode, reply>> /\ ~Acknowledged
  BY DEF ReadAck, Responded, SendAgain
<1>3. Phases'
  BY <1>1, <1>2, OnceParts DEF Phases, ExecutedOnce
<1>4. to_server \in Seq(Messages(AllCommands)) /\ client.acks \in BOOLEAN
  BY DEF TypeOK, Clients
<1>5. ASSUME phase' # "closed" PROVE Pending'
  <2>1. Pending
    BY <1>1, OnceParts
  <2>2. CASE to_server = << >>
    <3>1. to_server' = to_server /\ phase' = "replying" /\ UNCHANGED no_ack_mode
      BY <1>1, <1>2, <1>5, <2>2 DEF Acknowledged
    <3> QED BY <1>1, <2>1, <3>1 DEF Pending, InTurn, Chain, Doomed
  <2>3. CASE to_server # << >> /\ Doomed /\ ~client.acks
    <3>1. 1 \in DOMAIN to_server /\ Head(to_server) = to_server[1]
      BY <1>4, <2>3, AtTail
    <3>2. phase' = "replying" /\ UNCHANGED no_ack_mode /\ to_server' = Tail(to_server)
      BY <1>1, <1>2, <1>5, <2>3, <3>1 DEF Acknowledged, Doomed
    <3>3. \A i \in DOMAIN to_server' : to_server'[i] # Ack
      BY <1>4, <2>3, <3>2, AtTail DEF Doomed
    <3>4. AcksFirst(to_server')
      BY <1>4, <2>1, <2>3, <3>2, TailChain DEF Pending
    <3> QED BY <1>1, <2>3, <3>2, <3>3, <3>4 DEF Pending, Doomed
  <2>4. CASE to_server # << >> /\ (client.acks \/ ~Doomed) /\ Head(to_server).kind # "$"
    BY <1>1, <2>1, <2>4, TakeOther DEF Pending
  <2>5. CASE to_server # << >> /\ (client.acks \/ ~Doomed) /\ Head(to_server).kind = "$"
    <3>1. phase' = "replying" /\ UNCHANGED no_ack_mode /\ to_server' = Tail(to_server)
      BY <1>1, <1>2, <1>5, <2>5, Characters DEF Acknowledged
    <3>2. CASE client.acks
      <4>1. InTurn /\ 1 \in DOMAIN to_server /\ Head(to_server) = to_server[1]
        BY <1>4, <2>1, <2>5, <3>2, AtTail DEF Pending
      <4>2. None(to_server', {"$"}) /\ ~None(to_server, {"$"})
        BY <1>4, <2>5, <3>1, <4>1, TailKinds DEF InTurn, None
      <4>3. /\ One(to_server', {"$"}) /\ EndsWith(to_server', client'.id)
            /\ Fresh(to_server', serving', executed')
        BY <4>2, NonePending
      <4> QED BY <1>1, <3>2, <4>1, <4>2, <4>3 DEF Pending, InTurn
    <3>3. CASE ~client.acks
      <4>1. AcksFirst(to_server)
        BY <2>1, <3>3 DEF Pending
      <4>2. \A i \in DOMAIN to_server' : to_server'[i] # Ack
        BY <1>4, <2>5, <3>1, <4>1, ReadChain
      <4>3. AcksFirst(to_server')
        BY <1>4, <2>5, <3>1, <4>1, TailChain
      <4> QED BY <1>1, <3>1, <3>3, <4>2, <4>3 DEF Pending, Doomed
    <3> QED BY <3>2, <3>3
  <2> QED BY <2>2, <2>3, <2>4, <2>5
<1> QED BY <1>1, <1>3, <1>5 DEF OnceInv, Phases, Pending

LEMMA OnceRespond ==
  ASSUME TypeOK, OnceInv, NEW intact \in BOOLEAN, Respond(intact)
  PROVE  OnceInv'
<1> DEFINE p == Packet(reply.text, serving, intact)
<1>1. /\ phase = "replying" /\ UNCHANGED <<to_server, client, serving, executed>>
      /\ to_client' = Append(to_client, p)
      /\ \/ no_ack_mode /\ phase' \in {"reading", "closed"}
         \/ ~no_ack_mode /\ phase' = "acking" /\ UNCHANGED <<reply, no_ack_mode>>
  BY DEF Respond, Responded, AwaitAck
<1>2. p.kind = "$" /\ p # Nack /\ p.kind \notin Signs
  BY Packets DEF Signs
<1>3. to_client \in Seq(Messages(Texts))
  BY DEF TypeOK
<1> HIDE DEF p
<1>4. Phases'
  BY <1>1, OnceParts DEF Phases, ExecutedOnce
<1>5. Pending
  BY <1>1, OnceParts
<1>6. /\ None(to_client, Signs) => None(to_client', Signs)
      /\ One(to_client, Signs) => One(to_client', Signs)
  BY <1>1, <1>2, <1>3, AppendKinds
<1>7. \A i \in DOMAIN to_client' : (\E j \in DOMAIN to_client : to_client'[i] = to_client[j]) \/ to_client'[i] = p
  <2> TAKE i \in DOMAIN to_client'
  <2>1. i \in 1 .. Len(to_client) \/ i = Len(to_client) + 1
    BY <1>1, <1>3, AtEnd
  <2> QED BY <1>1, <1>3, <2>1, AtEnd
<1>8. InTurn => InTurn'
  BY <1>1, <1>2, <1>6, <1>7 DEF InTurn
<1>9. Chain \/ Doomed => Chain' \/ Doomed'
  BY <1>1 DEF Chain, Doomed
<1> QED BY <1>1, <1>4, <1>5, <1>8, <1>9, OnceParts DEF OnceInv, Phases, Pending

LEMMA OnceOther ==
  ASSUME TypeOK, OnceInv, ReadOther \/ WaitReturns \/ CoreHalts \/ UNCHANGED vars
  PROVE  OnceInv'
<1>1. UNCHANGED <<to_server, to_client, client, no_ack_mode, serving, executed>>
  BY DEF ReadOther, WaitReturns, CoreHalts, vars, serverVars
<1>2. \/ phase' = "closed"
      \/ phase = "waiting" /\ phase' = "replying"
      \/ UNCHANGED <<phase, reply>>
  BY DEF ReadOther, Terminate, WaitReturns, SayHaltReason, VContReport, Say, CoreHalts, vars, serverVars
<1>3. Phases'
  BY <1>1, <1>2, OnceParts DEF Phases, ExecutedOnce
<1>4. phase' # "closed" => phase # "closed" /\ (Doomed => Doomed')
  BY <1>1, <1>2 DEF Doomed
<1> QED BY <1>1, <1>3, <1>4 DEF OnceInv, Phases, InTurn, Chain

(* A command is read that has not been executed yet.                       *)
LEMMA OnceReadCommand ==
  ASSUME TypeOK, OnceInv, ReadCommand
  PROVE  OnceInv'
<1> DEFINE p == Head(to_server)
<1>1. /\ phase = "reading" /\ to_server # << >> /\ p.kind = "$"
      /\ to_server' = Tail(to_server) /\ serving' = p.id
      /\ AcceptGdbCommand(p) /\ UNCHANGED <<client, no_ack_mode>>
  BY DEF ReadCommand
<1>2. /\ to_server \in Seq(Messages(AllCommands)) /\ to_client \in Seq(Messages(Texts))
      /\ client.acks \in BOOLEAN
  BY DEF TypeOK, Clients
<1>3. /\ IF client.acks THEN InTurn ELSE AcksFirst(to_server) /\ Chain
      /\ Fresh(to_server, serving, executed) /\ EndsWith(to_server, client.id)
  BY <1>1 DEF OnceInv, InTurn, Chain, Doomed
<1>4. Before(p) = 0
  BY <1>1, <1>2, <1>3, ReadChain DEF Before
<1>5. p.contents \in AllCommands
  BY <1>1, <1>2, Queues, PacketTypes
<1>6. 1 \in DOMAIN to_server /\ p = to_server[1]
  BY <1>1, <1>2, AtTail
<1> HIDE DEF p
<1>7. \/ executed' = 1 /\ phase' \in {"reading", "replying", "waiting", "closed"}
      \/ executed' = 0 /\ phase' = "reading"
      \/ executed' = 0 /\ phase' = "replying" /\ reply'.text = "E."
  BY <1>1, <1>4, <1>5, ParseTyped DEF AcceptGdbCommand, Handled, Answer, Say
<1>8. \/ to_client' = to_client
      \/ to_client' = Append(to_client, Ack)
      \/ to_client' = Append(to_client, Nack) /\ executed' = 0
  BY <1>1, <1>4 DEF AcceptGdbCommand
<1>9. Phases'
  BY <1>7 DEF Phases, ExecutedOnce
<1>10. CASE client.acks
  <2>1. InTurn
    BY <1>3, <1>10
  <2>2. None(to_server', {"$"}) /\ ~None(to_server, {"$"})
    BY <1>1, <1>2, <1>6, <2>1, TailKinds DEF p, InTurn, None
  <2>3. serving' = client.id
    BY <1>1, <1>2, <1>3, <2>2, ReadChain DEF p
  <2>4. client.state \in {"sent", "gone"}
    BY <2>1, <2>2 DEF InTurn, TypeOK, Clients
  <2>5. /\ One(to_server', {"$"}) /\ EndsWith(to_server', client'.id)
        /\ Fresh(to_server', serving', executed')
    BY <2>2, NonePending
  <2>6. ASSUME client.state = "sent"
        PROVE  One(to_client', Signs) /\ \A i \in DOMAIN to_client' : to_client'[i] = Nack => executed' = 0
    <3>1. None(to_client, Signs)
      BY <2>1, <2>2, <2>6 DEF InTurn
    <3>2. Nack.kind \in Signs /\ Ack.kind \in Signs /\ Ack # Nack
      BY Characters DEF Signs
    <3>3. CASE to_client' = to_client
      BY <3>1, <3>2, <3>3 DEF None, One
    <3>4. CASE to_client' = Append(to_client, Nack) /\ executed' = 0
      BY <1>2, <3>1, <3>4, AppendKinds
    <3>5. CASE to_client' = Append(to_client, Ack)
      <4>1. One(to_client', Signs)
        BY <1>2, <3>1, <3>5, AppendKinds
      <4>2. ASSUME NEW i \in DOMAIN to_client' PROVE to_client'[i] # Nack
        <5>1. i \in 1 .. Len(to_client) \/ i = Len(to_client) + 1
          BY <1>2, <3>5, <4>2, AtEnd
        <5> QED BY <1>2, <3>1, <3>2, <3>5, <5>1, AtEnd DEF None
      <4> QED BY <4>1, <4>2
    <3> QED BY <1>8, <3>3, <3>4, <3>5
  <2>7. InTurn'
    BY <1>1, <2>2, <2>3, <2>4, <2>5, <2>6 DEF InTurn
  <2> QED BY <1>1, <1>9, <1>10, <2>7 DEF OnceInv, Phases
<1>11. CASE ~client.acks
  <2>1. AcksFirst(to_server) /\ Chain
    BY <1>3, <1>11
  <2>2. /\ AcksFirst(to_server') /\ Alternate(to_server') /\ EndsWith(to_server', client'.id)
    BY <1>1, <1>2, <2>1, TailChain DEF p, Chain
  <2>3. Fresh(to_server', serving', executed')
    BY <1>1, <1>2, <2>1, ReadChain DEF p, Chain
  <2>4. None(to_server', {"$"}) => serving' = client'.id
    BY <1>1, <1>2, <1>3, ReadChain DEF p
  <2>5. Chain'
    BY <2>2, <2>3, <2>4 DEF Chain
  <2> QED BY <1>1, <1>9, <1>11, <2>2, <2>5, OnceParts DEF OnceInv, Phases
<1> QED BY <1>2, <1>10, <1>11

(* In any session, also one in which the debugger interrupts and the core  *)
(* refuses, a command is executed at most once, and answered as done only  *)
(* if it was (AcceptGdbCommand()).                                         *)
THEOREM Once ==
  Spec => []ExecutedOnce
<1>1. ASSUME TypeOK, OnceInv, [Next]_vars PROVE OnceInv'
  <2>1. ASSUME NEW c \in Commands \cup RoughCommands, NEW b \in BOOLEAN, ClientSend(c, b) PROVE OnceInv'
    BY <1>1, <2>1, OnceClientSend DEF AllCommands
  <2>2. CASE Client
    BY <1>1, <2>2, OnceClientReadAck, OnceClientReadResponse, OnceClientIgnoresPacket,
       OnceClientResend DEF Client
  <2>3. CASE ClientInterrupts \/ ClientLeaves
    BY <1>1, <2>3, OnceClientInterrupts, OnceClientLeaves
  <2>4. CASE CoreHalts \/ UNCHANGED vars
    BY <1>1, <2>4, OnceOther
  <2>5. CASE Server
    BY <1>1, <2>5, OnceHandshake, OnceReadCommand, OnceOther, OnceReadAck, OnceRespond DEF Server
  <2> QED BY <1>1, <2>1, <2>2, <2>3, <2>4, <2>5 DEF Next
<1>2. OnceInv => ExecutedOnce
  BY DEF OnceInv
<1> QED BY <1>1, <1>2, InitOnce, TypeInvariant, PTL DEF Spec
=============================================================================
