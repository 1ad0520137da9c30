----------------------------- MODULE GdbServer -----------------------------
(***************************************************************************)
(* A session of the GDB server (mpact/sim/util/gdbserver/gdbserver.cc):    *)
(* the debugger sends a command packet, the server acknowledges it, runs   *)
(* its handler and sends one response, which the debugger acknowledges,    *)
(* until QStartNoAckMode does away with acknowledgements.                  *)
(*                                                                         *)
(* The two directions of the connection are queues.  A packet may arrive   *)
(* garbled, which its checksum shows; acknowledgements are single          *)
(* characters.  Commands and responses are named for what they are: "c",   *)
(* "data" for what was asked for, "E." for SendError(), "" for             *)
(* unsupported.  The id of a packet, one bit, tells its command.           *)
(***************************************************************************)
EXTENDS Integers, Sequences, FiniteSets, SequencesExt

CONSTANTS Commands,      \* bound: the commands sent in an orderly session, [op, parts]
          RoughCommands, \* bound: the commands sent in another
          HaltReasons,   \* the reasons for which the core halts by itself
          Attempts,      \* how often Respond() sends a packet
          MaxNoise       \* bound: packets garbled, and interrupts, in a session

ASSUME GdbServerAssumption ==
  /\ Attempts \in Nat \ {0} /\ MaxNoise \in Nat
  /\ "none" \notin HaltReasons
  /\ Commands \cup RoughCommands \subseteq
       [op : STRING, parts : Seq([action : {"c", "s"}, tid : Int])]
  /\ \A c \in Commands : \A i \in DOMAIN c.parts : c.parts[i].tid \in {-1, 1}

VARIABLES
  to_server, to_client,      \* the two directions of the connection
  client,                    \* the debugger: state, command, id, acks
  phase,                     \* where the server is in Connect()
  reply, attempts,           \* the response that is being sent, and how often it was
  handler,                   \* the handler that waits for the core
  no_ack_mode, no_ack_mode_latch,
  error_message_supported, thread_suffix, thread_select,
  halt_reason,               \* halt_reasons_[0]
  core,                      \* the core: running, reason of its last halt
  serving,                   \* history: the id of the command last read
  executed,                  \* history: how often the handler of that command ran
  closed,                    \* history: why the session ended
  noise,                     \* packets garbled and interrupts so far
  orderly                    \* the environment: the core does not refuse to tell its state,
                             \* and the debugger greets, uses the thread it was told of
                             \* and does not interrupt

serverVars == <<phase, reply, attempts, handler, no_ack_mode, no_ack_mode_latch,
                error_message_supported, thread_suffix, thread_select, halt_reason,
                serving, executed, closed>>
vars == <<to_server, to_client, client, serverVars, core, noise, orderly>>

NoCommand == [op |-> "none", parts |-> << >>]
NoReply == [text |-> "", last |-> FALSE]

Init ==
  /\ orderly \in BOOLEAN
  /\ to_server \in {<<[kind |-> "+"]>>} \cup (IF orderly THEN {} ELSE {<< >>})
  /\ to_client = << >>
  /\ client = [state |-> "idle", command |-> NoCommand, id |-> 0, acks |-> TRUE]
  /\ phase = "connecting"
  /\ reply = NoReply /\ attempts = 0 /\ handler = "none"
  /\ no_ack_mode = FALSE /\ no_ack_mode_latch = FALSE
  /\ error_message_supported = FALSE /\ thread_suffix = FALSE
  /\ thread_select = [t \in {"c", "g"} |-> 1]
  /\ halt_reason = "none"
  /\ core = [running |-> FALSE, reason |-> "none"]
  /\ serving = 0 /\ executed = 0 /\ closed = "no" /\ noise = 0

Ack == [kind |-> "+"]
Nack == [kind |-> "-"]
Interrupt == [kind |-> "interrupt"]
Packet(contents, id, intact) == [kind |-> "$", contents |-> contents, id |-> id, intact |-> intact]

(* A packet is garbled on the way, as long as there is noise left.         *)
Garble(intact) ==
  /\ intact \/ noise < MaxNoise
  /\ noise' = IF intact THEN noise ELSE noise + 1

-----------------------------------------------------------------------------
(* The debugger.  It has one command under way at a time.                  *)
ClientSend(command, intact) ==
  LET id == 1 - client.id IN
  /\ client.state = "idle" /\ closed = "no"
  /\ command \in IF orderly THEN Commands ELSE RoughCommands
  /\ Garble(intact)
  /\ to_server' = Append(to_server, Packet(command, id, intact))
  /\ client' = [client EXCEPT !.state = IF client.acks THEN "sent" ELSE "awaiting",
                              !.command = command, !.id = id]
  /\ UNCHANGED <<to_client, serverVars, core, orderly>>

(* It sends the command again if asked to.                                 *)
ClientResend(intact) ==
  /\ client.state = "sent"
  /\ to_client # << >> /\ Head(to_client) = Nack
  /\ Garble(intact)
  /\ to_client' = Tail(to_client)
  /\ to_server' = Append(to_server, Packet(client.command, client.id, intact))
  /\ UNCHANGED <<client, serverVars, core, orderly>>

ClientReadAck ==
  /\ client.state = "sent"
  /\ to_client # << >> /\ Head(to_client) = Ack
  /\ to_client' = Tail(to_client)
  /\ client' = [client EXCEPT !.state = "awaiting"]
  /\ UNCHANGED <<to_server, serverVars, core, noise, orderly>>

ClientReadResponse ==
  LET p == Head(to_client)
      quiet == client.command.op = "QStartNoAckMode" /\ p.contents = "OK"
  IN
  /\ client.state \in {"idle", "awaiting"}
  /\ to_client # << >> /\ p.kind = "$"
  /\ to_client' = Tail(to_client)
  /\ to_server' = IF client.acks THEN Append(to_server, IF p.intact THEN Ack ELSE Nack) ELSE to_server
  /\ client' = IF p.intact \/ ~client.acks
               THEN [client EXCEPT !.state = "idle", !.command = NoCommand, !.acks = @ /\ ~quiet]
               ELSE client
  /\ UNCHANGED <<serverVars, core, noise, orderly>>

(* A packet where an acknowledgement should be is acknowledged and ignored.*)
ClientIgnoresPacket ==
  /\ client.state = "sent"
  /\ to_client # << >> /\ Head(to_client).kind = "$"
  /\ to_client' = Tail(to_client)
  /\ to_server' = Append(to_server, Ack)
  /\ UNCHANGED <<client, serverVars, core, noise, orderly>>

ClientInterrupts ==
  /\ ~orderly
  /\ client.state = "awaiting" /\ noise < MaxNoise
  /\ to_server' = Append(to_server, Interrupt)
  /\ noise' = noise + 1
  /\ UNCHANGED <<to_client, client, serverVars, core, orderly>>

ClientLeaves ==
  /\ client.state # "gone" /\ closed = "no"
  /\ client' = [client EXCEPT !.state = "gone", !.command = NoCommand]
  /\ UNCHANGED <<to_server, to_client, serverVars, core, noise, orderly>>

-----------------------------------------------------------------------------
(* The core runs until something halts it; a program that is done does not *)
(* run again.                                                              *)
CoreHalts ==
  /\ core.running
  /\ \E r \in HaltReasons : core' = [running |-> FALSE, reason |-> r]
  /\ UNCHANGED <<to_server, to_client, client, serverVars, noise, orderly>>

CoreStates == [running : BOOLEAN, reason : HaltReasons \cup {"none"}]

CoreRun == core' = IF core.reason = "done" THEN core ELSE [core EXCEPT !.running = TRUE]

CoreStep ==
  \E r \in HaltReasons \cup {"none"} :
    /\ core.reason = "done" => r = "done"
    /\ core' = [core EXCEPT !.reason = r]

-----------------------------------------------------------------------------
(* What a handler does last: Respond(text), after which D ends the session.*)
Say(text) ==
  /\ phase' = "replying"
  /\ reply' = [text |-> text, last |-> FALSE]
  /\ handler' = "none"
  /\ UNCHANGED <<attempts, closed>>

Settings == <<no_ack_mode_latch, error_message_supported, thread_suffix, thread_select>>

Answer(texts) ==
  /\ \E t \in texts : Say(t)
  /\ UNCHANGED <<Settings, halt_reason, core>>

(* The form of an error, for the handlers that heed qSupported.            *)
Error == IF error_message_supported THEN "E." ELSE "E01"

(* GetHaltReason() and the end of GdbVContinue(): the stop replies.        *)
HaltReply(r) ==
  CASE r \in {"swbreak", "hwbreak", "watch", "action"} -> "T02"
    [] r = "simerror" -> "T06"
    [] r = "user" -> "T03"
    [] r \in {"done", "semihost"} -> "W00"
    [] OTHER -> "T05"

VContReply(r) ==
  CASE r \in {"action", "simerror"} -> "T06"
    [] r = "user" -> "T03"
    [] r \in {"done", "semihost"} -> "W00"
    [] OTHER -> "T05"

SayHaltReason ==
  \/ Say("E01") /\ UNCHANGED halt_reason
  \/ Say(HaltReply(core.reason)) /\ halt_reason' = core.reason

GdbHaltReason == SayHaltReason /\ UNCHANGED <<Settings, core>>

(* Handlers whose effect, if any, is in the core.                          *)
GdbReadMemory == Answer({"data", Error})
GdbWriteMemory == Answer({"OK", Error})
GdbReadGprRegisters == Answer({"data", "E."})
GdbWriteGprRegisters == Answer({"OK", "E."})
GdbReadRegister == Answer({"data", "E."})
GdbWriteRegister == Answer({"OK", "E."})
GdbAddBreakpoint == Answer({"OK", "", "E."})
GdbRemoveBreakpoint == Answer({"OK", "", "E."})
GdbQuery == Answer({"data", ""})
Unsupported == Answer({"", "E."})

(* Handlers that change how the session goes on.                           *)
GdbSupported ==
  /\ Say("data")
  /\ error_message_supported' \in {error_message_supported, TRUE}
  /\ UNCHANGED <<no_ack_mode_latch, thread_suffix, thread_select, halt_reason, core>>

StartNoAckMode ==
  /\ Say("OK")
  /\ no_ack_mode_latch' = TRUE
  /\ UNCHANGED <<error_message_supported, thread_suffix, thread_select, halt_reason, core>>

ThreadSuffixSupported ==
  /\ Say("OK")
  /\ thread_suffix' = TRUE
  /\ UNCHANGED <<no_ack_mode_latch, error_message_supported, thread_select, halt_reason, core>>

ThreadIds == IF orderly THEN {1} ELSE {1, 2}

GdbSelectThread ==
  \/ Answer({"E."})
  \/ /\ Say("OK")
     /\ \E t \in {"c", "g"}, id \in ThreadIds : thread_select' = [thread_select EXCEPT ![t] = id]
     /\ UNCHANGED <<no_ack_mode_latch, error_message_supported, thread_suffix, halt_reason, core>>

Terminate(why) ==
  /\ phase' = "closed" /\ closed' = why
  /\ UNCHANGED <<reply, attempts, handler>>

GdbKill == Terminate("client") /\ UNCHANGED <<Settings, halt_reason, core>>

GdbDetach ==
  /\ phase' = "replying" /\ reply' = [text |-> "OK", last |-> TRUE]
  /\ UNCHANGED <<attempts, handler, closed, Settings, halt_reason, core>>

-----------------------------------------------------------------------------
(* The thread of a command: its suffix, or the one selected.  There is one *)
(* core, and its index is not checked.                                     *)
GetThreadId(type) == IF thread_suffix THEN ThreadIds ELSE {thread_select[type]}

OnThread(type, Handler) ==
  \/ 1 \in GetThreadId(type) /\ Handler
  \/ GetThreadId(type) # {1} /\ Terminate("crash") /\ UNCHANGED <<Settings, halt_reason, core>>

(* Wait() for the core, then the response.                                 *)
AwaitCore(who) ==
  /\ phase' = "waiting" /\ handler' = who
  /\ UNCHANGED <<reply, attempts, closed, Settings, halt_reason>>

(* GdbContinue(): nothing happens, nor is anything answered, if the core   *)
(* is running.                                                             *)
GdbContinue ==
  \/ halt_reason = "done" /\ Answer({"W00"})
  \/ halt_reason # "done" /\ ~core.running /\ Answer({"E."})
  \/ halt_reason # "done" /\ ~core.running /\ CoreRun /\ AwaitCore("c")
  \/ /\ halt_reason # "done" /\ core.running
     /\ phase' = "reading"
     /\ UNCHANGED <<reply, attempts, handler, closed, Settings, halt_reason, core>>

GdbStep ==
  \/ Answer({"E."})
  \/ ~core.running /\ CoreStep /\ Say("T05") /\ UNCHANGED <<Settings, halt_reason>>

(* ContinueThread() and StepThread(), as functions of the core.            *)
Resumed(c, action) ==
  IF halt_reason = "done" \/ c.running \/ c.reason = "done" THEN {c}
  ELSE IF action = "c" THEN {c, [c EXCEPT !.running = TRUE]}
  ELSE {c} \cup {[c EXCEPT !.reason = r] : r \in HaltReasons \cup {"none"}}

(* GdbVContinue(): the parts in turn, up to one with a bad thread.  There  *)
(* is one core; thread 0 passes the check and is out of bounds.            *)
GoodParts(parts) ==
  LET bad == {i \in DOMAIN parts : parts[i].tid \notin {-1, 1}}
  IN  IF bad = {} THEN parts ELSE SubSeq(parts, 1, (CHOOSE i \in bad : \A j \in bad : i <= j) - 1)

BadPart(parts) == parts[Len(GoodParts(parts)) + 1]

(* Each part finds the core as the part before it left it.                 *)
AfterParts(parts) ==
  {run[Len(parts)] : run \in
     {f \in [0 .. Len(parts) -> CoreStates] :
        f[0] = core /\ \A i \in DOMAIN parts : f[i] \in Resumed(f[i - 1], parts[i].action)}}

VContWaits(parts) ==
  /\ parts # << >> /\ GoodParts(parts) = parts
  /\ core' \in AfterParts(parts)
  /\ AwaitCore("vCont")

GdbVContinueNoWait(parts) ==
  /\ core' \in AfterParts(parts)
  /\ Say("T05")
  /\ UNCHANGED <<Settings, halt_reason>>

GdbVContinue(parts) ==
  \/ parts = << >> /\ Answer({"data", "E."})
  \/ VContWaits(parts)
  \/ /\ GoodParts(parts) # parts
     /\ core' \in AfterParts(GoodParts(parts))
     /\ IF BadPart(parts).tid = 0 THEN Terminate("crash") ELSE Say("E.")
     /\ UNCHANGED <<Settings, halt_reason>>

VContReportStale ==
  /\ Say(VContReply(halt_reason))
  /\ halt_reason' = core.reason

(* The end of GdbVContinue(): the reason is read once more, unless the     *)
(* program is done.                                                        *)
VContReport ==
  \/ halt_reason = "done" /\ Say("W00") /\ UNCHANGED halt_reason
  \/ /\ halt_reason # "done"
     /\ halt_reason' = core.reason
     /\ \/ Say(VContReply(core.reason))
        \/ core.reason \notin {"done", "semihost"} /\ Say("E01")
  \/ /\ ~orderly /\ halt_reason # "done"
     /\ Say(IF halt_reason = "semihost" THEN "W00" ELSE "T05")
     /\ UNCHANGED halt_reason

(* Wait() returns, when the core has halted or, for an error, before, which*)
(* GdbVContinue() ignores.                                                 *)
WaitReturns ==
  /\ phase = "waiting"
  /\ \/ ~core.running /\ handler = "c" /\ SayHaltReason
     \/ ~orderly /\ handler = "c" /\ Say("E.") /\ UNCHANGED halt_reason
     \/ (~core.running \/ ~orderly) /\ handler = "vCont" /\ VContReport
  /\ UNCHANGED <<to_server, to_client, client, no_ack_mode, Settings, serving, executed, core,
                 noise, orderly>>

-----------------------------------------------------------------------------
(* ParseGdbCommand().                                                      *)
ParseGdbCommand(command) ==
  \/ command.op = "?" /\ GdbHaltReason
  \/ command.op = "c" /\ OnThread("c", GdbContinue)
  \/ command.op = "s" /\ OnThread("c", GdbStep)
  \/ command.op = "vCont" /\ GdbVContinue(command.parts)
  \/ command.op = "g" /\ OnThread("g", GdbReadGprRegisters)
  \/ command.op = "G" /\ OnThread("g", GdbWriteGprRegisters)
  \/ command.op = "p" /\ OnThread("g", GdbReadRegister)
  \/ command.op = "P" /\ OnThread("g", GdbWriteRegister)
  \/ command.op = "m" /\ GdbReadMemory
  \/ command.op = "M" /\ GdbWriteMemory
  \/ command.op = "Z0" /\ GdbAddBreakpoint
  \/ command.op = "z0" /\ GdbRemoveBreakpoint
  \/ command.op = "H" /\ GdbSelectThread
  \/ command.op = "q" /\ GdbQuery
  \/ command.op = "qSupported" /\ GdbSupported
  \/ command.op = "QStartNoAckMode" /\ StartNoAckMode
  \/ command.op = "QThreadSuffixSupported" /\ ThreadSuffixSupported
  \/ command.op = "D" /\ GdbDetach
  \/ command.op = "k" /\ GdbKill
  \/ command.op = "unknown" /\ Unsupported

(* AcceptGdbCommand(), on a packet that was read: garbled, the debugger is *)
(* asked for it again, or told if there are no acknowledgements.  The      *)
(* commands here have no escaped characters, which UnescapeCommand() would *)
(* double.                                                                 *)
Before(p) == IF p.id = serving THEN executed ELSE 0

AcceptEagerly(p) ==
  /\ to_client' = IF no_ack_mode THEN to_client
                  ELSE Append(to_client, IF p.intact THEN Ack ELSE Nack)
  /\ ParseGdbCommand(p.contents)
  /\ executed' = Before(p) + 1

AcceptGdbCommand(p) ==
  \/ /\ p.intact
     /\ to_client' = IF no_ack_mode THEN to_client ELSE Append(to_client, Ack)
     /\ ParseGdbCommand(p.contents)
     /\ executed' = Before(p) + 1
  \/ /\ ~p.intact /\ ~no_ack_mode
     /\ to_client' = Append(to_client, Nack)
     /\ executed' = Before(p)
     /\ UNCHANGED <<phase, reply, attempts, handler, closed, Settings, halt_reason, core>>
  \/ /\ ~p.intact /\ no_ack_mode
     /\ Answer({"E."})
     /\ executed' = Before(p)
     /\ UNCHANGED to_client

ReadCommand ==
  /\ phase = "reading"
  /\ to_server # << >> /\ Head(to_server).kind = "$"
  /\ to_server' = Tail(to_server)
  /\ serving' = Head(to_server).id
  /\ AcceptGdbCommand(Head(to_server))
  /\ UNCHANGED <<client, no_ack_mode, noise, orderly>>

(* The debugger greets with a plus.                                        *)
Handshake ==
  /\ phase = "connecting"
  /\ \/ /\ to_server # << >> /\ Head(to_server) = Ack
        /\ phase' = "reading" /\ UNCHANGED <<closed, reply, attempts, handler>>
     \/ to_server # << >> /\ Head(to_server) # Ack /\ Terminate("handshake")
     \/ to_server = << >> /\ client.state = "gone" /\ Terminate("handshake")
  /\ to_server' = IF to_server = << >> THEN to_server ELSE Tail(to_server)
  /\ UNCHANGED <<to_client, client, no_ack_mode, Settings, halt_reason, core, serving, executed,
                 noise, orderly>>

(* Any other character where a packet should begin, or none.               *)
ReadOther ==
  /\ phase = "reading"
  /\ \/ to_server # << >> /\ Head(to_server).kind # "$" /\ Terminate("desync")
     \/ to_server = << >> /\ client.state = "gone" /\ Terminate("client")
  /\ UNCHANGED <<to_server, to_client, client, no_ack_mode, Settings, halt_reason, core,
                 serving, executed, noise, orderly>>

(* Respond(): the packet is sent, up to Attempts times, until a plus comes *)
(* back; only then a change of mode takes effect.                          *)
Responded(why) ==
  /\ closed' = IF why # "no" THEN why ELSE IF reply.last THEN "client" ELSE "no"
  /\ phase' = IF closed' = "no" THEN "reading" ELSE "closed"
  /\ no_ack_mode' = no_ack_mode_latch
  /\ reply' = NoReply /\ attempts' = 0

AwaitAck ==
  /\ phase' = "acking" /\ attempts' = attempts + 1
  /\ UNCHANGED <<closed, no_ack_mode, reply>>

RespondUnlatched(intact) ==
  /\ phase = "replying"
  /\ ~client.acks => intact
  /\ Garble(intact)
  /\ to_client' = Append(to_client, Packet(reply.text, serving, intact))
  /\ IF no_ack_mode_latch THEN Responded("no") ELSE AwaitAck
  /\ UNCHANGED <<to_server, client, handler, Settings, halt_reason, core, serving,
                 executed, orderly>>

Respond(intact) ==
  /\ phase = "replying"
  /\ ~client.acks => intact
  /\ Garble(intact)
  /\ to_client' = Append(to_client, Packet(reply.text, serving, intact))
  /\ IF no_ack_mode THEN Responded("no") ELSE AwaitAck
  /\ UNCHANGED <<to_server, client, handler, Settings, halt_reason, core, serving,
                 executed, orderly>>

(* One character is read in answer; a debugger that is gone answers none.  *)
TakeAck ==
  /\ phase = "acking"
  /\ to_server # << >> \/ client.state = "gone"
  /\ to_server' = IF to_server = << >> THEN to_server ELSE Tail(to_server)
  /\ UNCHANGED <<to_client, client, handler, Settings, halt_reason, core, serving, executed,
                 noise, orderly>>

Acknowledged == to_server # << >> /\ Head(to_server) = Ack

SendAgain == phase' = "replying" /\ UNCHANGED <<closed, no_ack_mode, reply, attempts>>

ReadAckTrusting == TakeAck /\ Responded("no")

ReadAckNoBreak ==
  /\ TakeAck
  /\ IF attempts < Attempts THEN SendAgain
     ELSE Responded(IF Acknowledged THEN "no" ELSE "retries")

ReadAck ==
  /\ TakeAck
  /\ IF Acknowledged THEN Responded("no")
     ELSE IF attempts < Attempts THEN SendAgain ELSE Responded("retries")

Server ==
  \/ Handshake \/ ReadCommand \/ ReadOther \/ WaitReturns \/ ReadAck
  \/ \E b \in BOOLEAN : Respond(b)

Client ==
  \/ ClientReadAck \/ ClientReadResponse \/ ClientIgnoresPacket
  \/ \E b \in BOOLEAN : ClientResend(b)

Next ==
  \/ \E c \in Commands \cup RoughCommands, b \in BOOLEAN : ClientSend(c, b)
  \/ Client \/ ClientInterrupts \/ ClientLeaves
  \/ CoreHalts
  \/ Server

Spec == Init /\ [][Next]_vars

(* The server's loop runs, and the debugger reads what it is sent.  The    *)
(* program need not ever halt.                                             *)
FairSpec == Spec /\ WF_vars(Server) /\ WF_vars(Client)

-----------------------------------------------------------------------------
(* The two sides never lose step: neither garbled packets and the          *)
(* retransmissions they cause, in either direction, nor the change to      *)
(* no-ack mode, nor any command ever makes the server meet an              *)
(* acknowledgement where it expects a packet (Connect(), Respond(),        *)
(* no_ack_mode_latch_).                                                    *)
InStep == orderly => closed \notin {"desync", "handshake", "crash"}

(* A response under way to the debugger is the one to the command it has   *)
(* under way: none is left over from an earlier command, whatever was sent *)
(* again (AcceptGdbCommand(), Respond()).                                  *)
AnswersMatch ==
  orderly => \A p \in ToSet(to_client) :
                p.kind = "$" => p.id = client.id /\ client.state # "idle"

(* A command runs once: a garbled packet is asked for again before, not    *)
(* after its handler has run, so a step or a write is not repeated, and no *)
(* response says that something was done which was not                     *)
(* (AcceptGdbCommand()).                                                   *)
ExecutedOnce ==
  /\ executed <= 1
  /\ phase \in {"replying", "acking"} /\ reply.text # "E." => executed = 1

(* While the server reads, answers or is gone, the core is at rest: no     *)
(* command finds it running, so memory and registers are not read or       *)
(* written under a running program (GdbContinue(), GdbVContinue()).        *)
CoreAtRest == orderly /\ core.running => phase = "waiting"

(* The debugger is told that the program has exited exactly if it has, also*)
(* if it ended in a step whose own reply did not say so, and also if the   *)
(* reason the server keeps (halt_reasons_) is from an earlier halt         *)
(* (GetHaltReason(), GdbContinue(), GdbVContinue()).                       *)
StopRepliesTrue ==
  orderly /\ phase \in {"replying", "acking"} /\ serving = client.id /\ client.command.op \in {"?", "c", "vCont"}
          /\ reply.text \in {"W00", "T02", "T03", "T05", "T06"} =>
    (reply.text = "W00" <=> core.reason \in {"done", "semihost"})

(* Every command is answered, unless the program runs on, the debugger     *)
(* leaves or the session ends (Respond() retries, no path through a handler*)
(* is silent).                                                             *)
CommandAnswered ==
  orderly /\ client.state \in {"sent", "awaiting"} ~>
    client.state \in {"idle", "gone"} \/ core.running \/ phase = "closed"
=============================================================================
