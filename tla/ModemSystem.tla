---------------------------- MODULE ModemSystem ----------------------------
(***************************************************************************)
(* The modem radio of radio_manager as a whole: main() attaches and opens  *)
(* the HAL over the AT channel, then runs modem_events in a thread of its  *)
(* own; the channel's reader thread hands unsolicited lines to             *)
(* at_event_handler, which passes them to modem_events through a pipe      *)
(* (src/modem/modem_hal_main.cpp, src/common/radio_mgmr.cpp).              *)
(*                                                                         *)
(* main() and the event thread never use the channel at the same time, so  *)
(* one thread of AtChannel, Hal, stands for both.  The commands of         *)
(* modem_hal_connect are alike to the channel and the pipe: AT+CGREG?      *)
(* stands for them here, and ModemConnect has them all.                    *)
(***************************************************************************)
EXTENDS AtChannel

CONSTANTS
  Hal,                    \* the thread of main(), later of modem_events
  PipeCapacity            \* messages the kernel buffers in modem_fds

ASSUME SystemAssumption ==
  /\ Commanders = {Hal}
  /\ "+CGREG:" \in ResponsePrefixes
  /\ PipeCapacity \in Nat \ {0}

VARIABLES
  stage,                  \* where the HAL is, sc->state included
  asked,                  \* the command of this stage has been called
  quectel,                \* the answer to AT+GMI named the supported maker
  pipe,                   \* events between modem_fds[1] and modem_fds[0]
  handled                 \* history: the events modem_events has read

halVars == <<stage, asked, quectel, pipe, handled>>
sysVars == <<vars, halVars>>

modem_SystemEvent == {"MODEM_NO_EVENT", "MODEM_REGISTRATION_EVENT"}
radio_hal_msg_buffer == [event : modem_SystemEvent, mtext : Line]

Asking == {"handshake", "AT+GMI", "AT+GMM", "startup", "MODEM_INIT_STATE"}
Exited == {"failed", "crashed"}
Stages == Asking \cup Exited \cup {"attached", "serial_attach",
                                   "MODEM_IF_UP_STATE"}

(* Every variable has its type; the pipe is never fuller than it can be,    *)
(* and carries no event that modem_sStateMachine keeps for the start.       *)
SystemTypeOK ==
  /\ stage \in Stages /\ asked \in BOOLEAN /\ quectel \in BOOLEAN
  /\ pipe \in Seq(radio_hal_msg_buffer) /\ Len(pipe) <= PipeCapacity
  /\ handled \in Seq(radio_hal_msg_buffer)

SystemInit ==
  /\ Init
  /\ stage = "attached" /\ asked = FALSE /\ quectel = FALSE
  /\ pipe = << >> /\ handled = << >>

-----------------------------------------------------------------------------
(***************************************************************************)
(* The unsolicited handler, in the reader thread.                          *)
(***************************************************************************)
(* The message made of a line.  Of the events modem_events can read, only   *)
(* the registration event has a handler; MODEM_NO_EVENT stands for the      *)
(* others.                                                                  *)
MessageOf(l) ==
  [event |-> IF l.prefix = "+CGREG:" THEN "MODEM_REGISTRATION_EVENT"
             ELSE "MODEM_NO_EVENT",
   mtext |-> l]

(* Mutant: the pipe is left in blocking mode.                               *)
at_event_handler_Blocking ==
  IF unsol' = unsol
  THEN UNCHANGED pipe
  ELSE /\ Len(pipe) < PipeCapacity
       /\ pipe' = Append(pipe, MessageOf(unsol'[Len(unsol) + 1]))

(* One message for each call (an SMS notification has two lines and is one  *)
(* call).  The pipe is not blocking, and a message it has no room for is    *)
(* dropped: write returns -1, which the test of retval does not notice.     *)
at_event_handler ==
  IF unsol' = unsol \/ Len(pipe) = PipeCapacity
  THEN UNCHANGED pipe
  ELSE pipe' = Append(pipe, MessageOf(unsol'[Len(unsol) + 1]))

(* A step inside the channel, with the handler it calls.                    *)
ChannelStep(A) ==
  /\ stage \notin Exited
  /\ A
  /\ at_event_handler
  /\ UNCHANGED <<stage, asked, quectel, handled>>

-----------------------------------------------------------------------------
(***************************************************************************)
(* main() and modem_events.                                                *)
(***************************************************************************)
(* at_open(-1): open() has failed, which the test of sc->atif for zero does *)
(* not notice.                                                              *)
AtOpenOnNothing ==
  /\ pc[Hal] = "idle" /\ rpc = "none"
  /\ s_fd' = FALSE /\ s_readerClosed' = FALSE
  /\ s_responsePrefix' = NULL /\ s_smsPDU' = NULL /\ sp_response' = NULL
  /\ rpc' = "readline"
  /\ UNCHANGED <<s_type, threadVars, rline, rsms, buf, unsol, modemVars,
                 countVars>>

modem_hal_open ==
  /\ stage = "attached"
  /\ at_open(Hal) \/ AtOpenOnNothing
  /\ stage' = "handshake"
  /\ UNCHANGED <<asked, quectel, pipe, handled>>

RequestAt(s) ==
  CASE s = "handshake" -> [api |-> "handshake", prefix |-> AnyPrefix,
                           out |-> FALSE]
    [] s \in {"AT+GMI", "AT+GMM"} -> [api |-> "singleline",
                                      prefix |-> AnyPrefix, out |-> TRUE]
    [] s = "startup" -> [api |-> "command", prefix |-> "+CGREG:",
                         out |-> FALSE]
    [] s = "MODEM_INIT_STATE" -> [api |-> "singleline", prefix |-> "+CGREG:",
                                  out |-> TRUE]

Ask ==
  /\ stage \in Asking /\ ~asked
  /\ Call(Hal) /\ req'[Hal] = RequestAt(stage)
  /\ asked' = TRUE
  /\ UNCHANGED <<stage, quectel, pipe, handled>>

(* The command of the stage has returned.                                   *)
Answered(s) ==
  /\ stage = s /\ asked /\ pc[Hal] = "idle"
  /\ asked' = FALSE
  /\ UNCHANGED <<vars, pipe, handled>>

(* Mutant: the handshake is not checked.                                    *)
HandshakeDone_Unchecked ==
  /\ Answered("handshake")
  /\ stage' = "AT+GMI"
  /\ UNCHANGED quectel

HandshakeDone ==
  /\ Answered("handshake")
  /\ stage' = IF err[Hal] = "OK" THEN "AT+GMI" ELSE "failed"
  /\ UNCHANGED quectel

(* The first intermediate line is read through a null pointer after a       *)
(* final error.                                                             *)
NoLine == out[Hal].p_intermediates = << >>
OwnLine == out[Hal].p_intermediates[1].ans = id[Hal]

(* modem_hal_check_modem: the maker and the model must be the expected      *)
(* ones; an unsolicited line taken for the answer is not.                   *)
ManufacturerRead ==
  /\ Answered("AT+GMI")
  /\ \/ err[Hal] # "OK" /\ stage' = "failed" /\ UNCHANGED quectel
     \/ err[Hal] = "OK" /\ NoLine /\ stage' = "crashed" /\ UNCHANGED quectel
     \/ /\ err[Hal] = "OK" /\ ~NoLine
        /\ stage' = "AT+GMM" /\ quectel' = OwnLine

ModelRead ==
  /\ Answered("AT+GMM")
  /\ \/ err[Hal] # "OK" /\ stage' = "failed"
     \/ err[Hal] = "OK" /\ NoLine /\ stage' = "crashed"
     \/ /\ err[Hal] = "OK" /\ ~NoLine
        /\ stage' = IF quectel /\ OwnLine THEN "serial_attach" ELSE "failed"
  /\ UNCHANGED quectel

(* The rest of modem_hal_serial_attach: shell commands find the device and  *)
(* the interface and set raw_ip.  Then main() starts the event thread.      *)
serial_attach ==
  /\ stage = "serial_attach"
  /\ stage' \in {"startup", "failed"}
  /\ UNCHANGED <<vars, asked, quectel, pipe, handled>>

(* modem_events: the result of the first AT+CGREG? is only logged.          *)
EventsStart ==
  /\ Answered("startup")
  /\ stage' = "MODEM_INIT_STATE"
  /\ UNCHANGED quectel

(* init_handler: modem_hal_connect succeeds, or is tried again.             *)
init_handler ==
  /\ Answered("MODEM_INIT_STATE")
  /\ \/ err[Hal] # "OK" /\ stage' = "MODEM_INIT_STATE"
     \/ err[Hal] = "OK" /\ NoLine /\ stage' = "crashed"
     \/ /\ err[Hal] = "OK" /\ ~NoLine
        /\ stage' \in {"MODEM_INIT_STATE", "MODEM_IF_UP_STATE"}
  /\ UNCHANGED quectel

(* Mutant: the pipe is read in MODEM_INIT_STATE and not outside of it.       *)
modem_events_InInit ==
  /\ stage = "MODEM_INIT_STATE" /\ ~asked /\ pipe # << >>
  /\ pipe' = Tail(pipe)
  /\ handled' = Append(handled, Head(pipe))
  /\ UNCHANGED <<vars, stage, asked, quectel>>

(* Mutant: one read takes two messages, and the second is not looked at.    *)
modem_events_Coarse ==
  /\ stage = "MODEM_IF_UP_STATE" /\ pipe # << >>
  /\ pipe' = SubSeq(pipe, 3, Len(pipe))
  /\ handled' = Append(handled, Head(pipe))
  /\ UNCHANGED <<vars, stage, asked, quectel>>

(* Outside of MODEM_INIT_STATE one message is read for each round;          *)
(* registration_handler and the missing entries of modem_sStateMachine      *)
(* leave the state as it is.                                                *)
modem_events ==
  /\ stage = "MODEM_IF_UP_STATE" /\ pipe # << >>
  /\ pipe' = Tail(pipe)
  /\ handled' = Append(handled, Head(pipe))
  /\ UNCHANGED <<vars, stage, asked, quectel>>

HalStep ==
  \/ HandshakeDone \/ ManufacturerRead \/ ModelRead \/ serial_attach
  \/ EventsStart \/ init_handler \/ modem_events

(* The process has ended, waits for an event in read(modem_fds[0]), or has  *)
(* used up the bound on commands.                                           *)
AtRest ==
  /\ \/ stage \in Exited
     \/ stage = "MODEM_IF_UP_STATE" /\ pipe = << >> /\ rpc = "read"
     \/ stage \in Asking /\ ~asked /\ writes = MaxWrites /\ rpc = "read"
  /\ UNCHANGED sysVars

SystemNext ==
  \/ modem_hal_open \/ Ask \/ HalStep \/ AtRest
  \/ ChannelStep(InCall(Hal)) \/ ChannelStep(SpuriousWakeup(Hal))
  \/ ChannelStep(Timeout(Hal)) \/ ChannelStep(readerLoop)
  \/ ChannelStep(Modem)

SystemSpec == SystemInit /\ [][SystemNext]_sysVars

(* The fairness of AtChannel, and the HAL's own thread keeps running.       *)
SystemFairSpec ==
  /\ SystemSpec
  /\ SF_sysVars(ChannelStep(InCall(Hal)))
  /\ SF_sysVars(ChannelStep(readerLoop))
  /\ WF_sysVars(ChannelStep(ModemFinal))
  /\ WF_sysVars(HalStep) /\ WF_sysVars(Ask) /\ WF_sysVars(modem_hal_open)

-----------------------------------------------------------------------------
(***************************************************************************)
(* Properties.                                                             *)
(***************************************************************************)
(* The calls of at_event_handler: the lines it was given, without the       *)
(* second line of an SMS notification.                                      *)
HandlerCalls == {k \in 1 .. Len(unsol) : unsol[k].kind # "smspdu"}

(* The messages read by modem_events and those in the pipe are the calls    *)
(* of at_event_handler, in order and each once, and all of them as long as  *)
(* the pipe never had to hold more than it can.                             *)
EventsInOrder ==
  LET passed == handled \o pipe
  IN /\ \A i \in 1 .. Len(passed) : \E k \in HandlerCalls :
          passed[i] = MessageOf(unsol[k])
     /\ \A i, j \in 1 .. Len(passed) :
          i < j => passed[i].mtext.n < passed[j].mtext.n
     /\ Cardinality(HandlerCalls) <= PipeCapacity =>
          Len(passed) = Cardinality(HandlerCalls)

(* atchannel.h asks the handler not to block: however full the pipe is, a   *)
(* line that comes while a command waits for its answer never stops the     *)
(* reader, so every command of open, connect and modem_events returns, even *)
(* those sent on a device that could not be opened.                         *)
HandlerNeverBlocks == asked ~> ~asked \/ stage \in Exited

(* A device that could not be opened is noticed by the handshake at the     *)
(* latest: no command asks it who it is, and no event loop is started.      *)
NoDeviceNoModem == ~s_fd => stage \in {"attached", "handshake", "failed"}

(* In MODEM_IF_UP_STATE the event thread empties the pipe: no event that    *)
(* got into it is left unhandled.                                           *)
EventsHandled ==
  stage = "MODEM_IF_UP_STATE" /\ pipe # << >> ~> pipe = << >>

=============================================================================
