-------------------------- MODULE ModemSystemProofs --------------------------
(***************************************************************************)
(* Theorems about the modem radio as a whole: the channel, the HAL that    *)
(* opens it and the pipe to modem_events, for every capacity of the pipe.  *)
(***************************************************************************)
EXTENDS ModemSystem, AtChannelProofs, FiniteSetTheorems

USE DEF vars, channelVars, pendingVars, threadVars, readerVars, modemVars,
        countVars, halVars, sysVars

-----------------------------------------------------------------------------
(***************************************************************************)
(* The inductive invariant of the opening.                                 *)
(***************************************************************************)
(* Before at_open nobody is in a call.  On a device that was not opened no   *)
(* command gets as far as the wait, so nothing is pending and the handshake *)
(* can only come back with an error.                                        *)
DeviceInv ==
  /\ stage = "attached" => ~asked /\ pc[Hal] = "idle"
  /\ ~s_fd =>
       \/ stage \in {"attached", "failed"}
       \/ /\ stage = "handshake" /\ sp_response = NULL
          /\ ~asked => pc[Hal] = "idle"
          /\ asked => /\ req[Hal].api = "handshake"
                      /\ pc[Hal] \in {"lock", "send", "unlock", "idle"}
                      /\ pc[Hal] \in {"unlock", "idle"} => err[Hal] # "OK"

-----------------------------------------------------------------------------
(***************************************************************************)
(* The channel under the HAL.                                              *)
(***************************************************************************)
(* The HAL's thread is the one command thread of the channel.               *)
LEMMA HalThread == Hal \in Threads /\ Hal \in Commanders
BY SystemAssumption, ConstantsAssumption
   DEF SystemAssumption, ConstantsAssumption

(* Everything the HAL does to the channel is a step of AtChannel, but for   *)
(* the opening of a device that is not there.                               *)
LEMMA SystemSteps ==
  ASSUME [SystemNext]_sysVars
  PROVE  [Next]_vars \/ AtOpenOnNothing
<1>1. CASE modem_hal_open
  BY <1>1, HalThread DEF modem_hal_open, Next, Thread
<1>2. CASE Ask
  BY <1>2, HalThread DEF Ask, Next, Thread
<1>3. CASE HalStep \/ AtRest \/ UNCHANGED sysVars
  BY <1>3 DEF HalStep, HandshakeDone, ManufacturerRead, ModelRead,
       serial_attach, EventsStart, init_handler, modem_events, Answered, AtRest
<1>4. CASE \/ ChannelStep(InCall(Hal)) \/ ChannelStep(SpuriousWakeup(Hal))
           \/ ChannelStep(Timeout(Hal)) \/ ChannelStep(readerLoop)
           \/ ChannelStep(Modem)
  BY <1>4, HalThread DEF ChannelStep, Next, Thread
<1> QED BY <1>1, <1>2, <1>3, <1>4 DEF SystemNext

(* at_open(-1) keeps the types and the way of the lines.                    *)
LEMMA OpenOnNothing ==
  ASSUME TypeOK, Flow, AtOpenOnNothing
  PROVE  TypeOK' /\ Flow'
<1>0. /\ UNCHANGED <<history, rx, tx, buf, unsol, rsms, rline, pc, req, s_type>>
      /\ rpc = "none" /\ rpc' = "readline" /\ sp_response' = NULL
  BY DEF AtOpenOnNothing
<1>1. TypeOK'
  BY DEF AtOpenOnNothing, TypeOK, ChannelType, ThreadType, ReaderType,
       ReaderPcs, ModemType
<1>2. Consumed' = Consumed /\ Done' = Done
  BY <1>0 DEF Consumed, Done
<1>3. HistoryKnown' /\ CommandsNumbered' /\ InputKnown'
  BY <1>0, <1>2 DEF Flow, HistoryKnown, CommandsNumbered, InputKnown
<1>4. ReaderAt'
  BY <1>0, <1>2 DEF Flow, ReaderAt
<1>5. \A x : Unclaimed(x)' <=> Unclaimed(x)
  BY DEF Unclaimed, isdigit, strStartsWith
<1>6. Delivered'
  BY <1>0, <1>2, <1>5 DEF Flow, Delivered
<1>7. PendingKnown'
  BY <1>0 DEF Flow, PendingKnown
<1> QED BY <1>1, <1>3, <1>4, <1>6, <1>7 DEF Flow

(* Types and the way of the lines, for the system.                          *)
LEMMA ChannelInvariant == SystemSpec => [](TypeOK /\ Flow)
<1>1. SystemInit => TypeOK /\ Flow
  BY TypeInit, InitFlow DEF SystemInit
<1>2. TypeOK /\ Flow /\ [SystemNext]_sysVars => TypeOK' /\ Flow'
  <2> SUFFICES ASSUME TypeOK, Flow, [SystemNext]_sysVars
               PROVE  TypeOK' /\ Flow'
    OBVIOUS
  <2>1. CASE AtOpenOnNothing
    BY <2>1, OpenOnNothing
  <2>2. CASE [Next]_vars
    <3>1. TypeOK'
      <4>1. CASE Next
        BY <4>1, ChannelTypeStep, ThreadTypeStep, ReaderTypeStep,
           ModemTypeStep DEF TypeOK
      <4>2. CASE UNCHANGED vars
        BY <4>2 DEF TypeOK, ChannelType, ThreadType, ReaderType, ModemType
      <4> QED BY <2>2, <4>1, <4>2
    <3>2. Flow'
      <4>1. CASE UNCHANGED vars \/ Quiescent
        BY <4>1, StutterFlow DEF Quiescent
      <4> QED BY <2>2, <4>1, ThreadFlow, ReaderFlow, ModemFlow DEF Next
    <3> QED BY <3>1, <3>2
  <2> QED BY <2>1, <2>2, SystemSteps
<1> QED BY <1>1, <1>2, PTL DEF SystemSpec

-----------------------------------------------------------------------------
(***************************************************************************)
(* A device that could not be opened.                                      *)
(***************************************************************************)
(* The reader wakes nobody who does not wait, and publishes no response.    *)
LEMMA ReaderLeaves ==
  ASSUME TypeOK, readerLoop, pc[Hal] # "wait"
  PROVE  /\ pc'[Hal] = pc[Hal] /\ UNCHANGED <<s_fd, req, err>>
         /\ sp_response = NULL => sp_response' = NULL
<1>0. pc \in [Threads -> PcValues]
  BY DEF TypeOK, ThreadType
<1>1. UNCHANGED <<s_fd, req, err>>
  BY DEF readerLoop, processLine, TakeBuffered, EnterRead, ReadData, ReadEof,
       handleFinalResponse, writeCtrlZ, addIntermediate, handleUnsolicited,
       Processing, onReaderClosed
<1>2. Signal(pc) \/ UNCHANGED pc
  BY DEF readerLoop, processLine, TakeBuffered, EnterRead, ReadData, ReadEof,
       handleFinalResponse, writeCtrlZ, addIntermediate, handleUnsolicited,
       Processing, onReaderClosed
<1>3. pc'[Hal] = pc[Hal]
  BY <1>0, <1>2, HalThread, SignalKeeps
<1>4. sp_response = NULL => sp_response' = NULL
  BY DEF readerLoop, processLine, TakeBuffered, EnterRead, ReadData, ReadEof,
       handleFinalResponse, writeCtrlZ, addIntermediate, handleUnsolicited,
       onReaderClosed
<1> QED BY <1>1, <1>3, <1>4

(* Without a device, and with nothing pending, the handshake's own steps    *)
(* lead from the lock over failing writes to a return with an error.        *)
LEMMA HandshakeFails ==
  ASSUME TypeOK, InCall(Hal), ~s_fd, sp_response = NULL,
         req[Hal].api = "handshake", pc[Hal] \in {"lock", "send", "unlock"},
         pc[Hal] = "unlock" => err[Hal] # "OK"
  PROVE  /\ sp_response' = NULL /\ UNCHANGED <<s_fd, req>>
         /\ pc'[Hal] \in {"lock", "send", "unlock", "idle"}
         /\ pc'[Hal] \in {"unlock", "idle"} => err'[Hal] # "OK"
<1>0. /\ pc \in [Threads -> PcValues] /\ err \in [Threads -> Errors]
      /\ Hal \in Threads
  BY HalThread DEF TypeOK, ThreadType
<1>1. Lock(Hal) \/ WriteFails(Hal) \/ Return(Hal)
  BY DEF InCall, CloseReader, CommandPending, writeline, Arm, Wait,
       NullDereference, Relock, GiveUp, TakeResponse, HandshakePause
<1>2. CASE Lock(Hal)
  BY <1>0, <1>2 DEF Lock, Goto
<1>3. CASE Return(Hal)
  BY <1>0, <1>3 DEF Return, Goto
<1>4. CASE WriteFails(Hal)
  <2>1. sp_response' = NULL /\ UNCHANGED <<s_fd, req>>
    BY <1>4 DEF WriteFails, clearPendingCommand
  <2>2. PICK e \in {"CHANNEL_CLOSED", "GENERIC"} : Returned(Hal, e)
    BY <1>4 DEF WriteFails
  <2>3. err'[Hal] = e /\ pc'[Hal] \in {"send", "unlock"}
    BY <1>0, <2>2 DEF Returned, Goto
  <2> QED BY <2>1, <2>2, <2>3
<1> QED BY <1>1, <1>2, <1>3, <1>4

(* A device that could not be opened never looks like a modem: whatever     *)
(* the threads do and however often the handshake tries, it fails, and      *)
(* modem_hal_open gives up before it asks for the maker or the event loop    *)
(* is started.                                                              *)
THEOREM NoModemWithoutDevice == SystemSpec => []NoDeviceNoModem
<1>1. SystemInit => DeviceInv
  BY HalThread DEF SystemInit, Init, DeviceInv
<1>2. TypeOK /\ DeviceInv /\ [SystemNext]_sysVars => DeviceInv'
  <2> SUFFICES ASSUME TypeOK, DeviceInv, [SystemNext]_sysVars
               PROVE  DeviceInv'
    OBVIOUS
  <2>0. /\ pc \in [Threads -> PcValues] /\ err \in [Threads -> Errors]
        /\ req \in [Threads -> RequestType] /\ Hal \in Threads
    BY HalThread DEF TypeOK, ThreadType
  <2>1. CASE modem_hal_open
    BY <2>1 DEF modem_hal_open, at_open, AtOpenOnNothing, DeviceInv
  <2>2. CASE Ask
    <3>1. /\ stage \in Asking /\ UNCHANGED <<stage, s_fd, sp_response>>
          /\ asked' = TRUE /\ req'[Hal] = RequestAt(stage)
      BY <2>2 DEF Ask, Call
    <3>2. pc'[Hal] = "lock"
      BY <2>0, <2>2 DEF Ask, Call, Goto
    <3>3. stage = "handshake" => req'[Hal].api = "handshake"
      BY <3>1 DEF RequestAt
    <3> QED BY <3>1, <3>2, <3>3 DEF DeviceInv, Asking
  <2>3. CASE HandshakeDone
    BY <2>3 DEF HandshakeDone, Answered, DeviceInv
  <2>4. CASE ManufacturerRead \/ ModelRead \/ serial_attach \/ EventsStart
             \/ init_handler \/ modem_events
    <3>1. s_fd /\ UNCHANGED s_fd
      BY <2>4 DEF ManufacturerRead, ModelRead, serial_attach, EventsStart,
           init_handler, modem_events, Answered, DeviceInv
    <3>2. stage' # "attached"
      BY <2>4 DEF ManufacturerRead, ModelRead, serial_attach, EventsStart,
           init_handler, modem_events, Answered
    <3> QED BY <3>1, <3>2 DEF DeviceInv
  <2>5. CASE ChannelStep(readerLoop)
    <3>1. readerLoop /\ UNCHANGED <<stage, asked>> /\ stage \notin Exited
      BY <2>5 DEF ChannelStep
    <3>2. CASE pc[Hal] # "wait"
      BY <3>1, <3>2, ReaderLeaves DEF DeviceInv
    <3>3. CASE pc[Hal] = "wait"
      <4>1. s_fd /\ stage # "attached"
        BY <3>1, <3>3 DEF DeviceInv, Exited
      <4>2. UNCHANGED s_fd
        BY <3>1 DEF readerLoop, processLine, TakeBuffered, EnterRead,
             ReadData, ReadEof, handleFinalResponse, writeCtrlZ,
             addIntermediate, handleUnsolicited, Processing, onReaderClosed
      <4> QED BY <3>1, <4>1, <4>2 DEF DeviceInv
    <3> QED BY <3>2, <3>3
  <2>6. CASE ChannelStep(Modem)
    <3>1. UNCHANGED <<stage, asked, s_fd, sp_response, pc, req, err>>
      BY <2>6 DEF ChannelStep, Modem, ModemText, ModemPrompt, ModemPdu,
           ModemFinal, ModemUrc, ModemHangUp
    <3> QED BY <3>1 DEF DeviceInv
  <2>7. CASE ChannelStep(SpuriousWakeup(Hal)) \/ ChannelStep(Timeout(Hal))
    <3>1. /\ UNCHANGED <<stage, asked, s_fd>> /\ stage \notin Exited
          /\ pc[Hal] = "wait"
      BY <2>7 DEF ChannelStep, SpuriousWakeup, Timeout
    <3>2. s_fd /\ stage # "attached"
      BY <3>1 DEF DeviceInv, Exited
    <3> QED BY <3>1, <3>2 DEF DeviceInv
  <2>8. CASE ChannelStep(InCall(Hal))
    <3>1. InCall(Hal) /\ UNCHANGED <<stage, asked>> /\ stage \notin Exited
      BY <2>8 DEF ChannelStep
    <3>2. pc[Hal] # "idle" /\ UNCHANGED s_fd
      BY <3>1 DEF InCall, CloseReader, Lock, CommandPending, WriteFails,
           writeline, Arm, Wait, NullDereference, Relock, GiveUp,
           TakeResponse, HandshakePause, Return
    <3>3. stage # "attached"
      BY <3>2 DEF DeviceInv
    <3>4. CASE s_fd
      BY <3>1, <3>2, <3>3, <3>4 DEF DeviceInv
    <3>5. CASE ~s_fd
      <4>1. /\ stage = "handshake" /\ sp_response = NULL /\ asked
            /\ req[Hal].api = "handshake"
            /\ pc[Hal] \in {"lock", "send", "unlock"}
            /\ pc[Hal] = "unlock" => err[Hal] # "OK"
        BY <3>1, <3>2, <3>3, <3>5 DEF DeviceInv, Exited
      <4>2. /\ sp_response' = NULL /\ UNCHANGED <<s_fd, req>>
            /\ pc'[Hal] \in {"lock", "send", "unlock", "idle"}
            /\ pc'[Hal] \in {"unlock", "idle"} => err'[Hal] # "OK"
        BY <3>1, <3>5, <4>1, HandshakeFails
      <4> QED BY <3>1, <4>1, <4>2 DEF DeviceInv
    <3> QED BY <3>4, <3>5
  <2>9. CASE AtRest \/ UNCHANGED sysVars
    BY <2>9 DEF AtRest, DeviceInv
  <2> QED BY <2>1, <2>2, <2>3, <2>4, <2>5, <2>6, <2>7, <2>8, <2>9
        DEF SystemNext, HalStep
<1>3. DeviceInv => NoDeviceNoModem
  BY DEF DeviceInv, NoDeviceNoModem
<1> QED BY <1>1, <1>2, <1>3, ChannelInvariant, PTL DEF SystemSpec

-----------------------------------------------------------------------------
(***************************************************************************)
(* The pipe from the reader thread to modem_events.                        *)
(***************************************************************************)
(* The message of a line is one the pipe can carry.                         *)
LEMMA MessageType ==
  ASSUME NEW l \in Line
  PROVE  /\ MessageOf(l) \in radio_hal_msg_buffer
         /\ MessageOf(l).mtext = l
BY DEF MessageOf, radio_hal_msg_buffer, modem_SystemEvent

(* What at_event_handler does: nothing without a call, else it appends the  *)
(* message of the first new line if there is room.                          *)
LEMMA HandlerTypes ==
  ASSUME TypeOK, TypeOK', SystemTypeOK, at_event_handler,
         unsol' # unsol => Len(unsol') > Len(unsol)
  PROVE  pipe' \in Seq(radio_hal_msg_buffer) /\ Len(pipe') <= PipeCapacity
<1>0. /\ pipe \in Seq(radio_hal_msg_buffer) /\ Len(pipe) \in Nat
      /\ Len(pipe) <= PipeCapacity /\ PipeCapacity \in Nat
      /\ unsol' \in Seq(Line) /\ Len(unsol) \in Nat /\ Len(unsol') \in Nat
  BY SystemAssumption
     DEF SystemAssumption, SystemTypeOK, TypeOK, ReaderType
<1>1. CASE unsol' = unsol \/ Len(pipe) = PipeCapacity
  BY <1>0, <1>1 DEF at_event_handler
<1>2. CASE ~(unsol' = unsol \/ Len(pipe) = PipeCapacity)
  <2>1. unsol'[Len(unsol) + 1] \in Line
    <3>1. Len(unsol) + 1 \in 1 .. Len(unsol')
      BY <1>0, <1>2
    <3> QED BY <1>0, <3>1
  <2>2. PICK m \in radio_hal_msg_buffer : pipe' = Append(pipe, m)
    BY <1>2, <2>1, MessageType DEF at_event_handler
  <2>3. Len(pipe') = Len(pipe) + 1 /\ pipe' \in Seq(radio_hal_msg_buffer)
    BY <1>0, <2>2
  <2> QED BY <1>0, <1>2, <2>3
<1> QED BY <1>1, <1>2

(* How the handler is called: with a line, or with the two lines of an SMS  *)
(* notification.                                                            *)
LEMMA UnsolStep ==
  ASSUME TypeOK, Flow, [SystemNext]_sysVars, unsol' # unsol
  PROVE  \E x \in Line :
           /\ x.kind # "smspdu"
           /\ \/ unsol' = Append(unsol, x)
              \/ \E y \in Line : /\ y.kind = "smspdu"
                                 /\ unsol' = unsol \o <<x, y>>
<1> USE DEF Flow
<1>0. /\ history \in Seq(Line) /\ rx \in Seq(Line) /\ buf \in Seq(Line)
      /\ Len(history) \in Nat /\ Len(rx) \in Nat /\ Len(buf) \in Nat
      /\ rsms \in Line \cup {NULL} /\ (rpc = "process" => rline \in Line)
  BY DEF TypeOK, ModemType, ReaderType
<1>1. readerLoop
  <2>1. ~AtOpenOnNothing /\ ~Modem /\ ~Quiescent /\ ~(UNCHANGED vars)
    BY DEF AtOpenOnNothing, Modem, ModemText, ModemPrompt, ModemPdu,
         ModemFinal, ModemUrc, ModemHangUp, Quiescent
  <2>2. \A t \in Threads : ~Thread(t)
    BY DEF Thread, at_open, at_close, Call, InCall, CloseReader, Lock,
         CommandPending, WriteFails, writeline, Arm, Wait, NullDereference,
         Relock, GiveUp, TakeResponse, HandshakePause, Return,
         SpuriousWakeup, Timeout
  <2> QED BY <2>1, <2>2, SystemSteps DEF Next
<1>2. TakeBuffered \/ ReadData \/ handleUnsolicited
  BY <1>1 DEF readerLoop, processLine, EnterRead, ReadEof,
       handleFinalResponse, writeCtrlZ, addIntermediate, onReaderClosed
<1>3. CASE handleUnsolicited
  <2>1. rpc = "process" /\ unsol' = Append(unsol, rline)
    BY <1>3 DEF handleUnsolicited, Processing
  <2>2. rline \in Line /\ rline.kind # "smspdu"
    BY <1>0, <2>1 DEF ReaderAt
  <2> QED BY <2>1, <2>2
<1>4. ASSUME NEW l \in Line, l = history[Consumed + 1], GotLine(l)
      PROVE  \E x \in Line :
               /\ x.kind # "smspdu"
               /\ \E y \in Line : /\ y.kind = "smspdu"
                                  /\ unsol' = unsol \o <<x, y>>
  <2>1. rsms # NULL /\ unsol' = unsol \o <<rsms, l>>
    BY <1>4 DEF GotLine
  <2>2. Consumed > 0 /\ rsms = history[Consumed] /\ rsms.kind = "sms"
    BY <2>1 DEF ReaderAt
  <2>3. Consumed \in 1 .. Len(history)
    BY <1>0, <2>2 DEF Consumed, InputKnown
  <2>4. l.kind = "smspdu"
    BY <1>4, <2>2, <2>3 DEF HistoryKnown
  <2>5. rsms \in Line /\ rsms.kind # "smspdu"
    BY <1>0, <2>1, <2>2
  <2> QED BY <2>1, <2>4, <2>5
<1>5. CASE TakeBuffered
  <2>1. buf # << >> /\ GotLine(Head(buf))
    BY <1>5 DEF TakeBuffered
  <2>2. Head(buf) = buf[1] /\ 1 \in 1 .. Len(buf) /\ Head(buf) \in Line
    BY <1>0, <2>1
  <2>3. Head(buf) = history[Consumed + 1]
    BY <2>2 DEF InputKnown
  <2> QED BY <1>4, <2>1, <2>2, <2>3
<1>6. CASE ReadData
  <2>1. rpc = "read" /\ rx # << >> /\ GotLine(Head(rx))
    BY <1>6 DEF ReadData
  <2>2. Head(rx) = rx[1] /\ 1 \in 1 .. Len(rx) /\ Head(rx) \in Line
    BY <1>0, <2>1
  <2>3. Len(buf) = 0
    BY <2>1 DEF InputKnown
  <2>4. Len(history) - Len(rx) = Consumed
    BY <1>0, <2>3 DEF Consumed
  <2>5. Head(rx) = history[Consumed + 1]
    BY <2>2, <2>4 DEF InputKnown
  <2> QED BY <1>4, <2>1, <2>2, <2>5
<1> QED BY <1>2, <1>3, <1>5, <1>6

(* Each call of the handler is one more.                                    *)
LEMMA OneMoreCall ==
  ASSUME TypeOK, Flow, [SystemNext]_sysVars, unsol' # unsol
  PROVE  /\ Cardinality(HandlerCalls) \in Nat
         /\ Cardinality(HandlerCalls') = Cardinality(HandlerCalls) + 1
         /\ HandlerCalls \subseteq HandlerCalls'
         /\ Len(unsol) + 1 \in HandlerCalls'
         /\ Len(unsol') > Len(unsol)
         /\ \A k \in 1 .. Len(unsol) : unsol'[k] = unsol[k]
<1>0. unsol \in Seq(Line) /\ Len(unsol) \in Nat
  BY DEF TypeOK, ReaderType
<1>1. PICK x \in Line :
           /\ x.kind # "smspdu"
           /\ \/ unsol' = Append(unsol, x)
              \/ \E y \in Line : /\ y.kind = "smspdu"
                                 /\ unsol' = unsol \o <<x, y>>
  BY UnsolStep
<1>2. /\ Len(unsol') \in Nat /\ Len(unsol') > Len(unsol)
      /\ unsol'[Len(unsol) + 1] = x
      /\ \A k \in 1 .. Len(unsol) : unsol'[k] = unsol[k]
      /\ \A k \in 1 .. Len(unsol') :
           \/ k \in 1 .. Len(unsol) \/ k = Len(unsol) + 1
           \/ unsol'[k].kind = "smspdu"
  <2>1. CASE unsol' = Append(unsol, x)
    BY <1>0, <2>1
  <2>2. CASE unsol' # Append(unsol, x)
    <3>1. PICK y \in Line : y.kind = "smspdu" /\ unsol' = unsol \o <<x, y>>
      BY <1>1, <2>2
    <3>2. /\ Len(unsol') = Len(unsol) + 2
          /\ unsol'[Len(unsol) + 1] = x /\ unsol'[Len(unsol) + 2] = y
          /\ \A k \in 1 .. Len(unsol) : unsol'[k] = unsol[k]
      BY <1>0, <3>1
    <3>3. \A k \in 1 .. Len(unsol') :
            k \in 1 .. Len(unsol) \/ k = Len(unsol) + 1 \/ k = Len(unsol) + 2
      BY <1>0, <3>2
    <3>4. Len(unsol') \in Nat /\ Len(unsol') > Len(unsol)
      BY <1>0, <3>2
    <3> QED BY <3>1, <3>2, <3>3, <3>4
  <2> QED BY <2>1, <2>2
<1>3. Len(unsol) + 1 \in 1 .. Len(unsol') /\ Len(unsol) + 1 \notin 1 .. Len(unsol)
  BY <1>0, <1>2
<1>4. \A k \in 1 .. Len(unsol) : k \in 1 .. Len(unsol')
  BY <1>0, <1>2
<1>5. HandlerCalls' = HandlerCalls \cup {Len(unsol) + 1}
  BY <1>1, <1>2, <1>3, <1>4 DEF HandlerCalls
<1>6. IsFiniteSet(HandlerCalls)
  <2>1. IsFiniteSet(1 .. Len(unsol)) /\ HandlerCalls \subseteq 1 .. Len(unsol)
    BY <1>0, FS_Interval DEF HandlerCalls
  <2> QED BY <2>1, FS_Subset
<1>7. Len(unsol) + 1 \notin HandlerCalls
  BY <1>3 DEF HandlerCalls
<1>8. /\ Cardinality(HandlerCalls) \in Nat
      /\ Cardinality(HandlerCalls') = Cardinality(HandlerCalls) + 1
  BY <1>5, <1>6, <1>7, FS_AddElement, FS_CardinalityType
<1> QED BY <1>2, <1>5, <1>8

(* Who touches the pipe: the handler, called from a step of the channel,    *)
(* and modem_events, which reads the oldest message.                        *)
LEMMA PipeSteps ==
  ASSUME [SystemNext]_sysVars
  PROVE  \/ at_event_handler /\ handled' = handled
         \/ UNCHANGED <<unsol, pipe, handled>>
         \/ /\ pipe # << >> /\ unsol' = unsol /\ pipe' = Tail(pipe)
            /\ handled' = Append(handled, Head(pipe))
<1>1. CASE modem_hal_open
  BY <1>1 DEF modem_hal_open, at_open, AtOpenOnNothing
<1>2. CASE Ask
  BY <1>2 DEF Ask, Call
<1>3. CASE HalStep /\ ~modem_events
  BY <1>3 DEF HalStep, HandshakeDone, ManufacturerRead, ModelRead,
       serial_attach, EventsStart, init_handler, Answered
<1>4. CASE modem_events
  BY <1>4 DEF modem_events
<1>5. CASE AtRest \/ UNCHANGED sysVars
  BY <1>5 DEF AtRest
<1>6. CASE \/ ChannelStep(InCall(Hal)) \/ ChannelStep(SpuriousWakeup(Hal))
           \/ ChannelStep(Timeout(Hal)) \/ ChannelStep(readerLoop)
           \/ ChannelStep(Modem)
  BY <1>6 DEF ChannelStep
<1> QED BY <1>1, <1>2, <1>3, <1>4, <1>5, <1>6 DEF SystemNext

(* Sequences of messages.                                                   *)
LEMMA SequenceTypes ==
  ASSUME NEW S
  PROVE  /\ \A h \in Seq(S), m \in S : Append(h, m) \in Seq(S)
         /\ \A h, p \in Seq(S) : h \o p \in Seq(S)
         /\ \A h, p \in Seq(S) : Len(h \o p) = Len(h) + Len(p)
OBVIOUS

(* A message put into the pipe is behind all others.                        *)
LEMMA WriteKeepsOrder ==
  ASSUME NEW S, NEW h \in Seq(S), NEW p \in Seq(S), NEW m \in S
  PROVE  h \o Append(p, m) = Append(h \o p, m)
<1> DEFINE a == h \o Append(p, m)
           b == Append(h \o p, m)
<1>0. /\ Len(h) \in Nat /\ Len(p) \in Nat
      /\ Append(p, m) \in Seq(S) /\ Len(Append(p, m)) = Len(p) + 1
      /\ h \o p \in Seq(S) /\ Len(h \o p) = Len(h) + Len(p)
  OBVIOUS
<1>1. a \in Seq(S) /\ b \in Seq(S)
  BY <1>0
<1>2. Len(a) = Len(h) + Len(p) + 1 /\ Len(b) = Len(h) + Len(p) + 1
  BY <1>0
<1>3. ASSUME NEW i \in 1 .. Len(a) PROVE a[i] = b[i]
  <2>1. CASE i <= Len(h)
    BY <1>0, <1>2, <2>1
  <2>2. CASE i > Len(h) /\ i <= Len(h) + Len(p)
    <3>1. i - Len(h) \in 1 .. Len(p)
      BY <1>0, <2>2
    <3>2. a[i] = Append(p, m)[i - Len(h)]
      BY <1>0, <1>2, <2>2
    <3>3. Append(p, m)[i - Len(h)] = p[i - Len(h)]
      BY <3>1
    <3>4. b[i] = (h \o p)[i]
      BY <1>0, <1>2, <2>2
    <3>5. (h \o p)[i] = p[i - Len(h)]
      BY <1>0, <1>2, <2>2
    <3> QED BY <3>2, <3>3, <3>4, <3>5
  <2>3. CASE i = Len(h) + Len(p) + 1
    <3>1. a[i] = Append(p, m)[i - Len(h)] /\ i - Len(h) = Len(p) + 1
      BY <1>0, <1>2, <2>3
    <3>2. b[i] = m
      BY <1>0, <1>2, <2>3
    <3> QED BY <1>0, <3>1, <3>2
  <2> QED BY <1>0, <1>2, <2>1, <2>2, <2>3
<1> HIDE DEF a, b
<1>4. a = b
  BY <1>1, <1>2, <1>3
<1> QED BY <1>4 DEF a, b

(* The stage, the answer of the maker and the pipe keep their types, and    *)
(* the pipe is never fuller than it can be.                                 *)
LEMMA SystemTypeStep ==
  ASSUME TypeOK, TypeOK', Flow, SystemTypeOK, [SystemNext]_sysVars
  PROVE  SystemTypeOK'
<1>0. /\ pipe \in Seq(radio_hal_msg_buffer) /\ Len(pipe) <= PipeCapacity
      /\ handled \in Seq(radio_hal_msg_buffer) /\ PipeCapacity \in Nat
  BY SystemAssumption DEF SystemAssumption, SystemTypeOK
<1>1. /\ pipe' \in Seq(radio_hal_msg_buffer) /\ Len(pipe') <= PipeCapacity
      /\ handled' \in Seq(radio_hal_msg_buffer)
  <2>1. CASE at_event_handler /\ handled' = handled
    <3>1. unsol' # unsol => Len(unsol') > Len(unsol)
      BY OneMoreCall
    <3> QED BY <1>0, <2>1, <3>1, HandlerTypes
  <2>2. CASE UNCHANGED <<unsol, pipe, handled>>
    BY <1>0, <2>2
  <2>3. CASE /\ pipe # << >> /\ unsol' = unsol /\ pipe' = Tail(pipe)
             /\ handled' = Append(handled, Head(pipe))
    <3>1. Head(pipe) \in radio_hal_msg_buffer /\ Len(pipe') = Len(pipe) - 1
          /\ pipe' \in Seq(radio_hal_msg_buffer) /\ Len(pipe) \in Nat
      BY <1>0, <2>3
    <3>2. handled' \in Seq(radio_hal_msg_buffer)
      BY <1>0, <2>3, <3>1, SequenceTypes
    <3>3. Len(pipe') <= PipeCapacity
      BY <1>0, <3>1
    <3> QED BY <3>1, <3>2, <3>3
  <2> QED BY <2>1, <2>2, <2>3, PipeSteps
<1>2. stage' \in Stages
  <2>0. stage \in Stages
    BY DEF SystemTypeOK
  <2>1. CASE UNCHANGED stage
    BY <2>0, <2>1
  <2>2. CASE modem_hal_open
    BY <2>2 DEF modem_hal_open, Stages, Asking
  <2>3. CASE HalStep
    BY <2>0, <2>3 DEF HalStep, HandshakeDone, ManufacturerRead, ModelRead,
         serial_attach, EventsStart, init_handler, modem_events, Stages,
         Asking, Exited
  <2> QED BY <2>1, <2>2, <2>3 DEF SystemNext, Ask, ChannelStep, AtRest
<1>3. asked' \in BOOLEAN
  <2>0. asked \in BOOLEAN
    BY DEF SystemTypeOK
  <2> QED BY <2>0 DEF SystemNext, modem_hal_open, Ask, HalStep, HandshakeDone,
            ManufacturerRead, ModelRead, serial_attach, EventsStart,
            init_handler, modem_events, Answered, AtRest, ChannelStep
<1>4. quectel' \in BOOLEAN
  <2>0. quectel \in BOOLEAN /\ OwnLine \in BOOLEAN
    BY DEF SystemTypeOK, OwnLine
  <2> QED BY <2>0 DEF SystemNext, modem_hal_open, Ask, HalStep, HandshakeDone,
            ManufacturerRead, ModelRead, serial_attach, EventsStart,
            init_handler, modem_events, Answered, AtRest, ChannelStep
<1> QED BY <1>1, <1>2, <1>3, <1>4 DEF SystemTypeOK

(* A message read from the pipe moves to the end of those handled.          *)
LEMMA ReadKeepsOrder ==
  ASSUME NEW S, NEW h \in Seq(S), NEW p \in Seq(S), p # << >>
  PROVE  Append(h, Head(p)) \o Tail(p) = h \o p
<1> DEFINE a == Append(h, Head(p)) \o Tail(p)
           b == h \o p
<1>0. /\ Len(h) \in Nat /\ Len(p) \in Nat /\ Len(p) > 0 /\ Head(p) \in S
      /\ Tail(p) \in Seq(S) /\ Len(Tail(p)) = Len(p) - 1
      /\ Append(h, Head(p)) \in Seq(S)
      /\ Len(Append(h, Head(p))) = Len(h) + 1
  OBVIOUS
<1>1. a \in Seq(S) /\ b \in Seq(S)
  BY <1>0
<1>2. Len(a) = Len(h) + Len(p) /\ Len(b) = Len(h) + Len(p)
  BY <1>0
<1>3. ASSUME NEW i \in 1 .. Len(a) PROVE a[i] = b[i]
  <2>1. CASE i <= Len(h)
    BY <1>0, <1>2, <2>1
  <2>2. CASE i = Len(h) + 1
    <3>1. Append(h, Head(p))[i] = Head(p) /\ Head(p) = p[1]
      BY <1>0, <2>2
    <3> QED BY <1>0, <1>2, <2>2, <3>1
  <2>3. CASE i > Len(h) + 1
    <3>1. i - (Len(h) + 1) \in 1 .. (Len(p) - 1)
      BY <1>0, <1>2, <2>3
    <3>2. a[i] = Tail(p)[i - (Len(h) + 1)]
      BY <1>0, <1>2, <2>3
    <3>3. Tail(p)[i - (Len(h) + 1)] = p[i - Len(h)]
      BY <1>0, <3>1
    <3> QED BY <1>0, <1>2, <2>3, <3>2, <3>3
  <2> QED BY <1>0, <1>2, <2>1, <2>2, <2>3
<1> HIDE DEF a, b
<1>4. a = b
  BY <1>1, <1>2, <1>3
<1> QED BY <1>4 DEF a, b

(* A message the handler puts into the pipe is newer than all that passed.  *)
LEMMA PassedGrows ==
  ASSUME TypeOK, Flow, Flow', SystemTypeOK, EventsInOrder,
         [SystemNext]_sysVars, unsol' # unsol, Len(pipe) # PipeCapacity,
         at_event_handler, handled' = handled
  PROVE  EventsInOrder'
<1>0. /\ handled \in Seq(radio_hal_msg_buffer) /\ Len(unsol) \in Nat
      /\ pipe \in Seq(radio_hal_msg_buffer) /\ unsol \in Seq(Line)
  BY DEF SystemTypeOK, TypeOK, ReaderType
<1>1. PICK s \in Seq(radio_hal_msg_buffer) : s = handled \o pipe
  BY <1>0, SequenceTypes
<1>2. PICK x \in Line : x = unsol'[Len(unsol) + 1]
  <2>1. PICK z \in Line :
           /\ z.kind # "smspdu"
           /\ \/ unsol' = Append(unsol, z)
              \/ \E y \in Line : /\ y.kind = "smspdu"
                                 /\ unsol' = unsol \o <<z, y>>
    BY UnsolStep
  <2>2. CASE unsol' = Append(unsol, z)
    BY <1>0, <2>2
  <2>3. CASE \E y \in Line : unsol' = unsol \o <<z, y>>
    <3>1. PICK y \in Line : unsol' = unsol \o <<z, y>>
      BY <2>3
    <3>2. unsol'[Len(unsol) + 1] = z
      BY <1>0, <3>1
    <3> QED BY <3>2
  <2> QED BY <2>1, <2>2, <2>3
<1>3. pipe' = Append(pipe, MessageOf(x))
  BY <1>2 DEF at_event_handler
<1>4. PICK m \in radio_hal_msg_buffer : m = MessageOf(x) /\ m.mtext = x
  BY MessageType
<1>5. PICK q \in Seq(radio_hal_msg_buffer) :
        q = handled' \o pipe' /\ q = Append(s, m)
  <2>1. handled \o Append(pipe, m) = Append(handled \o pipe, m)
    BY <1>0, <1>4, WriteKeepsOrder
  <2>2. Append(s, m) \in Seq(radio_hal_msg_buffer)
    BY <1>1, <1>4
  <2>3. handled' \o pipe' = handled \o Append(pipe, m)
    BY <1>3, <1>4
  <2> QED BY <1>1, <2>1, <2>2, <2>3
<1>6. /\ Len(s) \in Nat /\ Len(q) = Len(s) + 1 /\ q[Len(s) + 1] = m
      /\ \A i \in 1 .. Len(s) : q[i] = s[i]
  BY <1>1, <1>4, <1>5
<1>7. \A i \in 1 .. Len(q) : i \in 1 .. Len(s) \/ i = Len(s) + 1
  BY <1>6
<1>8. /\ Cardinality(HandlerCalls) \in Nat
      /\ Cardinality(HandlerCalls') = Cardinality(HandlerCalls) + 1
      /\ HandlerCalls \subseteq HandlerCalls'
      /\ Len(unsol) + 1 \in HandlerCalls'
      /\ Len(unsol') > Len(unsol)
      /\ \A k \in 1 .. Len(unsol) : unsol'[k] = unsol[k]
  BY OneMoreCall
<1>9. /\ \A i \in 1 .. Len(s) : \E k \in HandlerCalls :
           s[i] = MessageOf(unsol[k])
      /\ \A i, j \in 1 .. Len(s) : i < j => s[i].mtext.n < s[j].mtext.n
      /\ Cardinality(HandlerCalls) <= PipeCapacity =>
           Len(s) = Cardinality(HandlerCalls)
  BY <1>1 DEF EventsInOrder
<1>10. HandlerCalls \subseteq 1 .. Len(unsol)
  BY DEF HandlerCalls
<1>11. ASSUME NEW i \in 1 .. Len(q)
       PROVE  \E k \in HandlerCalls' : q[i] = MessageOf(unsol'[k])
  <2>1. CASE i \in 1 .. Len(s)
    <3>1. PICK k \in HandlerCalls : s[i] = MessageOf(unsol[k])
      BY <1>9, <2>1
    <3>2. k \in HandlerCalls' /\ unsol'[k] = unsol[k]
      BY <1>8, <1>10
    <3> QED BY <1>6, <2>1, <3>1, <3>2
  <2>2. CASE i = Len(s) + 1
    BY <1>2, <1>4, <1>6, <1>8, <2>2
  <2> QED BY <1>7, <2>1, <2>2
<1>12. ASSUME NEW i \in 1 .. Len(s) PROVE s[i].mtext.n < x.n
  <2>1. PICK k \in HandlerCalls : s[i] = MessageOf(unsol[k])
    BY <1>9
  <2>2. k \in 1 .. Len(unsol) /\ unsol[k] \in Line /\ unsol'[k] = unsol[k]
    BY <1>0, <1>8, <1>10
  <2>3. s[i].mtext = unsol[k]
    BY <2>1, <2>2, MessageType
  <2>4. /\ k \in 1 .. Len(unsol') /\ Len(unsol) + 1 \in 1 .. Len(unsol')
        /\ k < Len(unsol) + 1
    <3>1. HandlerCalls' \subseteq 1 .. Len(unsol')
      BY DEF HandlerCalls
    <3> QED BY <1>0, <1>8, <2>2, <3>1
  <2>5. unsol'[k].n < unsol'[Len(unsol) + 1].n
    BY <2>4 DEF Flow, Delivered
  <2> QED BY <1>2, <2>2, <2>3, <2>5
<1>13. ASSUME NEW i \in 1 .. Len(q), NEW j \in 1 .. Len(q), i < j
       PROVE  q[i].mtext.n < q[j].mtext.n
  <2>1. i \in 1 .. Len(s)
    BY <1>6, <1>13
  <2>2. CASE j \in 1 .. Len(s)
    BY <1>6, <1>9, <1>13, <2>1, <2>2
  <2>3. CASE j = Len(s) + 1
    BY <1>4, <1>6, <1>12, <2>1, <2>3
  <2> QED BY <1>7, <2>2, <2>3
<1>14. Cardinality(HandlerCalls') <= PipeCapacity =>
         Len(q) = Cardinality(HandlerCalls')
  <2>1. PipeCapacity \in Nat
    BY SystemAssumption DEF SystemAssumption
  <2> QED BY <1>6, <1>8, <1>9, <2>1
<1> QED BY <1>5, <1>11, <1>13, <1>14 DEF EventsInOrder

(* A message there is no room for: more calls were made than the pipe       *)
(* holds.                                                                   *)
LEMMA PassedFull ==
  ASSUME TypeOK, Flow, SystemTypeOK, EventsInOrder, [SystemNext]_sysVars,
         unsol' # unsol, Len(pipe) = PipeCapacity,
         UNCHANGED <<pipe, handled>>
  PROVE  EventsInOrder'
<1>0. /\ handled \in Seq(radio_hal_msg_buffer) /\ PipeCapacity \in Nat
      /\ pipe \in Seq(radio_hal_msg_buffer)
  BY SystemAssumption DEF SystemAssumption, SystemTypeOK
<1>1. PICK s \in Seq(radio_hal_msg_buffer) : s = handled \o pipe
  BY <1>0, SequenceTypes
<1>2. s = handled' \o pipe'
  BY <1>1
<1>3. Len(s) >= PipeCapacity /\ Len(s) \in Nat
  BY <1>0, <1>1
<1>4. /\ Cardinality(HandlerCalls) \in Nat
      /\ Cardinality(HandlerCalls') = Cardinality(HandlerCalls) + 1
      /\ HandlerCalls \subseteq HandlerCalls'
      /\ \A k \in 1 .. Len(unsol) : unsol'[k] = unsol[k]
  BY OneMoreCall
<1>5. /\ \A i \in 1 .. Len(s) : \E k \in HandlerCalls :
           s[i] = MessageOf(unsol[k])
      /\ \A i, j \in 1 .. Len(s) : i < j => s[i].mtext.n < s[j].mtext.n
      /\ Cardinality(HandlerCalls) <= PipeCapacity =>
           Len(s) = Cardinality(HandlerCalls)
  BY <1>1 DEF EventsInOrder
<1>6. HandlerCalls \subseteq 1 .. Len(unsol)
  BY DEF HandlerCalls
<1>7. ~(Cardinality(HandlerCalls') <= PipeCapacity)
  BY <1>0, <1>3, <1>4, <1>5
<1>8. ASSUME NEW i \in 1 .. Len(s)
      PROVE  \E k \in HandlerCalls' : s[i] = MessageOf(unsol'[k])
  <2>1. PICK k \in HandlerCalls : s[i] = MessageOf(unsol[k])
    BY <1>5
  <2>2. k \in HandlerCalls' /\ unsol'[k] = unsol[k]
    BY <1>4, <1>6
  <2> QED BY <2>1, <2>2
<1> QED BY <1>2, <1>5, <1>7, <1>8 DEF EventsInOrder

(* Whatever the capacity of the pipe and however the reader, the modem and  *)
(* modem_events interleave: the events that reach modem_events are those    *)
(* the handler was called with, in their order and each once, and none is   *)
(* lost unless more came than the pipe can hold.                            *)
THEOREM EventsKeepOrder == SystemSpec => []EventsInOrder
<1> DEFINE I == SystemTypeOK /\ EventsInOrder
<1>1. SystemInit => I
  <2> SUFFICES ASSUME SystemInit PROVE I
    OBVIOUS
  <2>1. pipe = << >> /\ handled = << >> /\ unsol = << >>
    BY DEF SystemInit, Init
  <2>2. HandlerCalls = {} /\ Len(handled \o pipe) = 0
    BY <2>1 DEF HandlerCalls
  <2>3. Cardinality(HandlerCalls) = 0
    BY <2>2, FS_EmptySet
  <2>4. EventsInOrder
    BY <2>2, <2>3 DEF EventsInOrder
  <2>5. SystemTypeOK
    <3>1. PipeCapacity \in Nat /\ Len(pipe) = 0
      BY <2>1, SystemAssumption DEF SystemAssumption
    <3>2. stage \in Stages /\ asked \in BOOLEAN /\ quectel \in BOOLEAN
      BY DEF SystemInit, Stages
    <3> QED BY <2>1, <3>1, <3>2 DEF SystemTypeOK
  <2> QED BY <2>4, <2>5
<1>2. /\ TypeOK /\ Flow /\ TypeOK' /\ Flow' /\ I /\ [SystemNext]_sysVars
      => I'
  <2> SUFFICES ASSUME TypeOK, Flow, TypeOK', Flow', SystemTypeOK,
                      EventsInOrder, [SystemNext]_sysVars
               PROVE  SystemTypeOK' /\ EventsInOrder'
    OBVIOUS
  <2>1. SystemTypeOK'
    BY SystemTypeStep
  <2>2. ASSUME unsol' = unsol, handled' \o pipe' = handled \o pipe
        PROVE  EventsInOrder'
    BY <2>2 DEF EventsInOrder, HandlerCalls
  <2>3. CASE at_event_handler /\ handled' = handled
    <3>1. CASE unsol' = unsol
      BY <2>1, <2>2, <2>3, <3>1 DEF at_event_handler
    <3>2. CASE unsol' # unsol /\ Len(pipe) = PipeCapacity
      BY <2>1, <2>3, <3>2, PassedFull DEF at_event_handler
    <3>3. CASE unsol' # unsol /\ Len(pipe) # PipeCapacity
      BY <2>1, <2>3, <3>3, PassedGrows
    <3> QED BY <3>1, <3>2, <3>3
  <2>4. CASE UNCHANGED <<unsol, pipe, handled>>
    BY <2>1, <2>2, <2>4
  <2>5. CASE /\ pipe # << >> /\ unsol' = unsol /\ pipe' = Tail(pipe)
             /\ handled' = Append(handled, Head(pipe))
    <3>1. handled' \o pipe' = handled \o pipe
      BY <2>5, ReadKeepsOrder DEF SystemTypeOK
    <3> QED BY <2>1, <2>2, <2>5, <3>1
  <2> QED BY <2>1, <2>3, <2>4, <2>5, PipeSteps
<1> QED BY <1>1, <1>2, ChannelInvariant, PTL DEF SystemSpec

=============================================================================
