-------------------------- MODULE AtChannelProofs --------------------------
(***************************************************************************)
(* Theorems about AtChannel, for every set of threads, every number of     *)
(* handshake tries and every bound.                                        *)
(***************************************************************************)
EXTENDS AtChannel, TLAPS

USE DEF vars, channelVars, pendingVars, threadVars, readerVars, modemVars,
        countVars

-----------------------------------------------------------------------------
(***************************************************************************)
(* Types of the helpers.                                                   *)
(***************************************************************************)
(* at_response_new gives a response, which is not the null pointer.         *)
LEMMA NewResponseType ==
  ASSUME NEW i \in Nat
  PROVE  at_response_new(i) \in ATResponse /\ at_response_new(i) # NULL
<1>1. at_response_new(i) \in ATResponse
  BY DEF at_response_new, ATResponse
<1> QED BY <1>1, NullAssumption DEF NullAssumption

(* reverseIntermediates gives a response again.                             *)
LEMMA ReverseType ==
  ASSUME NEW r \in ATResponse
  PROVE  reverseIntermediates(r) \in ATResponse
<1>1. r.p_intermediates \in Seq(Line)
  BY DEF ATResponse
<1>2. Reverse(r.p_intermediates) \in Seq(Line)
  BY <1>1 DEF Reverse
<1> QED BY <1>2 DEF reverseIntermediates, ATResponse

(* What the modem leaves after it takes the PDU out of its input.           *)
LEMMA RemoveAtType ==
  ASSUME NEW S, NEW s \in Seq(S), NEW k \in 1 .. Len(s)
  PROVE  RemoveAt(s, k) \in Seq(S)
BY DEF RemoveAt

(* pthread_cond_signal only moves a thread to "relock".                     *)
LEMMA SignalType ==
  ASSUME NEW p \in [Threads -> PcValues], Signal(p)
  PROVE  pc' \in [Threads -> PcValues]
BY DEF Signal, PcValues, Published

(* The return of at_send_command_full_nolock keeps the callers' types; the  *)
(* handshake never counts past its last try.                                *)
LEMMA ReturnedType ==
  ASSUME ThreadType, NEW t \in Threads, NEW e \in Errors, Returned(t, e)
  PROVE  /\ err' \in [Threads -> Errors] /\ pc' \in [Threads -> PcValues]
         /\ tries' \in [Threads -> 0 .. HANDSHAKE_RETRY_COUNT - 1]
BY ConstantsAssumption DEF ConstantsAssumption, Returned, ThreadType, Goto,
     PcValues, Holding, Errors

(* A line the modem sends is a line.                                        *)
LEMMA NewLineType ==
  ASSUME ModemType, NEW kind \in LineKinds, NEW p \in AllPrefixes,
         NEW i \in Nat, NEW k \in Nat
  PROVE  NewLine(kind, p, i, k) \in Line
<1>1. Len(history) \in Nat
  BY DEF ModemType
<1> QED BY <1>1 DEF NewLine, Line

(* The command the modem is answering.                                      *)
LEMMA AnsweringType ==
  ASSUME ModemType, Answering
  PROVE  /\ Head(tx) \in Written /\ Head(tx).id \in Nat
         /\ AnswerPrefix(Head(tx).req) \in AllPrefixes
         /\ Tail(tx) \in Seq(Written)
<1>1. Head(tx) \in Written /\ Tail(tx) \in Seq(Written)
  BY DEF ModemType, Answering
<1>2. Head(tx).req \in RequestType /\ Head(tx).id \in Nat
  BY <1>1 DEF Written
<1>3. AnswerPrefix(Head(tx).req) \in AllPrefixes
  BY <1>2 DEF AnswerPrefix, AllPrefixes, RequestType
<1> QED BY <1>1, <1>2, <1>3

(* readerLoop keeps the reader's types when readline gives it a line.       *)
LEMMA GotLineType ==
  ASSUME ReaderType, NEW l \in Line, GotLine(l), buf' \in Seq(Line)
  PROVE  ReaderType'
<1>1. CASE rsms = NULL
  BY <1>1 DEF GotLine, ReaderType, ReaderPcs
<1>2. CASE rsms # NULL
  <2>1. rsms \in Line
    BY <1>2 DEF ReaderType
  <2>2. unsol' = unsol \o <<rsms, l>> /\ rsms' = NULL
    BY <1>2 DEF GotLine
  <2>3. unsol' \in Seq(Line)
    BY <2>1, <2>2 DEF ReaderType
  <2>4. rpc' = "readline" /\ rline' = rline
    BY <1>2 DEF GotLine
  <2> QED BY <2>2, <2>3, <2>4 DEF ReaderType, ReaderPcs
<1> QED BY <1>1, <1>2

-----------------------------------------------------------------------------
(***************************************************************************)
(* Type correctness.                                                       *)
(***************************************************************************)
LEMMA TypeInit == Init => TypeOK
<1> SUFFICES ASSUME Init PROVE TypeOK
  OBVIOUS
<1>1. ChannelType
  BY DEF Init, ChannelType, ATCommandType
<1>2. ThreadType
  <2>1. tries \in [Threads -> 0 .. HANDSHAKE_RETRY_COUNT - 1]
    BY ConstantsAssumption DEF ConstantsAssumption, Init
  <2>2. req \in [Threads -> RequestType]
    BY DEF Init, RequestType, Apis
  <2> QED BY <2>1, <2>2 DEF Init, ThreadType, PcValues, Errors
<1>3. ReaderType
  BY DEF Init, ReaderType, ReaderPcs
<1>4. ModemType
  <2>1. answer \in [n : Nat, pdu : BOOLEAN]
    BY DEF Init
  <2>2. rx = << >> /\ history = << >> /\ tx = << >>
    BY DEF Init
  <2>3. hup \in BOOLEAN /\ writes \in Nat /\ timeouts \in Nat
    BY DEF Init
  <2> QED BY <2>1, <2>2, <2>3 DEF ModemType
<1> QED BY <1>1, <1>2, <1>3, <1>4 DEF TypeOK

(* The state of the channel and of its pending command keeps its type.      *)
LEMMA ChannelTypeStep ==
  ASSUME TypeOK, Next
  PROVE  ChannelType'
<1> USE DEF TypeOK
<1>1. ASSUME UNCHANGED <<channelVars, pendingVars>> PROVE ChannelType'
  BY <1>1 DEF ChannelType
<1>2. ASSUME NEW t \in Threads, at_open(t) \/ at_close(t) \/ CloseReader(t)
      PROVE  ChannelType'
  BY <1>2 DEF ChannelType, at_open, at_close, CloseReader
<1>3. ASSUME NEW t \in Threads, CommandPending(t) \/ WriteFails(t)
                                \/ GiveUp(t) \/ TakeResponse(t)
      PROVE  ChannelType'
  BY <1>3 DEF ChannelType, CommandPending, WriteFails, GiveUp, TakeResponse,
       clearPendingCommand
<1>4. ASSUME NEW t \in Threads, Arm(t) PROVE ChannelType'
  <2>1. id[t] \in Nat /\ req[t] \in RequestType
    BY DEF ThreadType
  <2>2. TypeOf(req[t].api) \in ATCommandType
    BY <2>1 DEF TypeOf, ATCommandType, RequestType, Apis
  <2>3. PrefixOf(req[t]) \in ResponsePrefixes \cup {AnyPrefix, NULL}
    BY <2>1 DEF RequestType, PrefixOf
  <2>4. sp_response' \in ATResponse
    BY <1>4, <2>1, NewResponseType DEF Arm
  <2> QED BY <1>4, <2>1, <2>2, <2>3, <2>4 DEF Arm, ChannelType
<1>5. ASSUME Processing, sp_response # NULL
      PROVE  sp_response \in ATResponse /\ rline \in Line
  BY <1>5 DEF ChannelType, ReaderType, Processing
<1>6. CASE handleFinalResponse
  <2>1. sp_response \in ATResponse /\ rline \in Line
    BY <1>5, <1>6 DEF handleFinalResponse
  <2>2. isFinalResponseSuccess(rline) \in BOOLEAN
    BY DEF isFinalResponseSuccess
  <2>3. sp_response' = [sp_response EXCEPT
                          !.success = isFinalResponseSuccess(rline),
                          !.finalResponse = rline]
    BY <1>6 DEF handleFinalResponse
  <2>4. sp_response' \in ATResponse
    BY <2>1, <2>2, <2>3 DEF ATResponse
  <2> QED BY <1>6, <2>4 DEF ChannelType, handleFinalResponse, Processing
<1>7. CASE addIntermediate
  <2>1. sp_response \in ATResponse /\ rline \in Line
    BY <1>5, <1>7 DEF addIntermediate
  <2>2. sp_response.p_intermediates \in Seq(Line)
    BY <2>1 DEF ATResponse
  <2>3. Cons(rline, sp_response.p_intermediates) \in Seq(Line)
    BY <2>1, <2>2 DEF Cons
  <2>4. sp_response' \in ATResponse
    BY <1>7, <2>1, <2>3 DEF ATResponse, addIntermediate
  <2> QED BY <1>7, <2>4 DEF ChannelType, addIntermediate, Processing
<1>8. CASE writeCtrlZ \/ handleUnsolicited \/ onReaderClosed
  BY <1>8 DEF ChannelType, writeCtrlZ, handleUnsolicited, Processing,
       onReaderClosed
<1>9. ASSUME NEW t \in Threads,
             Call(t) \/ Lock(t) \/ writeline(t) \/ Wait(t)
             \/ NullDereference(t) \/ SpuriousWakeup(t) \/ Timeout(t)
             \/ Relock(t) \/ HandshakePause(t) \/ Return(t)
      PROVE  UNCHANGED <<channelVars, pendingVars>>
  BY <1>9 DEF Call, Lock, writeline, Wait, NullDereference, SpuriousWakeup,
       Timeout, Relock, HandshakePause, Return
<1>10. CASE TakeBuffered \/ EnterRead \/ ReadData \/ ReadEof \/ Modem
            \/ Quiescent
  <2>1. UNCHANGED <<channelVars, pendingVars>>
    BY <1>10 DEF TakeBuffered, EnterRead, ReadData, ReadEof, Modem, ModemText,
         ModemPrompt, ModemPdu, ModemFinal, ModemUrc, ModemHangUp, Quiescent
  <2> QED BY <1>1, <2>1
<1> QED BY <1>1, <1>2, <1>3, <1>4, <1>6, <1>7, <1>8, <1>9, <1>10
      DEF Next, Thread, InCall, readerLoop, processLine

(* The threads' state keeps its type.                                       *)
LEMMA ThreadTypeStep ==
  ASSUME TypeOK, Next
  PROVE  ThreadType'
<1> USE DEF TypeOK
<1>1. ASSUME UNCHANGED threadVars PROVE ThreadType'
  BY <1>1 DEF ThreadType
<1>2. ASSUME NEW t \in Threads, Call(t) PROVE ThreadType'
  BY <1>2, ConstantsAssumption
     DEF ConstantsAssumption, Call, ThreadType, Goto, PcValues, Errors
<1>3. ASSUME NEW t \in Threads,
             at_close(t) \/ Lock(t) \/ Arm(t) \/ Wait(t) \/ NullDereference(t)
             \/ SpuriousWakeup(t) \/ Timeout(t) \/ Relock(t)
             \/ HandshakePause(t)
      PROVE  ThreadType'
  BY <1>3 DEF at_close, Lock, Arm, Wait, NullDereference, SpuriousWakeup,
       Timeout, Relock, HandshakePause, ThreadType, Goto, PcValues, Holding,
       Published
<1>4. ASSUME NEW t \in Threads, writeline(t) PROVE ThreadType'
  BY <1>4 DEF writeline, ThreadType, ModemType, Goto, PcValues, Holding
<1>5. ASSUME NEW t \in Threads, CloseReader(t) PROVE ThreadType'
  <2>1. [pc EXCEPT ![t] = "idle"] \in [Threads -> PcValues]
    BY DEF ThreadType, PcValues
  <2>2. pc' \in [Threads -> PcValues]
    BY <1>5, <2>1, SignalType DEF CloseReader
  <2> QED BY <1>5, <2>2 DEF CloseReader, ThreadType
<1>6. ASSUME NEW t \in Threads, CommandPending(t) PROVE ThreadType'
  BY <1>6, ReturnedType DEF CommandPending, ThreadType, Errors
<1>7. ASSUME NEW t \in Threads, WriteFails(t) PROVE ThreadType'
  <2>1. \E e \in Errors : Returned(t, e)
    BY <1>7 DEF WriteFails, Errors
  <2> QED BY <1>7, <2>1, ReturnedType DEF WriteFails, ThreadType
<1>8. ASSUME NEW t \in Threads, GiveUp(t) PROVE ThreadType'
  BY <1>8, ReturnedType DEF GiveUp, ThreadType, Errors
<1>9. ASSUME NEW t \in Threads, TakeResponse(t) PROVE ThreadType'
  <2>1. \E e \in Errors : Returned(t, e)
    BY <1>9 DEF TakeResponse, Errors
  <2>2. reverseIntermediates(sp_response) \in ATResponse
    BY <1>9, ReverseType DEF TakeResponse, ChannelType
  <2>3. out' \in [Threads -> ATResponse \cup {NULL}]
    BY <1>9, <2>2 DEF TakeResponse, ThreadType
  <2> QED BY <1>9, <2>1, <2>3, ReturnedType DEF TakeResponse, ThreadType
<1>10. ASSUME NEW t \in Threads, Return(t) PROVE ThreadType'
  BY <1>10 DEF Return, ThreadType, Goto, PcValues, Errors
<1>11. CASE handleFinalResponse \/ onReaderClosed
  <2>1. pc' \in [Threads -> PcValues]
    BY <1>11, SignalType DEF handleFinalResponse, onReaderClosed, ThreadType
  <2> QED BY <1>11, <2>1 DEF handleFinalResponse, onReaderClosed, Processing,
            ThreadType
<1>12. CASE writeCtrlZ \/ addIntermediate \/ handleUnsolicited
  BY <1>1, <1>12 DEF writeCtrlZ, addIntermediate, handleUnsolicited, Processing
<1>13. CASE TakeBuffered \/ EnterRead \/ ReadData \/ ReadEof \/ Modem
            \/ Quiescent
  <2>1. UNCHANGED threadVars
    BY <1>13 DEF TakeBuffered, EnterRead, ReadData, ReadEof, Modem, ModemText,
         ModemPrompt, ModemPdu, ModemFinal, ModemUrc, ModemHangUp, Quiescent
  <2> QED BY <1>1, <2>1
<1>14. ASSUME NEW t \in Threads, at_open(t) PROVE ThreadType'
  BY <1>1, <1>14 DEF at_open
<1> QED BY <1>2, <1>3, <1>4, <1>5, <1>6, <1>7, <1>8, <1>9, <1>10, <1>11,
           <1>12, <1>13, <1>14
      DEF Next, Thread, InCall, readerLoop, processLine

(* The reader's state keeps its type.                                       *)
LEMMA ReaderTypeStep ==
  ASSUME TypeOK, Next
  PROVE  ReaderType'
<1> USE DEF TypeOK
<1>1. ASSUME UNCHANGED readerVars PROVE ReaderType'
  BY <1>1 DEF ReaderType
<1>2. CASE TakeBuffered
  <2>1. Head(buf) \in Line /\ buf' \in Seq(Line) /\ GotLine(Head(buf))
    BY <1>2 DEF TakeBuffered, ReaderType
  <2> QED BY <2>1, GotLineType
<1>3. CASE ReadData
  <2>1. Head(rx) \in Line /\ buf' \in Seq(Line) /\ GotLine(Head(rx))
    BY <1>3 DEF ReadData, ModemType
  <2> QED BY <2>1, GotLineType
<1>4. CASE EnterRead \/ ReadEof \/ onReaderClosed
  BY <1>4 DEF EnterRead, ReadEof, onReaderClosed, ReaderType, ReaderPcs
<1>5. CASE handleFinalResponse \/ writeCtrlZ \/ addIntermediate
  BY <1>5 DEF handleFinalResponse, writeCtrlZ, addIntermediate, Processing,
       ReaderType, ReaderPcs
<1>6. CASE handleUnsolicited
  <2>1. rline \in Line /\ unsol \in Seq(Line)
    BY <1>6 DEF handleUnsolicited, Processing, ReaderType
  <2>2. unsol' \in Seq(Line)
    BY <1>6, <2>1 DEF handleUnsolicited
  <2> QED BY <1>6, <2>2 DEF handleUnsolicited, Processing, ReaderType,
            ReaderPcs
<1>7. ASSUME NEW t \in Threads, at_open(t) PROVE ReaderType'
  BY <1>7 DEF at_open, ReaderType, ReaderPcs
<1>8. ASSUME NEW t \in Threads,
             at_close(t) \/ Call(t) \/ InCall(t) \/ SpuriousWakeup(t)
             \/ Timeout(t)
      PROVE  UNCHANGED readerVars
  BY <1>8 DEF at_close, Call, InCall, CloseReader, Lock, CommandPending,
       WriteFails, writeline, Arm, Wait, NullDereference, Relock, GiveUp,
       TakeResponse, HandshakePause, Return, SpuriousWakeup, Timeout
<1>9. CASE Modem \/ Quiescent
  <2>1. UNCHANGED readerVars
    BY <1>9 DEF Modem, ModemText, ModemPrompt, ModemPdu, ModemFinal, ModemUrc,
         ModemHangUp, Quiescent
  <2> QED BY <1>1, <2>1
<1> QED BY <1>1, <1>2, <1>3, <1>4, <1>5, <1>6, <1>7, <1>8, <1>9
      DEF Next, Thread, readerLoop, processLine

(* What the modem emits stays a sequence of lines.                          *)
LEMMA EmitType ==
  ASSUME ModemType, NEW ls \in Seq(Line), Emit(ls)
  PROVE  rx' \in Seq(Line) /\ history' \in Seq(Line)
BY DEF ModemType, Emit

(* The serial line, the modem and the counters keep their types.            *)
LEMMA ModemTypeStep ==
  ASSUME TypeOK, Next
  PROVE  ModemType'
<1> USE DEF TypeOK
<1>1. ASSUME UNCHANGED <<modemVars, countVars>> PROVE ModemType'
  BY <1>1 DEF ModemType
<1>2. ASSUME NEW t \in Threads, writeline(t) PROVE ModemType'
  <2>1. [kind |-> "cmd", id |-> writes + 1, req |-> req[t]] \in Written
    BY DEF Written, ThreadType, ModemType
  <2>2. tx' \in Seq(Written)
    BY <1>2, <2>1 DEF writeline, ModemType
  <2> QED BY <1>2, <2>2 DEF writeline, ModemType
<1>3. ASSUME NEW t \in Threads, Timeout(t) PROVE ModemType'
  BY <1>3 DEF Timeout, ModemType
<1>4. CASE ReadData
  BY <1>4 DEF ReadData, ModemType
<1>5. CASE writeCtrlZ
  <2> DEFINE pdu == [kind |-> "pdu", id |-> s_smsPDU,
                     req |-> [api |-> "sms", prefix |-> AnyPrefix,
                              out |-> FALSE]]
  <2>1. s_smsPDU \in Nat
    BY <1>5 DEF writeCtrlZ, IsPrompt, ChannelType
  <2>2. pdu.req \in RequestType
    BY DEF RequestType, Apis
  <2>3. pdu \in Written
    BY <2>1, <2>2 DEF Written
  <2>4. tx' = Append(tx, pdu) \/ tx' = tx
    BY <1>5 DEF writeCtrlZ
  <2> HIDE DEF pdu
  <2>5. tx' \in Seq(Written)
    <3>1. tx \in Seq(Written)
      BY DEF ModemType
    <3>2. Append(tx, pdu) \in Seq(Written)
      BY <2>3, <3>1
    <3> QED BY <2>4, <3>1, <3>2
  <2> QED BY <1>5, <2>5 DEF writeCtrlZ, Processing, ModemType
<1>6. CASE ModemText \/ ModemPrompt
  <2>1. PICK k \in LineKinds, p \in AllPrefixes :
               Answering /\ Emit(<<NewLine(k, p, Head(tx).id, 1)>>)
    BY <1>6, AnsweringType
       DEF ModemText, ModemPrompt, LineKinds, AllPrefixes
  <2>2. <<NewLine(k, p, Head(tx).id, 1)>> \in Seq(Line)
    BY <2>1, AnsweringType, NewLineType
  <2>3. rx' \in Seq(Line) /\ history' \in Seq(Line)
    BY <2>1, <2>2, EmitType
  <2>4. answer' \in [n : Nat, pdu : BOOLEAN]
    <3>1. answer' = [answer EXCEPT !.n = @ + 1]
      BY <1>6 DEF ModemText, ModemPrompt
    <3> QED BY <3>1 DEF ModemType
  <2> QED BY <1>6, <2>3, <2>4 DEF ModemText, ModemPrompt, ModemType
<1>7. CASE ModemPdu
  <2>1. PICK k \in {1, 2} : /\ k <= Len(tx)
                            /\ tx' = RemoveAt(tx, k)
                            /\ answer' = [answer EXCEPT !.pdu = (k = 2)]
    BY <1>7 DEF ModemPdu
  <2>2. tx' \in Seq(Written)
    BY <2>1, RemoveAtType DEF ModemType
  <2>3. answer' \in [n : Nat, pdu : BOOLEAN]
    <3>1. (k = 2) \in BOOLEAN
      OBVIOUS
    <3> QED BY <2>1, <3>1 DEF ModemType
  <2> QED BY <1>7, <2>2, <2>3 DEF ModemPdu, ModemType
<1>8. CASE ModemFinal
  <2>1. PICK k \in LineKinds : /\ Answering
                               /\ Emit(<<NewLine(k, Other, Head(tx).id, 1)>>)
    BY <1>8 DEF ModemFinal, LineKinds
  <2>2. <<NewLine(k, Other, Head(tx).id, 1)>> \in Seq(Line)
    <3>1. Head(tx).id \in Nat /\ Other \in AllPrefixes
      BY <2>1, AnsweringType DEF AllPrefixes
    <3>2. NewLine(k, Other, Head(tx).id, 1) \in Line
      BY <3>1, NewLineType
    <3> QED BY <3>2
  <2>3. rx' \in Seq(Line) /\ history' \in Seq(Line)
    BY <2>1, <2>2, EmitType
  <2>4. answer' \in [n : Nat, pdu : BOOLEAN]
    BY <1>8 DEF ModemFinal
  <2>5. tx' \in Seq(Written) /\ UNCHANGED <<hup, countVars>>
    BY <1>8, <2>1, AnsweringType DEF ModemFinal
  <2> QED BY <2>3, <2>4, <2>5 DEF ModemType
<1>9. CASE ModemUrc
  <2>1. \A k \in LineKinds, p \in AllPrefixes, i \in {1, 2} :
            NewLine(k, p, 0, i) \in Line
    BY NewLineType
  <2>2. \E ls \in Seq(Line) : Emit(ls)
    <3>1. ASSUME NEW p \in ResponsePrefixes \cup {Digit, Other},
                 Emit(<<NewLine("text", p, 0, 1)>>)
          PROVE  \E ls \in Seq(Line) : Emit(ls)
      <4>1. NewLine("text", p, 0, 1) \in Line
        BY <2>1 DEF LineKinds, AllPrefixes
      <4>2. <<NewLine("text", p, 0, 1)>> \in Seq(Line)
        BY <4>1
      <4> QED BY <3>1, <4>2
    <3>2. ASSUME Emit(<<NewLine("sms", Other, 0, 1),
                        NewLine("smspdu", Other, 0, 2)>>)
          PROVE  \E ls \in Seq(Line) : Emit(ls)
      <4>1. NewLine("sms", Other, 0, 1) \in Line
            /\ NewLine("smspdu", Other, 0, 2) \in Line
        BY <2>1 DEF LineKinds, AllPrefixes
      <4>2. <<NewLine("sms", Other, 0, 1),
              NewLine("smspdu", Other, 0, 2)>> \in Seq(Line)
        BY <4>1
      <4> QED BY <3>2, <4>2
    <3>3. ASSUME Emit(<<NewLine("error", Other, 0, 1)>>)
          PROVE  \E ls \in Seq(Line) : Emit(ls)
      <4>1. NewLine("error", Other, 0, 1) \in Line
        BY <2>1 DEF LineKinds, AllPrefixes
      <4>2. <<NewLine("error", Other, 0, 1)>> \in Seq(Line)
        BY <4>1
      <4> QED BY <3>3, <4>2
    <3> QED BY <1>9, <3>1, <3>2, <3>3 DEF ModemUrc
  <2>3. rx' \in Seq(Line) /\ history' \in Seq(Line)
    BY <2>2, EmitType
  <2> QED BY <1>9, <2>3 DEF ModemUrc, ModemType
<1>10. CASE ModemHangUp
  BY <1>10 DEF ModemHangUp, ModemType
<1>11. ASSUME NEW t \in Threads,
              at_open(t) \/ at_close(t) \/ Call(t) \/ CloseReader(t) \/ Lock(t)
              \/ CommandPending(t) \/ WriteFails(t) \/ Arm(t) \/ Wait(t)
              \/ NullDereference(t) \/ Relock(t) \/ GiveUp(t)
              \/ TakeResponse(t) \/ HandshakePause(t) \/ Return(t)
              \/ SpuriousWakeup(t)
       PROVE  UNCHANGED <<modemVars, countVars>>
  BY <1>11 DEF at_open, at_close, Call, CloseReader, Lock, CommandPending,
       WriteFails, Arm, Wait, NullDereference, Relock, GiveUp, TakeResponse,
       HandshakePause, Return, SpuriousWakeup
<1>12. CASE TakeBuffered \/ EnterRead \/ ReadEof \/ handleFinalResponse
            \/ addIntermediate \/ handleUnsolicited \/ onReaderClosed
            \/ Quiescent
  <2>1. UNCHANGED <<modemVars, countVars>>
    BY <1>12 DEF TakeBuffered, EnterRead, ReadEof, handleFinalResponse,
         addIntermediate, handleUnsolicited, Processing, onReaderClosed,
         Quiescent
  <2> QED BY <1>1, <2>1
<1> QED BY <1>1, <1>2, <1>3, <1>4, <1>5, <1>6, <1>7, <1>8, <1>9, <1>10,
           <1>11, <1>12
      DEF Next, Thread, InCall, readerLoop, processLine, Modem

(* Every variable of the channel, its callers, its reader and the modem     *)
(* keeps its type, and processLine always has a line to process.            *)
THEOREM TypeCorrect == Spec => []TypeOK
<1>1. TypeOK /\ [Next]_vars => TypeOK'
  <2>1. TypeOK /\ Next => TypeOK'
    BY ChannelTypeStep, ThreadTypeStep, ReaderTypeStep, ModemTypeStep
       DEF TypeOK
  <2>2. TypeOK /\ UNCHANGED vars => TypeOK'
    BY DEF TypeOK, ChannelType, ThreadType, ReaderType, ModemType
  <2> QED BY <2>1, <2>2
<1> QED BY TypeInit, <1>1, PTL DEF Spec

-----------------------------------------------------------------------------
(***************************************************************************)
(* Mutual exclusion.                                                       *)
(***************************************************************************)
(* s_commandmutex is held exactly by the thread that is between its lock    *)
(* and its unlock, outside of the wait: MutexExclusive is inductive with    *)
(* the types.                                                               *)
THEOREM MutexCorrect == Spec => []MutexExclusive
<1>1. Init => MutexExclusive
  BY ConstantsAssumption
     DEF ConstantsAssumption, Init, MutexExclusive, Holding
<1>2. TypeOK /\ MutexExclusive /\ [Next]_vars => MutexExclusive'
  <2> SUFFICES ASSUME TypeOK, MutexExclusive, [Next]_vars
               PROVE  MutexExclusive'
    OBVIOUS
  <2>0. NoThread \notin Threads /\ pc \in [Threads -> PcValues]
    BY ConstantsAssumption DEF ConstantsAssumption, TypeOK, ThreadType
  <2>1. ASSUME UNCHANGED <<mutex, pc>> PROVE MutexExclusive'
    BY <2>1 DEF MutexExclusive
  <2>2. ASSUME NEW t \in Threads, Lock(t) \/ Relock(t) PROVE MutexExclusive'
    BY <2>0, <2>2 DEF Lock, Relock, Goto, MutexExclusive, Holding
  <2>3. ASSUME NEW t \in Threads, NEW e, Returned(t, e)
        PROVE  \E h \in Holding : pc' = [pc EXCEPT ![t] = h]
    BY <2>3 DEF Returned, Goto, Holding
  <2>4. ASSUME NEW t \in Threads, GiveUp(t) PROVE MutexExclusive'
    BY <2>0, <2>3, <2>4 DEF GiveUp, MutexExclusive
  <2>5. ASSUME NEW t \in Threads,
               CommandPending(t) \/ WriteFails(t) \/ TakeResponse(t)
        PROVE  MutexExclusive'
    <3>1. pc[t] \in Holding /\ mutex' = mutex
      BY <2>5 DEF CommandPending, WriteFails, TakeResponse, Holding
    <3>2. \E e : Returned(t, e)
      BY <2>5 DEF CommandPending, WriteFails, TakeResponse
    <3> QED BY <2>0, <2>3, <3>1, <3>2 DEF MutexExclusive
  <2>6. ASSUME NEW t \in Threads,
               writeline(t) \/ Arm(t) \/ NullDereference(t)
               \/ HandshakePause(t)
        PROVE  MutexExclusive'
    BY <2>0, <2>6 DEF writeline, Arm, NullDereference, HandshakePause, Goto,
         MutexExclusive, Holding
  <2>7. ASSUME NEW t \in Threads, Wait(t) \/ Return(t) PROVE MutexExclusive'
    BY <2>0, <2>7 DEF Wait, Return, Goto, MutexExclusive, Holding
  <2>8. ASSUME NEW t \in Threads,
               at_close(t) \/ Call(t) \/ SpuriousWakeup(t) \/ Timeout(t)
        PROVE  MutexExclusive'
    BY <2>0, <2>8 DEF at_close, Call, SpuriousWakeup, Timeout, Goto,
         MutexExclusive, Holding
  <2>9. ASSUME NEW p \in [Threads -> PcValues], Signal(p), mutex' = mutex,
               \A t \in Threads : p[t] \in Holding <=> mutex = t
        PROVE  MutexExclusive'
    BY <2>9 DEF Signal, MutexExclusive, Holding
  <2>10. ASSUME NEW t \in Threads, CloseReader(t) PROVE MutexExclusive'
    <3>1. [pc EXCEPT ![t] = "idle"] \in [Threads -> PcValues]
      BY <2>0 DEF PcValues
    <3>2. \A u \in Threads : [pc EXCEPT ![t] = "idle"][u] \in Holding
                               <=> mutex = u
      BY <2>0, <2>10 DEF CloseReader, MutexExclusive, Holding
    <3> QED BY <2>9, <2>10, <3>1, <3>2 DEF CloseReader
  <2>11. CASE handleFinalResponse \/ onReaderClosed
    BY <2>0, <2>1, <2>9, <2>11
       DEF handleFinalResponse, Processing, onReaderClosed, MutexExclusive
  <2>12. CASE writeCtrlZ \/ addIntermediate \/ handleUnsolicited
    BY <2>1, <2>12
       DEF writeCtrlZ, addIntermediate, handleUnsolicited, Processing
  <2>13. CASE TakeBuffered \/ EnterRead \/ ReadData \/ ReadEof \/ Modem
              \/ Quiescent
    <3>1. UNCHANGED <<mutex, pc>>
      BY <2>13 DEF TakeBuffered, EnterRead, ReadData, ReadEof, Modem,
           ModemText, ModemPrompt, ModemPdu, ModemFinal, ModemUrc,
           ModemHangUp, Quiescent
    <3> QED BY <2>1, <3>1
  <2>14. ASSUME NEW t \in Threads, at_open(t) PROVE MutexExclusive'
    BY <2>1, <2>14 DEF at_open
  <2>15. CASE UNCHANGED vars
    BY <2>1, <2>15
  <2> QED BY <2>2, <2>4, <2>5, <2>6, <2>7, <2>8, <2>10, <2>11, <2>12, <2>13,
             <2>14, <2>15
        DEF Next, Thread, InCall, readerLoop, processLine
<1> QED BY <1>1, <1>2, TypeCorrect, PTL DEF Spec

-----------------------------------------------------------------------------
(***************************************************************************)
(* Success needs a final response.                                         *)
(***************************************************************************)
(* at_send_command* never returns 0 with a response whose finalResponse is  *)
(* NULL, whatever threads send, close or lose the channel.                  *)
THEOREM SuccessHasFinal == Spec => []NoEmptySuccess
<1>1. Init => NoEmptySuccess
  BY DEF Init, NoEmptySuccess
<1>2. TypeOK /\ NoEmptySuccess /\ [Next]_vars => NoEmptySuccess'
  <2> SUFFICES ASSUME TypeOK, NoEmptySuccess, [Next]_vars
               PROVE  NoEmptySuccess'
    OBVIOUS
  <2>0. /\ err \in [Threads -> Errors]
        /\ out \in [Threads -> ATResponse \cup {NULL}]
    BY DEF TypeOK, ThreadType
  <2>1. ASSUME UNCHANGED <<err, out>> PROVE NoEmptySuccess'
    BY <2>1 DEF NoEmptySuccess
  <2>2. ASSUME NEW t \in Threads, NEW e \in Errors \ {"OK"}, Returned(t, e),
               UNCHANGED out
        PROVE  NoEmptySuccess'
    BY <2>0, <2>2 DEF Returned, NoEmptySuccess
  <2>3. ASSUME NEW t \in Threads,
               CommandPending(t) \/ WriteFails(t) \/ GiveUp(t)
        PROVE  NoEmptySuccess'
    BY <2>2, <2>3 DEF CommandPending, WriteFails, GiveUp, Errors
  <2>4. ASSUME NEW t \in Threads, TakeResponse(t) PROVE NoEmptySuccess'
    <3>1. sp_response \in ATResponse
      BY <2>4 DEF TakeResponse, TypeOK, ChannelType
    <3>2. reverseIntermediates(sp_response).finalResponse
            = sp_response.finalResponse
      BY <3>1 DEF reverseIntermediates, ATResponse
    <3>3. CASE s_readerClosed
      BY <2>0, <2>4, <3>3 DEF TakeResponse, Returned, NoEmptySuccess
    <3>4. CASE ~s_readerClosed
      BY <2>0, <2>4, <3>2, <3>4 DEF TakeResponse, NoEmptySuccess, Returned
    <3> QED BY <3>3, <3>4
  <2>5. ASSUME NEW t \in Threads, Call(t) \/ Return(t) PROVE NoEmptySuccess'
    BY <2>0, <2>5 DEF Call, Return, NoEmptySuccess
  <2>6. ASSUME NEW t \in Threads,
               at_open(t) \/ at_close(t) \/ CloseReader(t) \/ Lock(t)
               \/ writeline(t) \/ Arm(t) \/ Wait(t) \/ NullDereference(t)
               \/ Relock(t) \/ HandshakePause(t) \/ SpuriousWakeup(t)
               \/ Timeout(t)
        PROVE  UNCHANGED <<err, out>>
    BY <2>6 DEF at_open, at_close, CloseReader, Lock, writeline, Arm, Wait,
         NullDereference, Relock, HandshakePause, SpuriousWakeup, Timeout
  <2>7. CASE readerLoop \/ Modem \/ Quiescent
    <3>1. UNCHANGED <<err, out>>
      BY <2>7 DEF readerLoop, processLine, TakeBuffered, EnterRead, ReadData,
           ReadEof, handleFinalResponse, writeCtrlZ, addIntermediate,
           handleUnsolicited, Processing, onReaderClosed, Modem, ModemText,
           ModemPrompt, ModemPdu, ModemFinal, ModemUrc, ModemHangUp, Quiescent
    <3> QED BY <2>1, <3>1
  <2>8. CASE UNCHANGED vars
    BY <2>1, <2>8
  <2> QED BY <2>1, <2>3, <2>4, <2>5, <2>6, <2>7, <2>8
        DEF Next, Thread, InCall
<1> QED BY <1>1, <1>2, TypeCorrect, PTL DEF Spec

-----------------------------------------------------------------------------
(***************************************************************************)
(* One command thread.                                                     *)
(***************************************************************************)
(* pthread_cond_signal moves threads only inside the wait loop.             *)
LEMMA SignalKeeps ==
  ASSUME NEW p \in [Threads -> PcValues], Signal(p), NEW t \in Threads
  PROVE  /\ pc'[t] \in Published <=> p[t] \in Published
         /\ pc'[t] # p[t] => p[t] = "wait" /\ pc'[t] = "relock"
BY DEF Signal, Published

(* processLine changes what is in the response, never whose it is.          *)
LEMMA ProcessKeepsOwner ==
  ASSUME TypeOK, processLine
  PROVE  /\ sp_response' # NULL <=> sp_response # NULL
         /\ sp_response # NULL => sp_response'.id = sp_response.id
<1>1. CASE handleFinalResponse \/ addIntermediate
  <2>1. sp_response \in ATResponse
    BY <1>1 DEF handleFinalResponse, addIntermediate, TypeOK, ChannelType
  <2>2. sp_response'.id = sp_response.id
    BY <1>1, <2>1 DEF handleFinalResponse, addIntermediate, ATResponse
  <2>3. sp_response' # NULL
    <3>1. CASE handleFinalResponse
      <4>1. rline \in Line /\ isFinalResponseSuccess(rline) \in BOOLEAN
        BY <3>1 DEF handleFinalResponse, Processing, TypeOK, ReaderType,
             isFinalResponseSuccess
      <4>2. sp_response' = [sp_response EXCEPT
                              !.success = isFinalResponseSuccess(rline),
                              !.finalResponse = rline]
        BY <3>1 DEF handleFinalResponse
      <4>3. sp_response' \in ATResponse
        BY <2>1, <4>1, <4>2 DEF ATResponse
      <4> QED BY <4>3, NullAssumption DEF NullAssumption
    <3>2. CASE addIntermediate
      <4>1. rline \in Line /\ sp_response.p_intermediates \in Seq(Line)
        BY <2>1, <3>2 DEF addIntermediate, Processing, TypeOK, ReaderType,
             ATResponse
      <4>2. Cons(rline, sp_response.p_intermediates) \in Seq(Line)
        BY <4>1 DEF Cons
      <4>3. sp_response' \in ATResponse
        BY <2>1, <3>2, <4>2 DEF addIntermediate, ATResponse
      <4> QED BY <4>3, NullAssumption DEF NullAssumption
    <3> QED BY <1>1, <3>1, <3>2
  <2> QED BY <1>1, <2>2, <2>3 DEF handleFinalResponse, addIntermediate
<1>2. CASE writeCtrlZ \/ handleUnsolicited
  BY <1>2 DEF writeCtrlZ, handleUnsolicited
<1> QED BY <1>1, <1>2 DEF processLine

(* The invariant for one command thread.                                    *)
LEMMA SoleCommanderKept ==
  ASSUME \A a, b \in Commanders : a = b
  PROVE  Spec => [](CallersKnown /\ ResponseOwned)
<1> DEFINE Inv == CallersKnown /\ ResponseOwned
<1>1. Init => Inv
  BY DEF Init, CallersKnown, ResponseOwned, Published
<1>2. TypeOK /\ Inv /\ [Next]_vars => Inv'
  <2> SUFFICES ASSUME TypeOK, CallersKnown, ResponseOwned, [Next]_vars
               PROVE  CallersKnown' /\ ResponseOwned'
    OBVIOUS
  <2>0. pc \in [Threads -> PcValues] /\ id \in [Threads -> Nat]
    BY DEF TypeOK, ThreadType
  <2>1. ASSUME UNCHANGED <<pc, rpc, sp_response, id>>
        PROVE  CallersKnown' /\ ResponseOwned'
    BY <2>1 DEF CallersKnown, ResponseOwned
  <2>2. ASSUME NEW t \in Threads, at_open(t)
        PROVE  CallersKnown' /\ ResponseOwned'
    BY <2>2 DEF at_open, CallersKnown, ResponseOwned, Published
  <2>3. ASSUME NEW t \in Threads, at_close(t) \/ Call(t)
        PROVE  CallersKnown' /\ ResponseOwned'
    BY <2>0, <2>3 DEF at_close, Call, Goto, CallersKnown, ResponseOwned,
         Published
  <2>4. ASSUME NEW t \in Threads, pc[t] \notin {"idle", "closing"}
        PROVE  /\ t \in Commanders /\ rpc # "none"
               /\ \A u \in Threads \ {t} : pc[u] \in {"idle", "closing"}
    BY <2>4 DEF CallersKnown
  <2>5. ASSUME NEW t \in Threads, Lock(t) \/ HandshakePause(t) \/ Return(t)
        PROVE  CallersKnown' /\ ResponseOwned'
    BY <2>0, <2>4, <2>5 DEF Lock, HandshakePause, Return, Goto, CallersKnown,
         ResponseOwned, Published
  <2>6. ASSUME NEW t \in Threads, writeline(t)
        PROVE  CallersKnown' /\ ResponseOwned'
    BY <2>0, <2>4, <2>6 DEF writeline, Goto, CallersKnown, ResponseOwned,
         Published
  <2>7. ASSUME NEW t \in Threads, Arm(t)
        PROVE  CallersKnown' /\ ResponseOwned'
    <3>1. sp_response' # NULL /\ sp_response'.id = id[t]
      BY <2>0, <2>7, NewResponseType DEF Arm, at_response_new
    <3> QED BY <2>0, <2>4, <2>7, <3>1 DEF Arm, Goto, CallersKnown,
              ResponseOwned, Published
  <2>8. ASSUME NEW t \in Threads,
               Wait(t) \/ NullDereference(t) \/ SpuriousWakeup(t)
               \/ Timeout(t) \/ Relock(t)
        PROVE  CallersKnown' /\ ResponseOwned'
    BY <2>0, <2>4, <2>8 DEF Wait, NullDereference, SpuriousWakeup, Timeout,
         Relock, Goto, CallersKnown, ResponseOwned, Published
  <2>9. ASSUME NEW t \in Threads, NEW e, Returned(t, e), sp_response' = NULL,
               UNCHANGED <<rpc, id>>, pc[t] \notin {"idle", "closing"}
        PROVE  CallersKnown' /\ ResponseOwned'
    BY <2>0, <2>4, <2>9 DEF Returned, Goto, CallersKnown, ResponseOwned,
         Published
  <2>10. ASSUME NEW t \in Threads,
                CommandPending(t) \/ WriteFails(t) \/ GiveUp(t)
                \/ TakeResponse(t)
         PROVE  CallersKnown' /\ ResponseOwned'
    <3>1. /\ sp_response' = NULL /\ UNCHANGED <<rpc, id>>
          /\ pc[t] \notin {"idle", "closing"}
      BY <2>10 DEF CommandPending, WriteFails, GiveUp, TakeResponse,
           clearPendingCommand
    <3>2. \E e : Returned(t, e)
      BY <2>10 DEF CommandPending, WriteFails, GiveUp, TakeResponse
    <3> QED BY <2>9, <3>1, <3>2
  <2>11. ASSUME NEW t \in Threads, CloseReader(t)
         PROVE  CallersKnown' /\ ResponseOwned'
    <3> DEFINE p == [pc EXCEPT ![t] = "idle"]
    <3>1. p \in [Threads -> PcValues] /\ Signal(p)
      BY <2>0, <2>11 DEF CloseReader, PcValues
    <3>2. \A u \in Threads : /\ p[u] = IF u = t THEN "idle" ELSE pc[u]
                             /\ pc[t] = "closing"
      BY <2>0, <2>11 DEF CloseReader
    <3> HIDE DEF p
    <3>3. \A u \in Threads : /\ pc'[u] \in Published <=> pc[u] \in Published
                             /\ pc'[u] # pc[u] => u = t \/ pc[u] = "wait"
      BY <3>1, <3>2, SignalKeeps DEF Published
    <3>4. pc'[t] = "idle"
      BY <3>1, <3>2, SignalKeeps
    <3>5. UNCHANGED <<rpc, sp_response, id>> /\ rpc # "none"
      BY <2>11 DEF CloseReader, CallersKnown
    <3> QED BY <3>3, <3>4, <3>5 DEF CallersKnown, ResponseOwned
  <2>12. CASE processLine \/ onReaderClosed
    <3>1. \A u \in Threads : /\ pc'[u] \in Published <=> pc[u] \in Published
                             /\ pc'[u] # pc[u] => pc[u] = "wait"
      <4>1. Signal(pc) \/ UNCHANGED pc
        BY <2>12 DEF processLine, handleFinalResponse, writeCtrlZ,
             addIntermediate, handleUnsolicited, onReaderClosed
      <4> QED BY <2>0, <4>1, SignalKeeps
    <3>2. /\ sp_response' # NULL <=> sp_response # NULL
          /\ sp_response # NULL => sp_response'.id = sp_response.id
      <4>1. CASE processLine
        BY <4>1, ProcessKeepsOwner
      <4>2. CASE onReaderClosed
        BY <4>2 DEF onReaderClosed
      <4> QED BY <2>12, <4>1, <4>2
    <3>3. id' = id /\ rpc' # "none"
      BY <2>12 DEF processLine, handleFinalResponse, writeCtrlZ,
           addIntermediate, handleUnsolicited, Processing, onReaderClosed
    <3> QED BY <3>1, <3>2, <3>3 DEF CallersKnown, ResponseOwned
  <2>13. CASE TakeBuffered \/ EnterRead \/ ReadData \/ ReadEof
    <3>1. UNCHANGED <<pc, sp_response, id>> /\ rpc' # "none"
      BY <2>13 DEF TakeBuffered, EnterRead, ReadData, ReadEof, GotLine
    <3> QED BY <3>1 DEF CallersKnown, ResponseOwned
  <2>14. CASE Modem \/ Quiescent
    <3>1. UNCHANGED <<pc, rpc, sp_response, id>>
      BY <2>14 DEF Modem, ModemText, ModemPrompt, ModemPdu, ModemFinal,
           ModemUrc, ModemHangUp, Quiescent
    <3> QED BY <2>1, <3>1
  <2>15. CASE UNCHANGED vars
    BY <2>1, <2>15
  <2> QED BY <2>2, <2>3, <2>5, <2>6, <2>7, <2>8, <2>10, <2>11, <2>12, <2>13,
             <2>14, <2>15
        DEF Next, Thread, InCall, readerLoop
<1> QED BY <1>1, <1>2, TypeCorrect, PTL DEF Spec

(* With one command thread, the response that is published belongs to the   *)
(* command waiting for it: no null pointer is followed in the wait loop and *)
(* no command takes the answer of another.                                  *)
THEOREM SoleCommanderOwnsResponse ==
  ASSUME \A a, b \in Commanders : a = b
  PROVE  Spec => []ResponseOwned
BY SoleCommanderKept, PTL

-----------------------------------------------------------------------------
(***************************************************************************)
(* Any number of command threads.                                          *)
(***************************************************************************)
(* However many threads send commands, and in spite of the error path that  *)
(* clears a foreign response, a response is never owned twice: it is in     *)
(* sp_response or was handed to one caller, so no two frees can meet.       *)
THEOREM ResponsesHaveOneOwner == Spec => []NoDoubleOwner
<1> DEFINE Inv == FreshIds /\ NoDoubleOwner
<1>1. Init => Inv
  BY DEF Init, FreshIds, NoDoubleOwner
<1>2. TypeOK /\ MutexExclusive /\ Inv /\ [Next]_vars => Inv'
  <2> SUFFICES ASSUME TypeOK, MutexExclusive, FreshIds, NoDoubleOwner,
                      [Next]_vars
               PROVE  FreshIds' /\ NoDoubleOwner'
    OBVIOUS
  <2>0. /\ pc \in [Threads -> PcValues] /\ id \in [Threads -> Nat]
        /\ out \in [Threads -> ATResponse \cup {NULL}]
        /\ sp_response \in ATResponse \cup {NULL} /\ writes \in Nat
    BY DEF TypeOK, ThreadType, ChannelType, ModemType
  <2>00. \A r \in ATResponse : r.id \in Nat
    BY DEF ATResponse
  <2>1. ASSUME UNCHANGED <<sp_response, out, id, writes>>,
               \A t \in Threads : pc'[t] = "arm" => pc[t] = "arm"
        PROVE  FreshIds' /\ NoDoubleOwner'
    BY <2>1 DEF FreshIds, NoDoubleOwner
  <2>2. ASSUME NEW t \in Threads,
               at_close(t) \/ Lock(t) \/ Wait(t) \/ NullDereference(t)
               \/ SpuriousWakeup(t) \/ Timeout(t) \/ Relock(t)
               \/ HandshakePause(t)
        PROVE  FreshIds' /\ NoDoubleOwner'
    BY <2>0, <2>1, <2>2 DEF at_close, Lock, Wait, NullDereference,
         SpuriousWakeup, Timeout, Relock, HandshakePause, Goto
  <2>3. ASSUME NEW t \in Threads, at_open(t)
        PROVE  FreshIds' /\ NoDoubleOwner'
    BY <2>3 DEF at_open, FreshIds, NoDoubleOwner
  <2>4. ASSUME NEW t \in Threads, Call(t) \/ Return(t)
        PROVE  FreshIds' /\ NoDoubleOwner'
    <3>1. /\ UNCHANGED <<sp_response, id, writes>>
          /\ \A u \in Threads : pc'[u] = "arm" => pc[u] = "arm"
          /\ \A u \in Threads : out'[u] = NULL \/ out'[u] = out[u]
      BY <2>0, <2>4 DEF Call, Return, Goto
    <3> QED BY <3>1 DEF FreshIds, NoDoubleOwner
  <2>5. ASSUME NEW t \in Threads, CommandPending(t) \/ WriteFails(t)
                                  \/ GiveUp(t)
        PROVE  FreshIds' /\ NoDoubleOwner'
    <3>1. sp_response' = NULL /\ UNCHANGED <<out, id, writes>>
      BY <2>5 DEF CommandPending, WriteFails, GiveUp, clearPendingCommand
    <3>2. \E e : Returned(t, e)
      BY <2>5 DEF CommandPending, WriteFails, GiveUp
    <3>3. \A u \in Threads : pc'[u] = "arm" => pc[u] = "arm"
      BY <2>0, <3>2 DEF Returned, Goto
    <3> QED BY <3>1, <3>3 DEF FreshIds, NoDoubleOwner
  <2>6. ASSUME NEW t \in Threads, writeline(t)
        PROVE  FreshIds' /\ NoDoubleOwner'
    <3>1. mutex = t /\ \A u \in Threads \ {t} : pc[u] \notin Holding
      BY <2>6 DEF writeline, MutexExclusive, Holding
    <3>2. /\ sp_response' = NULL /\ sp_response = NULL /\ out' = out
          /\ writes' = writes + 1 /\ id' = [id EXCEPT ![t] = writes + 1]
          /\ pc' = [pc EXCEPT ![t] = "arm"]
      BY <2>6 DEF writeline, Goto
    <3>3. \A u \in Threads : pc'[u] = "arm" => u = t
      BY <2>0, <3>1, <3>2 DEF Holding
    <3>4. \A u \in Threads : out'[u] # NULL =>
            out'[u].id \in Nat /\ out'[u].id < writes' /\ out'[u].id <= writes'
      BY <2>0, <2>00, <3>2 DEF FreshIds
    <3>5. FreshIds'
      BY <2>0, <3>2, <3>3, <3>4 DEF FreshIds
    <3> QED BY <3>2, <3>5 DEF NoDoubleOwner
  <2>7. ASSUME NEW t \in Threads, Arm(t)
        PROVE  FreshIds' /\ NoDoubleOwner'
    <3>1. mutex = t /\ \A u \in Threads \ {t} : pc[u] \notin Holding
      BY <2>7 DEF Arm, MutexExclusive, Holding
    <3>2. /\ id[t] = writes
          /\ \A u \in Threads : out[u] # NULL => out[u].id < writes
      BY <2>7 DEF Arm, FreshIds
    <3>3. sp_response'.id = writes /\ UNCHANGED <<out, id, writes>>
      BY <2>7, <3>2 DEF Arm, at_response_new
    <3>4. \A u \in Threads : pc'[u] # "arm"
      BY <2>0, <2>7, <3>1 DEF Arm, Goto, Holding
    <3>5. \A u \in Threads : out[u] # NULL => out[u].id # writes
      BY <2>0, <2>00, <3>2
    <3> QED BY <2>0, <3>3, <3>4, <3>5 DEF FreshIds, NoDoubleOwner
  <2>8. ASSUME NEW t \in Threads, TakeResponse(t)
        PROVE  FreshIds' /\ NoDoubleOwner'
    <3>1. /\ sp_response \in ATResponse /\ sp_response # NULL
          /\ sp_response' = NULL /\ UNCHANGED <<id, writes>>
      BY <2>0, <2>8 DEF TakeResponse, clearPendingCommand
    <3>2. reverseIntermediates(sp_response).id = sp_response.id
      BY <3>1 DEF reverseIntermediates, ATResponse
    <3>3. /\ \A u \in Threads \ {t} : out'[u] = out[u]
          /\ out'[t] # NULL => out'[t].id = sp_response.id
      BY <2>0, <2>8, <3>2 DEF TakeResponse
    <3>4. \A u \in Threads : pc[u] # "arm"
      BY <2>8 DEF TakeResponse, FreshIds
    <3>5. \A u \in Threads : pc'[u] # "arm"
      BY <2>0, <2>8, <3>4 DEF TakeResponse, Returned, Goto
    <3> QED BY <3>1, <3>3, <3>5 DEF FreshIds, NoDoubleOwner
  <2>9. ASSUME NEW t \in Threads, CloseReader(t)
        PROVE  FreshIds' /\ NoDoubleOwner'
    <3> DEFINE p == [pc EXCEPT ![t] = "idle"]
    <3>1. p \in [Threads -> PcValues] /\ Signal(p)
      BY <2>0, <2>9 DEF CloseReader, PcValues
    <3>2. \A u \in Threads : p[u] = "arm" => pc[u] = "arm"
      BY <2>0
    <3> HIDE DEF p
    <3>3. \A u \in Threads : pc'[u] = "arm" => pc[u] = "arm"
      BY <3>1, <3>2, SignalKeeps
    <3> QED BY <2>1, <2>9, <3>3 DEF CloseReader
  <2>10. CASE processLine \/ onReaderClosed
    <3>1. \A u \in Threads : pc'[u] = "arm" => pc[u] = "arm"
      <4>1. Signal(pc) \/ UNCHANGED pc
        BY <2>10 DEF processLine, handleFinalResponse, writeCtrlZ,
             addIntermediate, handleUnsolicited, onReaderClosed
      <4> QED BY <2>0, <4>1, SignalKeeps
    <3>2. /\ sp_response' # NULL <=> sp_response # NULL
          /\ sp_response # NULL => sp_response'.id = sp_response.id
      <4>1. CASE processLine
        BY <4>1, ProcessKeepsOwner
      <4>2. CASE onReaderClosed
        BY <4>2 DEF onReaderClosed
      <4> QED BY <2>10, <4>1, <4>2
    <3>3. UNCHANGED <<out, id, writes>>
      BY <2>10 DEF processLine, handleFinalResponse, writeCtrlZ,
           addIntermediate, handleUnsolicited, Processing, onReaderClosed
    <3> QED BY <3>1, <3>2, <3>3 DEF FreshIds, NoDoubleOwner
  <2>11. CASE TakeBuffered \/ EnterRead \/ ReadData \/ ReadEof \/ Modem
              \/ Quiescent
    <3>1. UNCHANGED <<pc, sp_response, out, id, writes>>
      BY <2>11 DEF TakeBuffered, EnterRead, ReadData, ReadEof, Modem,
           ModemText, ModemPrompt, ModemPdu, ModemFinal, ModemUrc,
           ModemHangUp, Quiescent
    <3> QED BY <2>1, <3>1
  <2>12. CASE UNCHANGED vars
    BY <2>1, <2>12
  <2> QED BY <2>2, <2>3, <2>4, <2>5, <2>6, <2>7, <2>8, <2>9, <2>10, <2>11,
             <2>12
        DEF Next, Thread, InCall, readerLoop
<1> QED BY <1>1, <1>2, TypeCorrect, MutexCorrect, PTL DEF Spec

-----------------------------------------------------------------------------
(***************************************************************************)
(* The way of a line through the AT channel: from the modem through the    *)
(* serial line, s_ATBuffer and processLine to the unsolicited handler, for *)
(* any number of threads, commands and lines.                              *)
(***************************************************************************)
(* What the modem sends: lines are numbered, those that answer no command   *)
(* have the kinds of unsolicited ones, and the two lines of an SMS          *)
(* notification are never apart.                                            *)
HistoryKnown ==
  /\ \A i \in 1 .. Len(history) : history[i].n = i
  /\ \A i \in 1 .. Len(history) : history[i].ans = 0 =>
       history[i].kind \in {"text", "sms", "smspdu", "error"}
  /\ \A i \in 1 .. Len(history) : history[i].kind = "sms" =>
       i < Len(history) /\ history[i + 1].kind = "smspdu"
  /\ \A i \in 1 .. Len(history) : history[i].kind = "smspdu" =>
       i > 1 /\ history[i - 1].kind = "sms"

(* Zero is the number of no command.                                        *)
CommandsNumbered ==
  \A k \in 1 .. Len(tx) : tx[k].kind = "cmd" => tx[k].id > 0

(* What waits in s_ATBuffer and on the serial line is the rest of what the  *)
(* modem sent; read() is entered with an empty buffer.                      *)
InputKnown ==
  /\ Consumed \in Nat
  /\ \A i \in 1 .. Len(buf) : buf[i] = history[Consumed + i]
  /\ \A i \in 1 .. Len(rx) : rx[i] = history[Len(history) - Len(rx) + i]
  /\ rpc = "read" => buf = << >>

(* The line the reader has in hand is the last it took; the first line of   *)
(* an SMS notification is kept in line1 until the second is there.          *)
ReaderAt ==
  /\ rpc = "process" =>
       /\ rsms = NULL /\ Consumed > 0 /\ rline = history[Consumed]
       /\ rline.kind \notin {"sms", "smspdu"}
  /\ rsms # NULL =>
       Consumed > 0 /\ rsms = history[Consumed] /\ rsms.kind = "sms"
  /\ rpc \in {"none", "readline", "read"} /\ rsms = NULL /\ Consumed > 0 =>
       history[Consumed].kind # "sms"

(* The lines the reader is done with.                                       *)
Done == IF rpc = "process" \/ rsms # NULL THEN Consumed - 1 ELSE Consumed

(* The handler gets consumed lines in order and, as long as the reader      *)
(* runs, all of those that nobody can claim.                                *)
Delivered ==
  /\ \A j, k \in 1 .. Len(unsol) : j < k => unsol[j].n < unsol[k].n
  /\ \A k \in 1 .. Len(unsol) :
       unsol[k].n \in 1 .. Done /\ unsol[k] = history[unsol[k].n]
  /\ rpc \in {"none", "readline", "read", "process"} =>
       \A i \in 1 .. Done : Unclaimed(history[i]) =>
         \E k \in 1 .. Len(unsol) : unsol[k] = history[i]

(* What processLine compares a line with comes from a call that was made.   *)
PendingKnown ==
  /\ \A t \in Threads : pc[t] \notin {"idle", "closing"} => req[t] \in Requests
  /\ sp_response # NULL => \E r \in Requests :
       s_type = TypeOf(r.api) /\ s_responsePrefix = PrefixOf(r)

Flow == HistoryKnown /\ CommandsNumbered /\ InputKnown /\ ReaderAt
        /\ Delivered /\ PendingKnown

-----------------------------------------------------------------------------
(***************************************************************************)
(* The lines the modem sends.                                              *)
(***************************************************************************)
(* Sending lines changes nothing of what was sent before.                   *)
LEMMA EmitKeeps ==
  ASSUME ModemType, NEW ls \in Seq(Line), Emit(ls)
  PROVE  /\ Len(history') = Len(history) + Len(ls)
         /\ Len(rx') = Len(rx) + Len(ls)
         /\ \A i \in 1 .. Len(history) : history'[i] = history[i]
         /\ \A i \in 1 .. Len(ls) : history'[Len(history) + i] = ls[i]
         /\ \A i \in 1 .. Len(rx) : rx'[i] = rx[i]
         /\ \A i \in 1 .. Len(ls) : rx'[Len(rx) + i] = ls[i]
<1>1. rx \in Seq(Line) /\ history \in Seq(Line)
  BY DEF ModemType
<1>2. history' = history \o ls /\ rx' = rx \o ls
  BY DEF Emit
<1> QED BY <1>1, <1>2

(* The reader sees new lines only behind the ones that wait.                *)
LEMMA EmitFlow ==
  ASSUME TypeOK, InputKnown, ReaderAt, Delivered, NEW ls \in Seq(Line),
         Emit(ls), UNCHANGED readerVars
  PROVE  InputKnown' /\ ReaderAt' /\ Delivered'
<1>0. ModemType /\ buf \in Seq(Line)
  BY DEF TypeOK, ReaderType
<1>1. /\ Len(history) \in Nat /\ Len(rx) \in Nat /\ Len(buf) \in Nat
      /\ Len(ls) \in Nat
  BY <1>0 DEF ModemType
<1>a. Len(history') = Len(history) + Len(ls) /\ Len(rx') = Len(rx) + Len(ls)
  BY <1>0, EmitKeeps
<1>b. Len(buf') = Len(buf)
  OBVIOUS
<1>2. Consumed' = Consumed /\ Consumed \in Nat /\ Consumed <= Len(history)
  BY <1>1, <1>a, <1>b DEF Consumed, InputKnown
<1>3. \A i \in 1 .. Len(history) : history'[i] = history[i]
  BY <1>0, EmitKeeps
<1>4. InputKnown'
  <2>1. \A i \in 1 .. Len(buf') : buf'[i] = history'[Consumed' + i]
    <3> SUFFICES ASSUME NEW i \in 1 .. Len(buf)
                 PROVE  buf[i] = history'[Consumed + i]
      BY <1>2
    <3>1. Consumed + i \in 1 .. Len(history)
      BY <1>1, <1>2 DEF Consumed
    <3> QED BY <1>3, <3>1 DEF InputKnown
  <2>2. \A i \in 1 .. Len(rx') :
          rx'[i] = history'[Len(history') - Len(rx') + i]
    <3> SUFFICES ASSUME NEW i \in 1 .. Len(rx')
                 PROVE  rx'[i] = history'[Len(history') - Len(rx') + i]
      OBVIOUS
    <3>0. /\ Len(rx') = Len(rx) + Len(ls)
          /\ Len(history') - Len(rx') = Len(history) - Len(rx)
      BY <1>1, <1>a
    <3>1. CASE i \in 1 .. Len(rx)
      <4>1. Len(history) - Len(rx) + i \in 1 .. Len(history)
        BY <1>1, <1>2, <3>1 DEF Consumed
      <4>2. rx'[i] = rx[i]
        BY <1>0, <3>1, EmitKeeps
      <4> QED BY <1>3, <3>0, <3>1, <4>1, <4>2 DEF InputKnown
    <3>2. CASE i \notin 1 .. Len(rx)
      <4>1. i - Len(rx) \in 1 .. Len(ls)
        BY <1>1, <3>0, <3>2
      <4>2. PICK k \in 1 .. Len(ls) : k = i - Len(rx)
        BY <4>1
      <4>3. i = Len(rx) + k
            /\ Len(history) - Len(rx) + i = Len(history) + k
        BY <1>1, <4>2
      <4>4. rx'[Len(rx) + k] = ls[k] /\ history'[Len(history) + k] = ls[k]
        BY <1>0, EmitKeeps
      <4> QED BY <3>0, <4>3, <4>4
    <3> QED BY <3>1, <3>2
  <2>3. rpc' = "read" => buf' = << >>
    BY DEF InputKnown
  <2> QED BY <1>2, <2>1, <2>2, <2>3 DEF InputKnown
<1>5. Consumed > 0 => history'[Consumed] = history[Consumed]
  BY <1>2, <1>3
<1>6. ReaderAt'
  BY <1>2, <1>5 DEF ReaderAt
<1>7. Done' = Done /\ (Done = Consumed \/ Done = Consumed - 1)
  BY <1>2 DEF Done
<1>8. \A i \in 1 .. Done : history'[i] = history[i]
  <2> SUFFICES ASSUME NEW i \in 1 .. Done PROVE history'[i] = history[i]
    OBVIOUS
  <2>1. i \in 1 .. Len(history)
    BY <1>1, <1>2, <1>7
  <2> QED BY <1>3, <2>1
<1>9. Delivered'
  <2>1. \A k \in 1 .. Len(unsol) :
          unsol[k].n \in 1 .. Done /\ unsol[k] = history'[unsol[k].n]
    BY <1>8 DEF Delivered
  <2>2. rpc \in {"none", "readline", "read", "process"} =>
          \A i \in 1 .. Done : Unclaimed(history'[i]) =>
            \E k \in 1 .. Len(unsol) : unsol[k] = history'[i]
    BY <1>8 DEF Delivered
  <2>3. \A l : Unclaimed(l)' <=> Unclaimed(l)
    BY DEF Unclaimed, isdigit, strStartsWith
  <2> QED BY <1>7, <2>1, <2>2, <2>3 DEF Delivered
<1> QED BY <1>4, <1>6, <1>9

(* One line that is no part of an SMS notification.                         *)
LEMMA EmitOne ==
  ASSUME TypeOK, HistoryKnown, NEW kind \in LineKinds, NEW p \in AllPrefixes,
         NEW i \in Nat, kind \notin {"sms", "smspdu"},
         i = 0 => kind \in {"text", "error"},
         Emit(<<NewLine(kind, p, i, 1)>>)
  PROVE  HistoryKnown' /\ <<NewLine(kind, p, i, 1)>> \in Seq(Line)
<1>0. ModemType /\ Len(history) \in Nat
  BY DEF TypeOK, ModemType
<1> DEFINE l == NewLine(kind, p, i, 1)
<1>1. l \in Line /\ <<l>> \in Seq(Line)
  BY <1>0, NewLineType
<1>2. l.kind = kind /\ l.ans = i /\ l.n = Len(history) + 1
  BY <1>0 DEF NewLine
<1> HIDE DEF l
<1>3. /\ Len(history') = Len(history) + 1
      /\ \A k \in 1 .. Len(history) : history'[k] = history[k]
      /\ history'[Len(history) + 1] = l
  <2>1. Len(<<l>>) = 1 /\ <<l>>[1] = l /\ Emit(<<l>>)
    BY DEF l
  <2>2. PICK ls \in Seq(Line) : Len(ls) = 1 /\ ls[1] = l /\ Emit(ls)
    BY <1>1, <2>1
  <2>3. /\ Len(history') = Len(history) + Len(ls)
        /\ \A k \in 1 .. Len(history) : history'[k] = history[k]
        /\ \A k \in 1 .. Len(ls) : history'[Len(history) + k] = ls[k]
    BY <1>0, <2>2, EmitKeeps
  <2>4. 1 \in 1 .. Len(ls)
    BY <2>2
  <2> QED BY <2>2, <2>3, <2>4
<1>4. \A k \in 1 .. Len(history') :
        k \in 1 .. Len(history) \/ k = Len(history) + 1
  BY <1>0, <1>3
<1> QED
  <2>1. \A k \in 1 .. Len(history') : history'[k].n = k
    BY <1>2, <1>3, <1>4 DEF HistoryKnown
  <2>2. \A k \in 1 .. Len(history') : history'[k].ans = 0 =>
          history'[k].kind \in {"text", "sms", "smspdu", "error"}
    BY <1>2, <1>3, <1>4 DEF HistoryKnown
  <2>3. \A k \in 1 .. Len(history') : history'[k].kind = "sms" =>
          k < Len(history') /\ history'[k + 1].kind = "smspdu"
    <3> SUFFICES ASSUME NEW k \in 1 .. Len(history), history[k].kind = "sms"
                 PROVE  k < Len(history') /\ history'[k + 1].kind = "smspdu"
      BY <1>2, <1>3, <1>4
    <3>1. k + 1 \in 1 .. Len(history) /\ history[k + 1].kind = "smspdu"
      BY <1>0 DEF HistoryKnown
    <3> QED BY <1>0, <1>3, <3>1
  <2>4. \A k \in 1 .. Len(history') : history'[k].kind = "smspdu" =>
          k > 1 /\ history'[k - 1].kind = "sms"
    <3> SUFFICES ASSUME NEW k \in 1 .. Len(history), history[k].kind = "smspdu"
                 PROVE  k > 1 /\ history'[k - 1].kind = "sms"
      BY <1>2, <1>3, <1>4
    <3>1. k > 1 /\ k - 1 \in 1 .. Len(history) /\ history[k - 1].kind = "sms"
      BY <1>0 DEF HistoryKnown
    <3> QED BY <1>3, <3>1
  <2> QED BY <1>1, <2>1, <2>2, <2>3, <2>4 DEF HistoryKnown, l

(* An SMS notification: its two lines together.                             *)
LEMMA EmitSms ==
  ASSUME TypeOK, HistoryKnown,
         Emit(<<NewLine("sms", Other, 0, 1), NewLine("smspdu", Other, 0, 2)>>)
  PROVE  /\ HistoryKnown'
         /\ <<NewLine("sms", Other, 0, 1), NewLine("smspdu", Other, 0, 2)>>
              \in Seq(Line)
<1>0. ModemType /\ Len(history) \in Nat
  BY DEF TypeOK, ModemType
<1> DEFINE a == NewLine("sms", Other, 0, 1)
           b == NewLine("smspdu", Other, 0, 2)
<1>1. a \in Line /\ b \in Line
  BY <1>0, NewLineType DEF LineKinds, AllPrefixes
<1>2. /\ a.kind = "sms" /\ a.ans = 0 /\ a.n = Len(history) + 1
      /\ b.kind = "smspdu" /\ b.ans = 0 /\ b.n = Len(history) + 2
  BY <1>0 DEF NewLine
<1> HIDE DEF a, b
<1>11. <<a, b>> \in Seq(Line)
  BY <1>1
<1>3. /\ Len(history') = Len(history) + 2
      /\ \A k \in 1 .. Len(history) : history'[k] = history[k]
      /\ history'[Len(history) + 1] = a /\ history'[Len(history) + 2] = b
  <2>1. /\ Len(<<a, b>>) = 2 /\ <<a, b>>[1] = a /\ <<a, b>>[2] = b
        /\ Emit(<<a, b>>)
    BY DEF a, b
  <2>2. PICK ls \in Seq(Line) :
          Len(ls) = 2 /\ ls[1] = a /\ ls[2] = b /\ Emit(ls)
    BY <1>11, <2>1
  <2>3. /\ Len(history') = Len(history) + Len(ls)
        /\ \A k \in 1 .. Len(history) : history'[k] = history[k]
        /\ \A k \in 1 .. Len(ls) : history'[Len(history) + k] = ls[k]
    BY <1>0, <2>2, EmitKeeps
  <2>4. 1 \in 1 .. Len(ls) /\ 2 \in 1 .. Len(ls)
    BY <2>2
  <2> QED BY <2>2, <2>3, <2>4
<1>4. \A k \in 1 .. Len(history') :
        k \in 1 .. Len(history) \/ k = Len(history) + 1
        \/ k = Len(history) + 2
  BY <1>0, <1>3
<1> QED
  <2>1. \A k \in 1 .. Len(history') : history'[k].n = k
    BY <1>2, <1>3, <1>4 DEF HistoryKnown
  <2>2. \A k \in 1 .. Len(history') : history'[k].ans = 0 =>
          history'[k].kind \in {"text", "sms", "smspdu", "error"}
    BY <1>2, <1>3, <1>4 DEF HistoryKnown
  <2>3. ASSUME NEW k \in 1 .. Len(history'), history'[k].kind = "sms"
        PROVE  k < Len(history') /\ history'[k + 1].kind = "smspdu"
    <3>1. CASE k \in 1 .. Len(history)
      <4>1. k + 1 \in 1 .. Len(history) /\ history[k + 1].kind = "smspdu"
        BY <1>0, <1>3, <2>3, <3>1 DEF HistoryKnown
      <4> QED BY <1>0, <1>3, <4>1
    <3>2. CASE k = Len(history) + 1
      <4>1. k + 1 = Len(history) + 2
        BY <1>0, <3>2
      <4> QED BY <1>0, <1>2, <1>3, <3>2, <4>1
    <3>3. CASE k = Len(history) + 2
      BY <1>2, <1>3, <2>3, <3>3
    <3> QED BY <1>4, <3>1, <3>2, <3>3
  <2>4. ASSUME NEW k \in 1 .. Len(history'), history'[k].kind = "smspdu"
        PROVE  k > 1 /\ history'[k - 1].kind = "sms"
    <3>1. CASE k \in 1 .. Len(history)
      <4>1. k > 1 /\ k - 1 \in 1 .. Len(history) /\ history[k - 1].kind = "sms"
        BY <1>0, <1>3, <2>4, <3>1 DEF HistoryKnown
      <4> QED BY <1>3, <4>1
    <3>2. CASE k = Len(history) + 1
      BY <1>2, <1>3, <2>4, <3>2
    <3>3. CASE k = Len(history) + 2
      <4>1. k - 1 = Len(history) + 1 /\ k > 1
        BY <1>0, <3>3
      <4> QED BY <1>2, <1>3, <4>1
    <3> QED BY <1>4, <3>1, <3>2, <3>3
  <2> QED BY <1>11, <2>1, <2>2, <2>3, <2>4 DEF HistoryKnown, a, b

(* The modem keeps everything.                                              *)
LEMMA ModemFlow ==
  ASSUME TypeOK, Flow, Modem
  PROVE  Flow'
<1> USE DEF Flow
<1>0. ModemType /\ UNCHANGED <<channelVars, pendingVars, threadVars, readerVars>>
  BY DEF TypeOK, Modem, ModemText, ModemPrompt, ModemPdu, ModemFinal,
       ModemUrc, ModemHangUp
<1>1. PendingKnown'
  BY <1>0 DEF PendingKnown
<1>2. ASSUME Answering PROVE Head(tx).id \in Nat \ {0}
  <2>1. Head(tx).id \in Nat /\ Head(tx) = tx[1] /\ 1 \in 1 .. Len(tx)
    BY <1>0, <1>2, AnsweringType DEF ModemType, Answering
  <2>2. tx[1].id > 0
    BY <1>2, <2>1 DEF CommandsNumbered, Answering
  <2> QED BY <2>1, <2>2
<1>3. ASSUME NEW ls \in Seq(Line), Emit(ls), HistoryKnown', CommandsNumbered'
      PROVE  Flow'
  BY <1>0, <1>1, <1>3, EmitFlow
<1>4. ASSUME UNCHANGED tx PROVE CommandsNumbered'
  BY <1>4 DEF CommandsNumbered
<1>5. CASE ModemText
  <2>1. /\ Head(tx).id \in Nat \ {0} /\ AnswerPrefix(Head(tx).req) \in AllPrefixes
        /\ Emit(<<NewLine("text", AnswerPrefix(Head(tx).req), Head(tx).id, 1)>>)
        /\ UNCHANGED tx
    BY <1>0, <1>2, <1>5, AnsweringType DEF ModemText
  <2> QED BY <1>3, <1>4, <2>1, EmitOne DEF LineKinds
<1>6. CASE ModemPrompt
  <2>1. /\ Head(tx).id \in Nat \ {0}
        /\ Emit(<<NewLine("prompt", Other, Head(tx).id, 1)>>)
        /\ UNCHANGED tx
    BY <1>0, <1>2, <1>6 DEF ModemPrompt
  <2>2. Other \in AllPrefixes
    BY DEF AllPrefixes
  <2> QED BY <1>3, <1>4, <2>1, <2>2, EmitOne DEF LineKinds
<1>7. CASE ModemFinal
  <2>1. PICK kind \in {"ok", "error"} :
          Emit(<<NewLine(kind, Other, Head(tx).id, 1)>>)
    BY <1>7 DEF ModemFinal
  <2>2. Head(tx).id \in Nat \ {0} /\ tx' = Tail(tx) /\ tx # << >>
    BY <1>2, <1>7 DEF ModemFinal, Answering
  <2>3. Other \in AllPrefixes
    BY DEF AllPrefixes
  <2>4. CommandsNumbered'
    <3>1. tx \in Seq(Written)
      BY <1>0 DEF ModemType
    <3> QED BY <2>2, <3>1 DEF CommandsNumbered
  <2>5. kind \in LineKinds /\ kind \notin {"sms", "smspdu"}
        /\ Head(tx).id # 0
    BY <2>2 DEF LineKinds
  <2>6. HistoryKnown' /\ <<NewLine(kind, Other, Head(tx).id, 1)>> \in Seq(Line)
    BY <2>1, <2>2, <2>3, <2>5, EmitOne
  <2> QED BY <1>3, <2>1, <2>4, <2>6
<1>8. CASE ModemUrc
  <2>1. UNCHANGED tx
    BY <1>8 DEF ModemUrc
  <2>2. CASE \E p \in ResponsePrefixes \cup {Digit, Other} :
               Emit(<<NewLine("text", p, 0, 1)>>)
    <3>1. PICK p \in AllPrefixes : Emit(<<NewLine("text", p, 0, 1)>>)
      BY <2>2 DEF AllPrefixes
    <3>2. HistoryKnown' /\ <<NewLine("text", p, 0, 1)>> \in Seq(Line)
      BY <3>1, EmitOne DEF LineKinds
    <3> QED BY <1>3, <1>4, <2>1, <3>1, <3>2
  <2>3. CASE Emit(<<NewLine("sms", Other, 0, 1),
                    NewLine("smspdu", Other, 0, 2)>>)
    BY <1>3, <1>4, <2>1, <2>3, EmitSms
  <2>4. CASE Emit(<<NewLine("error", Other, 0, 1)>>)
    <3>1. HistoryKnown' /\ <<NewLine("error", Other, 0, 1)>> \in Seq(Line)
      BY <2>4, EmitOne DEF LineKinds, AllPrefixes
    <3> QED BY <1>3, <1>4, <2>1, <2>4, <3>1
  <2> QED BY <1>8, <2>2, <2>3, <2>4 DEF ModemUrc
<1>9. CASE ModemPdu
  <2>1. UNCHANGED <<rx, history>>
    BY <1>9 DEF ModemPdu
  <2>2. CommandsNumbered'
    <3>1. PICK k \in 1 .. Len(tx) : tx' = RemoveAt(tx, k)
      BY <1>0, <1>9 DEF ModemPdu, ModemType
    <3>2. tx \in Seq(Written)
      BY <1>0 DEF ModemType
    <3>3. ASSUME NEW j \in 1 .. Len(tx')
          PROVE  \E i \in 1 .. Len(tx) : tx'[j] = tx[i]
      <4>0. PICK u \in Seq(Written), v \in Seq(Written) :
              /\ u = SubSeq(tx, 1, k - 1) /\ v = SubSeq(tx, k + 1, Len(tx))
              /\ tx' = u \o v
        <5>1. /\ SubSeq(tx, 1, k - 1) \in Seq(Written)
              /\ SubSeq(tx, k + 1, Len(tx)) \in Seq(Written)
          BY <3>1, <3>2
        <5> QED BY <3>1, <5>1 DEF RemoveAt
      <4>1. /\ Len(tx) \in Nat /\ Len(u) = k - 1 /\ Len(v) = Len(tx) - k
            /\ Len(tx') = Len(u) + Len(v)
        BY <3>1, <3>2, <4>0
      <4>2. CASE j < k
        <5>1. tx'[j] = u[j] /\ u[j] = tx[j]
          BY <3>1, <3>2, <4>0, <4>1, <4>2
        <5> QED BY <4>1, <5>1
      <4>3. CASE j >= k
        <5>1. /\ j - Len(u) \in 1 .. Len(v) /\ j > Len(u)
              /\ k + 1 + (j - Len(u)) - 1 = j + 1
          BY <3>1, <4>1, <4>3
        <5>2. tx'[j] = v[j - Len(u)]
          BY <4>0, <4>1, <5>1
        <5>3. \A i \in 1 .. Len(v) : v[i] = tx[k + 1 + i - 1]
          BY <3>1, <3>2, <4>0, <4>1
        <5>4. v[j - Len(u)] = tx[j + 1]
          BY <5>1, <5>3
        <5> QED BY <4>1, <5>1, <5>2, <5>4
      <4> QED BY <4>2, <4>3
    <3> QED BY <3>3 DEF CommandsNumbered
  <2>3. HistoryKnown' /\ InputKnown' /\ ReaderAt' /\ Delivered'
    BY <1>0, <2>1 DEF HistoryKnown, InputKnown, ReaderAt, Delivered, Consumed,
         Done, Unclaimed, isdigit, strStartsWith
  <2> QED BY <1>1, <2>2, <2>3
<1>10. CASE ModemHangUp
  <2>1. UNCHANGED <<rx, tx, history>>
    BY <1>10 DEF ModemHangUp
  <2>2. HistoryKnown' /\ InputKnown' /\ ReaderAt' /\ Delivered'
    BY <1>0, <2>1 DEF HistoryKnown, InputKnown, ReaderAt, Delivered, Consumed,
         Done, Unclaimed, isdigit, strStartsWith
  <2> QED BY <1>1, <1>4, <2>1, <2>2
<1> QED BY <1>5, <1>6, <1>7, <1>8, <1>9, <1>10 DEF Modem

-----------------------------------------------------------------------------
(***************************************************************************)
(* The reader.                                                             *)
(***************************************************************************)
(* readline hands the next line to readerLoop.                              *)
LEMMA TakeFlow ==
  ASSUME TypeOK, HistoryKnown, ReaderAt, Delivered, NEW c \in Nat,
         c = Consumed, Consumed' = c + 1, c < Len(history),
         NEW l \in Line, l = history[c + 1], GotLine(l),
         UNCHANGED history, rpc \in {"readline", "read"}
  PROVE  ReaderAt' /\ Delivered'
<1>0. /\ history \in Seq(Line) /\ unsol \in Seq(Line) /\ Len(history) \in Nat
      /\ rsms \in Line \cup {NULL} /\ Len(unsol) \in Nat
  BY DEF TypeOK, ModemType, ReaderType
<1>1. l # NULL /\ l.n = c + 1 /\ c + 1 \in 1 .. Len(history)
  BY <1>0, NullAssumption DEF NullAssumption, HistoryKnown
<1>u. \A x : Unclaimed(x)' <=> Unclaimed(x)
  BY DEF Unclaimed, isdigit, strStartsWith
<1>2. CASE rsms # NULL
  <2>1. /\ unsol' = unsol \o <<rsms, l>> /\ rsms' = NULL /\ rpc' = "readline"
    BY <1>2 DEF GotLine
  <2>2. /\ c > 0 /\ rsms = history[c] /\ rsms.kind = "sms"
        /\ rsms.n = c /\ rsms \in Line
    <3>1. c > 0 /\ rsms = history[c] /\ rsms.kind = "sms"
      BY <1>2 DEF ReaderAt
    <3>2. c \in 1 .. Len(history)
      BY <1>0, <3>1
    <3> QED BY <1>0, <1>2, <3>1, <3>2 DEF HistoryKnown
  <2>3. l.kind = "smspdu"
    <3>1. c \in 1 .. Len(history)
      BY <1>0, <2>2
    <3> QED BY <2>2, <3>1 DEF HistoryKnown
  <2>4. ReaderAt'
    BY <2>1, <2>3 DEF ReaderAt
  <2>5. Done = c - 1 /\ Done' = c + 1
    BY <1>2, <2>1 DEF Done
  <2>6. /\ Len(unsol') = Len(unsol) + 2
        /\ \A k \in 1 .. Len(unsol) : unsol'[k] = unsol[k]
        /\ unsol'[Len(unsol) + 1] = rsms /\ unsol'[Len(unsol) + 2] = l
    BY <1>0, <2>1, <2>2
  <2>7. \A k \in 1 .. Len(unsol') :
          k \in 1 .. Len(unsol) \/ k = Len(unsol) + 1 \/ k = Len(unsol) + 2
    BY <1>0, <2>6
  <2>8. \A k \in 1 .. Len(unsol) :
          unsol[k].n \in 1 .. (c - 1) /\ unsol[k] = history[unsol[k].n]
    BY <2>5 DEF Delivered
  <2>9. Delivered'
    <3>1. ASSUME NEW j \in 1 .. Len(unsol'), NEW k \in 1 .. Len(unsol'), j < k
          PROVE  unsol'[j].n < unsol'[k].n
      <4>1. CASE k \in 1 .. Len(unsol)
        <5>1. j \in 1 .. Len(unsol)
          BY <1>0, <3>1, <4>1
        <5> QED BY <2>6, <3>1, <4>1, <5>1 DEF Delivered
      <4>2. CASE k \notin 1 .. Len(unsol) /\ j \in 1 .. Len(unsol)
        <5>1. unsol'[j].n \in 1 .. (c - 1)
          BY <2>6, <2>8, <4>2
        <5>2. unsol'[k].n = c \/ unsol'[k].n = c + 1
          BY <1>1, <2>2, <2>6, <2>7, <4>2
        <5> QED BY <5>1, <5>2
      <4>3. CASE k \notin 1 .. Len(unsol) /\ j \notin 1 .. Len(unsol)
        <5>1. j = Len(unsol) + 1 /\ k = Len(unsol) + 2
          BY <1>0, <2>7, <3>1, <4>3
        <5> QED BY <1>1, <2>2, <2>6, <5>1
      <4> QED BY <4>1, <4>2, <4>3
    <3>2. ASSUME NEW k \in 1 .. Len(unsol')
          PROVE  unsol'[k].n \in 1 .. (c + 1)
                 /\ unsol'[k] = history[unsol'[k].n]
      <4>1. CASE k \in 1 .. Len(unsol)
        BY <2>6, <2>8, <4>1
      <4>2. CASE k = Len(unsol) + 1
        BY <2>2, <2>6, <4>2
      <4>3. CASE k = Len(unsol) + 2
        BY <1>1, <2>6, <4>3
      <4> QED BY <2>7, <4>1, <4>2, <4>3
    <3>3. ASSUME NEW i \in 1 .. (c + 1), Unclaimed(history[i])
          PROVE  \E k \in 1 .. Len(unsol') : unsol'[k] = history[i]
      <4>1. CASE i \in 1 .. (c - 1)
        <5>1. PICK k \in 1 .. Len(unsol) : unsol[k] = history[i]
          BY <2>5, <3>3, <4>1 DEF Delivered
        <5>2. k \in 1 .. Len(unsol') /\ unsol'[k] = history[i]
          BY <1>0, <2>6, <5>1
        <5> QED BY <5>2
      <4>2. CASE i = c
        <5>1. Len(unsol) + 1 \in 1 .. Len(unsol')
          BY <1>0, <2>6
        <5> QED BY <2>2, <2>6, <4>2, <5>1
      <4>3. CASE i = c + 1
        <5>1. Len(unsol) + 2 \in 1 .. Len(unsol')
          BY <1>0, <2>6
        <5> QED BY <2>6, <4>3, <5>1
      <4> QED BY <4>1, <4>2, <4>3
    <3> QED BY <1>u, <2>5, <3>1, <3>2, <3>3 DEF Delivered
  <2> QED BY <2>4, <2>9
<1>3. CASE rsms = NULL
  <2>1. unsol' = unsol
    BY <1>3 DEF GotLine
  <2>2. \/ rsms' = l /\ rpc' = "readline" /\ l.kind = "sms"
        \/ rsms' = NULL /\ rpc' = "process" /\ rline' = l /\ l.kind # "sms"
    BY <1>3 DEF GotLine, isSMSUnsolicited
  <2>3. l.kind # "smspdu"
    <3> SUFFICES ASSUME l.kind = "smspdu" PROVE FALSE
      OBVIOUS
    <3>1. c + 1 > 1 /\ history[c + 1 - 1].kind = "sms"
      BY <1>1 DEF HistoryKnown
    <3>2. c > 0 /\ history[c].kind = "sms"
      BY <3>1
    <3> QED BY <1>3, <3>2 DEF ReaderAt
  <2>4. Done = c /\ Done' = c
    BY <1>1, <1>3, <2>2 DEF Done
  <2>5. ReaderAt'
    BY <1>1, <2>2, <2>3 DEF ReaderAt
  <2>6. Delivered'
    BY <1>u, <2>1, <2>4 DEF Delivered
  <2> QED BY <2>5, <2>6
<1> QED BY <1>2, <1>3

(* readline: from s_ATBuffer, or from read().                               *)
LEMMA InputFlow ==
  ASSUME TypeOK, Flow, TakeBuffered \/ ReadData
  PROVE  InputKnown' /\ ReaderAt' /\ Delivered'
<1> USE DEF Flow
<1>0. /\ history \in Seq(Line) /\ rx \in Seq(Line) /\ buf \in Seq(Line)
      /\ Len(history) \in Nat /\ Len(rx) \in Nat /\ Len(buf) \in Nat
  BY DEF TypeOK, ModemType, ReaderType
<1>1. PICK c \in Nat : c = Consumed
  BY DEF InputKnown
<1>2. c + Len(buf) + Len(rx) = Len(history)
  BY <1>0, <1>1 DEF Consumed
<1>3. CASE TakeBuffered
  <2>1. /\ rpc = "readline" /\ buf # << >> /\ GotLine(Head(buf))
        /\ buf' = Tail(buf) /\ UNCHANGED <<rx, history>>
    BY <1>3 DEF TakeBuffered
  <2>2. /\ Len(buf) > 0 /\ Len(buf') = Len(buf) - 1 /\ Head(buf) = buf[1]
        /\ Head(buf) \in Line
        /\ \A i \in 1 .. Len(buf') : buf'[i] = buf[i + 1]
    BY <1>0, <2>1
  <2>31. Consumed' = Len(history) - Len(buf') - Len(rx)
    BY <2>1 DEF Consumed
  <2>3. Consumed' = c + 1 /\ c < Len(history)
    <3>1. Len(buf) > 0 /\ Len(buf') = Len(buf) - 1
      BY <2>2
    <3> QED BY <1>0, <1>1, <1>2, <2>31, <3>1
  <2>4. Head(buf) = history[c + 1]
    BY <1>1, <2>2 DEF InputKnown
  <2>5. ReaderAt' /\ Delivered'
    BY <1>1, <2>1, <2>2, <2>3, <2>4, TakeFlow
  <2>6. rpc' # "read"
    BY <2>1 DEF GotLine
  <2>7. ASSUME NEW i \in 1 .. Len(buf')
        PROVE  buf'[i] = history[c + 1 + i]
    <3>1. i + 1 \in 1 .. Len(buf) /\ c + (i + 1) = c + 1 + i
      BY <1>0, <2>2
    <3> QED BY <1>1, <2>2, <3>1 DEF InputKnown
  <2>8. InputKnown'
    BY <2>1, <2>3, <2>6, <2>7 DEF InputKnown
  <2> QED BY <2>5, <2>8
<1>4. CASE ReadData
  <2>1. PICK k \in 1 .. Len(rx) :
          buf' = SubSeq(rx, 2, k) /\ rx' = SubSeq(rx, k + 1, Len(rx))
    BY <1>4 DEF ReadData
  <2>2. rpc = "read" /\ rx # << >> /\ GotLine(Head(rx)) /\ UNCHANGED history
    BY <1>4 DEF ReadData
  <2>3. buf = << >> /\ Len(buf) = 0
    BY <2>2 DEF InputKnown
  <2>4. /\ Len(rx) > 0 /\ Head(rx) = rx[1] /\ Head(rx) \in Line
    BY <1>0, <2>2
  <2>5. /\ Len(buf') = k - 1 /\ Len(rx') = Len(rx) - k
        /\ \A i \in 1 .. Len(buf') : buf'[i] = rx[i + 1]
    BY <1>0, <2>1
  <2>6. \A i \in 1 .. Len(rx') : rx'[i] = rx[k + i]
    BY <1>0, <2>1
  <2>7. Consumed' = c + 1 /\ c < Len(history) /\ c = Len(history) - Len(rx)
    BY <1>0, <1>2, <2>2, <2>3, <2>4, <2>5 DEF Consumed
  <2>8. \A i \in 1 .. Len(rx) : rx[i] = history[c + i]
    BY <2>7 DEF InputKnown
  <2>9. Head(rx) = history[c + 1]
    BY <2>4, <2>8
  <2>10. ReaderAt' /\ Delivered'
    BY <1>1, <2>2, <2>4, <2>7, <2>9, TakeFlow
  <2>11. rpc' # "read"
    BY <2>2 DEF GotLine
  <2>12. ASSUME NEW i \in 1 .. Len(buf')
         PROVE  buf'[i] = history[c + 1 + i]
    <3>1. i + 1 \in 1 .. Len(rx) /\ c + (i + 1) = c + 1 + i
      BY <1>0, <2>5
    <3> QED BY <2>5, <2>8, <3>1
  <2>13. ASSUME NEW i \in 1 .. Len(rx')
         PROVE  rx'[i] = history[Len(history) - Len(rx') + i]
    <3>1. k + i \in 1 .. Len(rx) /\ c + (k + i) = Len(history) - Len(rx') + i
      BY <1>0, <2>5, <2>7
    <3> QED BY <2>6, <2>8, <3>1
  <2>14. InputKnown'
    <3>1. Consumed' \in Nat
      BY <2>7
    <3>2. \A i \in 1 .. Len(buf') : buf'[i] = history'[Consumed' + i]
      BY <2>2, <2>7, <2>12
    <3>3. \A i \in 1 .. Len(rx') :
            rx'[i] = history'[Len(history') - Len(rx') + i]
      BY <2>2, <2>13
    <3> QED BY <2>11, <3>1, <3>2, <3>3 DEF InputKnown
  <2> QED BY <2>10, <2>14
<1> QED BY <1>3, <1>4

(* readline enters read(), or the reader ends.                              *)
LEMMA PauseFlow ==
  ASSUME TypeOK, Flow, EnterRead \/ ReadEof \/ onReaderClosed
  PROVE  InputKnown' /\ ReaderAt' /\ Delivered'
<1> USE DEF Flow
<1>0. UNCHANGED <<history, rx, buf, unsol, rline>>
  BY DEF EnterRead, ReadEof, onReaderClosed
<1>u. \A x : Unclaimed(x)' <=> Unclaimed(x)
  BY DEF Unclaimed, isdigit, strStartsWith
<1>1. Consumed' = Consumed /\ Consumed \in Nat
  BY <1>0 DEF Consumed, InputKnown
<1>2. rpc' = "read" => buf = << >>
  BY DEF EnterRead, ReadEof, onReaderClosed
<1>3. InputKnown'
  BY <1>0, <1>1, <1>2 DEF InputKnown
<1>4. CASE EnterRead /\ s_fd
  <2>1. rpc = "readline" /\ rpc' = "read" /\ rsms' = rsms
    BY <1>4 DEF EnterRead
  <2>2. Done' = Done
    BY <1>1, <2>1 DEF Done
  <2>3. ReaderAt'
    BY <1>0, <1>1, <2>1 DEF ReaderAt
  <2>4. Delivered'
    BY <1>0, <1>u, <2>1, <2>2 DEF Delivered
  <2> QED BY <1>3, <2>3, <2>4
<1>5. CASE ~(EnterRead /\ s_fd)
  <2>1. /\ rpc \notin {"process"} /\ rpc' \in {"closing", "dead"}
        /\ rsms' = NULL \/ rsms' = rsms
    BY <1>5 DEF EnterRead, ReadEof, onReaderClosed
  <2>2. Done' = Done \/ (Done = Consumed - 1 /\ Done' = Consumed)
    BY <1>1, <2>1 DEF Done
  <2>3. ReaderAt'
    BY <1>0, <1>1, <2>1 DEF ReaderAt
  <2>4. \A k \in 1 .. Len(unsol) :
          unsol[k].n \in 1 .. Done' /\ unsol[k] = history[unsol[k].n]
    <3>1. \A k \in 1 .. Len(unsol) :
            unsol[k].n \in 1 .. Done /\ unsol[k] = history[unsol[k].n]
      BY DEF Delivered
    <3>2. \A x : x \in 1 .. Done => x \in 1 .. Done'
      BY <1>1, <2>2
    <3> QED BY <3>1, <3>2
  <2>5. Delivered'
    BY <1>0, <2>1, <2>4 DEF Delivered
  <2> QED BY <1>3, <2>3, <2>5
<1> QED BY <1>4, <1>5

(* An unsolicited line no command can claim is never kept by one.           *)
LEMMA NotClaimed ==
  ASSUME TypeOK, Flow, rpc = "process", Unclaimed(rline), sp_response # NULL
  PROVE  ~IsFinal(rline) /\ ~IsPrompt(rline) /\ ~Collects(rline)
<1> USE DEF Flow
<1>0. rline = history[Consumed] /\ Consumed \in 1 .. Len(history)
      /\ rline.kind \notin {"sms", "smspdu"}
  <2>1. Consumed \in Nat /\ Consumed > 0 /\ rline = history[Consumed]
        /\ rline.kind \notin {"sms", "smspdu"}
    BY DEF ReaderAt, InputKnown
  <2>2. Consumed <= Len(history)
    BY DEF Consumed, TypeOK, ModemType, ReaderType
  <2>3. Len(history) \in Nat
    BY DEF TypeOK, ModemType
  <2> QED BY <2>1, <2>2, <2>3
<1>1. rline.kind = "text"
  BY <1>0 DEF HistoryKnown, Unclaimed
<1>2. PICK r \in Requests : s_type = TypeOf(r.api) /\ s_responsePrefix = PrefixOf(r)
  BY DEF PendingKnown
<1>3. r.api \in Apis
  BY ConstantsAssumption DEF ConstantsAssumption, RequestType
<1>4. ~Collects(rline)
  <2>1. CASE r.api \in {"command", "handshake"}
    BY <1>2, <2>1 DEF TypeOf, Collects
  <2>2. CASE r.api = "numeric"
    <3>1. TypeOf(r.api) = "NUMERIC"
      BY <2>2 DEF TypeOf
    <3>2. ~isdigit(rline)
      BY <1>1, <3>1 DEF Unclaimed
    <3> QED BY <1>2, <3>1, <3>2 DEF Collects
  <2>3. CASE r.api \in {"singleline", "sms", "multiline"}
    <3>1. TypeOf(r.api) \in {"SINGLELINE", "MULTILINE"}
      BY <2>3 DEF TypeOf
    <3>2. ~strStartsWith(rline, r.prefix)
      BY <1>1, <3>1 DEF Unclaimed
    <3>3. s_responsePrefix = r.prefix
      BY <1>2, <2>3 DEF PrefixOf
    <3> QED BY <1>2, <3>1, <3>2, <3>3 DEF Collects
  <2> QED BY <1>3, <2>1, <2>2, <2>3 DEF Apis
<1> QED BY <1>1, <1>4 DEF IsFinal, IsPrompt, isFinalResponseSuccess,
          isFinalResponseError

(* processLine: the line is kept by the pending command, or goes to the     *)
(* handler behind all lines before it.                                      *)
LEMMA ProcessFlow ==
  ASSUME TypeOK, Flow, processLine
  PROVE  InputKnown' /\ ReaderAt' /\ Delivered'
<1> USE DEF Flow
<1>0. /\ rpc = "process" /\ rpc' = "readline"
      /\ UNCHANGED <<history, rx, buf, rsms>>
  BY DEF processLine, handleFinalResponse, writeCtrlZ, addIntermediate,
       handleUnsolicited, Processing
<1>u. \A x : Unclaimed(x)' <=> Unclaimed(x)
  BY DEF Unclaimed, isdigit, strStartsWith
<1>1. PICK c \in Nat : c = Consumed
  BY DEF InputKnown
<1>2. /\ rsms = NULL /\ c > 0 /\ rline = history[c]
      /\ rline.kind \notin {"sms", "smspdu"}
  BY <1>0, <1>1 DEF ReaderAt
<1>3. /\ history \in Seq(Line) /\ Len(history) \in Nat /\ c <= Len(history)
      /\ unsol \in Seq(Line) /\ Len(unsol) \in Nat /\ rline \in Line
  BY <1>0, <1>1 DEF TypeOK, ModemType, ReaderType, Consumed
<1>4. rline.n = c
  BY <1>1, <1>2, <1>3 DEF HistoryKnown
<1>5. Consumed' = c /\ Done = c - 1 /\ Done' = c
  BY <1>0, <1>1, <1>2 DEF Consumed, Done
<1>6. InputKnown'
  <2>1. Consumed' = Consumed
    BY <1>1, <1>5
  <2> QED BY <1>0, <2>1 DEF InputKnown
<1>7. ReaderAt'
  BY <1>0, <1>2, <1>5 DEF ReaderAt
<1>8. \A k \in 1 .. Len(unsol) :
        unsol[k].n \in 1 .. (c - 1) /\ unsol[k] = history[unsol[k].n]
  BY <1>5 DEF Delivered
<1>9. \A i \in 1 .. (c - 1) : Unclaimed(history[i]) =>
        \E k \in 1 .. Len(unsol) : unsol[k] = history[i]
  BY <1>0, <1>5 DEF Delivered
<1>10. \A i \in 1 .. c : i \in 1 .. (c - 1) \/ i = c
  BY <1>1
<1>11. \A x : x \in 1 .. (c - 1) => x \in 1 .. c /\ x < c
  BY <1>1
<1>12. CASE handleUnsolicited
  <2>1. unsol' = Append(unsol, rline)
    BY <1>12 DEF handleUnsolicited
  <2>2. /\ Len(unsol') = Len(unsol) + 1 /\ unsol'[Len(unsol) + 1] = rline
        /\ \A k \in 1 .. Len(unsol) : unsol'[k] = unsol[k]
    BY <1>3, <2>1
  <2>3. \A k \in 1 .. Len(unsol') :
          k \in 1 .. Len(unsol) \/ k = Len(unsol) + 1
    BY <1>3, <2>2
  <2>4. ASSUME NEW j \in 1 .. Len(unsol'), NEW k \in 1 .. Len(unsol'), j < k
        PROVE  unsol'[j].n < unsol'[k].n
    <3>1. j \in 1 .. Len(unsol)
      BY <1>3, <2>2, <2>4
    <3>2. CASE k \in 1 .. Len(unsol)
      BY <2>2, <2>4, <3>1, <3>2 DEF Delivered
    <3>3. CASE k = Len(unsol) + 1
      BY <1>4, <1>8, <1>11, <2>2, <3>1, <3>3
    <3> QED BY <2>3, <3>2, <3>3
  <2>5. ASSUME NEW k \in 1 .. Len(unsol')
        PROVE  unsol'[k].n \in 1 .. c /\ unsol'[k] = history[unsol'[k].n]
    <3>1. CASE k \in 1 .. Len(unsol)
      BY <1>8, <1>11, <2>2, <3>1
    <3>2. CASE k = Len(unsol) + 1
      BY <1>1, <1>2, <1>4, <2>2, <3>2
    <3> QED BY <2>3, <3>1, <3>2
  <2>6. ASSUME NEW i \in 1 .. c, Unclaimed(history[i])
        PROVE  \E k \in 1 .. Len(unsol') : unsol'[k] = history[i]
    <3>1. CASE i \in 1 .. (c - 1)
      <4>1. PICK k \in 1 .. Len(unsol) : unsol[k] = history[i]
        BY <1>9, <2>6, <3>1
      <4>2. k \in 1 .. Len(unsol') /\ unsol'[k] = history[i]
        BY <1>3, <2>2, <4>1
      <4> QED BY <4>2
    <3>2. CASE i = c
      <4>1. Len(unsol) + 1 \in 1 .. Len(unsol')
        BY <1>3, <2>2
      <4> QED BY <1>2, <2>2, <3>2, <4>1
    <3> QED BY <1>10, <3>1, <3>2
  <2>7. Delivered'
    BY <1>0, <1>u, <1>5, <2>4, <2>5, <2>6 DEF Delivered
  <2> QED BY <1>6, <1>7, <2>7
<1>13. CASE ~handleUnsolicited
  <2>1. /\ unsol' = unsol /\ sp_response # NULL
        /\ IsFinal(rline) \/ IsPrompt(rline) \/ Collects(rline)
    BY <1>13 DEF processLine, handleFinalResponse, writeCtrlZ, addIntermediate
  <2>2. ~Unclaimed(rline)
    BY <1>0, <2>1, NotClaimed
  <2>3. \A i \in 1 .. c : Unclaimed(history[i]) =>
          \E k \in 1 .. Len(unsol) : unsol[k] = history[i]
    BY <1>2, <1>9, <1>10, <2>2
  <2>4. Delivered'
    BY <1>0, <1>u, <1>5, <1>8, <1>11, <2>1, <2>3 DEF Delivered
  <2> QED BY <1>6, <1>7, <2>4
<1> QED BY <1>12, <1>13

-----------------------------------------------------------------------------
(***************************************************************************)
(* The threads, and every step.                                            *)
(***************************************************************************)
(* The reader never changes what a command waits for, nor whose call it is. *)
LEMMA ReaderPending ==
  ASSUME TypeOK, PendingKnown, readerLoop
  PROVE  PendingKnown'
<1>0. pc \in [Threads -> PcValues]
  BY DEF TypeOK, ThreadType
<1>1. UNCHANGED <<s_type, s_responsePrefix, req>>
  BY DEF readerLoop, processLine, TakeBuffered, EnterRead, ReadData, ReadEof,
       handleFinalResponse, writeCtrlZ, addIntermediate, handleUnsolicited,
       Processing, onReaderClosed
<1>2. Signal(pc) \/ UNCHANGED pc
  BY DEF readerLoop, processLine, TakeBuffered, EnterRead, ReadData, ReadEof,
       handleFinalResponse, writeCtrlZ, addIntermediate, handleUnsolicited,
       Processing, onReaderClosed
<1>3. \A t \in Threads :
        pc'[t] \notin {"idle", "closing"} => pc[t] \notin {"idle", "closing"}
  BY <1>0, <1>2, SignalKeeps
<1>4. sp_response' # NULL => sp_response # NULL
  <2>1. CASE processLine
    BY <2>1, ProcessKeepsOwner
  <2>2. CASE TakeBuffered \/ EnterRead \/ ReadData \/ ReadEof \/ onReaderClosed
    BY <2>2 DEF TakeBuffered, EnterRead, ReadData, ReadEof, onReaderClosed
  <2> QED BY <2>1, <2>2 DEF readerLoop
<1> QED BY <1>1, <1>3, <1>4 DEF PendingKnown

(* A call keeps its request until it returns; Arm publishes its type and    *)
(* prefix with the response.                                                *)
LEMMA ThreadPending ==
  ASSUME TypeOK, PendingKnown, NEW t \in Threads, Thread(t)
  PROVE  PendingKnown'
<1>0. pc \in [Threads -> PcValues] /\ req \in [Threads -> RequestType]
  BY DEF TypeOK, ThreadType
<1>1. CASE at_open(t)
  BY <1>1 DEF at_open, PendingKnown
<1>2. CASE at_close(t) \/ Return(t)
  BY <1>0, <1>2 DEF at_close, Return, Goto, PendingKnown
<1>3. CASE Call(t)
  BY <1>0, <1>3 DEF Call, Goto, PendingKnown
<1>4. CASE Lock(t) \/ Wait(t) \/ NullDereference(t) \/ Relock(t)
           \/ HandshakePause(t) \/ SpuriousWakeup(t) \/ Timeout(t)
  BY <1>0, <1>4 DEF Lock, Wait, NullDereference, Relock, HandshakePause,
       SpuriousWakeup, Timeout, Goto, PendingKnown
<1>5. CASE writeline(t)
  BY <1>0, <1>5 DEF writeline, Goto, PendingKnown
<1>6. CASE Arm(t)
  BY <1>0, <1>6 DEF Arm, Goto, PendingKnown
<1>7. CASE CommandPending(t) \/ WriteFails(t) \/ GiveUp(t) \/ TakeResponse(t)
  <2>1. /\ sp_response' = NULL /\ req' = req
        /\ pc[t] \notin {"idle", "closing"}
    BY <1>7 DEF CommandPending, WriteFails, GiveUp, TakeResponse,
         clearPendingCommand
  <2>2. \A u \in Threads \ {t} : pc'[u] = pc[u]
    BY <1>0, <1>7 DEF CommandPending, WriteFails, GiveUp, TakeResponse,
         Returned, Goto
  <2> QED BY <2>1, <2>2 DEF PendingKnown
<1>8. CASE CloseReader(t)
  <2>1. UNCHANGED <<s_type, s_responsePrefix, sp_response, req>>
    BY <1>8 DEF CloseReader
  <2> DEFINE p == [pc EXCEPT ![t] = "idle"]
  <2>2. p \in [Threads -> PcValues] /\ Signal(p)
    BY <1>0, <1>8 DEF CloseReader, PcValues
  <2>3. \A u \in Threads : p[u] = pc[u] \/ p[u] = "idle"
    BY <1>0
  <2> HIDE DEF p
  <2>4. \A u \in Threads :
          pc'[u] \notin {"idle", "closing"} => pc[u] \notin {"idle", "closing"}
    BY <2>2, <2>3, SignalKeeps
  <2> QED BY <2>1, <2>4 DEF PendingKnown
<1> QED BY <1>1, <1>2, <1>3, <1>4, <1>5, <1>6, <1>7, <1>8 DEF Thread, InCall

(* A thread touches the way of the lines only by its commands.              *)
LEMMA ThreadFlow ==
  ASSUME TypeOK, Flow, NEW t \in Threads, Thread(t)
  PROVE  Flow'
<1> USE DEF Flow
<1>0. UNCHANGED <<history, rx, buf, unsol, rsms, rline>>
  BY DEF Thread, at_open, at_close, Call, InCall, CloseReader, Lock,
       CommandPending, WriteFails, writeline, Arm, Wait, NullDereference,
       Relock, GiveUp, TakeResponse, HandshakePause, Return, SpuriousWakeup,
       Timeout
<1>1. rpc' = rpc \/ (rpc = "none" /\ rpc' = "readline")
  BY DEF Thread, at_open, at_close, Call, InCall, CloseReader, Lock,
       CommandPending, WriteFails, writeline, Arm, Wait, NullDereference,
       Relock, GiveUp, TakeResponse, HandshakePause, Return, SpuriousWakeup,
       Timeout
<1>2. tx' = tx \/ writeline(t)
  BY DEF Thread, at_open, at_close, Call, InCall, CloseReader, Lock,
       CommandPending, WriteFails, Arm, Wait, NullDereference, Relock,
       GiveUp, TakeResponse, HandshakePause, Return, SpuriousWakeup, Timeout
<1>u. \A x : Unclaimed(x)' <=> Unclaimed(x)
  BY DEF Unclaimed, isdigit, strStartsWith
<1>3. Consumed' = Consumed /\ Done' = Done
  BY <1>0, <1>1 DEF Consumed, Done
<1>4. HistoryKnown' /\ InputKnown'
  BY <1>0, <1>1, <1>3 DEF HistoryKnown, InputKnown
<1>5. ReaderAt'
  BY <1>0, <1>1, <1>3 DEF ReaderAt
<1>6. Delivered'
  BY <1>0, <1>1, <1>u, <1>3 DEF Delivered
<1>7. CommandsNumbered'
  <2>1. CASE tx' = tx
    BY <2>1 DEF CommandsNumbered
  <2>2. CASE writeline(t)
    <3>1. writes \in Nat /\ tx \in Seq(Written)
      BY DEF TypeOK, ModemType
    <3>2. PICK w : tx' = Append(tx, w) /\ w.id = writes + 1
      BY <2>2 DEF writeline
    <3>3. \A k \in 1 .. Len(tx') : \/ k \in 1 .. Len(tx) /\ tx'[k] = tx[k]
                                   \/ tx'[k] = w
      BY <3>1, <3>2
    <3> QED BY <3>1, <3>2, <3>3 DEF CommandsNumbered
  <2> QED BY <1>2, <2>1, <2>2
<1>8. PendingKnown'
  BY ThreadPending
<1> QED BY <1>4, <1>5, <1>6, <1>7, <1>8

(* The reader keeps everything.                                             *)
LEMMA ReaderFlow ==
  ASSUME TypeOK, Flow, readerLoop
  PROVE  Flow'
<1> USE DEF Flow
<1>1. history' = history
  BY DEF readerLoop, processLine, TakeBuffered, EnterRead, ReadData, ReadEof,
       handleFinalResponse, writeCtrlZ, addIntermediate, handleUnsolicited,
       Processing, onReaderClosed
<1>2. HistoryKnown'
  BY <1>1 DEF HistoryKnown
<1>3. CommandsNumbered'
  <2>1. tx' = tx \/ writeCtrlZ
    BY DEF readerLoop, processLine, TakeBuffered, EnterRead, ReadData,
         ReadEof, handleFinalResponse, addIntermediate, handleUnsolicited,
         onReaderClosed
  <2>2. CASE tx' = tx
    BY <2>2 DEF CommandsNumbered
  <2>3. CASE writeCtrlZ /\ tx' # tx
    <3>1. tx \in Seq(Written)
      BY DEF TypeOK, ModemType
    <3>2. PICK w : tx' = Append(tx, w) /\ w.kind = "pdu"
      BY <2>3 DEF writeCtrlZ
    <3>3. \A k \in 1 .. Len(tx') : \/ k \in 1 .. Len(tx) /\ tx'[k] = tx[k]
                                   \/ tx'[k] = w
      BY <3>1, <3>2
    <3> QED BY <3>2, <3>3 DEF CommandsNumbered
  <2> QED BY <2>1, <2>2, <2>3
<1>4. PendingKnown'
  BY ReaderPending
<1>5. InputKnown' /\ ReaderAt' /\ Delivered'
  BY InputFlow, PauseFlow, ProcessFlow DEF readerLoop
<1> QED BY <1>2, <1>3, <1>4, <1>5

(* Nothing happens.                                                         *)
LEMMA StutterFlow == Flow /\ UNCHANGED vars => Flow'
BY DEF Flow, HistoryKnown, CommandsNumbered, InputKnown, ReaderAt, Delivered,
     PendingKnown, Consumed, Done, Unclaimed, isdigit, strStartsWith

(* Nothing was sent yet.                                                    *)
LEMMA InitFlow == Init => Flow
<1> SUFFICES ASSUME Init PROVE Flow
  OBVIOUS
<1>1. /\ history = << >> /\ rx = << >> /\ buf = << >> /\ tx = << >>
      /\ unsol = << >> /\ rsms = NULL /\ rpc = "none" /\ sp_response = NULL
  BY DEF Init
<1>2. Consumed = 0 /\ Done = 0
  <2>1. Len(history) = 0 /\ Len(rx) = 0 /\ Len(buf) = 0
    BY <1>1
  <2>2. Consumed = 0
    BY <2>1 DEF Consumed
  <2> QED BY <1>1, <2>2 DEF Done
<1>3. HistoryKnown /\ CommandsNumbered
  BY <1>1 DEF HistoryKnown, CommandsNumbered
<1>4. InputKnown /\ ReaderAt
  BY <1>1, <1>2 DEF InputKnown, ReaderAt
<1>5. Delivered
  BY <1>1, <1>2 DEF Delivered
<1>6. PendingKnown
  BY DEF Init, PendingKnown
<1> QED BY <1>3, <1>4, <1>5, <1>6 DEF Flow

(* When the reader is between two lines it is done with all it took.        *)
LEMMA FlowDelivers == Flow => UrcDelivered
<1> SUFFICES ASSUME Flow, rpc \in {"readline", "read"}, rsms = NULL
             PROVE  UrcDelivered
  BY DEF UrcDelivered
<1>1. Done = Consumed
  BY DEF Done
<1> QED BY <1>1 DEF Flow, Delivered, UrcDelivered

(* The invariant holds.                                                     *)
LEMMA FlowCorrect == Spec => []Flow
<1>1. TypeOK /\ Flow /\ [Next]_vars => Flow'
  <2> SUFFICES ASSUME TypeOK, Flow, [Next]_vars PROVE Flow'
    OBVIOUS
  <2>1. CASE UNCHANGED vars \/ Quiescent
    BY <2>1, StutterFlow DEF Quiescent
  <2> QED BY <2>1, ThreadFlow, ReaderFlow, ModemFlow DEF Next
<1> QED BY <1>1, InitFlow, TypeCorrect, PTL DEF Spec

(* However commands, answers, notifications and reads interleave, and       *)
(* however many threads use the channel: every unsolicited line that no     *)
(* pending command can claim reaches the handler once, in the order sent,   *)
(* and nothing else reaches it than lines the modem sent.                   *)
THEOREM UnsolicitedAreDelivered == Spec => []UrcDelivered
BY FlowCorrect, FlowDelivers, PTL

=============================================================================
