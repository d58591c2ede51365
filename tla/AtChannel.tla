----------------------------- MODULE AtChannel -----------------------------
(***************************************************************************)
(* The AT command channel (src/modem/at/atchannel.c): one reader thread,   *)
(* any number of threads that send commands or close the channel, the      *)
(* mutex and condition variable between them, and the modem at the other   *)
(* end of the serial line.                                                 *)
(*                                                                         *)
(* A section of code between two scheduling points that matter is one      *)
(* action.  The points kept apart are: taking s_commandmutex, writing the  *)
(* command, publishing sp_response, testing the wait loop, waiting, being  *)
(* woken, taking the mutex again, the pause of the handshake, releasing    *)
(* the mutex; for the reader: entering read(), returning from it, and      *)
(* processLine (whose body runs under the mutex and never blocks).         *)
(*                                                                         *)
(* A line is abstracted to what the code distinguishes in it (final        *)
(* success, final error, "> " prompt, first line of an SMS notification,   *)
(* any other text with its prefix).  The fields ans and id are history:    *)
(* the command a line answers, and the command a response was made for.    *)
(***************************************************************************)
EXTENDS Integers, FiniteSets, SequencesExt

CONSTANTS
  Threads,                \* threads that use the channel, the reader apart
  Commanders,             \* those of them that send commands
  Requests,               \* the calls they make (see RequestType)
  ResponsePrefixes,       \* response prefixes such as "+CPIN:"
  NULL,                   \* the null pointer
  HANDSHAKE_RETRY_COUNT,
  OnReaderClosedSet,      \* was at_set_on_reader_closed called?
  CanHangUp,              \* may the device disappear?
  UrcKinds,               \* kinds of unsolicited lines the modem sends
  MaxWrites,              \* bound: no call starts after this many commands
  MaxLines,               \* bound: text lines and prompts in one answer
  MaxUrc,                 \* bound: unsolicited messages
  MaxTimeouts             \* bound: answers slower than the handshake waits

VARIABLES
  s_fd,                   \* s_fd >= 0
  s_readerClosed,
  s_type, s_responsePrefix, s_smsPDU, sp_response,
  mutex,                  \* the holder of s_commandmutex, or NoThread
  pc,                     \* where each thread is
  req,                    \* the call it is in, or made last
  tries,                  \* at_handshake: i
  id,                     \* history: the command it wrote last
  err, out,               \* result and *pp_outResponse of its last call
  rpc, rline, rsms,       \* reader: where it is, its line, its SMS line1
  buf,                    \* complete lines left in s_ATBuffer
  rx, tx,                 \* the serial line, to and from the program
  answer,                 \* modem: its progress on the command at Head(tx)
  hup,                    \* the device is gone
  unsol,                  \* lines handed to s_unsolHandler, in order
  history,                \* every line the modem ever sent, in order
  writes, timeouts        \* counts of commands written and of timeouts

channelVars == <<s_fd, s_readerClosed>>
pendingVars == <<s_type, s_responsePrefix, s_smsPDU, sp_response>>
threadVars  == <<mutex, pc, req, tries, id, err, out>>
readerVars  == <<rpc, rline, rsms, buf, unsol>>
modemVars   == <<rx, tx, answer, hup, history>>
countVars   == <<writes, timeouts>>
vars == <<channelVars, pendingVars, threadVars, readerVars, modemVars,
          countVars>>

-----------------------------------------------------------------------------
(***************************************************************************)
(* Data.                                                                   *)
(***************************************************************************)
NoThread  == "nobody"
AnyPrefix == ""             \* the empty prefix starts every line
Digit     == "digit"        \* a line that begins with a digit
Other     == "other"        \* a line that begins with anything else
AllPrefixes == ResponsePrefixes \cup {AnyPrefix, Digit, Other}

ATCommandType == {"NO_RESULT", "NUMERIC", "SINGLELINE", "MULTILINE"}

Apis == {"command", "singleline", "numeric", "sms", "multiline", "handshake"}

(* One call: the public function, how the modem's answer to it begins       *)
(* (AnyPrefix: no matter how), pp_outResponse # NULL.                       *)
RequestType ==
  [api : Apis, prefix : ResponsePrefixes \cup {AnyPrefix}, out : BOOLEAN]

TypeOf(api) ==
  CASE api \in {"command", "handshake"} -> "NO_RESULT"
    [] api = "numeric"                  -> "NUMERIC"
    [] api \in {"singleline", "sms"}    -> "SINGLELINE"
    [] api = "multiline"                -> "MULTILINE"

(* The responsePrefix the public function hands down.                       *)
PrefixOf(r) ==
  IF r.api \in {"singleline", "sms", "multiline"} THEN r.prefix ELSE NULL

LineKinds == {"ok", "error", "prompt", "sms", "smspdu", "text"}
Line == [kind : LineKinds, prefix : AllPrefixes, ans : Nat, n : Nat]

ATResponse ==
  [id : Nat, success : BOOLEAN, finalResponse : Line \cup {NULL},
   p_intermediates : Seq(Line)]

at_response_new(i) ==
  [id |-> i, success |-> FALSE, finalResponse |-> NULL,
   p_intermediates |-> << >>]

(* What the program writes: a command line, or the PDU of an SMS with ^Z.   *)
Written == [kind : {"cmd", "pdu"}, id : Nat, req : RequestType]

Errors == {"OK", "GENERIC", "COMMAND_PENDING", "CHANNEL_CLOSED", "TIMEOUT",
           "INVALID_RESPONSE"}

(* Places of a thread.  It holds the mutex in Holding, and a response of its *)
(* own is published in Published.                                           *)
Holding   == {"send", "arm", "loop", "drain", "unlock", "crashed"}
Published == {"loop", "wait", "relock", "timedout"}
PcValues  == Holding \cup Published \cup {"idle", "lock", "closing"}

ReaderPcs == {"none", "readline", "read", "process", "closing", "dead"}

ASSUME ConstantsAssumption ==
  /\ Commanders \subseteq Threads
  /\ NoThread \notin Threads
  /\ Requests \subseteq RequestType
  /\ ResponsePrefixes \cap {AnyPrefix, Digit, Other} = {}
  /\ HANDSHAKE_RETRY_COUNT \in Nat \ {0}
  /\ OnReaderClosedSet \in BOOLEAN /\ CanHangUp \in BOOLEAN
  /\ UrcKinds \subseteq {"text", "sms", "error"}
  /\ {MaxWrites, MaxLines, MaxUrc, MaxTimeouts} \subseteq Nat

ASSUME NullAssumption == NULL \notin ATResponse /\ NULL \notin Line

ChannelType ==
  /\ s_fd \in BOOLEAN /\ s_readerClosed \in BOOLEAN
  /\ s_type \in ATCommandType
  /\ s_responsePrefix \in ResponsePrefixes \cup {AnyPrefix, NULL}
  /\ s_smsPDU \in Nat \cup {NULL}
  /\ sp_response \in ATResponse \cup {NULL}

ThreadType ==
  /\ mutex \in Threads \cup {NoThread}
  /\ pc \in [Threads -> PcValues]
  /\ req \in [Threads -> RequestType]
  /\ tries \in [Threads -> 0 .. HANDSHAKE_RETRY_COUNT - 1]
  /\ id \in [Threads -> Nat]
  /\ err \in [Threads -> Errors]
  /\ out \in [Threads -> ATResponse \cup {NULL}]

ReaderType ==
  /\ rpc \in ReaderPcs
  /\ rline \in Line \cup {NULL} /\ (rpc = "process" => rline \in Line)
  /\ rsms \in Line \cup {NULL}
  /\ buf \in Seq(Line) /\ unsol \in Seq(Line)

ModemType ==
  /\ rx \in Seq(Line) /\ history \in Seq(Line) /\ tx \in Seq(Written)
  /\ answer \in [n : Nat, pdu : BOOLEAN]
  /\ hup \in BOOLEAN
  /\ writes \in Nat /\ timeouts \in Nat

(* Every variable has its type; the reader processes a line it has read.    *)
TypeOK == ChannelType /\ ThreadType /\ ReaderType /\ ModemType

-----------------------------------------------------------------------------
(***************************************************************************)
(* Classification of lines.                                                *)
(***************************************************************************)
isFinalResponseSuccess(l) == l.kind = "ok"
isFinalResponseError(l)   == l.kind = "error"
isSMSUnsolicited(l)       == l.kind = "sms"
isdigit(l)                == l.prefix = Digit
strStartsWith(l, p)       == p = AnyPrefix \/ l.prefix = p

(* The switch on s_type: does the pending command keep this line?           *)
Collects(l) ==
  LET none == sp_response.p_intermediates = << >>
  IN CASE s_type = "NO_RESULT"  -> FALSE
       [] s_type = "NUMERIC"    -> none /\ isdigit(l)
       [] s_type = "SINGLELINE" -> none /\ strStartsWith(l, s_responsePrefix)
       [] s_type = "MULTILINE"  -> strStartsWith(l, s_responsePrefix)

-----------------------------------------------------------------------------
(***************************************************************************)
(* Threads: opening, sending, closing.                                     *)
(***************************************************************************)
Goto(t, l) == pc' = [pc EXCEPT ![t] = l]

(* pthread_cond_signal wakes one of the waiting threads, if there is one.   *)
Signal(p) ==
  LET waiting == {t \in Threads : p[t] = "wait"}
  IN IF waiting = {} THEN pc' = p
     ELSE \E t \in waiting : pc' = [p EXCEPT ![t] = "relock"]

at_open(t) ==
  /\ pc[t] = "idle" /\ rpc = "none"
  /\ s_fd' = TRUE /\ s_readerClosed' = FALSE
  /\ s_responsePrefix' = NULL /\ s_smsPDU' = NULL /\ sp_response' = NULL
  /\ rpc' = "readline"
  /\ UNCHANGED <<s_type, threadVars, rline, rsms, buf, unsol, modemVars,
                 countVars>>

(* at_close: the descriptor goes first, without the mutex ...               *)
at_close(t) ==
  /\ pc[t] = "idle" /\ rpc # "none"
  /\ s_fd' = FALSE
  /\ Goto(t, "closing")
  /\ UNCHANGED <<s_readerClosed, pendingVars, mutex, req, tries, id, err, out,
                 readerVars, modemVars, countVars>>

(* Mutant: the waiting command is not signalled.                            *)
CloseReader_NoSignal(t) ==
  /\ pc[t] = "closing" /\ mutex = NoThread
  /\ s_readerClosed' = TRUE
  /\ Goto(t, "idle")
  /\ UNCHANGED <<s_fd, pendingVars, mutex, req, tries, id, err, out,
                 readerVars, modemVars, countVars>>

(* ... then s_readerClosed and the signal, under it.                        *)
CloseReader(t) ==
  /\ pc[t] = "closing" /\ mutex = NoThread
  /\ s_readerClosed' = TRUE
  /\ Signal([pc EXCEPT ![t] = "idle"])
  /\ UNCHANGED <<s_fd, pendingVars, mutex, req, tries, id, err, out,
                 readerVars, modemVars, countVars>>

(* at_send_command* and at_handshake are entered.                           *)
Call(t) ==
  /\ t \in Commanders /\ pc[t] = "idle" /\ rpc # "none"
  /\ writes < MaxWrites
  /\ \E r \in Requests : req' = [req EXCEPT ![t] = r]
  /\ tries' = [tries EXCEPT ![t] = 0]
  /\ err' = [err EXCEPT ![t] = "OK"] /\ out' = [out EXCEPT ![t] = NULL]
  /\ Goto(t, "lock")
  /\ UNCHANGED <<channelVars, pendingVars, mutex, id, readerVars, modemVars,
                 countVars>>

Lock(t) ==
  /\ pc[t] = "lock" /\ mutex = NoThread
  /\ mutex' = t
  /\ Goto(t, "send")
  /\ UNCHANGED <<channelVars, pendingVars, req, tries, id, err, out,
                 readerVars, modemVars, countVars>>

clearPendingCommand ==
  /\ sp_response' = NULL /\ s_responsePrefix' = NULL /\ s_smsPDU' = NULL

(* Mutant: the handshake counts one try too many.                           *)
Returned_OneMore(t, e) ==
  LET again == req[t].api = "handshake" /\ e # "OK"
               /\ tries[t] < HANDSHAKE_RETRY_COUNT
  IN /\ err' = [err EXCEPT ![t] = e]
     /\ tries' = [tries EXCEPT ![t] = IF again THEN @ + 1 ELSE @]
     /\ Goto(t, IF again THEN "send"
                ELSE IF req[t].api = "handshake" /\ e = "OK" THEN "drain"
                ELSE "unlock")

(* at_send_command_full_nolock returns e: the handshake tries again or       *)
(* pauses, every other call is done.                                        *)
Returned(t, e) ==
  LET again == req[t].api = "handshake" /\ e # "OK"
               /\ tries[t] + 1 < HANDSHAKE_RETRY_COUNT
  IN /\ err' = [err EXCEPT ![t] = e]
     /\ tries' = [tries EXCEPT ![t] = IF again THEN @ + 1 ELSE @]
     /\ Goto(t, IF again THEN "send"
                ELSE IF req[t].api = "handshake" /\ e = "OK" THEN "drain"
                ELSE "unlock")

(* A response is pending already: the error path clears it.                 *)
CommandPending(t) ==
  /\ pc[t] = "send" /\ sp_response # NULL
  /\ clearPendingCommand
  /\ Returned(t, "COMMAND_PENDING")
  /\ UNCHANGED <<channelVars, s_type, mutex, req, id, out, readerVars,
                 modemVars, countVars>>

(* writeline fails: the channel is closed, or closes while it writes, or    *)
(* the device is gone.                                                      *)
WriteFails(t) ==
  /\ pc[t] = "send" /\ sp_response = NULL
  /\ \/ (~s_fd \/ s_readerClosed) /\ Returned(t, "CHANNEL_CLOSED")
     \/ ~s_readerClosed /\ (hup \/ ~s_fd) /\ Returned(t, "GENERIC")
  /\ clearPendingCommand
  /\ UNCHANGED <<channelVars, s_type, mutex, req, id, out, readerVars,
                 modemVars, countVars>>

writeline(t) ==
  /\ pc[t] = "send" /\ sp_response = NULL
  /\ s_fd /\ ~s_readerClosed /\ ~hup
  /\ tx' = Append(tx, [kind |-> "cmd", id |-> writes + 1, req |-> req[t]])
  /\ writes' = writes + 1
  /\ id' = [id EXCEPT ![t] = writes + 1]
  /\ Goto(t, "arm")
  /\ UNCHANGED <<channelVars, pendingVars, mutex, req, tries, err, out,
                 readerVars, rx, answer, hup, history, timeouts>>

Arm(t) ==
  /\ pc[t] = "arm"
  /\ s_type' = TypeOf(req[t].api)
  /\ s_responsePrefix' = PrefixOf(req[t])
  /\ s_smsPDU' = IF req[t].api = "sms" THEN id[t] ELSE NULL
  /\ sp_response' = at_response_new(id[t])
  /\ Goto(t, "loop")
  /\ UNCHANGED <<channelVars, mutex, req, tries, id, err, out, readerVars,
                 modemVars, countVars>>

(* Mutant: the thread sleeps with the mutex held.                           *)
Wait_Holding(t) ==
  /\ pc[t] = "loop" /\ sp_response # NULL
  /\ sp_response.finalResponse = NULL /\ ~s_readerClosed
  /\ Goto(t, "wait")
  /\ UNCHANGED <<channelVars, pendingVars, mutex, req, tries, id, err, out,
                 readerVars, modemVars, countVars>>

(* while (sp_response->finalResponse == NULL && s_readerClosed == 0) wait    *)
Wait(t) ==
  /\ pc[t] = "loop" /\ sp_response # NULL
  /\ sp_response.finalResponse = NULL /\ ~s_readerClosed
  /\ mutex' = NoThread
  /\ Goto(t, "wait")
  /\ UNCHANGED <<channelVars, pendingVars, req, tries, id, err, out,
                 readerVars, modemVars, countVars>>

(* The loop reads through sp_response; another thread may have cleared it.   *)
NullDereference(t) ==
  /\ pc[t] = "loop" /\ sp_response = NULL
  /\ Goto(t, "crashed")
  /\ UNCHANGED <<channelVars, pendingVars, mutex, req, tries, id, err, out,
                 readerVars, modemVars, countVars>>

(* POSIX lets a wait end without a signal.                                  *)
SpuriousWakeup(t) ==
  /\ pc[t] = "wait"
  /\ Goto(t, "relock")
  /\ UNCHANGED <<channelVars, pendingVars, mutex, req, tries, id, err, out,
                 readerVars, modemVars, countVars>>

(* Only the handshake waits with a timeout.                                 *)
Timeout(t) ==
  /\ pc[t] = "wait" /\ req[t].api = "handshake" /\ timeouts < MaxTimeouts
  /\ timeouts' = timeouts + 1
  /\ Goto(t, "timedout")
  /\ UNCHANGED <<channelVars, pendingVars, mutex, req, tries, id, err, out,
                 readerVars, modemVars, writes>>

Relock(t) ==
  /\ pc[t] = "relock" /\ mutex = NoThread
  /\ mutex' = t
  /\ Goto(t, "loop")
  /\ UNCHANGED <<channelVars, pendingVars, req, tries, id, err, out,
                 readerVars, modemVars, countVars>>

(* Mutant: the timeout path leaves the response published.                  *)
GiveUp_NoClear(t) ==
  /\ pc[t] = "timedout" /\ mutex = NoThread
  /\ mutex' = t
  /\ Returned(t, "TIMEOUT")
  /\ UNCHANGED <<channelVars, pendingVars, req, id, out, readerVars, modemVars,
                 countVars>>

(* ETIMEDOUT: the command is given up, whatever arrived in the meantime.    *)
GiveUp(t) ==
  /\ pc[t] = "timedout" /\ mutex = NoThread
  /\ mutex' = t
  /\ clearPendingCommand
  /\ Returned(t, "TIMEOUT")
  /\ UNCHANGED <<channelVars, s_type, req, id, out, readerVars, modemVars,
                 countVars>>

(* Mutant: the intermediate lines stay in the order of the list.            *)
reverseIntermediates_Skipped(r) == r

(* The reader prepends each intermediate line; here the order is restored.  *)
reverseIntermediates(r) ==
  [r EXCEPT !.p_intermediates = Reverse(r.p_intermediates)]

(* Mutant: the channel closed and the call reports success.                 *)
TakeResponse_IgnoresClose(t) ==
  /\ pc[t] = "loop" /\ sp_response # NULL
  /\ sp_response.finalResponse # NULL \/ s_readerClosed
  /\ out' = [out EXCEPT ![t] = IF req[t].out
                               THEN reverseIntermediates(sp_response)
                               ELSE NULL]
  /\ clearPendingCommand
  /\ Returned(t, "OK")
  /\ UNCHANGED <<channelVars, s_type, mutex, req, id, readerVars, modemVars,
                 countVars>>

(* Mutant: sp_response is handed out and kept.                              *)
TakeResponse_Keeps(t) ==
  /\ pc[t] = "loop" /\ sp_response # NULL
  /\ sp_response.finalResponse # NULL \/ s_readerClosed
  /\ out' = [out EXCEPT ![t] = IF req[t].out
                               THEN reverseIntermediates(sp_response)
                               ELSE NULL]
  /\ Returned(t, IF s_readerClosed THEN "CHANNEL_CLOSED" ELSE "OK")
  /\ UNCHANGED <<channelVars, pendingVars, mutex, req, id, readerVars,
                 modemVars, countVars>>

(* The loop ends: the response is handed out or freed.                      *)
TakeResponse(t) ==
  /\ pc[t] = "loop" /\ sp_response # NULL
  /\ sp_response.finalResponse # NULL \/ s_readerClosed
  /\ out' = [out EXCEPT ![t] = IF req[t].out
                               THEN reverseIntermediates(sp_response)
                               ELSE NULL]
  /\ clearPendingCommand
  /\ Returned(t, IF s_readerClosed THEN "CHANNEL_CLOSED" ELSE "OK")
  /\ UNCHANGED <<channelVars, s_type, mutex, req, id, readerVars, modemVars,
                 countVars>>

(* at_handshake: sleepMsec, with the mutex held.                            *)
HandshakePause(t) ==
  /\ pc[t] = "drain"
  /\ Goto(t, "unlock")
  /\ UNCHANGED <<channelVars, pendingVars, mutex, req, tries, id, err, out,
                 readerVars, modemVars, countVars>>

(* The mutex is released and the public function returns; a successful      *)
(* single line command must have an intermediate response.                  *)
Return(t) ==
  LET invalid == /\ req[t].api \in {"singleline", "numeric", "sms"}
                 /\ err[t] = "OK" /\ out[t] # NULL
                 /\ out[t].success /\ out[t].p_intermediates = << >>
  IN /\ pc[t] = "unlock"
     /\ mutex' = NoThread
     /\ err' = [err EXCEPT ![t] = IF invalid THEN "INVALID_RESPONSE" ELSE @]
     /\ out' = [out EXCEPT ![t] = IF invalid THEN NULL ELSE @]
     /\ Goto(t, "idle")
     /\ UNCHANGED <<channelVars, pendingVars, req, tries, id, readerVars,
                    modemVars, countVars>>

-----------------------------------------------------------------------------
(***************************************************************************)
(* The reader thread.                                                      *)
(***************************************************************************)
(* Mutant: line1 is not copied before readline runs again.                  *)
GotLine_NotCopied(l) ==
  \/ /\ rsms # NULL
     /\ unsol' = unsol \o <<l, l>>
     /\ rsms' = NULL
     /\ rpc' = "readline"
     /\ UNCHANGED rline
  \/ /\ rsms = NULL /\ isSMSUnsolicited(l)
     /\ rsms' = l
     /\ rpc' = "readline"
     /\ UNCHANGED <<rline, unsol>>
  \/ /\ rsms = NULL /\ ~isSMSUnsolicited(l)
     /\ rline' = l
     /\ rpc' = "process"
     /\ UNCHANGED <<rsms, unsol>>

(* readerLoop receives a line from readline: the second line of an SMS       *)
(* notification goes to the handler with the first, without the mutex.       *)
GotLine(l) ==
  \/ /\ rsms # NULL
     /\ unsol' = unsol \o <<rsms, l>>
     /\ rsms' = NULL
     /\ rpc' = "readline"
     /\ UNCHANGED rline
  \/ /\ rsms = NULL /\ isSMSUnsolicited(l)
     /\ rsms' = l
     /\ rpc' = "readline"
     /\ UNCHANGED <<rline, unsol>>
  \/ /\ rsms = NULL /\ ~isSMSUnsolicited(l)
     /\ rline' = l
     /\ rpc' = "process"
     /\ UNCHANGED <<rsms, unsol>>

(* readline: a complete line is left in s_ATBuffer.                         *)
TakeBuffered ==
  /\ rpc = "readline" /\ buf # << >>
  /\ GotLine(Head(buf))
  /\ buf' = Tail(buf)
  /\ UNCHANGED <<channelVars, pendingVars, threadVars, modemVars, countVars>>

(* readline: read(s_fd) is entered; it fails at once on a closed channel.   *)
EnterRead ==
  /\ rpc = "readline" /\ buf = << >>
  /\ rpc' = IF s_fd THEN "read" ELSE "closing"
  /\ rsms' = IF s_fd THEN rsms ELSE NULL
  /\ UNCHANGED <<channelVars, pendingVars, threadVars, rline, buf, unsol,
                 modemVars, countVars>>

(* read() returns k lines.  A read that has been entered is not ended by    *)
(* close() in another thread: the kernel keeps the file open for it.        *)
ReadData ==
  /\ rpc = "read" /\ rx # << >>
  /\ GotLine(Head(rx))
  /\ \E k \in 1 .. Len(rx) : /\ buf' = SubSeq(rx, 2, k)
                             /\ rx' = SubSeq(rx, k + 1, Len(rx))
  /\ UNCHANGED <<channelVars, pendingVars, threadVars, tx, answer, hup,
                 history, countVars>>

ReadEof ==
  /\ rpc = "read" /\ rx = << >> /\ hup
  /\ rpc' = "closing"
  /\ rsms' = NULL
  /\ UNCHANGED <<channelVars, pendingVars, threadVars, rline, buf, unsol,
                 modemVars, countVars>>

(* processLine takes the mutex, then one of the four actions below runs.    *)
Processing ==
  /\ rpc = "process" /\ mutex = NoThread
  /\ rpc' = "readline" /\ rline' = NULL
  /\ UNCHANGED <<channelVars, s_type, s_responsePrefix, mutex, req, tries, id,
                 err, out, rsms, buf, rx, answer, hup, history, countVars>>

IsFinal(l)  == isFinalResponseSuccess(l) \/ isFinalResponseError(l)
IsPrompt(l) == s_smsPDU # NULL /\ l.kind = "prompt"

handleFinalResponse ==
  /\ Processing
  /\ sp_response # NULL /\ IsFinal(rline)
  /\ sp_response' = [sp_response EXCEPT
                       !.success = isFinalResponseSuccess(rline),
                       !.finalResponse = rline]
  /\ Signal(pc)
  /\ UNCHANGED <<s_smsPDU, unsol, tx>>

(* Mutant: s_smsPDU is kept after it was sent.                              *)
writeCtrlZ_Again ==
  /\ Processing
  /\ sp_response # NULL /\ ~IsFinal(rline) /\ IsPrompt(rline)
  /\ tx' = IF s_fd /\ ~s_readerClosed /\ ~hup
           THEN Append(tx, [kind |-> "pdu", id |-> s_smsPDU,
                            req |-> [api |-> "sms", prefix |-> AnyPrefix,
                                     out |-> FALSE]])
           ELSE tx
  /\ UNCHANGED <<s_smsPDU, sp_response, pc, unsol>>

(* The prompt of an SMS command: its PDU is sent, once.                     *)
writeCtrlZ ==
  /\ Processing
  /\ sp_response # NULL /\ ~IsFinal(rline) /\ IsPrompt(rline)
  /\ tx' = IF s_fd /\ ~s_readerClosed /\ ~hup
           THEN Append(tx, [kind |-> "pdu", id |-> s_smsPDU,
                            req |-> [api |-> "sms", prefix |-> AnyPrefix,
                                     out |-> FALSE]])
           ELSE tx
  /\ s_smsPDU' = NULL
  /\ UNCHANGED <<sp_response, pc, unsol>>

addIntermediate ==
  /\ Processing
  /\ sp_response # NULL /\ ~IsFinal(rline) /\ ~IsPrompt(rline)
  /\ Collects(rline)
  /\ sp_response' = [sp_response EXCEPT !.p_intermediates = Cons(rline, @)]
  /\ UNCHANGED <<s_smsPDU, pc, unsol, tx>>

handleUnsolicited ==
  /\ Processing
  /\ \/ sp_response = NULL
     \/ /\ sp_response # NULL /\ ~IsFinal(rline) /\ ~IsPrompt(rline)
        /\ ~Collects(rline)
  /\ unsol' = Append(unsol, rline)
  /\ UNCHANGED <<s_smsPDU, sp_response, pc, tx>>

(* onReaderClosed does nothing unless a callback was registered.            *)
onReaderClosed ==
  /\ rpc = "closing"
  /\ \/ /\ OnReaderClosedSet /\ ~s_readerClosed /\ mutex = NoThread
        /\ s_readerClosed' = TRUE
        /\ Signal(pc)
     \/ /\ ~OnReaderClosedSet \/ s_readerClosed
        /\ UNCHANGED <<s_readerClosed, pc>>
  /\ rpc' = "dead"
  /\ UNCHANGED <<s_fd, pendingVars, mutex, req, tries, id, err, out, rline,
                 rsms, buf, unsol, modemVars, countVars>>

-----------------------------------------------------------------------------
(***************************************************************************)
(* The modem (external).  It answers commands in the order it gets them    *)
(* and may send unsolicited lines at any time.                             *)
(***************************************************************************)
Emit(ls) == rx' = rx \o ls /\ history' = history \o ls

NewLine(kind, prefix, i, k) ==
  [kind |-> kind, prefix |-> prefix, ans |-> i, n |-> Len(history) + k]

Answering == ~hup /\ tx # << >> /\ Head(tx).kind = "cmd"

(* How the lines of the modem's answer to r begin.                          *)
AnswerPrefix(r) ==
  CASE TypeOf(r.api) = "NUMERIC" -> Digit
    [] TypeOf(r.api) # "NUMERIC" /\ r.prefix = AnyPrefix -> Other
    [] OTHER -> r.prefix

ModemText ==
  /\ Answering /\ answer.n < MaxLines
  /\ answer' = [answer EXCEPT !.n = @ + 1]
  /\ Emit(<<NewLine("text", AnswerPrefix(Head(tx).req), Head(tx).id, 1)>>)
  /\ UNCHANGED <<channelVars, pendingVars, threadVars, readerVars, tx, hup,
                 countVars>>

ModemPrompt ==
  /\ Answering /\ Head(tx).req.api = "sms" /\ answer.n < MaxLines
  /\ answer' = [answer EXCEPT !.n = @ + 1]
  /\ Emit(<<NewLine("prompt", Other, Head(tx).id, 1)>>)
  /\ UNCHANGED <<channelVars, pendingVars, threadVars, readerVars, tx, hup,
                 countVars>>

(* The modem takes the PDU: of the SMS it prompts for, or a late one.       *)
ModemPdu ==
  /\ ~hup
  /\ \E k \in {1, 2} : /\ k <= Len(tx) /\ tx[k].kind = "pdu"
                       /\ tx' = RemoveAt(tx, k)
                       /\ answer' = [answer EXCEPT !.pdu = (k = 2)]
  /\ UNCHANGED <<channelVars, pendingVars, threadVars, readerVars, rx, hup,
                 history, countVars>>

ModemFinal ==
  /\ Answering
  /\ \E kind \in {"ok", "error"} :
       /\ kind = "ok" => Head(tx).req.api # "sms" \/ answer.pdu
       /\ Emit(<<NewLine(kind, Other, Head(tx).id, 1)>>)
  /\ tx' = Tail(tx)
  /\ answer' = [n |-> 0, pdu |-> FALSE]
  /\ UNCHANGED <<channelVars, pendingVars, threadVars, readerVars, hup,
                 countVars>>

(* "error" is NO CARRIER, a final response that is "sometimes" unsolicited. *)
UrcCount == Cardinality({i \in 1 .. Len(history) :
                           history[i].ans = 0 /\ history[i].kind \in UrcKinds})

ModemUrc ==
  /\ ~hup /\ rpc # "none" /\ UrcCount < MaxUrc
  /\ \/ \E p \in ResponsePrefixes \cup {Digit, Other} :
          "text" \in UrcKinds /\ Emit(<<NewLine("text", p, 0, 1)>>)
     \/ "sms" \in UrcKinds /\ Emit(<<NewLine("sms", Other, 0, 1),
                                     NewLine("smspdu", Other, 0, 2)>>)
     \/ "error" \in UrcKinds /\ Emit(<<NewLine("error", Other, 0, 1)>>)
  /\ UNCHANGED <<channelVars, pendingVars, threadVars, readerVars, tx, answer,
                 hup, countVars>>

ModemHangUp ==
  /\ CanHangUp /\ ~hup /\ rpc # "none"
  /\ hup' = TRUE
  /\ UNCHANGED <<channelVars, pendingVars, threadVars, readerVars, rx, tx,
                 answer, history, countVars>>

-----------------------------------------------------------------------------
(***************************************************************************)
(* The specification.                                                      *)
(***************************************************************************)
Init ==
  /\ s_fd = FALSE /\ s_readerClosed = FALSE
  /\ s_type = "NO_RESULT" /\ s_responsePrefix = NULL
  /\ s_smsPDU = NULL /\ sp_response = NULL
  /\ mutex = NoThread
  /\ pc = [t \in Threads |-> "idle"]
  /\ req = [t \in Threads |->
              [api |-> "command", prefix |-> AnyPrefix, out |-> FALSE]]
  /\ tries = [t \in Threads |-> 0]
  /\ id = [t \in Threads |-> 0]
  /\ err = [t \in Threads |-> "OK"]
  /\ out = [t \in Threads |-> NULL]
  /\ rpc = "none" /\ rline = NULL /\ rsms = NULL /\ buf = << >>
  /\ rx = << >> /\ tx = << >> /\ answer = [n |-> 0, pdu |-> FALSE]
  /\ hup = FALSE /\ unsol = << >> /\ history = << >>
  /\ writes = 0 /\ timeouts = 0

(* What a thread does inside a call, without choosing to or being made to.  *)
InCall(t) ==
  \/ CloseReader(t) \/ Lock(t) \/ CommandPending(t) \/ WriteFails(t)
  \/ writeline(t) \/ Arm(t) \/ Wait(t) \/ NullDereference(t) \/ Relock(t)
  \/ GiveUp(t) \/ TakeResponse(t) \/ HandshakePause(t) \/ Return(t)

Thread(t) ==
  \/ at_open(t) \/ at_close(t) \/ Call(t) \/ InCall(t)
  \/ SpuriousWakeup(t) \/ Timeout(t)

processLine ==
  handleFinalResponse \/ writeCtrlZ \/ addIntermediate \/ handleUnsolicited

readerLoop ==
  TakeBuffered \/ EnterRead \/ ReadData \/ ReadEof \/ processLine
  \/ onReaderClosed

Modem == ModemText \/ ModemPrompt \/ ModemPdu \/ ModemFinal \/ ModemUrc
         \/ ModemHangUp

(* Every call has returned and nothing is left to read or to answer.        *)
Quiescent ==
  /\ \A t \in Threads : pc[t] = "idle"
  /\ rpc \in {"read", "dead"}
  /\ tx = << >> \/ hup
  /\ UNCHANGED vars

Next == (\E t \in Threads : Thread(t)) \/ readerLoop \/ Modem \/ Quiescent

Spec == Init /\ [][Next]_vars

(* Every thread keeps running and is not passed over forever at a mutex     *)
(* that is free again and again; the modem ends each answer.                *)
FairSpec ==
  /\ Spec
  /\ \A t \in Threads : SF_vars(InCall(t))
  /\ SF_vars(readerLoop)
  /\ WF_vars(ModemFinal) /\ WF_vars(ModemPdu)

-----------------------------------------------------------------------------
(***************************************************************************)
(* Properties.                                                             *)
(***************************************************************************)
(* s_commandmutex is held by the one thread that is between its lock and    *)
(* its unlock in at_send_command_full or at_handshake, outside of the       *)
(* condition wait, and by no other.                                         *)
MutexExclusive == \A t \in Threads : pc[t] \in Holding <=> mutex = t

(* An ATResponse has one owner: sp_response, or the caller it was handed to *)
(* by at_send_command_full_nolock; nobody can free it twice.                *)
NoDoubleOwner ==
  \A t \in Threads : out[t] # NULL =>
    /\ sp_response # NULL => sp_response.id # out[t].id
    /\ \A u \in Threads \ {t} : out[u] # NULL => out[u].id # out[t].id

(* With one command thread, the response published in sp_response is the    *)
(* one of the command that waits for it, from the moment it is published    *)
(* until that command returns: the wait loop never follows a null or a      *)
(* foreign pointer.                                                         *)
ResponseOwned ==
  /\ \A t \in Threads : pc[t] \in Published =>
       sp_response # NULL /\ sp_response.id = id[t]
  /\ sp_response # NULL => \E t \in Threads : pc[t] \in Published

(* at_send_command* never reports success without a final response, even    *)
(* when at_close or the end of the input wakes the waiting command.         *)
NoEmptySuccess ==
  \A t \in Threads :
    err[t] = "OK" /\ out[t] # NULL => out[t].finalResponse # NULL

(* The strengthening that makes ResponseOwned inductive: only the command   *)
(* threads are inside a call, and nobody is before at_open.                 *)
CallersKnown ==
  /\ \A t \in Threads : pc[t] \notin {"idle", "closing"} => t \in Commanders
  /\ rpc = "none" => \A t \in Threads : pc[t] = "idle"

(* The strengthening that makes NoDoubleOwner inductive: a response is made *)
(* for the last command written, so no older one has its id.                *)
FreshIds ==
  /\ sp_response # NULL => sp_response.id <= writes
  /\ \A t \in Threads : out[t] # NULL => out[t].id <= writes
  /\ \A t \in Threads : pc[t] = "arm" =>
       /\ sp_response = NULL /\ id[t] = writes
       /\ \A u \in Threads : out[u] # NULL => out[u].id < writes

(* Nothing has come between commands and answers: no command was given up,  *)
(* and no final response was sent unsolicited.                              *)
InStep ==
  /\ timeouts = 0
  /\ \A i \in 1 .. Len(history) :
       history[i].kind = "error" => history[i].ans # 0

(* A line of the modem's answer to command number i.                        *)
Own(l, i) == l.ans = i /\ l.kind = "text"

(* Any other line that the call r, which wrote it, takes for one.           *)
Lookalike(l, i, r) ==
  /\ ~Own(l, i) /\ l.kind \in {"text", "prompt"}
  /\ IF r.api = "numeric" THEN isdigit(l) ELSE strStartsWith(l, r.prefix)

(* The lines got are, in order, what the call r with command number i        *)
(* promises of the first m of the lines h that the modem sent.              *)
Faithful(got, h, i, r, m) ==
  /\ \A j, k \in 1 .. Len(got) : j < k => got[j].n < got[k].n
  /\ \A k \in 1 .. Len(got) : got[k].n \in 1 .. m /\ got[k] = h[got[k].n]
  /\ TypeOf(r.api) = "NO_RESULT" => got = << >>
  /\ TypeOf(r.api) = "MULTILINE" =>
       \A j \in 1 .. m : Own(h[j], i) =>
         \E k \in 1 .. Len(got) : got[k] = h[j]
  /\ TypeOf(r.api) \in {"NUMERIC", "SINGLELINE"} =>
       /\ Len(got) <= 1
       /\ (\A j \in 1 .. Len(h) : ~Lookalike(h[j], i, r)) =>
            /\ \A k \in 1 .. Len(got) : Own(got[k], i)
            /\ \A j \in 1 .. m : Own(h[j], i) =>
                 got # << >> /\ got[1].n <= j

(* A call that succeeds returns the answer to its own command: the final    *)
(* response the modem gave it; for a multi-line command all its lines, in   *)
(* order, whatever was interleaved; for a single-line or numeric command    *)
(* the first of its lines, unless another line looked like it; for one that *)
(* expects no result, none.                                                 *)
AnswerFaithful ==
  InStep =>
  \A t \in Threads : pc[t] = "idle" /\ err[t] = "OK" /\ out[t] # NULL =>
    /\ out[t].finalResponse.ans = id[t]
    /\ out[t].success = (out[t].finalResponse.kind = "ok")
    /\ Faithful(out[t].p_intermediates, history, id[t], req[t], Len(history))

(* An unsolicited line no pending command can claim.                        *)
Unclaimed(l) ==
  /\ l.ans = 0 /\ l.kind # "error"
  /\ \A r \in Requests : l.kind = "text" =>
       CASE TypeOf(r.api) = "NO_RESULT" -> TRUE
         [] TypeOf(r.api) = "NUMERIC" -> ~isdigit(l)
         [] OTHER -> ~strStartsWith(l, r.prefix)

(* How many of the lines the modem sent the reader has taken.               *)
Consumed == Len(history) - Len(buf) - Len(rx)

(* Every unsolicited line the reader has consumed went to the handler       *)
(* exactly once and in the order it was sent: the two-line SMS              *)
(* notifications that bypass the mutex, and lines read from s_ATBuffer,     *)
(* included; and nothing goes to the handler that was not consumed.         *)
UrcDelivered ==
  rpc \in {"readline", "read"} /\ rsms = NULL =>
    /\ \A j, k \in 1 .. Len(unsol) : j < k => unsol[j].n < unsol[k].n
    /\ \A k \in 1 .. Len(unsol) : \E i \in 1 .. Consumed :
         unsol[k] = history[i]
    /\ \A i \in 1 .. Consumed : Unclaimed(history[i]) =>
         \E k \in 1 .. Len(unsol) : unsol[k] = history[i]

(* writeCtrlZ sends the PDU of an SMS at most once, and only in reply to    *)
(* the prompt of the same command.                                          *)
PduOnce ==
  [][ (Len(tx') > Len(tx) /\ tx'[Len(tx')].kind = "pdu" /\ InStep)
      => LET p == tx'[Len(tx')]
         IN /\ p.id = sp_response.id /\ p.id = rline.ans
            /\ ~(Answering /\ Head(tx).id = p.id /\ answer.pdu)
            /\ \A i \in 1 .. Len(tx) : tx[i].kind = "pdu" => tx[i].id # p.id
    ]_vars

(* Every call returns: the modem's final response, the handshake's timeout  *)
(* or the closing of the channel ends the wait of at_send_command_full.     *)
CallsReturn == \A t \in Threads : pc[t] = "lock" ~> pc[t] = "idle"

(* The comment in at_handshake: after it, an OK that matches no command is   *)
(* drained as unsolicited, so none is left to answer a later command.       *)
UnmatchedOkDrained ==
  \A t \in Threads :
    pc[t] = "idle" /\ out[t] # NULL /\ out[t].finalResponse # NULL
      => out[t].finalResponse.ans = id[t]

=============================================================================
