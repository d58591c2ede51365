---------------------------- MODULE AnswerProofs ----------------------------
(***************************************************************************)
(* Theorems about commands and answers on the AT channel: with one command *)
(* thread, whatever is interleaved, closed or hung up, a call that         *)
(* succeeds returns the answer to its own command, and an SMS is sent      *)
(* once, on the prompt of its own command.                                 *)
(***************************************************************************)
EXTENDS AtChannelProofs

USE DEF vars, channelVars, pendingVars, threadVars, readerVars, modemVars,
        countVars

-----------------------------------------------------------------------------
(***************************************************************************)
(* The inductive invariant.                                                *)
(***************************************************************************)
(* There is one command thread.                                             *)
Sole == \A a, b \in Commanders : a = b

(* Where a command was written and its response is not taken yet.           *)
Asking == {"arm"} \cup Published

(* The last command written is the sole commander's; who has a response is  *)
(* a commander; a wait that timed out was counted; before at_open nothing   *)
(* was closed.                                                              *)
CallersKept ==
  /\ \A t \in Commanders : id[t] = writes
  /\ \A t \in Threads : pc[t] \in Asking => id[t] > 0
  /\ \A t \in Threads : out[t] # NULL => t \in Commanders
  /\ \A t \in Threads : pc[t] = "timedout" => timeouts > 0
  /\ rpc = "none" => ~s_readerClosed

(* What is written to the modem is in the order of the numbers of commands. *)
WrittenInOrder ==
  /\ \A k \in 1 .. Len(tx) : tx[k].id <= writes
  /\ \A j, k \in 1 .. Len(tx) : j < k =>
       /\ tx[j].id <= tx[k].id
       /\ tx[k].kind = "cmd" => tx[j].id < tx[k].id

(* The modem's answer to a command ends with its final response.            *)
AnswersEnd ==
  /\ \A i \in 1 .. Len(history) : history[i].ans <= writes
  /\ \A i \in 1 .. Len(history) : history[i].kind \in {"sms", "smspdu"} =>
       history[i].ans = 0
  /\ \A i, j \in 1 .. Len(history) :
       IsFinal(history[i]) /\ history[i].ans > 0
       /\ history[j].ans = history[i].ans => j <= i
  /\ \A i \in 1 .. Len(history), k \in 1 .. Len(tx) :
       IsFinal(history[i]) /\ history[i].ans > 0 /\ tx[k].kind = "cmd" =>
         tx[k].id # history[i].ans

(* What the modem answers, and what processLine compares with, is the       *)
(* request of the call that waits.                                          *)
RequestKnown ==
  \A t \in Threads :
    /\ pc[t] \in Asking =>
         /\ \A k \in 1 .. Len(tx) : tx[k].kind = "cmd" /\ tx[k].id = id[t] =>
              tx[k].req = req[t]
         /\ \A i \in 1 .. Len(history) : Own(history[i], id[t]) =>
              history[i].prefix = AnswerPrefix(req[t])
    /\ pc[t] \in Published =>
         s_type = TypeOf(req[t].api) /\ s_responsePrefix = PrefixOf(req[t])

(* The last command waits for its final response.                           *)
Open ==
  \E t \in Threads :
    \/ pc[t] = "arm"
    \/ pc[t] \in Published /\ sp_response.finalResponse = NULL

(* May another command be written, or is one under way?                     *)
Alive == ~s_readerClosed \/ \E t \in Threads : pc[t] \in Asking

(* Commands and answers are in step: what the modem has still to answer,    *)
(* and what the reader has still to process of its answers, belongs to the  *)
(* last command, which waits for it.  When the channel closes a command may *)
(* be left unanswered, but no further one is written.                       *)
Together ==
  InStep /\ Alive =>
    /\ \A k \in 1 .. Len(tx) : tx[k].kind = "cmd" =>
         Open /\ tx[k].id = writes
    /\ \A i \in 1 .. Len(history) : i > Done /\ history[i].ans # 0 =>
         Open /\ history[i].ans = writes

(* In the modem's input q, with its progress a, there is no PDU of command  *)
(* i, and the modem did not take it either.                                 *)
Unsent(i, q, a) ==
  /\ \A k \in 1 .. Len(q) : q[k].kind = "pdu" => q[k].id # i
  /\ q # << >> /\ q[1].kind = "cmd" /\ q[1].id = i => ~a.pdu

(* The PDU that waits for a prompt is that of the last command and was not  *)
(* sent.                                                                    *)
PduKnown ==
  /\ s_smsPDU # NULL =>
       /\ sp_response # NULL /\ s_smsPDU = sp_response.id
       /\ Unsent(s_smsPDU, tx, answer)
  /\ \A t \in Threads : pc[t] = "arm" => Unsent(id[t], tx, answer)
  /\ tx = << >> => ~answer.pdu

(* The final response of r is one of the first m of the lines h.            *)
FinalAmong(r, h, m) ==
  /\ \E i \in 1 .. m : r.finalResponse = h[i] /\ IsFinal(h[i])
  /\ r.success = (r.finalResponse.kind = "ok")

(* What the waiting call has got so far, newest line first.                 *)
Collected ==
  \A t \in Threads :
    /\ pc[t] = "arm" => \A i \in 1 .. Done : history[i].ans # id[t]
    /\ pc[t] \in Published =>
         /\ Faithful(Reverse(sp_response.p_intermediates), history, id[t],
                     req[t], Done)
         /\ sp_response.finalResponse # NULL =>
              /\ FinalAmong(sp_response, history, Done)
              /\ InStep => sp_response.finalResponse.ans = id[t]

(* What a call has handed out.                                              *)
HandedOut ==
  \A t \in Threads : out[t] # NULL /\ err[t] = "OK" =>
    /\ pc[t] \in {"drain", "unlock", "idle", "closing"}
    /\ FinalAmong(out[t], history, Len(history))
    /\ InStep => /\ out[t].finalResponse.ans = id[t]
                 /\ Faithful(out[t].p_intermediates, history, id[t], req[t],
                             Len(history))

Answers == CallersKept /\ WrittenInOrder /\ AnswersEnd /\ RequestKnown
           /\ Together /\ PduKnown /\ Collected /\ HandedOut

-----------------------------------------------------------------------------
(***************************************************************************)
(* What a call collects.                                                   *)
(***************************************************************************)
(* A sequence with an element is not empty.                                 *)
LEMMA NotEmpty ==
  ASSUME NEW s \in Seq(Line), Len(s) = 1
  PROVE  s # << >>
<1> SUFFICES ASSUME s = << >> PROVE FALSE
  OBVIOUS
<1>1. Len(<< >>) = 0
  OBVIOUS
<1>2. Len(s) = Len(<< >>)
  OBVIOUS
<1> QED BY <1>1, <1>2

(* A line put in front of a list comes last when the list is reversed.      *)
LEMMA ReverseCons ==
  ASSUME NEW p \in Seq(Line), NEW l \in Line
  PROVE  /\ Reverse(Cons(l, p)) = Append(Reverse(p), l)
         /\ Reverse(p) \in Seq(Line) /\ Len(Reverse(p)) = Len(p)
<1>0. Len(p) \in Nat
  OBVIOUS
<1>1. /\ Reverse(p) \in Seq(Line) /\ Len(Reverse(p)) = Len(p)
      /\ \A k \in 1 .. Len(p) : Reverse(p)[k] = p[(Len(p) - k) + 1]
  BY DEF Reverse
<1>2. /\ Cons(l, p) \in Seq(Line) /\ Len(Cons(l, p)) = Len(p) + 1
      /\ Cons(l, p)[1] = l
      /\ \A k \in 1 .. Len(p) : Cons(l, p)[k + 1] = p[k]
  BY DEF Cons
<1> DEFINE c == Cons(l, p)
           a == Append(Reverse(p), l)
<1>3. /\ Reverse(c) \in Seq(Line) /\ Len(Reverse(c)) = Len(p) + 1
      /\ \A k \in 1 .. Len(p) + 1 : Reverse(c)[k] = c[(Len(p) + 1 - k) + 1]
  BY <1>2 DEF Reverse
<1>4. /\ a \in Seq(Line) /\ Len(a) = Len(p) + 1 /\ a[Len(p) + 1] = l
      /\ \A k \in 1 .. Len(p) : a[k] = Reverse(p)[k]
  BY <1>1
<1>5. ASSUME NEW k \in 1 .. Len(p) + 1 PROVE Reverse(c)[k] = a[k]
  <2>1. CASE k = Len(p) + 1
    BY <1>2, <1>3, <1>4, <2>1
  <2>2. CASE k \in 1 .. Len(p)
    <3>1. (Len(p) - k) + 1 \in 1 .. Len(p)
          /\ (Len(p) + 1 - k) + 1 = ((Len(p) - k) + 1) + 1
      BY <2>2
    <3>2. c[((Len(p) - k) + 1) + 1] = p[(Len(p) - k) + 1]
      BY <1>2, <3>1
    <3> QED BY <1>1, <1>3, <1>4, <2>2, <3>1, <3>2
  <2>3. k = Len(p) + 1 \/ k \in 1 .. Len(p)
    BY <1>0
  <2> QED BY <2>1, <2>2, <2>3
<1> HIDE DEF c, a
<1>6. Reverse(c) = a
  BY <1>3, <1>4, <1>5
<1> QED BY <1>1, <1>6 DEF c, a

(* Nothing is promised before the first line of the answer.                 *)
LEMMA FaithfulStart ==
  ASSUME NEW h \in Seq(Line), NEW i, NEW r, NEW m \in Nat,
         \A j \in 1 .. m : h[j].ans # i
  PROVE  Faithful(<< >>, h, i, r, m)
BY DEF Faithful, Own

(* Lines of others change nothing, and neither do those yet to come.        *)
LEMMA FaithfulSkip ==
  ASSUME NEW g, NEW h \in Seq(Line), NEW f \in Seq(Line), NEW i, NEW r,
         NEW m \in Nat, NEW n \in Nat, Faithful(g, h, i, r, m),
         m <= n, m <= Len(h), Len(h) <= Len(f),
         \A j \in 1 .. Len(h) : f[j] = h[j],
         \A j \in 1 .. n : j > m => ~Own(f[j], i)
  PROVE  Faithful(g, f, i, r, n)
<1>1. \A j \in 1 .. m : j \in 1 .. n /\ f[j] = h[j]
  OBVIOUS
<1>2. \A j \in 1 .. n : Own(f[j], i) => j \in 1 .. m
  OBVIOUS
<1>3. (\A j \in 1 .. Len(f) : ~Lookalike(f[j], i, r)) =>
      \A j \in 1 .. Len(h) : ~Lookalike(h[j], i, r)
  OBVIOUS
<1>4. \A k \in 1 .. Len(g) : g[k].n \in 1 .. n /\ g[k] = f[g[k].n]
  BY <1>1 DEF Faithful
<1>5. ASSUME TypeOf(r.api) = "MULTILINE", NEW j \in 1 .. n, Own(f[j], i)
      PROVE  \E k \in 1 .. Len(g) : g[k] = f[j]
  <2>1. \A x \in 1 .. m : Own(h[x], i) => \E k \in 1 .. Len(g) : g[k] = h[x]
    BY <1>5 DEF Faithful
  <2>2. j \in 1 .. m /\ h[j] = f[j]
    BY <1>1, <1>2, <1>5
  <2> QED BY <1>5, <2>1, <2>2
<1>6. ASSUME TypeOf(r.api) \in {"NUMERIC", "SINGLELINE"},
             \A j \in 1 .. Len(f) : ~Lookalike(f[j], i, r)
      PROVE  /\ \A k \in 1 .. Len(g) : Own(g[k], i)
             /\ \A j \in 1 .. n : Own(f[j], i) => g # << >> /\ g[1].n <= j
  BY <1>1, <1>2, <1>3, <1>6 DEF Faithful
<1> QED BY <1>4, <1>5, <1>6 DEF Faithful

(* The switch on s_type, for the call r that has g.                          *)
Keeps(r, g, l) ==
  \/ TypeOf(r.api) = "NUMERIC" /\ g = << >> /\ isdigit(l)
  \/ TypeOf(r.api) = "SINGLELINE" /\ g = << >> /\ strStartsWith(l, PrefixOf(r))
  \/ TypeOf(r.api) = "MULTILINE" /\ strStartsWith(l, PrefixOf(r))

(* The modem's answer looks as the call expects.                            *)
LEMMA AnswerMatches ==
  ASSUME NEW r \in RequestType, NEW l, l.prefix = AnswerPrefix(r)
  PROVE  /\ TypeOf(r.api) = "NUMERIC" => isdigit(l)
         /\ TypeOf(r.api) \in {"SINGLELINE", "MULTILINE"} =>
              strStartsWith(l, PrefixOf(r))
<1>1. r.api \in Apis
  BY DEF RequestType
<1>2. CASE TypeOf(r.api) = "NUMERIC"
  BY <1>2 DEF AnswerPrefix, isdigit
<1>3. CASE TypeOf(r.api) \in {"SINGLELINE", "MULTILINE"}
  <2>1. r.api \in {"singleline", "sms", "multiline"}
    BY <1>1, <1>3 DEF Apis, TypeOf
  <2>2. PrefixOf(r) = r.prefix
    BY <2>1 DEF PrefixOf
  <2> QED BY <1>3, <2>2 DEF AnswerPrefix, strStartsWith
<1> QED BY <1>2, <1>3

(* A line that is kept goes behind those before.                            *)
LEMMA FaithfulTake ==
  ASSUME NEW g \in Seq(Line), NEW h \in Seq(Line), NEW i, NEW r \in RequestType,
         NEW m \in Nat, Faithful(g, h, i, r, m), m + 1 <= Len(h),
         h[m + 1].n = m + 1, h[m + 1].kind \in {"text", "prompt"},
         Keeps(r, g, h[m + 1])
  PROVE  Faithful(Append(g, h[m + 1]), h, i, r, m + 1)
<1> DEFINE l == h[m + 1]
           a == Append(g, l)
<1>1. l \in Line /\ Len(g) \in Nat
  OBVIOUS
<1>2. /\ a \in Seq(Line) /\ Len(a) = Len(g) + 1 /\ a[Len(g) + 1] = l
      /\ \A k \in 1 .. Len(g) : a[k] = g[k]
  BY <1>1
<1> HIDE DEF a
<1>3. \A k \in 1 .. Len(a) : k \in 1 .. Len(g) \/ k = Len(g) + 1
  BY <1>1, <1>2
<1>4. \A k \in 1 .. Len(g) : g[k].n \in 1 .. m /\ g[k] = h[g[k].n]
  BY DEF Faithful
<1>5. ASSUME NEW j \in 1 .. Len(a), NEW k \in 1 .. Len(a), j < k
      PROVE  a[j].n < a[k].n
  <2>1. CASE k \in 1 .. Len(g)
    <3>1. j \in 1 .. Len(g)
      BY <1>1, <1>5, <2>1
    <3>2. g[j].n < g[k].n
      BY <1>5, <2>1, <3>1 DEF Faithful
    <3> QED BY <1>2, <2>1, <3>1, <3>2
  <2>2. CASE k = Len(g) + 1
    <3>1. j \in 1 .. Len(g)
      BY <1>1, <1>2, <1>5, <2>2
    <3>2. a[j].n \in 1 .. m /\ a[k].n = m + 1
      BY <1>2, <1>4, <2>2, <3>1
    <3> QED BY <3>2
  <2> QED BY <1>3, <2>1, <2>2
<1>6. \A k \in 1 .. Len(a) : a[k].n \in 1 .. (m + 1) /\ a[k] = h[a[k].n]
  BY <1>2, <1>3, <1>4
<1>7. TypeOf(r.api) # "NO_RESULT"
  BY DEF Keeps
<1>8. ASSUME TypeOf(r.api) = "MULTILINE", NEW j \in 1 .. (m + 1), Own(h[j], i)
      PROVE  \E k \in 1 .. Len(a) : a[k] = h[j]
  <2>1. CASE j \in 1 .. m
    <3>1. PICK k \in 1 .. Len(g) : g[k] = h[j]
      BY <1>8, <2>1 DEF Faithful
    <3>2. k \in 1 .. Len(a) /\ a[k] = g[k]
      BY <1>1, <1>2
    <3> QED BY <3>1, <3>2
  <2>2. CASE j = m + 1
    <3>1. Len(g) + 1 \in 1 .. Len(a)
      BY <1>1, <1>2
    <3> QED BY <1>2, <2>2, <3>1
  <2> QED BY <2>1, <2>2
<1>9. ASSUME TypeOf(r.api) \in {"NUMERIC", "SINGLELINE"}
      PROVE  /\ Len(a) <= 1
             /\ (\A j \in 1 .. Len(h) : ~Lookalike(h[j], i, r)) =>
                  /\ \A k \in 1 .. Len(a) : Own(a[k], i)
                  /\ \A j \in 1 .. (m + 1) : Own(h[j], i) =>
                       a # << >> /\ a[1].n <= j
  <2>1. g = << >> /\ (isdigit(l) \/ strStartsWith(l, PrefixOf(r)))
    BY <1>9 DEF Keeps
  <2>10. Len(g) = 0
    BY <2>1
  <2>11. Len(a) = 1 /\ a[1] = l
    BY <1>2, <2>10
  <2>2. Len(g) = 0 /\ Len(a) = 1 /\ a[1] = l /\ a # << >>
    BY <1>2, <2>10, <2>11, NotEmpty
  <2>3. ASSUME \A j \in 1 .. Len(h) : ~Lookalike(h[j], i, r)
        PROVE  Own(l, i)
    <3>1. m + 1 \in 1 .. Len(h)
      OBVIOUS
    <3>2. ~Lookalike(l, i, r)
      BY <2>3, <3>1
    <3>3. IF r.api = "numeric" THEN isdigit(l) ELSE strStartsWith(l, r.prefix)
      <4>1. r.api \in Apis
        BY DEF RequestType
      <4>2. TypeOf(r.api) = "NUMERIC" => r.api = "numeric"
        BY <4>1 DEF TypeOf, Apis
      <4>3. TypeOf(r.api) = "SINGLELINE" => r.api \in {"singleline", "sms"}
        BY <4>1 DEF TypeOf, Apis
      <4>4. TypeOf(r.api) = "SINGLELINE" =>
              r.api # "numeric" /\ PrefixOf(r) = r.prefix
        BY <4>3 DEF PrefixOf
      <4> QED BY <1>9, <4>2, <4>4 DEF Keeps
    <3> QED BY <3>2, <3>3 DEF Lookalike
  <2>4. ASSUME \A j \in 1 .. Len(h) : ~Lookalike(h[j], i, r),
               NEW j \in 1 .. (m + 1), Own(h[j], i)
        PROVE  a[1].n <= j
    <3>1. j \notin 1 .. m
      BY <1>9, <2>1, <2>4 DEF Faithful
    <3>2. j = m + 1
      BY <3>1
    <3> QED BY <2>2, <3>2
  <2> QED BY <2>2, <2>3, <2>4
<1> QED BY <1>5, <1>6, <1>7, <1>8, <1>9 DEF Faithful, a

(* A line that is not kept was none of the answer, or was not promised.     *)
LEMMA FaithfulDrop ==
  ASSUME NEW g \in Seq(Line), NEW h \in Seq(Line), NEW i, NEW r \in RequestType,
         NEW m \in Nat, Faithful(g, h, i, r, m), m + 1 <= Len(h),
         Own(h[m + 1], i) => h[m + 1].prefix = AnswerPrefix(r),
         ~Keeps(r, g, h[m + 1])
  PROVE  Faithful(g, h, i, r, m + 1)
<1>1. CASE ~Own(h[m + 1], i)
  BY <1>1, FaithfulSkip
<1>2. CASE Own(h[m + 1], i)
  <2>0. /\ \A k \in 1 .. Len(g) :
             g[k].n \in 1 .. (m + 1) /\ g[k] = h[g[k].n]
        /\ \A k \in 1 .. Len(g) : g[k].n \in 1 .. m
    BY DEF Faithful
  <2>1. TypeOf(r.api) # "MULTILINE"
    BY <1>2, AnswerMatches DEF Keeps
  <2>2. TypeOf(r.api) \in {"NUMERIC", "SINGLELINE"} => g # << >>
    BY <1>2, AnswerMatches DEF Keeps
  <2>3. g # << >> => g[1].n \in 1 .. m
    BY <2>0
  <2>4. ASSUME TypeOf(r.api) \in {"NUMERIC", "SINGLELINE"},
               \A j \in 1 .. Len(h) : ~Lookalike(h[j], i, r),
               NEW j \in 1 .. (m + 1), Own(h[j], i)
        PROVE  g # << >> /\ g[1].n <= j
    <3>1. CASE j \in 1 .. m
      BY <2>4, <3>1 DEF Faithful
    <3>2. CASE j = m + 1
      BY <2>2, <2>3, <2>4, <3>2
    <3> QED BY <3>1, <3>2
  <2> QED BY <2>0, <2>1, <2>4 DEF Faithful
<1> QED BY <1>1, <1>2

-----------------------------------------------------------------------------
(***************************************************************************)
(* Steps that neither write nor answer nor take anything.                  *)
(***************************************************************************)
(* What is known already.                                                   *)
Known == TypeOK /\ MutexExclusive /\ CallersKnown /\ ResponseOwned /\ Flow

LEMMA DoneType ==
  Known => /\ Done \in Nat /\ Done <= Len(history) /\ Len(history) \in Nat
           /\ Consumed \in Nat /\ Consumed <= Len(history)
<1> SUFFICES ASSUME Known
             PROVE  /\ Done \in Nat /\ Done <= Len(history)
                    /\ Len(history) \in Nat
                    /\ Consumed \in Nat /\ Consumed <= Len(history)
  OBVIOUS
<1>1. /\ history \in Seq(Line) /\ rx \in Seq(Line) /\ buf \in Seq(Line)
      /\ Len(history) \in Nat /\ Len(rx) \in Nat /\ Len(buf) \in Nat
  BY DEF Known, TypeOK, ModemType, ReaderType
<1>2. Consumed \in Nat /\ Consumed <= Len(history)
  BY <1>1 DEF Known, Flow, InputKnown, Consumed
<1>3. rpc = "process" \/ rsms # NULL => Consumed > 0
  BY DEF Known, Flow, ReaderAt
<1> QED BY <1>1, <1>2, <1>3 DEF Done

LEMMA DoneTypeNext ==
  Known' => Done' \in Nat /\ Done' <= Len(history')
<1> SUFFICES ASSUME Known' PROVE Done' \in Nat /\ Done' <= Len(history')
  OBVIOUS
<1>1. /\ history' \in Seq(Line) /\ rx' \in Seq(Line) /\ buf' \in Seq(Line)
      /\ Len(history') \in Nat /\ Len(rx') \in Nat /\ Len(buf') \in Nat
  BY DEF Known, TypeOK, ModemType, ReaderType
<1>2. Consumed' \in Nat /\ Consumed' <= Len(history')
  BY <1>1 DEF Known, Flow, InputKnown, Consumed
<1>3. rpc' = "process" \/ rsms' # NULL => Consumed' > 0
  BY DEF Known, Flow, ReaderAt
<1>4. CASE rpc' = "process" \/ rsms' # NULL
  <2>1. Done' = Consumed' - 1
    BY <1>4 DEF Done
  <2>2. PICK c \in Nat, n \in Nat : c = Consumed' /\ n = Len(history')
    BY <1>1, <1>2
  <2>3. c > 0 /\ c <= n
    BY <1>2, <1>3, <1>4, <2>2
  <2>4. c - 1 \in Nat /\ c - 1 <= n
    BY <2>3
  <2> QED BY <2>1, <2>2, <2>4
<1>5. CASE ~(rpc' = "process" \/ rsms' # NULL)
  <2>1. Done' = Consumed'
    BY <1>5 DEF Done
  <2> QED BY <1>2, <2>1
<1> QED BY <1>4, <1>5

(* A step that leaves alone what was written and answered, and processes    *)
(* no line of the answer to a command that waits.                           *)
Quiet ==
  /\ UNCHANGED <<tx, answer, history, id, writes>>
  /\ Done' >= Done
  /\ \A i \in 1 .. Done' : i > Done =>
       history[i].ans = 0 \/ \A t \in Threads : pc[t] \notin Asking
  /\ \A t \in Threads :
       /\ pc'[t] = "arm" => pc[t] = "arm"
       /\ pc'[t] \in Published => pc[t] \in Published
       /\ pc'[t] \in Asking => req'[t] = req[t]
       /\ pc'[t] = "timedout" => timeouts' > 0
       /\ out'[t] # NULL => out[t] # NULL
       /\ out'[t] # NULL /\ err'[t] = "OK" =>
            /\ out'[t] = out[t] /\ err[t] = "OK" /\ req'[t] = req[t]
            /\ pc'[t] \in {"drain", "unlock", "idle", "closing"}
  /\ sp_response' # NULL => UNCHANGED <<sp_response, s_type, s_responsePrefix>>
  /\ s_smsPDU' # NULL => UNCHANGED <<s_smsPDU, sp_response>>
  /\ ~s_readerClosed' => ~s_readerClosed
  /\ timeouts' >= timeouts
  /\ rpc' = "none" => UNCHANGED <<rpc, s_readerClosed>>
  /\ InStep' /\ Open => Open'

(* No step puts commands and answers in step again.                         *)
LEMMA InStepBefore ==
  ASSUME TypeOK, timeouts' \in Nat, timeouts' >= timeouts, InStep',
         Len(history') >= Len(history), Len(history') \in Nat,
         \A i \in 1 .. Len(history) : history'[i] = history[i]
  PROVE  InStep
<1>1. timeouts \in Nat /\ Len(history) \in Nat
  BY DEF TypeOK, ModemType
<1>2. timeouts = 0
  BY <1>1 DEF InStep
<1>3. \A i \in 1 .. Len(history) : i \in 1 .. Len(history')
  BY <1>1
<1> QED BY <1>2, <1>3 DEF InStep

LEMMA QuietAnswers ==
  ASSUME Known, Known', Answers, Quiet
  PROVE  Answers'
<1> USE DEF Answers
<1>0. /\ history \in Seq(Line) /\ Done \in Nat /\ Done' \in Nat
      /\ Len(history) \in Nat /\ Done <= Len(history) /\ Done' <= Len(history)
  <2>1. Done' \in Nat /\ Done' <= Len(history') /\ history' = history
    BY DoneTypeNext DEF Quiet
  <2> QED BY <2>1, DoneType DEF Known, TypeOK, ModemType
<1>00. /\ timeouts \in Nat /\ timeouts' \in Nat /\ TypeOK
       /\ id \in [Threads -> Nat]
  BY DEF Known, TypeOK, ModemType, ThreadType
<1>01. UNCHANGED <<tx, answer, history, id, writes>>
  BY DEF Quiet
<1>02. \A i \in 1 .. Done : i \in 1 .. Done'
  BY <1>0 DEF Quiet
<1>1. InStep' => InStep
  BY <1>0, <1>00, <1>01, InStepBefore DEF Quiet
<1>2. \A t \in Threads : pc'[t] \in Asking => pc[t] \in Asking
  BY DEF Quiet, Asking
<1>3. CallersKept'
  BY <1>01, <1>2 DEF CallersKept, Quiet
<1>4. WrittenInOrder' /\ AnswersEnd'
  BY <1>01 DEF WrittenInOrder, AnswersEnd, IsFinal, isFinalResponseSuccess,
       isFinalResponseError
<1>5. RequestKnown'
  <2> SUFFICES ASSUME NEW t \in Threads
               PROVE  /\ pc'[t] \in Asking =>
                         /\ \A k \in 1 .. Len(tx) :
                              tx[k].kind = "cmd" /\ tx[k].id = id[t] =>
                                tx[k].req = req'[t]
                         /\ \A i \in 1 .. Len(history) :
                              Own(history[i], id[t]) =>
                                history[i].prefix = AnswerPrefix(req'[t])
                      /\ pc'[t] \in Published =>
                         /\ s_type' = TypeOf(req'[t].api)
                         /\ s_responsePrefix' = PrefixOf(req'[t])
    BY <1>01 DEF RequestKnown
  <2>1. CASE pc'[t] \in Asking
    <3>1. pc[t] \in Asking /\ req'[t] = req[t]
      BY <1>2, <2>1 DEF Quiet
    <3>2. pc'[t] \in Published =>
            /\ pc[t] \in Published
            /\ s_type' = s_type /\ s_responsePrefix' = s_responsePrefix
      BY DEF Quiet, Known, ResponseOwned
    <3> QED BY <3>1, <3>2 DEF RequestKnown
  <2>2. CASE pc'[t] \notin Asking
    BY <2>2 DEF Asking
  <2> QED BY <2>1, <2>2
<1>6. Together'
  <2> SUFFICES ASSUME InStep', Alive' PROVE Together'
    BY DEF Together
  <2>1. InStep /\ Alive /\ (Open => Open')
    BY <1>1, <1>2 DEF Alive, Quiet
  <2>2. \A i \in 1 .. Len(history) : i > Done' => i > Done
    BY <1>0 DEF Quiet
  <2> QED BY <1>01, <2>1, <2>2 DEF Together
<1>7. PduKnown'
  BY <1>01 DEF PduKnown, Quiet
<1>8. Collected'
  <2> SUFFICES ASSUME NEW t \in Threads
               PROVE  /\ pc'[t] = "arm" =>
                         \A i \in 1 .. Done' : history[i].ans # id[t]
                      /\ pc'[t] \in Published =>
                         /\ Faithful(Reverse(sp_response'.p_intermediates),
                                     history, id[t], req'[t], Done')
                         /\ sp_response'.finalResponse # NULL =>
                            /\ FinalAmong(sp_response', history, Done')
                            /\ InStep' => sp_response'.finalResponse.ans = id[t]
    BY <1>01 DEF Collected
  <2>1. ASSUME pc'[t] \in Asking, NEW i \in 1 .. Done', i > Done
        PROVE  history[i].ans # id[t]
    <3>1. pc[t] \in Asking /\ id[t] > 0 /\ history[i].ans = 0
      BY <1>2, <2>1 DEF Quiet, CallersKept
    <3> QED BY <1>00, <3>1
  <2>2. CASE pc'[t] = "arm"
    <3>1. pc[t] = "arm" /\ pc'[t] \notin Published
      BY <2>2 DEF Quiet, Published
    <3>2. \A i \in 1 .. Done' : i > Done \/ i \in 1 .. Done
      BY <1>0
    <3> QED BY <2>1, <2>2, <3>1, <3>2 DEF Collected, Asking
  <2>3. CASE pc'[t] \in Published
    <3>1. /\ pc[t] \in Published /\ sp_response' = sp_response
          /\ req'[t] = req[t] /\ pc'[t] \in Asking /\ pc'[t] # "arm"
      BY <2>3 DEF Quiet, Known, ResponseOwned, Asking, Published
    <3>2. Faithful(Reverse(sp_response.p_intermediates), history, id[t],
                   req[t], Done)
      BY <3>1 DEF Collected
    <3>3. \A i \in 1 .. Done' : i > Done => ~Own(history[i], id[t])
      BY <2>1, <3>1 DEF Own
    <3>4. Done <= Done'
      BY <1>0 DEF Quiet
    <3>5. Faithful(Reverse(sp_response.p_intermediates), history, id[t],
                   req[t], Done')
      BY <1>0, <3>2, <3>3, <3>4, FaithfulSkip
    <3>6. FinalAmong(sp_response, history, Done) =>
            FinalAmong(sp_response, history, Done')
      BY <1>02 DEF FinalAmong
    <3> QED BY <1>1, <3>1, <3>5, <3>6 DEF Collected
  <2> QED BY <2>2, <2>3
<1>9. HandedOut'
  BY <1>01, <1>1 DEF HandedOut, Quiet
<1> QED BY <1>3, <1>4, <1>5, <1>6, <1>7, <1>8, <1>9

(* One thread at a time is inside a call.                                   *)
LEMMA OneInside ==
  ASSUME Known, Sole, NEW t \in Threads, pc[t] \notin {"idle", "closing"}
  PROVE  /\ t \in Commanders /\ rpc # "none"
         /\ \A u \in Threads \ {t} : pc[u] \in {"idle", "closing"}
BY DEF Known, Sole, CallersKnown

(* What is the same after every step of a thread that is listed here.       *)
LEMMA QuietFrame ==
  ASSUME Known, UNCHANGED <<tx, answer, history, id, writes, rx, buf, rsms>>,
         rpc' = rpc \/ (rpc = "none" /\ rpc' = "readline")
  PROVE  /\ UNCHANGED <<tx, answer, history, id, writes>>
         /\ Done' >= Done
         /\ \A i \in 1 .. Done' : i > Done =>
              history[i].ans = 0 \/ \A t \in Threads : pc[t] \notin Asking
<1>1. Done' = Done
  BY DEF Done, Consumed
<1>2. Done \in Nat
  BY DoneType
<1> QED BY <1>1, <1>2

(* The types of what Quiet speaks of.                                       *)
LEMMA QuietTypes ==
  ASSUME Known
  PROVE  /\ pc \in [Threads -> PcValues] /\ req \in [Threads -> RequestType]
         /\ err \in [Threads -> Errors] /\ timeouts \in Nat
         /\ out \in [Threads -> ATResponse \cup {NULL}]
         /\ id \in [Threads -> Nat]
BY DEF Known, TypeOK, ThreadType, ModemType

(* Opening and closing the channel, and the beginning of a call.            *)
LEMMA OutsideQuiet ==
  ASSUME Known, Sole, Answers, NEW t \in Threads,
         at_open(t) \/ at_close(t) \/ Call(t)
  PROVE  Quiet
<1> USE DEF Answers
<1>0. pc[t] = "idle"
  BY DEF at_open, at_close, Call
<1>1. CASE at_open(t)
  <2>1. /\ UNCHANGED <<tx, answer, history, id, writes, rx, buf, rsms, pc, req,
                       err, out, timeouts, s_type>>
        /\ rpc = "none" /\ rpc' = "readline" /\ sp_response' = NULL
        /\ s_smsPDU' = NULL
    BY <1>1 DEF at_open
  <2>2. \A u \in Threads : pc[u] = "idle"
    BY <2>1 DEF Known, CallersKnown
  <2>3. ~Open /\ ~s_readerClosed
    BY <2>1, <2>2 DEF Open, Published, CallersKept
  <2>4. \A u \in Threads : /\ pc'[u] \notin Asking /\ pc'[u] # "arm"
                           /\ pc'[u] \notin Published
    BY <2>1, <2>2 DEF Asking, Published
  <2>5. timeouts' >= timeouts
    BY <2>1, QuietTypes
  <2> QED BY <2>1, <2>2, <2>3, <2>4, <2>5, QuietFrame DEF Quiet
<1>2. CASE at_close(t) \/ Call(t)
  <2>1. /\ UNCHANGED <<tx, answer, history, id, writes, rx, buf, rsms, timeouts,
                       pendingVars, s_readerClosed, rpc>>
        /\ \A u \in Threads \ {t} : /\ pc'[u] = pc[u] /\ req'[u] = req[u]
                                    /\ err'[u] = err[u] /\ out'[u] = out[u]
    BY <1>2, QuietTypes DEF at_close, Call, Goto
  <2>2. \/ /\ pc'[t] = "closing"
           /\ req'[t] = req[t] /\ err'[t] = err[t] /\ out'[t] = out[t]
        \/ pc'[t] = "lock" /\ out'[t] = NULL
    BY <1>2, QuietTypes DEF at_close, Call, Goto
  <2>3. Open => Open'
    BY <1>0, <2>1 DEF Open, Published
  <2>4. timeouts' >= timeouts
    BY <2>1, QuietTypes
  <2>5. pc'[t] \notin Asking /\ pc'[t] # "arm" /\ pc'[t] \notin Published
        /\ pc'[t] # "timedout"
    BY <2>2 DEF Asking, Published
  <2>6. \A u \in Threads :
       /\ pc'[u] = "arm" => pc[u] = "arm"
       /\ pc'[u] \in Published => pc[u] \in Published
       /\ pc'[u] \in Asking => req'[u] = req[u]
       /\ pc'[u] = "timedout" => timeouts' > 0
    BY <2>1, <2>5 DEF CallersKept
  <2>7. \A u \in Threads :
       /\ out'[u] # NULL => out[u] # NULL
       /\ out'[u] # NULL /\ err'[u] = "OK" =>
            /\ out'[u] = out[u] /\ err[u] = "OK" /\ req'[u] = req[u]
            /\ pc'[u] \in {"drain", "unlock", "idle", "closing"}
    BY <2>1, <2>2 DEF HandedOut
  <2> QED BY <2>1, <2>3, <2>4, <2>6, <2>7, QuietFrame DEF Quiet
<1> QED BY <1>1, <1>2

(* Steps of a call that wrote nothing yet or has taken its response.        *)
LEMMA ApartQuiet ==
  ASSUME Known, Sole, Answers, NEW t \in Threads,
         Lock(t) \/ CommandPending(t) \/ WriteFails(t) \/ HandshakePause(t)
         \/ Return(t)
  PROVE  Quiet
<1> USE DEF Answers
<1>0. pc[t] \in {"lock", "send", "drain", "unlock"}
  BY DEF Lock, CommandPending, WriteFails, HandshakePause, Return
<1>1. \A u \in Threads \ {t} : pc[u] \in {"idle", "closing"}
  BY <1>0, OneInside
<1>2. ~Open
  BY <1>0, <1>1 DEF Open, Published
<1>3. /\ UNCHANGED <<tx, answer, history, id, writes, rx, buf, rsms, timeouts,
                     s_type, s_readerClosed, rpc, req>>
      /\ UNCHANGED <<sp_response, s_responsePrefix, s_smsPDU>>
         \/ (sp_response' = NULL /\ s_smsPDU' = NULL)
  BY DEF Lock, CommandPending, WriteFails, HandshakePause, Return,
       clearPendingCommand
<1>4. /\ \A u \in Threads \ {t} : /\ pc'[u] = pc[u] /\ err'[u] = err[u]
                                  /\ out'[u] = out[u]
      /\ pc'[t] \in {"send", "drain", "unlock", "idle"}
      /\ out'[t] # NULL => out'[t] = out[t]
      /\ out'[t] # NULL /\ err'[t] = "OK" =>
           err[t] = "OK" /\ pc'[t] \in {"unlock", "idle", "drain", "send"}
  <2>1. CASE CommandPending(t) \/ WriteFails(t)
    <3>1. PICK e \in {"COMMAND_PENDING", "CHANNEL_CLOSED", "GENERIC"} :
            Returned(t, e)
      BY <2>1 DEF CommandPending, WriteFails
    <3>2. out' = out /\ err' = [err EXCEPT ![t] = e]
      BY <2>1, <3>1 DEF CommandPending, WriteFails, Returned
    <3>3. err'[t] # "OK"
      BY <3>2, QuietTypes
    <3>4. /\ \A u \in Threads \ {t} : pc'[u] = pc[u]
          /\ pc'[t] \in {"send", "drain", "unlock"}
      BY <3>1, QuietTypes DEF Returned, Goto
    <3> QED BY <3>2, <3>3, <3>4, QuietTypes
  <2>2. CASE Lock(t) \/ HandshakePause(t) \/ Return(t)
    BY <2>2, QuietTypes DEF Lock, HandshakePause, Return, Goto
  <2> QED BY <2>1, <2>2
<1>5. pc'[t] \notin Asking /\ pc'[t] # "arm" /\ pc'[t] \notin Published
      /\ pc'[t] # "timedout"
  BY <1>4 DEF Asking, Published
<1>6. timeouts' >= timeouts
  BY <1>3, QuietTypes
<1>7. \A u \in Threads :
       /\ pc'[u] = "arm" => pc[u] = "arm"
       /\ pc'[u] \in Published => pc[u] \in Published
       /\ pc'[u] \in Asking => req'[u] = req[u]
       /\ pc'[u] = "timedout" => timeouts' > 0
  BY <1>3, <1>4, <1>5 DEF CallersKept
<1>8. out'[t] # NULL /\ err'[t] = "OK" => pc'[t] # "send"
  <2> SUFFICES ASSUME out'[t] # NULL, err'[t] = "OK", pc'[t] = "send"
               PROVE  FALSE
    OBVIOUS
  <2>1. pc[t] \in {"drain", "unlock"}
    BY <1>0, <1>4 DEF HandedOut
  <2>2. HandshakePause(t) \/ Return(t)
    BY <2>1 DEF Lock, CommandPending, WriteFails
  <2> QED BY <2>2, QuietTypes DEF HandshakePause, Return, Goto
<1>9. \A u \in Threads :
       /\ out'[u] # NULL => out[u] # NULL
       /\ out'[u] # NULL /\ err'[u] = "OK" =>
            /\ out'[u] = out[u] /\ err[u] = "OK" /\ req'[u] = req[u]
            /\ pc'[u] \in {"drain", "unlock", "idle", "closing"}
  BY <1>3, <1>4, <1>8 DEF HandedOut
<1> QED BY <1>2, <1>3, <1>6, <1>7, <1>9, QuietFrame DEF Quiet

(* The condition wait, and giving a command up.                             *)
LEMMA WaitQuiet ==
  ASSUME Known, Sole, Answers, NEW t \in Threads,
         Wait(t) \/ NullDereference(t) \/ SpuriousWakeup(t) \/ Timeout(t)
         \/ Relock(t) \/ GiveUp(t)
  PROVE  Quiet
<1> USE DEF Answers
<1>0. pc[t] \in Published /\ pc[t] \notin {"idle", "closing"}
  BY DEF Wait, NullDereference, SpuriousWakeup, Timeout, Relock, GiveUp,
       Published
<1>1. \A u \in Threads \ {t} : pc[u] \in {"idle", "closing"}
  BY <1>0, OneInside
<1>2. sp_response # NULL /\ ~NullDereference(t)
  BY <1>0 DEF Known, ResponseOwned, NullDereference
<1>3. /\ UNCHANGED <<tx, answer, history, id, writes, rx, buf, rsms, s_type,
                     s_readerClosed, rpc, req, out>>
      /\ UNCHANGED <<sp_response, s_responsePrefix, s_smsPDU>>
         \/ (sp_response' = NULL /\ s_smsPDU' = NULL)
  BY DEF Wait, NullDereference, SpuriousWakeup, Timeout, Relock, GiveUp,
       clearPendingCommand
<1>4. out[t] # NULL => err[t] # "OK"
  BY <1>0 DEF HandedOut, Published
<1>5. /\ \A u \in Threads \ {t} : pc'[u] = pc[u] /\ err'[u] = err[u]
      /\ out'[t] # NULL => err'[t] # "OK"
      /\ pc'[t] # "arm"
  <2>1. CASE GiveUp(t)
    BY <1>3, <2>1, QuietTypes DEF GiveUp, Returned, Goto
  <2>2. CASE ~GiveUp(t)
    BY <1>2, <1>3, <1>4, <2>2, QuietTypes
      DEF Wait, SpuriousWakeup, Timeout, Relock, Goto
  <2> QED BY <2>1, <2>2
<1>6. timeouts' >= timeouts /\ (pc'[t] = "timedout" => timeouts' > 0)
  BY <1>2, QuietTypes DEF Wait, SpuriousWakeup, Timeout, Relock, GiveUp, Goto,
       Returned
<1>7. InStep' /\ Open => Open'
  <2>1. CASE GiveUp(t)
    <3>1. timeouts' = timeouts /\ timeouts > 0
      BY <2>1 DEF GiveUp, CallersKept
    <3> QED BY <3>1, QuietTypes DEF InStep
  <2>2. CASE ~GiveUp(t)
    <3>1. pc'[t] \in Published /\ UNCHANGED sp_response
      BY <1>2, <2>2, QuietTypes DEF Wait, SpuriousWakeup, Timeout, Relock,
           Goto, Published
    <3> QED BY <1>0, <1>1, <3>1 DEF Open, Published
  <2> QED BY <2>1, <2>2
<1>8. \A u \in Threads :
       /\ pc'[u] = "arm" => pc[u] = "arm"
       /\ pc'[u] \in Published => pc[u] \in Published
       /\ pc'[u] \in Asking => req'[u] = req[u]
       /\ pc'[u] = "timedout" => timeouts' > 0
  BY <1>0, <1>1, <1>3, <1>5, <1>6
<1>9. \A u \in Threads :
       /\ out'[u] # NULL => out[u] # NULL
       /\ out'[u] # NULL /\ err'[u] = "OK" =>
            /\ out'[u] = out[u] /\ err[u] = "OK" /\ req'[u] = req[u]
            /\ pc'[u] \in {"drain", "unlock", "idle", "closing"}
  BY <1>1, <1>3, <1>5
<1> QED BY <1>3, <1>6, <1>7, <1>8, <1>9, QuietFrame DEF Quiet

(* pthread_cond_signal moves a thread inside the wait loop only.            *)
LEMMA SignalQuiet ==
  ASSUME Known, Sole, Answers, Signal(pc) \/ pc' = pc, sp_response' = sp_response
  PROVE  /\ \A u \in Threads :
              /\ pc'[u] = "arm" <=> pc[u] = "arm"
              /\ pc'[u] \in Published <=> pc[u] \in Published
              /\ pc'[u] \in Asking <=> pc[u] \in Asking
              /\ pc'[u] = "timedout" => pc[u] = "timedout"
              /\ pc[u] \in {"drain", "unlock", "idle", "closing"} =>
                   pc'[u] = pc[u]
         /\ Open => Open'
<1>1. \A u \in Threads : /\ pc'[u] \in Published <=> pc[u] \in Published
                         /\ pc'[u] # pc[u] => pc[u] = "wait" /\ pc'[u] = "relock"
  BY QuietTypes, SignalKeeps
<1> QED BY <1>1 DEF Open, Asking

(* at_close: s_readerClosed and the signal.                                 *)
LEMMA CloseQuiet ==
  ASSUME Known, Sole, Answers, NEW t \in Threads, CloseReader(t)
  PROVE  Quiet
<1> USE DEF Answers
<1> DEFINE p == [pc EXCEPT ![t] = "idle"]
<1>0. /\ pc[t] = "closing" /\ s_readerClosed' /\ Signal(p)
      /\ UNCHANGED <<tx, answer, history, id, writes, rx, buf, rsms, rpc,
                     pendingVars, req, err, out, timeouts>>
  BY DEF CloseReader
<1>1. /\ p \in [Threads -> PcValues]
      /\ \A u \in Threads : p[u] = IF u = t THEN "idle" ELSE pc[u]
  BY QuietTypes DEF PcValues
<1> HIDE DEF p
<1>2. \A u \in Threads : /\ pc'[u] \in Published <=> pc[u] \in Published
                         /\ pc'[u] # pc[u] =>
                              \/ u = t /\ pc'[u] = "idle"
                              \/ pc[u] = "wait" /\ pc'[u] = "relock"
  BY <1>0, <1>1, SignalKeeps DEF Published
<1>3. rpc # "none"
  BY <1>0 DEF Known, CallersKnown
<1>4. Open => Open'
  BY <1>0, <1>2 DEF Open
<1>5. timeouts' >= timeouts
  BY <1>0, QuietTypes
<1>6. \A u \in Threads :
       /\ pc'[u] = "arm" => pc[u] = "arm"
       /\ pc'[u] \in Published => pc[u] \in Published
       /\ pc'[u] \in Asking => req'[u] = req[u]
       /\ pc'[u] = "timedout" => timeouts' > 0
  BY <1>0, <1>2 DEF CallersKept
<1>7. \A u \in Threads :
       /\ out'[u] # NULL => out[u] # NULL
       /\ out'[u] # NULL /\ err'[u] = "OK" =>
            /\ out'[u] = out[u] /\ err[u] = "OK" /\ req'[u] = req[u]
            /\ pc'[u] \in {"drain", "unlock", "idle", "closing"}
  BY <1>0, <1>2 DEF HandedOut
<1> QED BY <1>0, <1>3, <1>4, <1>5, <1>6, <1>7, QuietFrame DEF Quiet

(* A step of the reader that processes no line of an answer.                *)
LEMMA ReaderQuietFrame ==
  ASSUME Known, Sole, Answers,
         UNCHANGED <<tx, answer, history, id, writes, pendingVars, req, err,
                     out, timeouts>>,
         Signal(pc) \/ pc' = pc, rpc # "none", rpc' # "none",
         ~s_readerClosed' => ~s_readerClosed,
         Done' >= Done,
         \A i \in 1 .. Done' : i > Done =>
           history[i].ans = 0 \/ \A t \in Threads : pc[t] \notin Asking
  PROVE  Quiet
<1> USE DEF Answers
<1>1. timeouts' >= timeouts
  BY QuietTypes
<1>2. \A u \in Threads :
       /\ pc'[u] = "arm" => pc[u] = "arm"
       /\ pc'[u] \in Published => pc[u] \in Published
       /\ pc'[u] \in Asking => req'[u] = req[u]
       /\ pc'[u] = "timedout" => timeouts' > 0
  BY SignalQuiet DEF CallersKept
<1>3. \A u \in Threads :
       /\ out'[u] # NULL => out[u] # NULL
       /\ out'[u] # NULL /\ err'[u] = "OK" =>
            /\ out'[u] = out[u] /\ err[u] = "OK" /\ req'[u] = req[u]
            /\ pc'[u] \in {"drain", "unlock", "idle", "closing"}
  BY SignalQuiet DEF HandedOut
<1> QED BY <1>1, <1>2, <1>3, SignalQuiet DEF Quiet

(* readline hands over lines: only those of an SMS notification are done    *)
(* with at once.                                                            *)
LEMMA TakeQuiet ==
  ASSUME Known, Sole, Answers, TakeBuffered \/ ReadData
  PROVE  Quiet
<1> USE DEF Answers
<1>0. /\ history \in Seq(Line) /\ rx \in Seq(Line) /\ buf \in Seq(Line)
      /\ Len(history) \in Nat /\ Len(rx) \in Nat /\ Len(buf) \in Nat
  BY DEF Known, TypeOK, ModemType, ReaderType
<1>1. /\ UNCHANGED <<tx, answer, history, id, writes, pendingVars, req, err,
                     out, timeouts, pc, s_readerClosed>>
      /\ rpc \in {"readline", "read"}
  BY DEF TakeBuffered, ReadData
<1>11. \E l \in Line : GotLine(l)
  <2>1. CASE TakeBuffered
    <3>1. GotLine(Head(buf)) /\ Head(buf) \in Line
      BY <1>0, <2>1 DEF TakeBuffered
    <3> QED BY <3>1
  <2>2. CASE ReadData
    <3>1. GotLine(Head(rx)) /\ Head(rx) \in Line
      BY <1>0, <2>2 DEF ReadData
    <3> QED BY <3>1
  <2> QED BY <2>1, <2>2
<1>2. PICK c \in Nat : c = Consumed /\ c <= Len(history)
  BY DoneType
<1>3. Consumed' = c + 1
  <2>1. CASE TakeBuffered
    <3>1. buf # << >> /\ buf' = Tail(buf) /\ UNCHANGED <<rx, history>>
      BY <2>1 DEF TakeBuffered
    <3>2. Len(buf') = Len(buf) - 1
      BY <1>0, <3>1
    <3>3. Consumed' = Len(history) - Len(buf') - Len(rx)
      BY <3>1 DEF Consumed
    <3>4. c = Len(history) - Len(buf) - Len(rx)
      BY <1>2 DEF Consumed
    <3> QED BY <1>0, <3>2, <3>3, <3>4
  <2>2. CASE ReadData
    <3>1. PICK k \in 1 .. Len(rx) : /\ buf' = SubSeq(rx, 2, k)
                                    /\ rx' = SubSeq(rx, k + 1, Len(rx))
      BY <2>2 DEF ReadData
    <3>2. Len(buf') = k - 1 /\ Len(rx') = Len(rx) - k
      BY <1>0, <3>1
    <3>3. Consumed' = Len(history) - Len(buf') - Len(rx')
      BY <1>1 DEF Consumed
    <3>4. buf = << >> /\ Len(buf) = 0
      BY <2>2 DEF ReadData, Known, Flow, InputKnown
    <3>5. c = Len(history) - Len(buf) - Len(rx)
      BY <1>2 DEF Consumed
    <3> QED BY <1>0, <3>2, <3>3, <3>4, <3>5
  <2> QED BY <2>1, <2>2
<1>4. /\ Done' >= Done
      /\ \A i \in 1 .. Done' : i > Done => history[i].ans = 0
  <2>1. CASE rsms # NULL
    <3>1. rsms' = NULL /\ rpc' = "readline"
      BY <1>11, <2>1 DEF GotLine
    <3>2. Done = c - 1 /\ Done' = c + 1
      BY <1>2, <1>3, <2>1, <3>1 DEF Done
    <3>3. c > 0 /\ history[c].kind = "sms"
      BY <1>2, <2>1 DEF Known, Flow, ReaderAt
    <3>4. c \in 1 .. Len(history)
      BY <1>2, <3>3
    <3>5. c + 1 \in 1 .. Len(history) /\ history[c + 1].kind = "smspdu"
      BY <1>0, <3>3, <3>4 DEF Known, Flow, HistoryKnown
    <3>6. history[c].ans = 0 /\ history[c + 1].ans = 0
      BY <3>3, <3>4, <3>5 DEF AnswersEnd
    <3>7. \A i \in 1 .. Done' : i > Done => i = c \/ i = c + 1
      BY <3>2
    <3> QED BY <3>2, <3>6, <3>7
  <2>2. CASE rsms = NULL
    <3>1. Done = c
      BY <1>1, <1>2, <2>2 DEF Done
    <3>2. rpc' = "process" \/ rsms' # NULL
      <4>1. PICK l \in Line : GotLine(l)
        BY <1>11
      <4>2. (rsms' = l /\ rpc' = "readline") \/ rpc' = "process"
        BY <2>2, <4>1 DEF GotLine
      <4> QED BY <4>1, <4>2, NullAssumption DEF NullAssumption
    <3>3. Done' = c
      BY <1>2, <1>3, <3>2 DEF Done
    <3> QED BY <3>1, <3>3
  <2> QED BY <2>1, <2>2
<1>5. rpc' # "none"
  BY <1>11 DEF GotLine
<1> QED BY <1>1, <1>4, <1>5, ReaderQuietFrame

(* readline enters read(), or the reader ends; it may lose the first line   *)
(* of an SMS notification.                                                  *)
LEMMA PauseQuiet ==
  ASSUME Known, Sole, Answers, EnterRead \/ ReadEof \/ onReaderClosed
  PROVE  Quiet
<1> USE DEF Answers
<1>1. /\ UNCHANGED <<tx, answer, history, id, writes, pendingVars, req, err,
                     out, timeouts, rx, buf>>
      /\ rpc \in {"readline", "read", "closing"}
      /\ rpc' \in {"read", "closing", "dead"}
      /\ rsms' = NULL \/ rsms' = rsms
      /\ ~s_readerClosed' => ~s_readerClosed
      /\ Signal(pc) \/ pc' = pc
  BY DEF EnterRead, ReadEof, onReaderClosed
<1>2. PICK c \in Nat : c = Consumed /\ c = Consumed' /\ c <= Len(history)
  BY <1>1, DoneType DEF Consumed
<1>3. /\ Done' >= Done
      /\ \A i \in 1 .. Done' : i > Done => history[i].ans = 0
  <2>1. CASE rsms # NULL
    <3>1. c > 0 /\ history[c].kind = "sms"
      BY <1>2, <2>1 DEF Known, Flow, ReaderAt
    <3>2. c \in 1 .. Len(history)
      BY <1>2, <3>1
    <3>3. history[c].ans = 0
      BY <3>1, <3>2 DEF AnswersEnd
    <3>4. Done = c - 1 /\ (Done' = c - 1 \/ Done' = c)
      BY <1>1, <1>2, <2>1 DEF Done
    <3>5. \A i \in 1 .. Done' : i > Done => i = c
      BY <3>4
    <3> QED BY <3>3, <3>4, <3>5
  <2>2. CASE rsms = NULL
    <3>1. Done = c /\ Done' = c
      BY <1>1, <1>2, <2>2 DEF Done
    <3> QED BY <3>1
  <2> QED BY <2>1, <2>2
<1> QED BY <1>1, <1>3, ReaderQuietFrame

(* The line that processLine has in hand is the next one.                   *)
LEMMA ProcessDone ==
  ASSUME Known, Processing
  PROVE  /\ Done + 1 \in 1 .. Len(history) /\ rline = history[Done + 1]
         /\ Done' = Done + 1 /\ rline \in Line /\ rline.n = Done + 1
         /\ rline.kind \in {"ok", "error", "prompt", "text"}
         /\ \A u \in Threads : pc[u] # "arm"
         /\ UNCHANGED <<channelVars, s_type, s_responsePrefix, req, id, err,
                        out, answer, history, countVars>>
         /\ rpc # "none" /\ rpc' # "none"
<1>0. /\ rpc = "process" /\ mutex = NoThread /\ rpc' = "readline"
      /\ UNCHANGED <<channelVars, s_type, s_responsePrefix, req, id, err, out,
                     answer, history, countVars, rsms, buf, rx>>
  BY DEF Processing
<1>1. /\ rsms = NULL /\ Consumed > 0 /\ rline = history[Consumed]
      /\ rline.kind \notin {"sms", "smspdu"} /\ rline \in Line
  BY <1>0 DEF Known, Flow, ReaderAt, TypeOK, ReaderType
<1>2. PICK c \in Nat : c = Consumed /\ c <= Len(history)
  BY DoneType
<1>3. Consumed' = c
  BY <1>0, <1>2 DEF Consumed
<1>4. Done = c - 1 /\ Done' = c
  BY <1>0, <1>1, <1>2, <1>3 DEF Done
<1>5. c \in 1 .. Len(history) /\ Done + 1 = c
  BY <1>1, <1>2, <1>4
<1>6. rline.n = c
  BY <1>1, <1>2, <1>5 DEF Known, Flow, HistoryKnown
<1>7. rline.kind \in LineKinds
  BY <1>1 DEF Line
<1>8. \A u \in Threads : pc[u] # "arm"
  BY <1>0, ConstantsAssumption DEF Known, MutexExclusive, Holding,
       ConstantsAssumption
<1> QED BY <1>0, <1>1, <1>2, <1>4, <1>5, <1>6, <1>7, <1>8 DEF LineKinds

(* A line that comes when no response is published.                         *)
LEMMA UnsolicitedQuiet ==
  ASSUME Known, Sole, Answers, handleUnsolicited, sp_response = NULL
  PROVE  Quiet
<1>1. /\ Processing /\ UNCHANGED <<s_smsPDU, sp_response, pc, tx>>
  BY DEF handleUnsolicited
<1>2. \A u \in Threads : pc[u] \notin Asking
  BY <1>1, ProcessDone DEF Known, ResponseOwned, Asking
<1>3. Done' >= Done
  BY <1>1, ProcessDone, DoneType
<1> QED BY <1>1, <1>2, <1>3, ProcessDone, ReaderQuietFrame

-----------------------------------------------------------------------------
(***************************************************************************)
(* The steps of a call that count.                                         *)
(***************************************************************************)
LEMMA LineTypes ==
  ASSUME Known
  PROVE  /\ history \in Seq(Line) /\ Len(history) \in Nat
         /\ tx \in Seq(Written) /\ Len(tx) \in Nat /\ writes \in Nat
         /\ \A i \in 1 .. Len(history) : history[i] \in Line
         /\ \A i \in 1 .. Len(history) : history[i].ans \in Nat
         /\ \A k \in 1 .. Len(tx) : tx[k].id \in Nat
         /\ \A k \in 1 .. Len(tx) : tx[k].kind \in {"cmd", "pdu"}
<1>1. history \in Seq(Line) /\ tx \in Seq(Written) /\ writes \in Nat
  BY DEF Known, TypeOK, ModemType
<1>2. /\ \A i \in 1 .. Len(history) : history[i] \in Line
      /\ \A k \in 1 .. Len(tx) : tx[k] \in Written
  BY <1>1
<1> QED BY <1>1, <1>2 DEF Line, Written

(* As long as commands and answers are in step a final response has the     *)
(* number of a command.                                                     *)
LEMMA FinalNumbered ==
  ASSUME Known, InStep, NEW i \in 1 .. Len(history), IsFinal(history[i])
  PROVE  history[i].ans # 0
BY DEF Known, Flow, HistoryKnown, InStep, IsFinal, isFinalResponseSuccess,
     isFinalResponseError

(* The command is written.                                                  *)
LEMMA WriteAnswers ==
  ASSUME Known, Known', Sole, Answers, NEW t \in Threads, writeline(t)
  PROVE  Answers'
<1> USE DEF Answers
<1>1. /\ pc[t] = "send" /\ sp_response = NULL /\ ~s_readerClosed
      /\ writes' = writes + 1 /\ id' = [id EXCEPT ![t] = writes + 1]
      /\ pc' = [pc EXCEPT ![t] = "arm"]
      /\ UNCHANGED <<history, answer, rpc, out, err, req, timeouts, s_smsPDU,
                     sp_response, s_readerClosed, s_type, s_responsePrefix>>
  BY DEF writeline, Goto
<1>2. PICK w : /\ tx' = Append(tx, w) /\ w.kind = "cmd" /\ w.id = writes + 1
               /\ w.req = req[t]
  BY DEF writeline
<1>3. t \in Commanders /\ \A u \in Threads \ {t} : pc[u] \in {"idle", "closing"}
  BY <1>1, OneInside
<1>4. /\ Len(tx') = Len(tx) + 1 /\ tx'[Len(tx) + 1] = w
      /\ \A k \in 1 .. Len(tx) : tx'[k] = tx[k]
  BY <1>2, LineTypes
<1>5. \A k \in 1 .. Len(tx') : k \in 1 .. Len(tx) \/ k = Len(tx) + 1
  BY <1>4, LineTypes
<1>6. Done' = Done
  BY DEF writeline, Done, Consumed
<1>7. /\ id'[t] = writes + 1 /\ pc'[t] = "arm"
      /\ \A u \in Threads \ {t} :
           id'[u] = id[u] /\ pc'[u] = pc[u] /\ pc'[u] \in {"idle", "closing"}
  BY <1>1, <1>3, QuietTypes
<1>8. \A u \in Threads \ {t} : /\ pc'[u] \notin Asking /\ pc'[u] \notin Published
                               /\ pc'[u] # "arm" /\ pc'[u] # "timedout"
  BY <1>7 DEF Asking, Published
<1>9. ~Open
  BY <1>1, <1>3 DEF Open, Published
<1>10. CallersKept'
  <2>1. \A u \in Commanders : u = t
    BY <1>3 DEF Sole
  <2>2. \A u \in Commanders : id'[u] = writes'
    BY <1>1, <1>7, <2>1
  <2>3. id'[t] > 0
    BY <1>7, LineTypes
  <2>4. \A u \in Threads : pc'[u] \in Asking => u = t
    BY <1>8
  <2>5. \A u \in Threads : pc'[u] # "timedout"
    BY <1>7, <1>8
  <2>6. /\ \A u \in Threads : out'[u] # NULL => u \in Commanders
        /\ rpc' = "none" => ~s_readerClosed'
    BY <1>1 DEF CallersKept
  <2> QED BY <2>2, <2>3, <2>4, <2>5, <2>6 DEF CallersKept
<1>11. WrittenInOrder'
  <2>1. \A k \in 1 .. Len(tx) : tx[k].id \in Nat /\ tx[k].id <= writes
    BY LineTypes DEF WrittenInOrder
  <2>2. \A k \in 1 .. Len(tx') : tx'[k].id <= writes'
    BY <1>1, <1>2, <1>4, <1>5, <2>1, LineTypes
  <2>3. ASSUME NEW j \in 1 .. Len(tx'), NEW k \in 1 .. Len(tx'), j < k
        PROVE  /\ tx'[j].id <= tx'[k].id
               /\ tx'[k].kind = "cmd" => tx'[j].id < tx'[k].id
    <3>1. CASE k \in 1 .. Len(tx)
      <4>1. j \in 1 .. Len(tx)
        BY <2>3, <3>1, LineTypes
      <4> QED BY <1>4, <2>3, <3>1, <4>1 DEF WrittenInOrder
    <3>2. CASE k = Len(tx) + 1
      <4>1. j \in 1 .. Len(tx)
        BY <2>3, <3>2, LineTypes
      <4>2. tx'[k].id = writes + 1 /\ tx'[j].id \in Nat /\ tx'[j].id <= writes
        BY <1>2, <1>4, <2>1, <3>2, <4>1
      <4> QED BY <4>2, LineTypes
    <3> QED BY <1>5, <3>1, <3>2
  <2> QED BY <2>2, <2>3 DEF WrittenInOrder
<1>12. AnswersEnd'
  <2>1. \A i \in 1 .. Len(history) :
          /\ history[i].ans \in Nat /\ history[i].ans <= writes
          /\ history[i].ans <= writes + 1 /\ history[i].ans # writes + 1
    BY LineTypes DEF AnswersEnd
  <2>2. ASSUME NEW i \in 1 .. Len(history), NEW k \in 1 .. Len(tx'),
               IsFinal(history[i]), history[i].ans > 0, tx'[k].kind = "cmd"
        PROVE  tx'[k].id # history[i].ans
    <3>1. CASE k \in 1 .. Len(tx)
      BY <1>4, <2>2, <3>1 DEF AnswersEnd
    <3>2. CASE k = Len(tx) + 1
      BY <1>2, <1>4, <2>1, <3>2
    <3> QED BY <1>5, <3>1, <3>2
  <2>3. \A i, j \in 1 .. Len(history) :
          IsFinal(history[i]) /\ history[i].ans > 0
          /\ history[j].ans = history[i].ans => j <= i
    BY DEF AnswersEnd
  <2>4. \A i \in 1 .. Len(history) : history[i].kind \in {"sms", "smspdu"} =>
          history[i].ans = 0
    BY DEF AnswersEnd
  <2> QED BY <1>1, <2>1, <2>2, <2>3, <2>4 DEF AnswersEnd
<1>13. RequestKnown'
  <2>1. ASSUME NEW k \in 1 .. Len(tx'), tx'[k].id = writes + 1
        PROVE  tx'[k].req = req[t]
    <3>1. k \notin 1 .. Len(tx)
      BY <1>4, <2>1, LineTypes DEF WrittenInOrder
    <3> QED BY <1>2, <1>4, <1>5, <3>1
  <2>2. \A i \in 1 .. Len(history) : ~Own(history[i], writes + 1)
    BY LineTypes DEF AnswersEnd, Own
  <2>3. pc'[t] \notin Published
    BY <1>7 DEF Published
  <2> QED BY <1>1, <1>7, <1>8, <2>1, <2>2, <2>3 DEF RequestKnown
<1>14. Together'
  <2> SUFFICES ASSUME InStep' PROVE Together'
    BY DEF Together
  <2>1. InStep /\ Alive
    BY <1>1 DEF InStep, Alive
  <2>2. /\ \A k \in 1 .. Len(tx) : tx[k].kind # "cmd"
        /\ \A i \in 1 .. Len(history) : i > Done => history[i].ans = 0
    BY <1>9, <2>1 DEF Together
  <2>3. Open'
    BY <1>7 DEF Open
  <2>4. \A k \in 1 .. Len(tx') : tx'[k].kind = "cmd" => tx'[k].id = writes'
    BY <1>1, <1>2, <1>4, <1>5, <2>2
  <2> QED BY <1>1, <1>6, <2>2, <2>3, <2>4 DEF Together
<1>15. PduKnown'
  <2>1. s_smsPDU = NULL
    BY <1>1 DEF PduKnown
  <2>2. \A k \in 1 .. Len(tx') : tx'[k].kind = "pdu" => tx'[k].id # writes + 1
    <3>1. \A k \in 1 .. Len(tx) : tx[k].id # writes + 1
      BY LineTypes DEF WrittenInOrder
    <3> QED BY <1>2, <1>4, <1>5, <3>1
  <2>3. tx'[1].id = writes + 1 => ~answer.pdu
    <3> SUFFICES ASSUME tx'[1].id = writes + 1 PROVE ~answer.pdu
      OBVIOUS
    <3>1. 1 \notin 1 .. Len(tx)
      BY <1>4, LineTypes DEF WrittenInOrder
    <3>2. tx = << >>
      BY <3>1, LineTypes
    <3> QED BY <3>2 DEF PduKnown
  <2>4. Unsent(writes + 1, tx', answer)
    BY <2>2, <2>3 DEF Unsent
  <2>5. tx' # << >>
    <3>1. tx' \in Seq(Written) /\ Len(tx') # 0
      BY <1>4, LineTypes DEF Known, TypeOK, ModemType
    <3> QED BY <3>1
  <2> QED BY <1>1, <1>7, <1>8, <2>1, <2>4, <2>5 DEF PduKnown
<1>16. Collected'
  <2>1. \A i \in 1 .. Done : history[i].ans # writes + 1
    <3>1. \A i \in 1 .. Done : i \in 1 .. Len(history)
      BY DoneType
    <3>2. \A i \in 1 .. Len(history) : history[i].ans # writes + 1
      BY LineTypes DEF AnswersEnd
    <3> QED BY <3>1, <3>2
  <2>2. pc'[t] \notin Published
    BY <1>7 DEF Published
  <2> QED BY <1>1, <1>6, <1>7, <1>8, <2>1, <2>2 DEF Collected
<1>17. HandedOut'
  <2>1. ASSUME NEW u \in Threads, out[u] # NULL, err[u] = "OK"
        PROVE  FALSE
    <3>1. u = t
      BY <1>3, <2>1 DEF CallersKept, Sole
    <3> QED BY <1>1, <2>1, <3>1 DEF HandedOut
  <2> QED BY <1>1, <2>1 DEF HandedOut
<1> QED BY <1>10, <1>11, <1>12, <1>13, <1>14, <1>15, <1>16, <1>17

(* The response is published.                                               *)
LEMMA ArmAnswers ==
  ASSUME Known, Known', Sole, Answers, NEW t \in Threads, Arm(t)
  PROVE  Answers'
<1> USE DEF Answers
<1>1. /\ pc[t] = "arm" /\ pc' = [pc EXCEPT ![t] = "loop"]
      /\ s_type' = TypeOf(req[t].api) /\ s_responsePrefix' = PrefixOf(req[t])
      /\ s_smsPDU' = NULL \/ s_smsPDU' = id[t]
      /\ sp_response' = at_response_new(id[t])
      /\ UNCHANGED <<history, tx, answer, rpc, out, err, req, timeouts, id,
                     writes, s_readerClosed>>
  BY DEF Arm, Goto
<1>2. t \in Commanders /\ \A u \in Threads \ {t} : pc[u] \in {"idle", "closing"}
  BY <1>1, OneInside
<1>3. Done' = Done
  BY DEF Arm, Done, Consumed
<1>4. /\ pc'[t] = "loop"
      /\ \A u \in Threads \ {t} : pc'[u] = pc[u] /\ pc'[u] \in {"idle", "closing"}
  BY <1>1, <1>2, QuietTypes
<1>5. \A u \in Threads \ {t} : /\ pc'[u] \notin Asking /\ pc'[u] \notin Published
                               /\ pc'[u] # "arm" /\ pc'[u] # "timedout"
  BY <1>4 DEF Asking, Published
<1>6. /\ pc'[t] \in Asking /\ pc'[t] \in Published /\ pc'[t] # "arm"
      /\ pc'[t] # "timedout" /\ pc[t] \in Asking
  BY <1>1, <1>4 DEF Asking, Published
<1>7. /\ sp_response' # NULL /\ sp_response'.id = id[t]
      /\ sp_response'.finalResponse = NULL
      /\ sp_response'.p_intermediates = << >>
  BY <1>1, QuietTypes, NewResponseType DEF at_response_new
<1>8. CallersKept'
  BY <1>1, <1>4, <1>5, <1>6 DEF CallersKept
<1>9. WrittenInOrder' /\ AnswersEnd'
  BY <1>1 DEF WrittenInOrder, AnswersEnd, IsFinal, isFinalResponseSuccess,
       isFinalResponseError
<1>10. RequestKnown'
  BY <1>1, <1>4, <1>5, <1>6 DEF RequestKnown
<1>11. Together'
  <2>1. Open /\ Alive
    BY <1>1, <1>6 DEF Open, Alive
  <2>2. Open'
    BY <1>6, <1>7 DEF Open
  <2>3. InStep' => InStep
    BY <1>1 DEF InStep
  <2> QED BY <1>1, <1>3, <2>1, <2>2, <2>3 DEF Together
<1>12. PduKnown'
  <2>1. Unsent(id[t], tx, answer)
    BY <1>1 DEF PduKnown
  <2>2. tx = << >> => ~answer.pdu
    BY DEF PduKnown
  <2> QED BY <1>1, <1>5, <1>6, <1>7, <2>1, <2>2 DEF PduKnown
<1>13. Collected'
  <2>1. \A i \in 1 .. Done : history[i].ans # id[t]
    BY <1>1 DEF Collected
  <2>2. Reverse(<< >>) = << >>
    BY DEF Reverse
  <2>3. Faithful(<< >>, history, id[t], req[t], Done)
    BY <2>1, FaithfulStart, LineTypes, DoneType
  <2> QED BY <1>1, <1>3, <1>5, <1>6, <1>7, <2>2, <2>3 DEF Collected
<1>14. HandedOut'
  <2>1. \A u \in Threads : out[u] # NULL /\ err[u] = "OK" => u # t
    BY <1>1 DEF HandedOut
  <2>2. InStep' => InStep
    BY <1>1 DEF InStep
  <2> QED BY <1>1, <1>4, <2>1, <2>2 DEF HandedOut
<1> QED BY <1>8, <1>9, <1>10, <1>11, <1>12, <1>13, <1>14

(* The response is taken and the call returns with it.                      *)
LEMMA TakeAnswers ==
  ASSUME Known, Known', Sole, Answers, NEW t \in Threads, TakeResponse(t)
  PROVE  Answers'
<1> USE DEF Answers
<1> DEFINE e == IF s_readerClosed THEN "CHANNEL_CLOSED" ELSE "OK"
           o == IF req[t].out THEN reverseIntermediates(sp_response) ELSE NULL
<1>1. /\ pc[t] = "loop" /\ sp_response # NULL
      /\ sp_response.finalResponse # NULL \/ s_readerClosed
      /\ out' = [out EXCEPT ![t] = o]
      /\ sp_response' = NULL /\ s_smsPDU' = NULL
      /\ UNCHANGED <<history, tx, answer, rpc, req, timeouts, id, writes,
                     s_readerClosed>>
  BY DEF TakeResponse, clearPendingCommand
<1>2. /\ t \in Commanders /\ rpc # "none"
      /\ \A u \in Threads \ {t} : pc[u] \in {"idle", "closing"}
  BY <1>1, OneInside
<1>3. Done' = Done
  BY DEF TakeResponse, Done, Consumed
<1>4. /\ err' = [err EXCEPT ![t] = e]
      /\ \A u \in Threads \ {t} : pc'[u] = pc[u]
      /\ pc'[t] \in {"send", "drain", "unlock"}
      /\ e = "OK" => pc'[t] \in {"drain", "unlock"}
  <2>1. Returned(t, e)
    BY DEF TakeResponse
  <2> HIDE DEF e
  <2> QED BY <2>1, QuietTypes DEF Returned, Goto
<1>5. /\ err'[t] = e /\ out'[t] = o
      /\ \A u \in Threads \ {t} : err'[u] = err[u] /\ out'[u] = out[u]
  BY <1>1, <1>4, QuietTypes
<1>6. \A u \in Threads : /\ pc'[u] \notin Asking /\ pc'[u] \notin Published
                         /\ pc'[u] # "arm" /\ pc'[u] # "timedout"
  BY <1>2, <1>4 DEF Asking, Published
<1>7. pc[t] \in Published /\ pc[t] \in Asking
  BY <1>1 DEF Asking, Published
<1>8. InStep' => InStep
  BY <1>1 DEF InStep
<1>9. CallersKept'
  BY <1>1, <1>2, <1>5, <1>6 DEF CallersKept
<1>10. WrittenInOrder' /\ AnswersEnd'
  BY <1>1 DEF WrittenInOrder, AnswersEnd, IsFinal, isFinalResponseSuccess,
       isFinalResponseError
<1>11. RequestKnown' /\ Collected'
  BY <1>6 DEF RequestKnown, Collected
<1>12. Together'
  <2> SUFFICES ASSUME InStep', Alive' PROVE Together'
    BY DEF Together
  <2>1. InStep /\ Alive /\ ~s_readerClosed
    BY <1>1, <1>6, <1>7, <1>8 DEF Alive
  <2>2. ~Open
    BY <1>1, <1>2, <2>1 DEF Open, Published
  <2> QED BY <1>1, <1>3, <2>1, <2>2 DEF Together
<1>13. PduKnown'
  BY <1>1, <1>6 DEF PduKnown
<1>14. HandedOut'
  <2>1. ASSUME NEW u \in Threads \ {t}, out'[u] # NULL, err'[u] = "OK"
        PROVE  /\ pc'[u] \in {"drain", "unlock", "idle", "closing"}
               /\ FinalAmong(out'[u], history, Len(history))
               /\ InStep => /\ out'[u].finalResponse.ans = id[u]
                            /\ Faithful(out'[u].p_intermediates, history,
                                        id[u], req[u], Len(history))
    BY <1>4, <1>5, <2>1 DEF HandedOut
  <2>2. ASSUME out'[t] # NULL, err'[t] = "OK"
        PROVE  /\ pc'[t] \in {"drain", "unlock", "idle", "closing"}
               /\ FinalAmong(out'[t], history, Len(history))
               /\ InStep => /\ out'[t].finalResponse.ans = id[t]
                            /\ Faithful(out'[t].p_intermediates, history,
                                        id[t], req[t], Len(history))
    <3>1. /\ e = "OK" /\ ~s_readerClosed /\ sp_response.finalResponse # NULL
          /\ out'[t] = reverseIntermediates(sp_response)
      BY <1>1, <1>5, <2>2
    <3>2. sp_response \in ATResponse
      BY <1>1 DEF Known, TypeOK, ChannelType
    <3>3. /\ out'[t].finalResponse = sp_response.finalResponse
          /\ out'[t].success = sp_response.success
          /\ out'[t].p_intermediates = Reverse(sp_response.p_intermediates)
      BY <3>1, <3>2 DEF reverseIntermediates, ATResponse
    <3>4. /\ Faithful(Reverse(sp_response.p_intermediates), history, id[t],
                      req[t], Done)
          /\ FinalAmong(sp_response, history, Done)
          /\ InStep => sp_response.finalResponse.ans = id[t]
      BY <1>7, <3>1 DEF Collected
    <3>5. PICK i \in 1 .. Done :
            sp_response.finalResponse = history[i] /\ IsFinal(history[i])
      BY <3>4 DEF FinalAmong
    <3>6. i \in 1 .. Len(history)
      BY DoneType
    <3>7. FinalAmong(out'[t], history, Len(history))
      BY <3>3, <3>4, <3>5, <3>6 DEF FinalAmong
    <3>8. ASSUME InStep
          PROVE  Faithful(Reverse(sp_response.p_intermediates), history, id[t],
                          req[t], Len(history))
      <4>1. history[i].ans = id[t] /\ id[t] > 0
        BY <1>7, <3>4, <3>5, <3>8 DEF CallersKept
      <4>2. \A j \in 1 .. Len(history) : history[j].ans = id[t] => j <= i
        BY <3>5, <3>6, <4>1 DEF AnswersEnd
      <4>3. \A j \in 1 .. Len(history) : j > Done => ~Own(history[j], id[t])
        BY <4>2, DoneType DEF Own
      <4>4. /\ history \in Seq(Line) /\ Done \in Nat /\ Len(history) \in Nat
            /\ Done <= Len(history) /\ Len(history) <= Len(history)
            /\ \A j \in 1 .. Len(history) : history[j] = history[j]
        BY LineTypes, DoneType
      <4> QED BY <3>4, <4>3, <4>4, FaithfulSkip
    <3> QED BY <1>4, <3>1, <3>3, <3>4, <3>7, <3>8
  <2> QED BY <1>1, <1>8, <2>1, <2>2 DEF HandedOut
<1> QED BY <1>9, <1>10, <1>11, <1>12, <1>13, <1>14


-----------------------------------------------------------------------------
(***************************************************************************)
(* processLine while a call waits.                                         *)
(***************************************************************************)
(* What every branch of processLine keeps.                                  *)
LEMMA ProcessFrame ==
  ASSUME Known, Known', Sole, Answers, Processing,
         NEW t \in Threads, pc[t] \in Published,
         Signal(pc) \/ pc' = pc,
         sp_response' # NULL, sp_response'.id = sp_response.id,
         \/ UNCHANGED <<s_smsPDU, tx>>
         \/ /\ s_smsPDU' = NULL
            /\ \/ UNCHANGED tx
               \/ \E w \in Written : /\ tx' = Append(tx, w)
                                     /\ w.kind = "pdu" /\ w.id = writes
  PROVE  /\ pc'[t] \in Published /\ pc'[t] # "arm"
         /\ \A u \in Threads \ {t} : pc'[u] \in {"idle", "closing"}
         /\ \A u \in Threads \ {t} : pc[u] \in {"idle", "closing"}
         /\ InStep' => InStep
         /\ \A k \in 1 .. Len(tx') : tx'[k].kind = "cmd" =>
              k \in 1 .. Len(tx) /\ tx'[k] = tx[k]
         /\ CallersKept' /\ WrittenInOrder' /\ AnswersEnd' /\ RequestKnown'
         /\ PduKnown' /\ HandedOut'
<1> USE DEF Answers
<1>0. /\ UNCHANGED <<channelVars, s_type, s_responsePrefix, req, id, err, out,
                     answer, history, countVars>>
      /\ rpc' # "none"
  BY ProcessDone
<1>1. /\ t \in Commanders
      /\ \A u \in Threads \ {t} : pc[u] \in {"idle", "closing"}
  BY OneInside DEF Published
<1>2. \A u \in Threads : /\ pc'[u] \in Published <=> pc[u] \in Published
                         /\ pc'[u] # pc[u] => pc[u] = "wait" /\ pc'[u] = "relock"
  BY QuietTypes, SignalKeeps
<1>3. /\ pc'[t] \in Published /\ pc'[t] \in Asking /\ pc'[t] # "arm"
      /\ pc[t] \in Asking
      /\ \A u \in Threads \ {t} : pc'[u] = pc[u]
  BY <1>1, <1>2 DEF Published, Asking
<1>4. \A u \in Threads \ {t} : /\ pc'[u] \notin Asking
                               /\ pc'[u] \notin Published /\ pc'[u] # "arm"
  BY <1>1, <1>3 DEF Published, Asking
<1>5. InStep' => InStep
  BY <1>0 DEF InStep
<1>6. /\ Len(tx') \in Nat /\ Len(tx') >= Len(tx)
      /\ \A k \in 1 .. Len(tx) : tx'[k] = tx[k]
      /\ \A k \in 1 .. Len(tx') : k \notin 1 .. Len(tx) =>
           k = Len(tx) + 1 /\ tx'[k].kind = "pdu" /\ tx'[k].id = writes
      /\ tx' = << >> => tx = << >>
  <2>1. CASE UNCHANGED tx
    BY <2>1, LineTypes
  <2>2. CASE \E w \in Written : /\ tx' = Append(tx, w)
                                /\ w.kind = "pdu" /\ w.id = writes
    <3>1. PICK w \in Written : /\ tx' = Append(tx, w)
                               /\ w.kind = "pdu" /\ w.id = writes
      BY <2>2
    <3>2. /\ Len(tx') = Len(tx) + 1 /\ tx'[Len(tx) + 1] = w
          /\ \A k \in 1 .. Len(tx) : tx'[k] = tx[k]
      BY <3>1, LineTypes
    <3>3. tx' # << >>
      BY <3>1, LineTypes
    <3> QED BY <3>1, <3>2, <3>3, LineTypes
  <2> QED BY <2>1, <2>2
<1>7. \A k \in 1 .. Len(tx') : tx'[k].kind = "cmd" =>
        k \in 1 .. Len(tx) /\ tx'[k] = tx[k]
  BY <1>6
<1>8. CallersKept'
  BY <1>0, <1>2, <1>3, <1>4 DEF CallersKept
<1>9. WrittenInOrder'
  <2>1. \A k \in 1 .. Len(tx) : tx[k].id \in Nat /\ tx[k].id <= writes
    BY LineTypes DEF WrittenInOrder
  <2>2. \A k \in 1 .. Len(tx') : tx'[k].id <= writes
    BY <1>6, <2>1, LineTypes
  <2>3. ASSUME NEW j \in 1 .. Len(tx'), NEW k \in 1 .. Len(tx'), j < k
        PROVE  /\ tx'[j].id <= tx'[k].id
               /\ tx'[k].kind = "cmd" => tx'[j].id < tx'[k].id
    <3>1. CASE k \in 1 .. Len(tx)
      <4>1. j \in 1 .. Len(tx)
        BY <2>3, <3>1, LineTypes
      <4> QED BY <1>6, <2>3, <3>1, <4>1 DEF WrittenInOrder
    <3>2. CASE k \notin 1 .. Len(tx)
      BY <1>6, <2>2, <3>2
    <3> QED BY <3>1, <3>2
  <2> QED BY <1>0, <2>2, <2>3 DEF WrittenInOrder
<1>10. AnswersEnd'
  BY <1>0, <1>7 DEF AnswersEnd, IsFinal, isFinalResponseSuccess,
       isFinalResponseError
<1>11. RequestKnown'
  BY <1>0, <1>3, <1>4, <1>7 DEF RequestKnown
<1>12. PduKnown'
  <2>1. tx' = << >> => ~answer'.pdu
    BY <1>0, <1>6 DEF PduKnown
  <2>2. s_smsPDU' # NULL => /\ sp_response' # NULL
                            /\ s_smsPDU' = sp_response'.id
                            /\ Unsent(s_smsPDU', tx', answer')
    BY <1>0 DEF PduKnown
  <2> QED BY <1>3, <1>4, <2>1, <2>2 DEF PduKnown
<1>13. HandedOut'
  <2>1. \A u \in Threads : out[u] # NULL /\ err[u] = "OK" => u # t
    BY DEF HandedOut, Published
  <2> QED BY <1>0, <1>3, <1>5, <2>1 DEF HandedOut
<1> QED BY <1>1, <1>3, <1>5, <1>7, <1>8, <1>9, <1>10, <1>11, <1>12, <1>13


(* A branch after which the call waits as before.                           *)
LEMMA ProcessAnswers ==
  ASSUME Known, Known', Sole, Answers, Processing,
         NEW t \in Threads, pc[t] \in Published, pc' = pc,
         sp_response' # NULL, sp_response'.id = sp_response.id,
         sp_response'.finalResponse = sp_response.finalResponse,
         sp_response'.success = sp_response.success,
         \/ UNCHANGED <<s_smsPDU, tx>>
         \/ /\ s_smsPDU' = NULL
            /\ \/ UNCHANGED tx
               \/ \E w \in Written : /\ tx' = Append(tx, w)
                                     /\ w.kind = "pdu" /\ w.id = writes,
         Faithful(Reverse(sp_response'.p_intermediates), history, id[t],
                  req[t], Done + 1)
  PROVE  Answers'
<1>0. /\ UNCHANGED <<channelVars, req, id, history, countVars>>
      /\ Done' = Done + 1
  BY ProcessDone
<1>1. /\ pc'[t] \in Published /\ pc'[t] # "arm"
      /\ \A u \in Threads \ {t} : pc'[u] \in {"idle", "closing"}
      /\ InStep' => InStep
      /\ \A k \in 1 .. Len(tx') : tx'[k].kind = "cmd" =>
           k \in 1 .. Len(tx) /\ tx'[k] = tx[k]
      /\ CallersKept' /\ WrittenInOrder' /\ AnswersEnd' /\ RequestKnown'
      /\ PduKnown' /\ HandedOut'
  BY ProcessFrame
<1>2. Together'
  <2> SUFFICES ASSUME InStep', Alive' PROVE Together'
    BY DEF Together
  <2>1. InStep /\ Alive
    BY <1>0, <1>1 DEF Alive
  <2>2. Open => Open'
    BY DEF Open
  <2>3. \A i \in 1 .. Len(history) : i > Done + 1 => i > Done
    BY DoneType
  <2>4. Together
    BY DEF Answers
  <2> QED BY <1>0, <1>1, <2>1, <2>2, <2>3, <2>4 DEF Together
<1>3. Collected'
  <2>1. \A u \in Threads \ {t} : pc'[u] # "arm" /\ pc'[u] \notin Published
    BY <1>1 DEF Published
  <2>2. \A i \in 1 .. Done : i \in 1 .. (Done + 1)
    BY DoneType
  <2>3. sp_response.finalResponse # NULL =>
          /\ FinalAmong(sp_response, history, Done)
          /\ InStep => sp_response.finalResponse.ans = id[t]
    BY DEF Answers, Collected
  <2>4. FinalAmong(sp_response, history, Done) =>
          FinalAmong(sp_response', history, Done + 1)
    BY <2>2 DEF FinalAmong
  <2> QED BY <1>0, <1>1, <2>1, <2>3, <2>4 DEF Collected
<1> QED BY <1>1, <1>2, <1>3 DEF Answers

(* processLine compares with what the waiting call asked for.               *)
LEMMA CollectsKeeps ==
  ASSUME Known, Answers, sp_response # NULL, NEW t \in Threads,
         pc[t] \in Published, NEW l
  PROVE  Collects(l) <=> Keeps(req[t], Reverse(sp_response.p_intermediates), l)
<1>1. s_type = TypeOf(req[t].api) /\ s_responsePrefix = PrefixOf(req[t])
  BY DEF Answers, RequestKnown
<1>2. s_type \in ATCommandType /\ sp_response.p_intermediates \in Seq(Line)
  BY DEF Known, TypeOK, ChannelType, ATResponse
<1>3. sp_response.p_intermediates = << >> <=>
        Reverse(sp_response.p_intermediates) = << >>
  <2> DEFINE p == sp_response.p_intermediates
  <2>1. Reverse(p) \in Seq(Line) /\ Len(Reverse(p)) = Len(p) /\ p \in Seq(Line)
    BY <1>2 DEF Reverse
  <2> HIDE DEF p
  <2>2. p = << >> <=> Len(p) = 0
    BY <2>1
  <2>3. Reverse(p) = << >> <=> Len(Reverse(p)) = 0
    BY <2>1
  <2> QED BY <2>1, <2>2, <2>3 DEF p
<1> QED BY <1>1, <1>2, <1>3 DEF Collects, Keeps, ATCommandType

(* The waiting call, when there is a response.                              *)
LEMMA SomeoneWaits ==
  ASSUME Known, Answers, sp_response # NULL
  PROVE  \E t \in Threads :
           /\ pc[t] \in Published /\ sp_response.id = id[t]
           /\ id[t] = writes /\ id[t] > 0 /\ id[t] \in Nat
           /\ Faithful(Reverse(sp_response.p_intermediates), history, id[t],
                       req[t], Done)
           /\ req[t] \in RequestType
<1>1. PICK t \in Threads : pc[t] \in Published
  BY DEF Known, ResponseOwned
<1>2. sp_response.id = id[t]
  BY <1>1 DEF Known, ResponseOwned
<1>3. t \in Commanders
  BY <1>1 DEF Known, CallersKnown, Published
<1>4. id[t] = writes /\ id[t] > 0
  BY <1>1, <1>3 DEF Answers, CallersKept, Asking
<1>5. Faithful(Reverse(sp_response.p_intermediates), history, id[t], req[t],
               Done)
  BY <1>1 DEF Answers, Collected
<1> QED BY <1>1, <1>2, <1>4, <1>5, QuietTypes


(* The line in hand adds nothing of the answer to what was collected.       *)
LEMMA ProcessSkip ==
  ASSUME Known, Processing, NEW g, NEW i, NEW r,
         Faithful(g, history, i, r, Done), rline.kind # "text"
  PROVE  Faithful(g, history, i, r, Done + 1)
<1>1. /\ history \in Seq(Line) /\ Done \in Nat /\ Done + 1 \in Nat
      /\ Done <= Done + 1 /\ Done <= Len(history) /\ Len(history) <= Len(history)
      /\ \A j \in 1 .. Len(history) : history[j] = history[j]
  BY LineTypes, DoneType
<1>2. \A j \in 1 .. (Done + 1) : j > Done => ~Own(history[j], i)
  <2>1. \A j \in 1 .. (Done + 1) : j > Done => j = Done + 1
    BY <1>1
  <2> QED BY <2>1, ProcessDone DEF Own
<1> QED BY <1>1, <1>2, FaithfulSkip

(* The prompt: the PDU goes out with the number of the waiting command.     *)
LEMMA CtrlZAnswers ==
  ASSUME Known, Known', Sole, Answers, writeCtrlZ
  PROVE  Answers'
<1>1. /\ Processing /\ sp_response # NULL /\ s_smsPDU # NULL
      /\ rline.kind = "prompt" /\ s_smsPDU' = NULL
      /\ UNCHANGED <<sp_response, pc>>
  BY DEF writeCtrlZ, IsPrompt
<1>2. PICK t \in Threads :
        /\ pc[t] \in Published /\ sp_response.id = id[t] /\ id[t] = writes
        /\ Faithful(Reverse(sp_response.p_intermediates), history, id[t],
                    req[t], Done)
  BY <1>1, SomeoneWaits
<1>3. \/ UNCHANGED tx
      \/ \E w \in Written : /\ tx' = Append(tx, w)
                            /\ w.kind = "pdu" /\ w.id = writes
  <2> DEFINE w == [kind |-> "pdu", id |-> s_smsPDU,
                   req |-> [api |-> "sms", prefix |-> AnyPrefix, out |-> FALSE]]
  <2>1. UNCHANGED tx \/ tx' = Append(tx, w)
    BY DEF writeCtrlZ
  <2>2. s_smsPDU = writes
    BY <1>1, <1>2 DEF Answers, PduKnown
  <2>3. w \in Written /\ w.kind = "pdu" /\ w.id = writes
    BY <2>2, LineTypes DEF Written, RequestType, Apis
  <2> QED BY <2>1, <2>3
<1>4. Faithful(Reverse(sp_response.p_intermediates), history, id[t], req[t],
               Done + 1)
  BY <1>1, <1>2, ProcessSkip
<1> QED BY <1>1, <1>2, <1>3, <1>4, ProcessAnswers

(* The line is put in front of the list.                                    *)
LEMMA IntermediateAnswers ==
  ASSUME Known, Known', Sole, Answers, addIntermediate
  PROVE  Answers'
<1>1. /\ Processing /\ sp_response # NULL /\ ~IsFinal(rline) /\ Collects(rline)
      /\ sp_response' = [sp_response EXCEPT !.p_intermediates = Cons(rline, @)]
      /\ UNCHANGED <<s_smsPDU, tx, pc>>
  BY DEF addIntermediate
<1>2. PICK t \in Threads :
        /\ pc[t] \in Published
        /\ Faithful(Reverse(sp_response.p_intermediates), history, id[t],
                    req[t], Done)
        /\ req[t] \in RequestType
  BY <1>1, SomeoneWaits
<1>3. sp_response \in ATResponse /\ sp_response.p_intermediates \in Seq(Line)
  BY <1>1 DEF Known, TypeOK, ChannelType, ATResponse
<1>4. /\ sp_response'.id = sp_response.id
      /\ sp_response'.finalResponse = sp_response.finalResponse
      /\ sp_response'.success = sp_response.success
      /\ sp_response'.p_intermediates
           = Cons(rline, sp_response.p_intermediates)
  BY <1>1, <1>3 DEF ATResponse
<1>5. sp_response' # NULL
  BY <1>1, <1>2 DEF Known, ResponseOwned
<1> DEFINE g == Reverse(sp_response.p_intermediates)
<1>6. /\ Reverse(sp_response'.p_intermediates) = Append(g, rline)
      /\ g \in Seq(Line)
  BY <1>1, <1>3, <1>4, ReverseCons, ProcessDone
<1>7. Keeps(req[t], g, rline)
  BY <1>1, <1>2, CollectsKeeps
<1>8. Faithful(g, history, id[t], req[t], Done)
  BY <1>2
<1> HIDE DEF g
<1>9. rline.kind \in {"text", "prompt"}
  BY <1>1, ProcessDone DEF IsFinal, isFinalResponseSuccess,
       isFinalResponseError
<1>10. Faithful(Append(g, rline), history, id[t], req[t], Done + 1)
  <2>1. /\ history \in Seq(Line) /\ Done \in Nat /\ Done + 1 <= Len(history)
        /\ rline = history[Done + 1] /\ rline.n = Done + 1
    BY <1>1, LineTypes, DoneType, ProcessDone
  <2> QED BY <1>2, <1>6, <1>7, <1>8, <1>9, <2>1, FaithfulTake
<1> QED BY <1>1, <1>2, <1>4, <1>5, <1>6, <1>10, ProcessAnswers

(* The line is not for the waiting call.                                    *)
LEMMA UnsolicitedAnswers ==
  ASSUME Known, Known', Sole, Answers, handleUnsolicited, sp_response # NULL
  PROVE  Answers'
<1>1. /\ Processing /\ ~Collects(rline)
      /\ UNCHANGED <<sp_response, s_smsPDU, tx, pc>>
  BY DEF handleUnsolicited
<1>2. PICK t \in Threads :
        /\ pc[t] \in Published
        /\ Faithful(Reverse(sp_response.p_intermediates), history, id[t],
                    req[t], Done)
        /\ req[t] \in RequestType
  BY SomeoneWaits
<1> DEFINE g == Reverse(sp_response.p_intermediates)
<1>3. g \in Seq(Line)
  <2>1. sp_response.p_intermediates \in Seq(Line)
    BY DEF Known, TypeOK, ChannelType, ATResponse
  <2> QED BY <2>1 DEF Reverse
<1>4. ~Keeps(req[t], g, rline)
  BY <1>1, <1>2, CollectsKeeps
<1>5. Faithful(g, history, id[t], req[t], Done)
  BY <1>2
<1> HIDE DEF g
<1>6. Own(rline, id[t]) => rline.prefix = AnswerPrefix(req[t])
  BY <1>1, <1>2, ProcessDone DEF Answers, RequestKnown, Asking
<1>7. Faithful(g, history, id[t], req[t], Done + 1)
  <2>1. /\ history \in Seq(Line) /\ Done \in Nat /\ Done + 1 <= Len(history)
        /\ rline = history[Done + 1]
    BY <1>1, LineTypes, DoneType, ProcessDone
  <2> QED BY <1>2, <1>3, <1>4, <1>5, <1>6, <2>1, FaithfulDrop
<1>8. Faithful(Reverse(sp_response'.p_intermediates), history, id[t], req[t],
               Done + 1)
  BY <1>1, <1>7 DEF g
<1> QED BY <1>1, <1>2, <1>8, ProcessAnswers


(* The final response: in step, it is that of the waiting command, and      *)
(* nothing of its answer is left.                                           *)
LEMMA FinalAnswers ==
  ASSUME Known, Known', Sole, Answers, handleFinalResponse
  PROVE  Answers'
<1>1. /\ Processing /\ sp_response # NULL /\ IsFinal(rline) /\ Signal(pc)
      /\ sp_response' = [sp_response EXCEPT
                           !.success = isFinalResponseSuccess(rline),
                           !.finalResponse = rline]
      /\ UNCHANGED <<s_smsPDU, tx>>
  BY DEF handleFinalResponse
<1>2. PICK t \in Threads :
        /\ pc[t] \in Published /\ id[t] = writes
        /\ Faithful(Reverse(sp_response.p_intermediates), history, id[t],
                    req[t], Done)
  BY <1>1, SomeoneWaits
<1>3. sp_response \in ATResponse
  BY <1>1 DEF Known, TypeOK, ChannelType
<1>4. /\ sp_response'.id = sp_response.id
      /\ sp_response'.finalResponse = rline
      /\ sp_response'.success = (rline.kind = "ok")
      /\ sp_response'.p_intermediates = sp_response.p_intermediates
  BY <1>1, <1>3 DEF ATResponse, isFinalResponseSuccess
<1>5. sp_response' # NULL
  <2>1. processLine
    BY DEF processLine
  <2> QED BY <1>1, <2>1, ProcessKeepsOwner DEF Known
<1>6. /\ UNCHANGED <<channelVars, req, id, history, countVars>>
      /\ Done' = Done + 1 /\ Done + 1 \in 1 .. Len(history)
      /\ rline = history[Done + 1]
  BY <1>1, ProcessDone
<1>7. /\ pc'[t] \in Published /\ pc'[t] # "arm"
      /\ \A u \in Threads \ {t} : pc'[u] \in {"idle", "closing"}
      /\ InStep' => InStep
      /\ CallersKept' /\ WrittenInOrder' /\ AnswersEnd' /\ RequestKnown'
      /\ PduKnown' /\ HandedOut'
  BY <1>1, <1>2, <1>4, <1>5, ProcessFrame
<1>8. InStep => rline.ans # 0 /\ rline.ans = writes /\ rline.ans > 0
  <2> SUFFICES ASSUME InStep
               PROVE  rline.ans # 0 /\ rline.ans = writes /\ rline.ans > 0
    OBVIOUS
  <2>1. rline.ans # 0 /\ rline.ans \in Nat
    BY <1>1, <1>6, FinalNumbered, LineTypes
  <2>2. Alive
    BY <1>2 DEF Alive, Asking
  <2>3. Done + 1 > Done
    BY DoneType
  <2>4. rline.ans = writes
    BY <1>6, <2>1, <2>2, <2>3 DEF Answers, Together
  <2> QED BY <2>1, <2>4
<1>9. Together'
  <2> SUFFICES ASSUME InStep' PROVE Together'
    BY DEF Together
  <2>1. InStep /\ Alive /\ Together /\ AnswersEnd
    BY <1>2, <1>7 DEF Alive, Asking, Answers
  <2>2. ASSUME NEW k \in 1 .. Len(tx), tx[k].kind = "cmd" PROVE FALSE
    <3>1. tx[k].id = rline.ans
      BY <1>8, <2>1, <2>2 DEF Together
    <3> QED BY <1>1, <1>6, <1>8, <2>1, <2>2, <3>1 DEF AnswersEnd
  <2>3. ASSUME NEW i \in 1 .. Len(history), i > Done + 1, history[i].ans # 0
        PROVE  FALSE
    <3>1. i > Done
      BY <2>3, DoneType
    <3>2. history[i].ans = rline.ans
      BY <1>8, <2>1, <2>3, <3>1 DEF Together
    <3>3. i <= Done + 1
      BY <1>1, <1>6, <1>8, <2>1, <3>2 DEF AnswersEnd
    <3> QED BY <2>3, <3>3, DoneType
  <2> QED BY <1>1, <1>6, <2>2, <2>3 DEF Together
<1>10. Collected'
  <2>1. \A u \in Threads \ {t} : pc'[u] # "arm" /\ pc'[u] \notin Published
    BY <1>7 DEF Published
  <2>2. rline.kind # "text"
    BY <1>1 DEF IsFinal, isFinalResponseSuccess, isFinalResponseError
  <2>3. Faithful(Reverse(sp_response.p_intermediates), history, id[t], req[t],
                 Done + 1)
    BY <1>1, <1>2, <2>2, ProcessSkip
  <2>4. Done + 1 \in 1 .. (Done + 1)
    BY DoneType
  <2>5. FinalAmong(sp_response', history, Done + 1)
    BY <1>1, <1>4, <1>6, <2>4 DEF FinalAmong
  <2>6. InStep' => sp_response'.finalResponse.ans = id[t]
    BY <1>2, <1>4, <1>7, <1>8
  <2> QED BY <1>4, <1>6, <1>7, <2>1, <2>3, <2>5, <2>6 DEF Collected
<1> QED BY <1>7, <1>9, <1>10 DEF Answers


-----------------------------------------------------------------------------
(***************************************************************************)
(* The modem.                                                              *)
(***************************************************************************)
(* A line that answers the first command in the modem's input, and how the  *)
(* input is left after it.                                                  *)
Answered(l) ==
  /\ tx # << >> /\ tx[1].kind = "cmd" /\ l.ans = tx[1].id
  /\ l.kind = "text" => l.prefix = AnswerPrefix(tx[1].req)
  /\ IsFinal(l) => \A k \in 1 .. Len(tx') :
       tx'[k].kind = "cmd" => tx'[k].id # l.ans

(* The modem sends d lines and takes what it wants of its input.            *)
Says(d) ==
  /\ Len(history') = Len(history) + d /\ Len(rx') = Len(rx) + d
  /\ \A i \in 1 .. Len(history) : history'[i] = history[i]
  /\ \A i \in 1 .. Len(history') : i > Len(history) /\ history'[i].ans # 0 =>
       /\ i = Len(history') /\ Answered(history'[i])
       /\ history'[i].kind \notin {"sms", "smspdu"}
  /\ \A k \in 1 .. Len(tx') : \E j \in 1 .. Len(tx) : tx'[k] = tx[j]
  /\ UNCHANGED <<channelVars, pendingVars, threadVars, readerVars, countVars>>

(* Whatever the modem sends, the answers of the calls stay what they are.   *)
LEMMA SaysAnswers ==
  ASSUME Known, Known', Answers, NEW d \in Nat, Says(d), WrittenInOrder',
         PduKnown'
  PROVE  Answers'
<1> USE DEF Answers
<1>0. UNCHANGED <<channelVars, pendingVars, threadVars, readerVars, countVars>>
  BY DEF Says
<1>1. /\ Len(history) \in Nat /\ Len(history') \in Nat
      /\ Len(history) <= Len(history')
      /\ history \in Seq(Line) /\ history' \in Seq(Line)
      /\ Len(rx) \in Nat /\ Len(rx') \in Nat /\ Len(buf) \in Nat
      /\ \A i \in 1 .. Len(history') : history'[i].ans \in Nat
  <2>1. history \in Seq(Line) /\ history' \in Seq(Line) /\ rx \in Seq(Line)
        /\ rx' \in Seq(Line) /\ buf \in Seq(Line)
    BY DEF Known, TypeOK, ModemType, ReaderType
  <2>2. \A i \in 1 .. Len(history') : history'[i] \in Line
    BY <2>1
  <2>3. Len(history) <= Len(history')
    BY <2>1 DEF Says
  <2> QED BY <2>1, <2>2, <2>3 DEF Line
<1>2. \A i \in 1 .. Len(history) :
        i \in 1 .. Len(history') /\ history'[i] = history[i]
  BY <1>1 DEF Says
<1>3. \A i \in 1 .. Len(history') : i \in 1 .. Len(history) \/ i > Len(history)
  BY <1>1
<1>4. Done' = Done
  <2>1. Consumed' = Consumed
    <3>1. Consumed' = Len(history') - Len(buf) - Len(rx')
      BY <1>0 DEF Consumed
    <3>2. /\ Len(history') = Len(history) + d /\ Len(rx') = Len(rx) + d
      BY DEF Says
    <3> QED BY <1>1, <3>1, <3>2 DEF Consumed
  <2> QED BY <1>0, <2>1 DEF Done
<1>5. \A i \in 1 .. Done : i \in 1 .. Len(history) /\ history'[i] = history[i]
  BY <1>2, DoneType
<1>6. InStep' => InStep
  BY <1>0, <1>1, <1>2, QuietTypes, InStepBefore DEF Known
<1>7. \A i \in 1 .. Len(history') : i > Len(history) /\ history'[i].ans # 0 =>
        /\ i = Len(history') /\ Answered(history'[i])
        /\ history'[i].kind \notin {"sms", "smspdu"}
  BY DEF Says
<1>8. \A k \in 1 .. Len(tx') : \E j \in 1 .. Len(tx) : tx'[k] = tx[j]
  BY DEF Says
<1>9. tx # << >> => 1 \in 1 .. Len(tx)
  BY LineTypes
<1>10. ASSUME NEW i \in 1 .. Len(history'), i > Len(history),
              history'[i].ans # 0, NEW j \in 1 .. Len(history),
              IsFinal(history[j]), history[j].ans > 0
       PROVE  history[j].ans # history'[i].ans
  <2>1. 1 \in 1 .. Len(tx) /\ tx[1].kind = "cmd" /\ history'[i].ans = tx[1].id
    BY <1>7, <1>9, <1>10 DEF Answered
  <2> QED BY <1>10, <2>1 DEF AnswersEnd
<1>11. CallersKept'
  BY <1>0 DEF CallersKept
<1>12. AnswersEnd'
  <2>1. ASSUME NEW i \in 1 .. Len(history')
        PROVE  history'[i].ans <= writes
    <3>1. CASE i \in 1 .. Len(history)
      BY <1>2, <3>1 DEF AnswersEnd
    <3>2. CASE i > Len(history) /\ history'[i].ans # 0
      BY <1>7, <1>9, <3>2 DEF Answered, WrittenInOrder
    <3>3. CASE history'[i].ans = 0
      BY <3>3, LineTypes
    <3> QED BY <1>3, <3>1, <3>2, <3>3
  <2>2. ASSUME NEW i \in 1 .. Len(history'),
               history'[i].kind \in {"sms", "smspdu"}
        PROVE  history'[i].ans = 0
    BY <1>2, <1>3, <1>7, <2>2 DEF AnswersEnd
  <2>3. ASSUME NEW i \in 1 .. Len(history'), NEW j \in 1 .. Len(history'),
               IsFinal(history'[i]), history'[i].ans > 0,
               history'[j].ans = history'[i].ans
        PROVE  j <= i
    <3>1. CASE i > Len(history)
      <4>1. i = Len(history')
        BY <1>1, <1>7, <2>3, <3>1
      <4> QED BY <1>1, <4>1
    <3>2. CASE i \in 1 .. Len(history) /\ j \in 1 .. Len(history)
      BY <1>2, <2>3, <3>2 DEF AnswersEnd
    <3>3. CASE i \in 1 .. Len(history) /\ j > Len(history)
      <4>1. history'[j].ans # 0 /\ history'[i] = history[i]
        BY <1>1, <1>2, <2>3, <3>3
      <4> QED BY <1>10, <2>3, <3>3, <4>1
    <3> QED BY <1>3, <3>1, <3>2, <3>3
  <2>4. ASSUME NEW i \in 1 .. Len(history'), NEW k \in 1 .. Len(tx'),
               IsFinal(history'[i]), history'[i].ans > 0, tx'[k].kind = "cmd"
        PROVE  tx'[k].id # history'[i].ans
    <3>1. CASE i \in 1 .. Len(history)
      <4>1. PICK j \in 1 .. Len(tx) : tx'[k] = tx[j]
        BY <1>8
      <4> QED BY <1>2, <2>4, <3>1, <4>1 DEF AnswersEnd
    <3>2. CASE i > Len(history)
      <4>1. Answered(history'[i])
        BY <1>1, <1>7, <2>4, <3>2
      <4> QED BY <2>4, <4>1 DEF Answered
    <3> QED BY <1>3, <3>1, <3>2
  <2> QED BY <1>0, <2>1, <2>2, <2>3, <2>4 DEF AnswersEnd, IsFinal,
           isFinalResponseSuccess, isFinalResponseError
<1>13. RequestKnown'
  <2> SUFFICES ASSUME NEW t \in Threads, pc[t] \in Asking
               PROVE  /\ \A k \in 1 .. Len(tx') :
                           tx'[k].kind = "cmd" /\ tx'[k].id = id[t] =>
                             tx'[k].req = req[t]
                      /\ \A i \in 1 .. Len(history') :
                           Own(history'[i], id[t]) =>
                             history'[i].prefix = AnswerPrefix(req[t])
    <3>1. \A t \in Threads : pc[t] \in Published =>
            s_type = TypeOf(req[t].api) /\ s_responsePrefix = PrefixOf(req[t])
      BY DEF RequestKnown
    <3> QED BY <1>0, <3>1 DEF RequestKnown
  <2>1. \A k \in 1 .. Len(tx) : tx[k].kind = "cmd" /\ tx[k].id = id[t] =>
          tx[k].req = req[t]
    BY DEF RequestKnown
  <2>2. ASSUME NEW i \in 1 .. Len(history'), Own(history'[i], id[t])
        PROVE  history'[i].prefix = AnswerPrefix(req[t])
    <3>1. CASE i \in 1 .. Len(history)
      BY <1>2, <2>2, <3>1 DEF RequestKnown
    <3>2. CASE i > Len(history)
      <4>1. id[t] > 0 /\ id[t] \in Nat
        BY QuietTypes DEF CallersKept
      <4>2. history'[i].ans = id[t] /\ history'[i].kind = "text"
        BY <2>2 DEF Own
      <4>3. /\ tx # << >> /\ tx[1].kind = "cmd" /\ tx[1].id = id[t]
            /\ history'[i].prefix = AnswerPrefix(tx[1].req)
        BY <1>7, <3>2, <4>1, <4>2 DEF Answered
      <4> QED BY <1>9, <2>1, <4>3
    <3> QED BY <1>3, <3>1, <3>2
  <2> QED BY <1>8, <2>1, <2>2
<1>14. Together'
  <2> SUFFICES ASSUME InStep', Alive' PROVE Together'
    BY DEF Together
  <2>1. InStep /\ Alive /\ (Open => Open')
    BY <1>0, <1>6 DEF Alive, Open
  <2>2. /\ \A k \in 1 .. Len(tx) : tx[k].kind = "cmd" =>
             Open /\ tx[k].id = writes
        /\ \A i \in 1 .. Len(history) : i > Done /\ history[i].ans # 0 =>
             Open /\ history[i].ans = writes
    BY <2>1 DEF Together
  <2>3. \A k \in 1 .. Len(tx') : tx'[k].kind = "cmd" =>
          Open /\ tx'[k].id = writes
    BY <1>8, <2>2
  <2>4. ASSUME NEW i \in 1 .. Len(history'), i > Done, history'[i].ans # 0
        PROVE  Open /\ history'[i].ans = writes
    <3>1. CASE i \in 1 .. Len(history)
      BY <1>2, <2>2, <2>4, <3>1
    <3>2. CASE i > Len(history)
      BY <1>7, <1>9, <2>2, <2>4, <3>2 DEF Answered
    <3> QED BY <1>3, <3>1, <3>2
  <2> QED BY <1>0, <1>4, <2>1, <2>3, <2>4 DEF Together
<1>15. Collected'
  <2> SUFFICES ASSUME NEW t \in Threads
               PROVE  /\ pc[t] = "arm" =>
                           \A i \in 1 .. Done : history'[i].ans # id[t]
                      /\ pc[t] \in Published =>
                         /\ Faithful(Reverse(sp_response.p_intermediates),
                                     history', id[t], req[t], Done)
                         /\ sp_response.finalResponse # NULL =>
                            /\ FinalAmong(sp_response, history', Done)
                            /\ InStep' => sp_response.finalResponse.ans = id[t]
    BY <1>0, <1>4 DEF Collected
  <2>1. pc[t] = "arm" => \A i \in 1 .. Done : history'[i].ans # id[t]
    BY <1>5 DEF Collected
  <2>2. CASE pc[t] \in Published
    <3>1. Faithful(Reverse(sp_response.p_intermediates), history, id[t],
                   req[t], Done)
      BY <2>2 DEF Collected
    <3>2. Done \in Nat /\ Done <= Done /\ Done <= Len(history)
          /\ \A j \in 1 .. Done : j > Done => ~Own(history'[j], id[t])
      BY DoneType
    <3>3. Faithful(Reverse(sp_response.p_intermediates), history', id[t],
                   req[t], Done)
      BY <1>1, <1>2, <3>1, <3>2, FaithfulSkip
    <3>4. FinalAmong(sp_response, history, Done) =>
            FinalAmong(sp_response, history', Done)
      BY <1>5 DEF FinalAmong
    <3> QED BY <1>6, <2>1, <2>2, <3>3, <3>4 DEF Collected
  <2> QED BY <2>1, <2>2
<1>16. HandedOut'
  <2> SUFFICES ASSUME NEW t \in Threads, out[t] # NULL, err[t] = "OK"
               PROVE  /\ pc[t] \in {"drain", "unlock", "idle", "closing"}
                      /\ FinalAmong(out[t], history', Len(history'))
                      /\ InStep' =>
                           /\ out[t].finalResponse.ans = id[t]
                           /\ Faithful(out[t].p_intermediates, history', id[t],
                                       req[t], Len(history'))
    BY <1>0 DEF HandedOut
  <2>1. /\ pc[t] \in {"drain", "unlock", "idle", "closing"}
        /\ FinalAmong(out[t], history, Len(history))
        /\ InStep => /\ out[t].finalResponse.ans = id[t]
                     /\ Faithful(out[t].p_intermediates, history, id[t],
                                 req[t], Len(history))
    BY DEF HandedOut
  <2>2. FinalAmong(out[t], history', Len(history'))
    BY <1>2, <2>1 DEF FinalAmong
  <2>3. ASSUME InStep
        PROVE  Faithful(out[t].p_intermediates, history', id[t], req[t],
                        Len(history'))
    <3>1. PICK i \in 1 .. Len(history) :
            out[t].finalResponse = history[i] /\ IsFinal(history[i])
      BY <2>1 DEF FinalAmong
    <3>2. history[i].ans = id[t] /\ history[i].ans > 0 /\ id[t] # 0
      <4>1. history[i].ans # 0 /\ history[i].ans \in Nat
        BY <2>3, <3>1, FinalNumbered, LineTypes
      <4> QED BY <2>1, <2>3, <3>1, <4>1
    <3>3. \A j \in 1 .. Len(history') : j > Len(history) =>
            ~Own(history'[j], id[t])
      BY <1>10, <3>1, <3>2 DEF Own
    <3>4. Len(history) <= Len(history)
      BY <1>1
    <3> QED BY <1>1, <1>2, <2>1, <2>3, <3>3, <3>4, FaithfulSkip
  <2> QED BY <1>6, <2>1, <2>2, <2>3
<1> QED BY <1>11, <1>12, <1>13, <1>14, <1>15, <1>16


(* Taking one of the first two things written keeps the others in order.    *)
LEMMA TakenInOrder ==
  ASSUME Known, WrittenInOrder, NEW k \in {1, 2}, k <= Len(tx),
         Len(tx') = Len(tx) - 1, writes' = writes,
         \A j \in 1 .. Len(tx') : tx'[j] = tx[IF j < k THEN j ELSE j + 1]
  PROVE  /\ WrittenInOrder'
         /\ \A j \in 1 .. Len(tx') : \E i \in 1 .. Len(tx) : tx'[j] = tx[i]
<1> DEFINE At(j) == IF j < k THEN j ELSE j + 1
<1>1. Len(tx) \in Nat /\ Len(tx') \in Nat
  BY LineTypes
<1>2. \A j \in 1 .. Len(tx') : At(j) \in 1 .. Len(tx) /\ tx'[j] = tx[At(j)]
  BY <1>1
<1>3. \A i, j \in 1 .. Len(tx') : i < j => At(i) < At(j)
  BY <1>1
<1> HIDE DEF At
<1> QED BY <1>2, <1>3 DEF WrittenInOrder

(* The modem sends one line.                                                *)
LEMMA OneSaid ==
  ASSUME Known, NEW l \in Line, Emit(<<l>>),
         l.ans # 0 => Answered(l) /\ l.kind \notin {"sms", "smspdu"},
         \A k \in 1 .. Len(tx') : \E j \in 1 .. Len(tx) : tx'[k] = tx[j],
         UNCHANGED <<channelVars, pendingVars, threadVars, readerVars, countVars>>
  PROVE  Says(1)
<1>1. <<l>> \in Seq(Line) /\ Len(<<l>>) = 1 /\ <<l>>[1] = l
  OBVIOUS
<1>2. PICK ls \in Seq(Line) : Len(ls) = 1 /\ ls[1] = l /\ Emit(ls)
  BY <1>1
<1>3. /\ Len(history') = Len(history) + 1 /\ Len(rx') = Len(rx) + 1
      /\ \A i \in 1 .. Len(history) : history'[i] = history[i]
      /\ history'[Len(history) + 1] = l
  <2>1. ModemType /\ 1 \in 1 .. Len(ls)
    BY <1>2 DEF Known, TypeOK
  <2>2. /\ Len(history') = Len(history) + Len(ls)
        /\ Len(rx') = Len(rx) + Len(ls)
        /\ \A i \in 1 .. Len(history) : history'[i] = history[i]
        /\ \A i \in 1 .. Len(ls) : history'[Len(history) + i] = ls[i]
    BY <1>2, <2>1, EmitKeeps
  <2> QED BY <1>2, <2>1, <2>2
<1>4. \A i \in 1 .. Len(history') : i > Len(history) =>
        i = Len(history') /\ history'[i] = l
  BY <1>3, LineTypes
<1> QED BY <1>3, <1>4 DEF Says

(* The two lines of an SMS notification.                                    *)
LEMMA TwoSaid ==
  ASSUME Known, NEW l \in Line, NEW m \in Line, Emit(<<l, m>>),
         l.ans = 0, m.ans = 0,
         UNCHANGED <<channelVars, pendingVars, threadVars, readerVars,
                     countVars, tx>>
  PROVE  Says(2)
<1>1. /\ <<l, m>> \in Seq(Line) /\ Len(<<l, m>>) = 2
      /\ <<l, m>>[1] = l /\ <<l, m>>[2] = m
  OBVIOUS
<1>2. PICK ls \in Seq(Line) : Len(ls) = 2 /\ ls[1] = l /\ ls[2] = m /\ Emit(ls)
  BY <1>1
<1>3. /\ Len(history') = Len(history) + 2 /\ Len(rx') = Len(rx) + 2
      /\ \A i \in 1 .. Len(history) : history'[i] = history[i]
      /\ history'[Len(history) + 1] = l /\ history'[Len(history) + 2] = m
  <2>1. ModemType /\ 1 \in 1 .. Len(ls) /\ 2 \in 1 .. Len(ls)
    BY <1>2 DEF Known, TypeOK
  <2>2. /\ Len(history') = Len(history) + Len(ls)
        /\ Len(rx') = Len(rx) + Len(ls)
        /\ \A i \in 1 .. Len(history) : history'[i] = history[i]
        /\ \A i \in 1 .. Len(ls) : history'[Len(history) + i] = ls[i]
    BY <1>2, <2>1, EmitKeeps
  <2> QED BY <1>2, <2>1, <2>2
<1>4. \A i \in 1 .. Len(history') : i > Len(history) => history'[i].ans = 0
  <2>1. \A i \in 1 .. Len(history') : i > Len(history) =>
          i = Len(history) + 1 \/ i = Len(history) + 2
    <3>1. Len(history) \in Nat /\ Len(history') = Len(history) + 2
      BY <1>3, LineTypes
    <3> QED BY <3>1
  <2> QED BY <1>3, <2>1
<1> QED BY <1>3, <1>4 DEF Says

(* The modem answers or sends something unsolicited.                        *)
LEMMA SpeakAnswers ==
  ASSUME Known, Known', Answers,
         ModemText \/ ModemPrompt \/ ModemFinal \/ ModemUrc
  PROVE  Answers'
<1> USE DEF Answers
<1>0. /\ UNCHANGED <<channelVars, pendingVars, threadVars, readerVars, countVars>>
      /\ ModemType /\ Len(history) \in Nat
  BY LineTypes DEF ModemText, ModemPrompt, ModemFinal, ModemUrc, Known, TypeOK
<1>1. ASSUME Answering
      PROVE  /\ Head(tx) = tx[1] /\ tx[1].kind = "cmd" /\ 1 \in 1 .. Len(tx)
             /\ tx # << >> /\ tx[1].id \in Nat /\ Head(tx).req = tx[1].req
             /\ AnswerPrefix(Head(tx).req) \in AllPrefixes
  BY <1>0, <1>1, AnsweringType, LineTypes DEF Answering
<1>2. UNCHANGED tx =>
        /\ WrittenInOrder'
        /\ \A k \in 1 .. Len(tx') : \E j \in 1 .. Len(tx) : tx'[k] = tx[j]
  BY <1>0 DEF WrittenInOrder
<1>3. UNCHANGED tx /\ answer'.pdu = answer.pdu => PduKnown'
  BY <1>0 DEF PduKnown, Unsent
<1>4. CASE ModemText \/ ModemPrompt
  <2>1. Answering /\ UNCHANGED tx /\ answer' = [answer EXCEPT !.n = @ + 1]
    BY <1>4 DEF ModemText, ModemPrompt
  <2>2. answer'.pdu = answer.pdu
    BY <1>0, <2>1 DEF ModemType
  <2>3. PICK l \in Line :
          /\ Emit(<<l>>) /\ l.ans = tx[1].id /\ l.kind \in {"text", "prompt"}
          /\ l.kind = "text" => l.prefix = AnswerPrefix(tx[1].req)
    <3>1. CASE ModemText
      <4> DEFINE l == NewLine("text", AnswerPrefix(Head(tx).req), Head(tx).id, 1)
      <4>1. l \in Line /\ Emit(<<l>>) /\ l.ans = Head(tx).id /\ l.kind = "text"
            /\ l.prefix = AnswerPrefix(Head(tx).req)
        BY <1>0, <1>1, <2>1, <3>1 DEF ModemText, NewLine, Line, LineKinds
      <4> QED BY <1>1, <2>1, <4>1
    <3>2. CASE ModemPrompt
      <4> DEFINE l == NewLine("prompt", Other, Head(tx).id, 1)
      <4>1. l \in Line /\ Emit(<<l>>) /\ l.ans = Head(tx).id
            /\ l.kind = "prompt"
        BY <1>0, <1>1, <2>1, <3>2
          DEF ModemPrompt, NewLine, Line, LineKinds, AllPrefixes
      <4> QED BY <1>1, <2>1, <4>1
    <3> QED BY <1>4, <3>1, <3>2
  <2>4. Answered(l)
    BY <1>1, <2>1, <2>3 DEF Answered, IsFinal, isFinalResponseSuccess,
         isFinalResponseError
  <2>5. Says(1)
    BY <1>0, <1>2, <2>1, <2>3, <2>4, OneSaid
  <2> QED BY <1>2, <1>3, <2>1, <2>2, <2>5, SaysAnswers
<1>5. CASE ModemFinal
  <2>1. /\ Answering /\ tx' = Tail(tx) /\ answer' = [n |-> 0, pdu |-> FALSE]
    BY <1>5 DEF ModemFinal
  <2>2. PICK l \in Line :
          Emit(<<l>>) /\ l.ans = tx[1].id /\ l.kind \in {"ok", "error"}
    <3>1. PICK kind \in {"ok", "error"} :
            Emit(<<NewLine(kind, Other, Head(tx).id, 1)>>)
      BY <1>5 DEF ModemFinal
    <3> DEFINE l == NewLine(kind, Other, Head(tx).id, 1)
    <3>2. l \in Line /\ l.ans = Head(tx).id /\ l.kind = kind
      BY <1>0, <1>1, <2>1 DEF NewLine, Line, LineKinds, AllPrefixes
    <3> QED BY <1>1, <2>1, <3>1, <3>2
  <2>3. /\ Len(tx') = Len(tx) - 1 /\ 1 <= Len(tx)
        /\ \A j \in 1 .. Len(tx') : tx'[j] = tx[j + 1] /\ j + 1 \in 1 .. Len(tx)
    BY <1>1, <2>1, LineTypes
  <2>4. \A j \in 1 .. Len(tx') : tx'[j] = tx[IF j < 1 THEN j ELSE j + 1]
    BY <2>3
  <2>5. /\ WrittenInOrder'
        /\ \A k \in 1 .. Len(tx') : \E j \in 1 .. Len(tx) : tx'[k] = tx[j]
    BY <1>0, <2>3, <2>4, TakenInOrder
  <2>6. \A k \in 1 .. Len(tx') : tx'[k].kind = "cmd" => tx'[k].id # tx[1].id
    <3> SUFFICES ASSUME NEW k \in 1 .. Len(tx'), tx'[k].kind = "cmd"
                 PROVE  tx'[k].id # tx[1].id
      OBVIOUS
    <3>1. k + 1 \in 1 .. Len(tx) /\ 1 < k + 1 /\ tx'[k] = tx[k + 1]
      BY <2>3, LineTypes
    <3>2. tx[1].id < tx[k + 1].id
      BY <1>1, <2>1, <3>1 DEF WrittenInOrder
    <3> QED BY <1>1, <2>1, <3>1, <3>2, LineTypes
  <2>7. Answered(l) /\ l.kind \notin {"sms", "smspdu"}
    BY <1>1, <2>1, <2>2, <2>6 DEF Answered
  <2>8. Says(1)
    BY <1>0, <2>2, <2>5, <2>7, OneSaid
  <2>9. PduKnown'
    <3>1. \A i : Unsent(i, tx, answer) => Unsent(i, tx', answer')
      BY <2>1, <2>5 DEF Unsent
    <3> QED BY <1>0, <2>1, <3>1 DEF PduKnown
  <2> QED BY <2>5, <2>8, <2>9, SaysAnswers
<1>6. CASE ModemUrc
  <2>1. UNCHANGED <<tx, answer>>
    BY <1>6 DEF ModemUrc
  <2>2. (\E l \in Line : Emit(<<l>>) /\ l.ans = 0)
        \/ (\E l, m \in Line : Emit(<<l, m>>) /\ l.ans = 0 /\ m.ans = 0)
    <3>1. ASSUME NEW kind \in LineKinds, NEW p \in AllPrefixes, NEW k \in Nat
          PROVE  /\ NewLine(kind, p, 0, k) \in Line
                 /\ NewLine(kind, p, 0, k).ans = 0
      BY <1>0 DEF NewLine, Line
    <3>2. "text" \in LineKinds /\ "sms" \in LineKinds /\ "smspdu" \in LineKinds
          /\ "error" \in LineKinds /\ Other \in AllPrefixes
          /\ ResponsePrefixes \cup {Digit, Other} \subseteq AllPrefixes
      BY DEF LineKinds, AllPrefixes
    <3>3. CASE \E p \in ResponsePrefixes \cup {Digit, Other} :
                 Emit(<<NewLine("text", p, 0, 1)>>)
      BY <3>1, <3>2, <3>3
    <3>4. CASE Emit(<<NewLine("sms", Other, 0, 1), NewLine("smspdu", Other, 0, 2)>>)
      BY <3>1, <3>2, <3>4
    <3>5. CASE Emit(<<NewLine("error", Other, 0, 1)>>)
      BY <3>1, <3>2, <3>5
    <3> QED BY <1>6, <3>3, <3>4, <3>5 DEF ModemUrc
  <2>3. \E d \in {1, 2} : Says(d)
    BY <1>0, <1>2, <2>1, <2>2, OneSaid, TwoSaid
  <2> QED BY <1>2, <1>3, <2>1, <2>3, SaysAnswers
<1> QED BY <1>4, <1>5, <1>6


(* What is left when one element is removed.                                *)
LEMMA RemovedRest ==
  ASSUME NEW S, NEW s \in Seq(S), NEW k \in 1 .. Len(s)
  PROVE  /\ Len(RemoveAt(s, k)) = Len(s) - 1
         /\ \A j \in 1 .. Len(RemoveAt(s, k)) :
              RemoveAt(s, k)[j] = s[IF j < k THEN j ELSE j + 1]
<1> DEFINE a == SubSeq(s, 1, k - 1)
           b == SubSeq(s, k + 1, Len(s))
<1>0. Len(s) \in Nat
  OBVIOUS
<1>1. /\ a \in Seq(S) /\ Len(a) = k - 1
      /\ \A j \in 1 .. k - 1 : a[j] = s[j]
  BY <1>0
<1>2. /\ b \in Seq(S) /\ Len(b) = Len(s) - k
      /\ \A j \in 1 .. Len(s) - k : b[j] = s[j + k]
  BY <1>0
<1> HIDE DEF a, b
<1>3. RemoveAt(s, k) = a \o b
  BY DEF RemoveAt, a, b
<1>4. /\ Len(a \o b) = Len(s) - 1
      /\ \A j \in 1 .. k - 1 : (a \o b)[j] = a[j]
      /\ \A j \in 1 .. Len(s) - k : (a \o b)[(k - 1) + j] = b[j]
  <2>1. Len(a) + Len(b) = Len(s) - 1
    BY <1>0, <1>1, <1>2
  <2>2. a \in Seq(S) /\ b \in Seq(S)
    BY <1>1, <1>2
  <2>3. \A j \in 1 .. Len(a) : (a \o b)[j] = a[j]
    BY <2>2
  <2>4. \A j \in 1 .. Len(b) : (a \o b)[Len(a) + j] = b[j]
    BY <2>2
  <2>5. Len(a \o b) = Len(a) + Len(b)
    BY <2>2
  <2> QED BY <1>1, <1>2, <2>1, <2>3, <2>4, <2>5
<1>5. ASSUME NEW j \in 1 .. Len(s) - 1, ~(j < k)
      PROVE  (a \o b)[j] = s[j + 1]
  <2>1. j - (k - 1) \in 1 .. Len(s) - k
    BY <1>0, <1>5
  <2>2. PICK i \in 1 .. Len(s) - k : i = j - (k - 1)
    BY <2>1
  <2>3. j = (k - 1) + i /\ j + 1 = i + k
    BY <1>0, <2>2
  <2> QED BY <1>2, <1>4, <2>3
<1> QED BY <1>0, <1>1, <1>3, <1>4, <1>5

(* The modem takes a PDU: one that comes behind the last command is not     *)
(* that of a command which has still to send its own.                       *)
LEMMA PduAnswers ==
  ASSUME Known, Known', Answers, ModemPdu
  PROVE  Answers'
<1> USE DEF Answers
<1>1. PICK k \in {1, 2} : /\ k <= Len(tx) /\ tx[k].kind = "pdu"
                          /\ tx' = RemoveAt(tx, k)
                          /\ answer' = [answer EXCEPT !.pdu = (k = 2)]
  BY DEF ModemPdu
<1>2. /\ UNCHANGED <<channelVars, pendingVars, threadVars, readerVars,
                     countVars, history, rx>>
      /\ tx \in Seq(Written) /\ Len(tx) \in Nat
      /\ answer \in [n : Nat, pdu : BOOLEAN]
  BY LineTypes DEF ModemPdu, Known, TypeOK, ModemType
<1>3. answer'.pdu = (k = 2)
  BY <1>1, <1>2
<1>4. /\ Len(tx') = Len(tx) - 1
      /\ \A j \in 1 .. Len(tx') : tx'[j] = tx[IF j < k THEN j ELSE j + 1]
  <2>1. k \in 1 .. Len(tx)
    BY <1>1, <1>2
  <2> QED BY <1>1, <1>2, <2>1, RemovedRest
<1>5. /\ WrittenInOrder'
      /\ \A j \in 1 .. Len(tx') : \E i \in 1 .. Len(tx) : tx'[j] = tx[i]
  BY <1>1, <1>2, <1>4, TakenInOrder
<1>6. Says(0)
  <2>1. Len(history) \in Nat /\ Len(rx) \in Nat
    BY DEF Known, TypeOK, ModemType
  <2> QED BY <1>2, <1>5, <2>1 DEF Says
<1>7. ASSUME Unsent(writes, tx, answer) PROVE Unsent(writes, tx', answer')
  <2>1. \A j \in 1 .. Len(tx') : tx'[j].kind = "pdu" => tx'[j].id # writes
    BY <1>5, <1>7 DEF Unsent
  <2>2. CASE k = 1
    <3>1. (k = 2) = FALSE
      BY <2>2
    <3>2. answer'.pdu = FALSE
      BY <1>3, <3>1, Zenon
    <3> QED BY <2>1, <3>2 DEF Unsent
  <2>3. CASE k = 2
    <3>1. 1 \in 1 .. Len(tx) /\ 2 \in 1 .. Len(tx) /\ 1 \in 1 .. Len(tx')
      BY <1>1, <1>2, <1>4, <2>3
    <3>2. tx'[1] = tx[1]
      BY <1>4, <2>3, <3>1
    <3>3. tx[2].id # writes /\ tx[2].id <= writes /\ tx[1].id <= tx[2].id
      BY <1>1, <1>7, <2>3, <3>1 DEF Unsent, WrittenInOrder
    <3>4. tx'[1].id # writes
      BY <3>1, <3>2, <3>3, LineTypes
    <3> QED BY <2>1, <3>4 DEF Unsent
  <2> QED BY <2>2, <2>3
<1>8. PduKnown'
  <2>1. s_smsPDU # NULL => s_smsPDU = writes
    BY SomeoneWaits DEF PduKnown
  <2>2. \A t \in Threads : pc[t] = "arm" => id[t] = writes
    BY DEF Known, CallersKnown, CallersKept
  <2>3. tx' = << >> => ~answer'.pdu
    <3>1. k = 2 => Len(tx') # 0
      BY <1>1, <1>2, <1>4
    <3> QED BY <1>3, <3>1
  <2> QED BY <1>2, <1>7, <2>1, <2>2, <2>3 DEF PduKnown
<1> QED BY <1>5, <1>6, <1>8, SaysAnswers

-----------------------------------------------------------------------------
(***************************************************************************)
(* The theorems.                                                           *)
(***************************************************************************)
(* Nothing happens, or the device goes away.                                *)
LEMMA NothingQuiet ==
  ASSUME Known, Answers,
         UNCHANGED <<channelVars, pendingVars, threadVars, readerVars, rx, tx,
                     answer, history, countVars>>
  PROVE  Quiet
<1> USE DEF Answers
<1>1. timeouts' >= timeouts
  BY QuietTypes
<1>2. Open => Open'
  BY DEF Open
<1>3. \A u \in Threads : pc[u] = "timedout" => timeouts > 0
  BY DEF CallersKept
<1>4. \A u \in Threads : out[u] # NULL /\ err[u] = "OK" =>
        pc[u] \in {"drain", "unlock", "idle", "closing"}
  BY DEF HandedOut
<1> QED BY <1>1, <1>2, <1>3, <1>4, QuietFrame DEF Quiet

LEMMA InitAnswers ==
  ASSUME Init
  PROVE  Answers
<1>1. /\ pc = [t \in Threads |-> "idle"] /\ id = [t \in Threads |-> 0]
      /\ out = [t \in Threads |-> NULL] /\ s_readerClosed = FALSE
      /\ s_smsPDU = NULL /\ answer.pdu = FALSE /\ writes = 0
      /\ tx = << >> /\ history = << >>
  BY DEF Init
<1>2. Len(tx) = 0 /\ Len(history) = 0
  BY <1>1
<1>3. \A t \in Threads : pc[t] \notin Asking /\ pc[t] \notin Published
        /\ pc[t] # "arm" /\ pc[t] # "timedout" /\ out[t] = NULL
  BY <1>1 DEF Asking, Published
<1>4. CallersKept
  BY <1>1, <1>3, ConstantsAssumption DEF CallersKept, ConstantsAssumption
<1>5. WrittenInOrder /\ AnswersEnd /\ Together
  BY <1>2 DEF WrittenInOrder, AnswersEnd, Together
<1>6. RequestKnown /\ PduKnown /\ Collected /\ HandedOut
  BY <1>1, <1>3 DEF RequestKnown, PduKnown, Collected, HandedOut
<1> QED BY <1>4, <1>5, <1>6 DEF Answers

LEMMA StepAnswers ==
  ASSUME Known, Known', Sole, Answers, [Next]_vars
  PROVE  Answers'
<1>1. CASE \E t \in Threads : Thread(t)
  <2>1. PICK t \in Threads : Thread(t)
    BY <1>1
  <2>2. CASE writeline(t)
    BY <2>2, WriteAnswers
  <2>3. CASE Arm(t)
    BY <2>3, ArmAnswers
  <2>4. CASE TakeResponse(t)
    BY <2>4, TakeAnswers
  <2>5. CASE at_open(t) \/ at_close(t) \/ Call(t)
    BY <2>5, OutsideQuiet, QuietAnswers
  <2>6. CASE Lock(t) \/ CommandPending(t) \/ WriteFails(t) \/ HandshakePause(t)
             \/ Return(t)
    BY <2>6, ApartQuiet, QuietAnswers
  <2>7. CASE Wait(t) \/ NullDereference(t) \/ SpuriousWakeup(t) \/ Timeout(t)
             \/ Relock(t) \/ GiveUp(t)
    BY <2>7, WaitQuiet, QuietAnswers
  <2>8. CASE CloseReader(t)
    BY <2>8, CloseQuiet, QuietAnswers
  <2> QED BY <2>1, <2>2, <2>3, <2>4, <2>5, <2>6, <2>7, <2>8 DEF Thread, InCall
<1>2. CASE readerLoop
  <2>1. CASE TakeBuffered \/ ReadData
    BY <2>1, TakeQuiet, QuietAnswers
  <2>2. CASE EnterRead \/ ReadEof \/ onReaderClosed
    BY <2>2, PauseQuiet, QuietAnswers
  <2>3. CASE handleFinalResponse
    BY <2>3, FinalAnswers
  <2>4. CASE writeCtrlZ
    BY <2>4, CtrlZAnswers
  <2>5. CASE addIntermediate
    BY <2>5, IntermediateAnswers
  <2>6. CASE handleUnsolicited
    BY <2>6, UnsolicitedAnswers, UnsolicitedQuiet, QuietAnswers
  <2> QED BY <1>2, <2>1, <2>2, <2>3, <2>4, <2>5, <2>6 DEF readerLoop, processLine
<1>3. CASE Modem
  <2>1. CASE ModemText \/ ModemPrompt \/ ModemFinal \/ ModemUrc
    BY <2>1, SpeakAnswers
  <2>2. CASE ModemPdu
    BY <2>2, PduAnswers
  <2>3. CASE ModemHangUp
    BY <2>3, NothingQuiet, QuietAnswers DEF ModemHangUp
  <2> QED BY <1>3, <2>1, <2>2, <2>3 DEF Modem
<1>4. CASE Quiescent \/ UNCHANGED vars
  BY <1>4, NothingQuiet, QuietAnswers DEF Quiescent
<1> QED BY <1>1, <1>2, <1>3, <1>4 DEF Next


(* With one command thread the invariant always holds.                      *)
LEMMA AnswersKept ==
  ASSUME \A a, b \in Commanders : a = b
  PROVE  Spec => [](Known /\ Answers)
<1>0. Sole
  BY DEF Sole
<1>1. Init => Answers
  BY InitAnswers
<1>2. Known /\ Known' /\ Answers /\ [Next]_vars => Answers'
  BY <1>0, StepAnswers
<1>3. TypeOK /\ MutexExclusive /\ CallersKnown /\ ResponseOwned /\ Flow <=> Known
  BY DEF Known
<1>4. Spec => []Known
  BY <1>3, TypeCorrect, MutexCorrect, SoleCommanderKept, FlowCorrect, PTL
<1> QED BY <1>1, <1>2, <1>4, PTL DEF Spec

(* With one command thread, a call of at_send_command* that succeeds        *)
(* returns the answer to its own command, as long as no handshake timed out *)
(* and no final response came unsolicited: the modem's final response to    *)
(* it, every line of a multi-line answer in order, the first line of a      *)
(* single-line one.  No interleaving of reader, closer and hang-up, and no  *)
(* unsolicited line in between, puts a foreign or an incomplete answer into *)
(* the caller's hands.                                                      *)
THEOREM AnswersAreOwn ==
  ASSUME \A a, b \in Commanders : a = b
  PROVE  Spec => []AnswerFaithful
<1>1. Known /\ Answers => AnswerFaithful
  <2> SUFFICES ASSUME Known, Answers, InStep, NEW t \in Threads,
                      pc[t] = "idle", err[t] = "OK", out[t] # NULL
               PROVE  /\ out[t].finalResponse.ans = id[t]
                      /\ out[t].success = (out[t].finalResponse.kind = "ok")
                      /\ Faithful(out[t].p_intermediates, history, id[t],
                                  req[t], Len(history))
    BY DEF AnswerFaithful
  <2>1. HandedOut
    BY DEF Answers
  <2> QED BY <2>1 DEF HandedOut, FinalAmong
<1> QED BY <1>1, AnswersKept, PTL

(* What writeCtrlZ sends.                                                   *)
LEMMA CtrlZOnce ==
  ASSUME Known, Answers, writeCtrlZ, tx' # tx, InStep
  PROVE  LET p == tx'[Len(tx')]
         IN /\ p.id = sp_response.id /\ p.id = rline.ans
            /\ ~(Answering /\ Head(tx).id = p.id /\ answer.pdu)
            /\ \A i \in 1 .. Len(tx) : tx[i].kind = "pdu" => tx[i].id # p.id
<1> DEFINE w == [kind |-> "pdu", id |-> s_smsPDU,
                 req |-> [api |-> "sms", prefix |-> AnyPrefix, out |-> FALSE]]
<1>1. /\ Processing /\ sp_response # NULL /\ s_smsPDU # NULL
      /\ rline.kind = "prompt" /\ tx' = Append(tx, w)
  BY DEF writeCtrlZ, IsPrompt
<1>2. tx'[Len(tx')] = w
  BY <1>1, LineTypes
<1>3. PICK t \in Threads :
        pc[t] \in Published /\ sp_response.id = id[t] /\ id[t] = writes
  BY <1>1, SomeoneWaits
<1>4. s_smsPDU = sp_response.id /\ Unsent(s_smsPDU, tx, answer)
  BY <1>1 DEF Answers, PduKnown
<1>5. rline.ans = writes
  <2>1. /\ Done + 1 \in 1 .. Len(history) /\ rline = history[Done + 1]
        /\ Done + 1 > Done
    BY <1>1, ProcessDone, DoneType
  <2>2. rline.ans # 0
    BY <1>1, <2>1 DEF Known, Flow, HistoryKnown
  <2>3. Alive
    BY <1>3 DEF Alive, Asking
  <2> QED BY <2>1, <2>2, <2>3 DEF Answers, Together
<1>6. ~(Answering /\ Head(tx).id = s_smsPDU /\ answer.pdu)
  BY <1>4, LineTypes DEF Answering, Unsent
<1>7. w.id = s_smsPDU
  OBVIOUS
<1> HIDE DEF w
<1> QED BY <1>2, <1>3, <1>4, <1>5, <1>6, <1>7 DEF Unsent

(* With one command thread, writeCtrlZ sends the PDU of an SMS at most      *)
(* once, and only in reply to the prompt of the same command, under the     *)
(* same condition.                                                          *)
THEOREM SmsSentOnce ==
  ASSUME \A a, b \in Commanders : a = b
  PROVE  Spec => PduOnce
<1>1. Known /\ Answers /\ [Next]_vars =>
        [ (Len(tx') > Len(tx) /\ tx'[Len(tx')].kind = "pdu" /\ InStep)
          => LET p == tx'[Len(tx')]
             IN /\ p.id = sp_response.id /\ p.id = rline.ans
                /\ ~(Answering /\ Head(tx).id = p.id /\ answer.pdu)
                /\ \A i \in 1 .. Len(tx) : tx[i].kind = "pdu" => tx[i].id # p.id
        ]_vars
  <2> SUFFICES ASSUME Known, Answers, [Next]_vars, Len(tx') > Len(tx),
                      tx'[Len(tx')].kind = "pdu", InStep
               PROVE  LET p == tx'[Len(tx')]
                      IN /\ p.id = sp_response.id /\ p.id = rline.ans
                         /\ ~(Answering /\ Head(tx).id = p.id /\ answer.pdu)
                         /\ \A i \in 1 .. Len(tx) :
                              tx[i].kind = "pdu" => tx[i].id # p.id
    OBVIOUS
  <2>0. tx' # tx
    BY LineTypes
  <2>1. ASSUME NEW t \in Threads, Thread(t) PROVE FALSE
    <3>1. CASE writeline(t)
      <4>1. PICK w : tx' = Append(tx, w) /\ w.kind = "cmd"
        BY <3>1 DEF writeline
      <4>2. tx'[Len(tx')] = w
        BY <4>1, LineTypes
      <4> QED BY <4>1, <4>2
    <3>2. CASE ~writeline(t)
      <4>1. UNCHANGED tx
        BY <2>1, <3>2 DEF Thread, InCall, at_open, at_close, Call, CloseReader,
             Lock, CommandPending, WriteFails, Arm, Wait, NullDereference,
             Relock, GiveUp, TakeResponse, HandshakePause, Return,
             SpuriousWakeup, Timeout
      <4> QED BY <2>0, <4>1
    <3> QED BY <3>1, <3>2
  <2>2. CASE readerLoop
    <3>1. CASE writeCtrlZ
      BY <2>0, <3>1, CtrlZOnce
    <3>2. CASE ~writeCtrlZ
      <4>1. UNCHANGED tx
        BY <2>2, <3>2 DEF readerLoop, processLine, TakeBuffered, EnterRead,
             ReadData, ReadEof, onReaderClosed, handleFinalResponse,
             addIntermediate, handleUnsolicited
      <4> QED BY <2>0, <4>1
    <3> QED BY <3>1, <3>2
  <2>3. ~Modem
    <3> SUFFICES ASSUME Modem PROVE FALSE
      OBVIOUS
    <3>1. CASE ModemPdu
      <4>1. PICK k \in {1, 2} : k <= Len(tx) /\ tx' = RemoveAt(tx, k)
        BY <3>1 DEF ModemPdu
      <4>2. k \in 1 .. Len(tx)
        BY <4>1, LineTypes
      <4>3. Len(tx') = Len(tx) - 1
        BY <4>1, <4>2, LineTypes, RemovedRest
      <4> QED BY <4>3, LineTypes
    <3>2. CASE ModemFinal
      <4>1. tx # << >> /\ tx' = Tail(tx)
        BY <3>2 DEF ModemFinal, Answering
      <4>2. Len(tx') = Len(tx) - 1
        BY <4>1, LineTypes
      <4> QED BY <4>2, LineTypes
    <3>3. CASE ModemText \/ ModemPrompt \/ ModemUrc \/ ModemHangUp
      BY <2>0, <3>3 DEF ModemText, ModemPrompt, ModemUrc, ModemHangUp
    <3> QED BY <3>1, <3>2, <3>3 DEF Modem
  <2>4. ~Quiescent /\ ~UNCHANGED vars
    BY <2>0 DEF Quiescent
  <2> QED BY <2>1, <2>2, <2>3, <2>4 DEF Next
<1> QED BY <1>1, AnswersKept, PTL DEF Spec, PduOnce

=============================================================================
