-------------------------- MODULE WifiConfigProofs --------------------------
(***************************************************************************)
(* Theorems about WifiConfig and WpaCtrl, for every set of sessions, every *)
(* size of the supplicant's queue and any number of refused commands.      *)
(***************************************************************************)
EXTENDS WifiConfig, TLAPS

USE DEF vars, ctrlVars, sockVars, callVars, halVars

-----------------------------------------------------------------------------
(***************************************************************************)
(* Types.                                                                  *)
(***************************************************************************)
Functions == {"connect_ap", "create_ap", "join_mesh", "trigger_scan",
              "scan_results"}
Checks == {"ret", "minus", "ok", "okret", "buf", "none"}

(* A table of commands: the mesh connection is opened by the first one of   *)
(* join_mesh, and only join_mesh uses it.                                   *)
Table(f, T) ==
  /\ Len(T) \in Nat \ {0} /\ DOMAIN T = 1 .. Len(T)
  /\ \A k \in 1 .. Len(T) :
       /\ T[k].sock \in Sockets \ {"monitor"}
       /\ T[k].check \in Checks
       /\ T[k].verb \in AllVerbs \/ (T[k].verb = "wpa_mesh_attach"
                                     /\ f = "join_mesh" /\ k = 1)

CallType ==
  [at : {"idle", "send", "select", "done"}, sock : Sockets,
   verb : AllVerbs \cup {""}, id : Int, started : BOOLEAN]

(* A datagram in the socket of a connection.                                *)
Inbound == [word : Words, to : Nat, id : 0 .. 1]

BufType == {Nothing} \cup [word : Words, kept : Nat, id : 0 .. 1]

(* The types the proofs need beyond TypeOK.                                 *)
SocketTypes ==
  /\ handle \in [Sockets -> {"NULL", "open", "freed"}]
  /\ local \in [Sockets -> Nat] /\ counter \in Nat
  /\ files \subseteq [n : Nat, ours : BOOLEAN]

QueueTypes ==
  /\ alive \in BOOLEAN
  /\ inq \in Seq(Command) /\ Len(inq) <= QueueLimit
  /\ inbox \in [Sockets -> Seq(Inbound)]
  /\ sent \in [Sockets -> Nat] /\ taken \in [Sockets -> Nat]

CallTypes ==
  /\ call \in CallType /\ (call.at # "idle" => call.verb \in AllVerbs)
  /\ ret \in {0, -1, -2}
  /\ buf \in BufType /\ (buf # Nothing => buf.kept <= SizeOf[buf.word])
  /\ len \in Nat /\ len < RESP_BUFFER_SIZE

HalTypes ==
  /\ pc \in {"ctrl", "monitor", "attach", "attaching", "next", "asking",
             "closeCtrl"} \cup Ended
  /\ todo \in Seq(Functions)
  /\ step \in Nat \ {0}
  /\ todo # << >> => step <= Len(Steps)
  /\ pc = "asking" => todo # << >>
  /\ nw_id \in -1 .. 1

NetworkTypes == DOMAIN networks \subseteq 0 .. 1

Types == SocketTypes /\ QueueTypes /\ CallTypes /\ HalTypes /\ NetworkTypes

-----------------------------------------------------------------------------
LEMMA Operations ==
  /\ DOMAIN wifi_hal_ops = Functions
  /\ \A f \in Functions : Table(f, wifi_hal_ops[f])
<1> USE DEF Table, Cmd, Sockets, Checks, AllVerbs, Params
<1>0. DOMAIN wifi_hal_ops = Functions
  BY DEF wifi_hal_ops, Functions
<1>1. Table("connect_ap", wifi_hal_connect_ap)
  BY DEF wifi_hal_connect_ap
<1>2. Table("create_ap", wifi_hal_create_ap)
  BY DEF wifi_hal_create_ap
<1>3. Table("join_mesh", wifi_hal_join_mesh)
  BY DEF wifi_hal_join_mesh
<1>4. Table("trigger_scan", wifi_hal_trigger_scan)
  BY DEF wifi_hal_trigger_scan
<1>5. Table("scan_results", wifi_hal_get_scan_results)
  BY DEF wifi_hal_get_scan_results
<1>6. /\ wifi_hal_ops["connect_ap"] = wifi_hal_connect_ap
      /\ wifi_hal_ops["create_ap"] = wifi_hal_create_ap
      /\ wifi_hal_ops["join_mesh"] = wifi_hal_join_mesh
      /\ wifi_hal_ops["trigger_scan"] = wifi_hal_trigger_scan
      /\ wifi_hal_ops["scan_results"] = wifi_hal_get_scan_results
  BY DEF wifi_hal_ops
<1> HIDE DEF Table
<1> QED BY <1>0, <1>1, <1>2, <1>3, <1>4, <1>5, <1>6 DEF Functions

(* recv keeps as much of a datagram as the buffer holds.                    *)
LEMMA ReceivedType ==
  ASSUME len \in Nat, NEW m \in Inbound
  PROVE  /\ Received(m) \in [word : Words, kept : Nat, id : 0 .. 1]
         /\ Received(m).kept <= len
         /\ Received(m).kept <= SizeOf[m.word]
         /\ Received(m).word = m.word
<1>1. SizeOf[m.word] \in Nat
  BY DEF Words, SizeOf, Inbound
<1>2. Min({SizeOf[m.word], len}) \in {SizeOf[m.word], len}
      /\ Min({SizeOf[m.word], len}) <= SizeOf[m.word]
      /\ Min({SizeOf[m.word], len}) <= len
  <2> DEFINE S == {SizeOf[m.word], len}
  <2>1. \E x \in S : \A y \in S : x <= y
    <3>1. CASE SizeOf[m.word] <= len
      BY <1>1, <3>1
    <3>2. CASE ~(SizeOf[m.word] <= len)
      BY <1>1, <3>2
    <3> QED BY <3>1, <3>2
  <2>2. Min(S) \in S /\ \A y \in S : Min(S) <= y
    BY <2>1 DEF Min
  <2> QED BY <2>2
<1> QED BY <1>1, <1>2 DEF Received, Inbound

(* The function that is called has a command to send.                       *)
LEMMA NowType ==
  ASSUME HalTypes, todo # << >>
  PROVE  /\ Head(todo) \in Functions /\ Tail(todo) \in Seq(Functions)
         /\ Table(Head(todo), Steps) /\ Len(Steps) \in Nat
         /\ step \in 1 .. Len(Steps)
         /\ Now.sock \in Sockets \ {"monitor"} /\ Now.check \in Checks
         /\ \/ Now.verb \in AllVerbs
            \/ Now.verb = "wpa_mesh_attach" /\ Head(todo) = "join_mesh"
               /\ step = 1
<1>1. Head(todo) \in Functions /\ Tail(todo) \in Seq(Functions)
  BY DEF HalTypes
<1>2. Table(Head(todo), Steps)
  BY <1>1, Operations DEF Steps
<1>3. step \in 1 .. Len(Steps) /\ Len(Steps) \in Nat
  BY <1>2 DEF Table, HalTypes
<1> QED BY <1>1, <1>2, <1>3 DEF Table, Now

(* The function goes on to its next command, or ends.                       *)
LEMMA AfterType ==
  ASSUME HalTypes, todo # << >>, NEW v, After(v)
  PROVE  /\ todo' \in Seq(Functions) /\ step' \in Nat \ {0}
         /\ todo' # << >> => step' <= Len(Steps')
<1>1. /\ Head(todo) \in Functions /\ Tail(todo) \in Seq(Functions)
      /\ Len(Steps) \in Nat /\ step \in 1 .. Len(Steps)
  BY NowType
<1>2. CASE v <= 0 \/ step = Len(Steps)
  <2>1. step' = 1 /\ todo' = Tail(todo)
    BY <1>2 DEF After
  <2>2. ASSUME todo' # << >> PROVE 1 <= Len(Steps')
    <3>1. Head(todo') \in Functions
      BY <1>1, <2>1, <2>2
    <3>2. Table(Head(todo'), wifi_hal_ops[Head(todo')])
      BY <3>1, Operations
    <3> QED BY <3>2 DEF Table, Steps
  <2> QED BY <1>1, <2>1, <2>2
<1>3. CASE ~(v <= 0 \/ step = Len(Steps))
  <2>1. step' = step + 1 /\ todo' = todo
    BY <1>3 DEF After
  <2>2. Steps' = Steps
    BY <2>1 DEF Steps
  <2> QED BY <1>1, <1>3, <2>1, <2>2 DEF HalTypes
<1> QED BY <1>2, <1>3

LEMMA TypesInit == Init => Types
<1> SUFFICES ASSUME Init PROVE Types
  OBVIOUS
<1> USE DEF Init, WpaInit
<1>1. SocketTypes
  <2>1. files \in {{}, {[n |-> 1, ours |-> FALSE]}}
    OBVIOUS
  <2>2. [n |-> 1, ours |-> FALSE] \in [n : Nat, ours : BOOLEAN]
    BY ONLY 1 \in Nat
  <2>3. files \subseteq [n : Nat, ours : BOOLEAN]
    BY <2>1, <2>2, Zenon
  <2> QED BY <2>3 DEF SocketTypes
<1>2. QueueTypes
  <2>1. inq \in Seq(Command) /\ Len(inq) <= QueueLimit
    BY WpaAssumption DEF WpaAssumption
  <2>2. inbox \in [Sockets -> Seq(Inbound)]
    OBVIOUS
  <2> QED BY <2>1, <2>2 DEF QueueTypes
<1>3. CallTypes
  <2>1. call \in CallType /\ call.at = "idle"
    <3>1. call = NoCall
      OBVIOUS
    <3>2. NoCall \in CallType /\ NoCall.at = "idle"
      BY ONLY DEF CallType, NoCall, Sockets
    <3> QED BY <3>1, <3>2
  <2>2. buf \in BufType /\ buf = Nothing
    BY DEF BufType
  <2>3. len \in Nat /\ len < RESP_BUFFER_SIZE
    BY DEF RESP_BUFFER_SIZE
  <2> QED BY <2>1, <2>2, <2>3 DEF CallTypes
<1>4. HalTypes
  <2>1. todo \in Seq(Functions)
    BY SessionAssumption, Operations DEF SessionAssumption
  <2>2. ASSUME todo # << >> PROVE 1 <= Len(Steps)
    <3>1. Head(todo) \in Functions
      BY <2>1, <2>2
    <3> QED BY <3>1, Operations DEF Table, Steps
  <2> QED BY <2>1, <2>2 DEF HalTypes
<1>5. NetworkTypes
  <2>1. PICK d \in {{}, {0}} : networks = [i \in d |-> Stale]
    OBVIOUS
  <2> QED BY <2>1 DEF NetworkTypes
<1> QED BY <1>1, <1>2, <1>3, <1>4, <1>5 DEF Types

LEMMA SocketTypesStep ==
  ASSUME Types, Next
  PROVE  SocketTypes'
<1> USE DEF SocketTypes
<1>0. SocketTypes
  BY DEF Types
<1>1. ASSUME UNCHANGED sockVars PROVE SocketTypes'
  BY <1>0, <1>1
<1>2. ASSUME NEW s \in Sockets, wpa_ctrl_open2(s) PROVE SocketTypes'
  <2>1. counter + 1 \in Nat /\ counter' = counter + 1
    BY <1>0, <1>2 DEF wpa_ctrl_open2
  <2>2. handle' \in [Sockets -> {"NULL", "open", "freed"}]
    BY <1>0, <1>2 DEF wpa_ctrl_open2
  <2>3. local' \in [Sockets -> Nat]
    BY <1>0, <1>2, <2>1 DEF wpa_ctrl_open2
  <2>4. files' \subseteq [n : Nat, ours : BOOLEAN]
    <3>1. File(counter + 1) \in [n : Nat, ours : BOOLEAN]
      BY <2>1 DEF File
    <3>2. \/ files' = Others(counter + 1) \cup {File(counter + 1)}
          \/ files' = Others(counter + 1) \/ files' = files
      BY <1>2 DEF wpa_ctrl_open2, ConnectFails
    <3> QED BY <1>0, <3>1, <3>2 DEF Others
  <2> QED BY <2>1, <2>2, <2>3, <2>4
<1>3. ASSUME NEW S, wpa_ctrl_close(S), UNCHANGED <<local, counter>>
      PROVE  SocketTypes'
  BY <1>0, <1>3 DEF wpa_ctrl_close
<1>4. CASE HalStep
  <2>1. CASE OpenCtrl \/ OpenMonitor \/ wifi_hal_wpa_mesh_attach
    BY <2>1, <1>2 DEF OpenCtrl, OpenMonitor, wifi_hal_wpa_mesh_attach, Sockets
  <2>2. CASE Attached \/ CloseCtrl \/ wifi_hal_wpa_dettach
    BY <2>2, <1>1, <1>3 DEF Attached, CloseCtrl, wifi_hal_wpa_dettach
  <2>3. CASE AttachMonitor \/ Ask \/ Answered
    BY <2>3, <1>1 DEF AttachMonitor, Ask, Answered
  <2>4. CASE wpa_ctrl_request
    BY <2>4, <1>1 DEF wpa_ctrl_request, Send, SendAgain, Receive, Timeout
  <2> QED BY <1>4, <2>1, <2>2, <2>3, <2>4 DEF HalStep
<1>5. CASE RequestFails \/ Serve \/ Die \/ Terminated
  BY <1>1, <1>5 DEF RequestFails, ReceiveFails, Serve, Die, Terminated
<1> QED BY <1>4, <1>5 DEF Next

(* A reply that is sent goes behind the datagrams of its socket.            *)
LEMMA ReplyType ==
  ASSUME QueueTypes, NetworkTypes, NEW c \in Command, NEW w \in Words,
         ReplyTo(c, w)
  PROVE  inbox' \in [Sockets -> Seq(Inbound)]
<1> DEFINE m == [word |-> w, to |-> c.n, id |-> NewId]
           e == [word |-> "EVENT", to |-> 0, id |-> 0]
<1>1. m \in Inbound
  BY DEF NewId, Command, Inbound
<1>2. e \in Inbound
  BY DEF Words, SizeOf, Inbound
<1>3. CASE inbox' = inbox
  BY <1>3 DEF QueueTypes
<1>4. CASE inbox' # inbox
  <2>1. PICK news \in {<<m>>, <<e, m>>} :
          inbox' = [inbox EXCEPT ![c.sock] = @ \o news]
    BY <1>4 DEF ReplyTo
  <2>3. inbox \in [Sockets -> Seq(Inbound)] /\ c.sock \in Sockets
    BY DEF QueueTypes, Command
  <2> HIDE DEF m, e
  <2>2. news \in Seq(Inbound)
    <3>1. <<m>> \in Seq(Inbound)
      BY <1>1
    <3>2. <<e, m>> \in Seq(Inbound)
      BY <1>1, <1>2
    <3> QED BY <2>1, <3>1, <3>2
  <2>4. inbox[c.sock] \o news \in Seq(Inbound)
    BY <2>2, <2>3
  <2> QED BY <2>1, <2>3, <2>4
<1> QED BY <1>3, <1>4

LEMMA QueueTypesStep ==
  ASSUME Types, Next
  PROVE  QueueTypes'
<1> USE DEF QueueTypes
<1>0. QueueTypes /\ SocketTypes /\ CallTypes /\ NetworkTypes
  BY DEF Types
<1>1. ASSUME UNCHANGED <<alive, inq, inbox, sent, taken>> PROVE QueueTypes'
  BY <1>0, <1>1
<1>2. ASSUME NEW s \in Sockets, wpa_ctrl_open2(s), UNCHANGED <<alive, inq>>
      PROVE  QueueTypes'
  <2>1. << >> \in Seq(Inbound) /\ inbox \in [Sockets -> Seq(Inbound)]
    BY <1>0
  <2>2. inbox' \in [Sockets -> Seq(Inbound)]
    BY <1>2, <2>1 DEF wpa_ctrl_open2
  <2>3. \/ UNCHANGED <<sent, taken>>
        \/ sent' = [sent EXCEPT ![s] = 0] /\ taken' = [taken EXCEPT ![s] = 0]
    BY <1>2 DEF wpa_ctrl_open2
  <2>4. sent' \in [Sockets -> Nat] /\ taken' \in [Sockets -> Nat]
    BY <1>0, <2>3
  <2> QED BY <1>0, <1>2, <2>2, <2>4
<1>3. ASSUME NEW S, wpa_ctrl_close(S), UNCHANGED <<alive, inq, sent, taken>>
      PROVE  QueueTypes'
  <2>1. << >> \in Seq(Inbound)
    OBVIOUS
  <2> QED BY <1>0, <1>3, <2>1 DEF wpa_ctrl_close
<1>4. CASE Send
  <2>00. call.sock \in Sockets
    BY <1>0 DEF CallTypes, CallType
  <2>0. call.sock \in Sockets /\ sent[call.sock] + 1 \in Nat
    BY <1>0, <2>00
  <2>1. CASE UNCHANGED <<inq, sent>>
    BY <1>0, <1>4, <2>1 DEF Send
  <2>2. CASE /\ ~Full
             /\ sent' = [sent EXCEPT ![call.sock] = @ + 1]
             /\ inq' = Append(inq, [sock |-> call.sock,
                                    from |-> local[call.sock],
                                    n |-> sent[call.sock] + 1,
                                    verb |-> call.verb, id |-> call.id])
    <3>1. [sock |-> call.sock, from |-> local[call.sock],
           n |-> sent[call.sock] + 1, verb |-> call.verb, id |-> call.id]
            \in Command
      <4>1. local[call.sock] \in Nat
        BY <1>0, <2>0 DEF SocketTypes
      <4>2. call.verb \in Verbs /\ call.id \in Int
        BY <1>0, <1>4, SessionAssumption
           DEF SessionAssumption, CallTypes, CallType, Send
      <4> QED BY <2>0, <4>1, <4>2 DEF Command
    <3>2. inq' \in Seq(Command) /\ Len(inq') = Len(inq) + 1
      BY <1>0, <2>2, <3>1
    <3>3. Len(inq') <= QueueLimit
      <4>1. Len(inq) \in Nat /\ Len(inq) <= QueueLimit /\ Len(inq) # QueueLimit
        BY <1>0, <2>2 DEF Full
      <4> QED BY <3>2, <4>1, WpaAssumption DEF WpaAssumption
    <3>4. sent' \in [Sockets -> Nat]
      BY <1>0, <2>0, <2>2
    <3> QED BY <1>0, <1>4, <3>2, <3>3, <3>4 DEF Send
  <2> QED BY <1>4, <2>1, <2>2 DEF Send
<1>5. CASE Receive
  <2>1. /\ call.sock \in Sockets /\ inbox[call.sock] \in Seq(Inbound)
        /\ inbox[call.sock] # << >>
    BY <1>0, <1>5 DEF CallTypes, CallType, Receive
  <2>2. Tail(inbox[call.sock]) \in Seq(Inbound) /\ Head(inbox[call.sock]) \in Inbound
    BY <2>1
  <2>3. inbox' \in [Sockets -> Seq(Inbound)]
    BY <1>0, <1>5, <2>1, <2>2 DEF Receive
  <2>4. taken' \in [Sockets -> Nat]
    <3>1. taken' = taken
          \/ taken' = [taken EXCEPT ![call.sock] = Head(inbox[call.sock]).to]
      BY <1>5 DEF Receive
    <3>2. Head(inbox[call.sock]).to \in Nat
      BY <2>2 DEF Inbound
    <3> QED BY <1>0, <2>1, <3>1, <3>2
  <2> QED BY <1>0, <1>5, <2>3, <2>4 DEF Receive
<1>6. CASE Serve
  <2>1. Head(inq) \in Command /\ Tail(inq) \in Seq(Command)
        /\ Len(Tail(inq)) = Len(inq) - 1
    BY <1>0, <1>6 DEF Serve
  <2>2. WordFor(Head(inq)) \in Words /\ "FAIL" \in Words
    BY DEF WordFor, Words, SizeOf
  <2>3. inbox' \in [Sockets -> Seq(Inbound)]
    BY <1>0, <1>6, <2>1, <2>2, ReplyType DEF Serve
  <2>4. Len(Tail(inq)) <= QueueLimit
    BY <1>0, <2>1, WpaAssumption DEF WpaAssumption
  <2> QED BY <1>0, <1>6, <2>1, <2>3, <2>4 DEF Serve
<1>7. CASE Die
  <2>1. << >> \in Seq(Command) /\ Len(<< >>) <= QueueLimit
    BY WpaAssumption DEF WpaAssumption
  <2> QED BY <1>0, <1>7, <2>1 DEF Die
<1>8. CASE OpenCtrl \/ OpenMonitor \/ wifi_hal_wpa_mesh_attach
  BY <1>8, <1>2 DEF OpenCtrl, OpenMonitor, wifi_hal_wpa_mesh_attach, Sockets
<1>9. CASE Attached \/ CloseCtrl \/ wifi_hal_wpa_dettach
  BY <1>9, <1>1, <1>3 DEF Attached, CloseCtrl, wifi_hal_wpa_dettach
<1>10. CASE AttachMonitor \/ Ask \/ Answered \/ SendAgain \/ Timeout
            \/ RequestFails \/ Terminated
  BY <1>10, <1>1 DEF AttachMonitor, Ask, Answered, SendAgain, Timeout,
     RequestFails, ReceiveFails, Terminated
<1> QED BY <1>4, <1>5, <1>6, <1>7, <1>8, <1>9, <1>10
        DEF Next, HalStep, wpa_ctrl_request

LEMMA CallTypesStep ==
  ASSUME Types, Next
  PROVE  CallTypes'
<1> USE DEF CallTypes
<1>0. CallTypes /\ QueueTypes /\ HalTypes
  BY DEF Types
<1>1. ASSUME UNCHANGED <<call, ret, buf, len>> PROVE CallTypes'
  BY <1>0, <1>1
<1>2. ASSUME call' = NoCall, UNCHANGED <<ret, buf, len>> PROVE CallTypes'
  <2>1. NoCall \in CallType /\ NoCall.at = "idle"
    BY ONLY DEF CallType, NoCall, Sockets
  <2> QED BY <1>0, <1>2, <2>1
<1>3. ASSUME NEW s \in Sockets, NEW v \in AllVerbs, NEW i \in Int,
             Request(s, v, i)
      PROVE  call' \in CallType /\ (call'.at # "idle" => call'.verb \in AllVerbs)
  BY <1>3 DEF Request, CallType
<1>4. ASSUME NEW r \in {0, -1, -2}, Return(r), call.at # "idle"
      PROVE  /\ call' \in CallType /\ ret' \in {0, -1, -2}
             /\ (call'.at # "idle" => call'.verb \in AllVerbs)
  BY <1>0, <1>4 DEF Return, CallType
<1>5. CASE AttachMonitor
  <2>1. call' \in CallType /\ (call'.at # "idle" => call'.verb \in AllVerbs)
    BY <1>3, <1>5 DEF AttachMonitor, Sockets, AllVerbs
  <2>2. len' = 10 /\ buf' = Nothing /\ ret' = ret
    BY <1>5 DEF AttachMonitor
  <2>3. Nothing \in BufType /\ 10 < RESP_BUFFER_SIZE
    BY DEF BufType, RESP_BUFFER_SIZE
  <2> QED BY <1>0, <2>1, <2>2, <2>3
<1>6. CASE Ask
  <2>0. todo # << >> /\ Now.verb # "wpa_mesh_attach"
    BY <1>6 DEF Ask
  <2>1. Now.sock \in Sockets /\ Now.verb \in AllVerbs /\ nw_id \in Int
    <3>1. Now.sock \in Sockets /\ Now.verb \in AllVerbs
      BY <1>0, <2>0, NowType
    <3>2. nw_id \in Int
      BY <1>0 DEF HalTypes
    <3> QED BY <3>1, <3>2
  <2>2. call' = call \/ Request(Now.sock, Now.verb, nw_id)
    BY <1>6 DEF Ask
  <2>3. call' \in CallType /\ (call'.at # "idle" => call'.verb \in AllVerbs)
    BY <1>0, <1>3, <2>1, <2>2
  <2>4. /\ buf' \in BufType /\ (buf' # Nothing => buf'.kept <= SizeOf[buf'.word])
        /\ len' \in Nat /\ len' < RESP_BUFFER_SIZE
    <3>1. buf' = Fresh.buf /\ len' = Fresh.len
      BY <1>6 DEF Ask
    <3>2. CASE step = 1
      BY <3>1, <3>2 DEF Fresh, BufType, RESP_BUFFER_SIZE
    <3>3. CASE step # 1
      BY <1>0, <3>1, <3>3 DEF Fresh
    <3> QED BY <3>2, <3>3
  <2>5. ret' = ret
    BY <1>6 DEF Ask
  <2> QED BY <1>0, <2>3, <2>4, <2>5
<1>7. CASE wifi_hal_wpa_mesh_attach
  <2>1. buf' = Nothing /\ len' = RESP_BUFFER_SIZE - 1 /\ UNCHANGED <<call, ret>>
    BY <1>7 DEF wifi_hal_wpa_mesh_attach
  <2> QED BY <1>0, <2>1 DEF BufType, RESP_BUFFER_SIZE
<1>8. CASE Send \/ SendAgain \/ Timeout \/ RequestFails
  <2>1. UNCHANGED <<buf, len>> /\ call.at # "idle"
    BY <1>8 DEF Send, SendAgain, Timeout, RequestFails, ReceiveFails
  <2>2. \/ \E r \in {0, -1, -2} : Return(r)
        \/ call' = [call EXCEPT !.at = "select"] /\ ret' = ret
        \/ call' = [call EXCEPT !.started = TRUE] /\ ret' = ret
    BY <1>8 DEF Send, SendAgain, Timeout, RequestFails, ReceiveFails
  <2> QED BY <1>0, <1>4, <2>1, <2>2 DEF CallType
<1>9. CASE Receive
  <2> DEFINE m == Head(inbox[call.sock])
  <2>0. /\ call.sock \in Sockets /\ inbox[call.sock] \in Seq(Inbound)
        /\ inbox[call.sock] # << >>
    BY <1>0, <1>9 DEF Receive, CallType, QueueTypes
  <2>1. m \in Inbound
    <3> QED BY <2>0
  <2>2. /\ Received(m) \in [word : Words, kept : Nat, id : 0 .. 1]
        /\ Received(m).kept <= len /\ Received(m).kept <= SizeOf[m.word]
        /\ Received(m).word = m.word
    BY <1>0, <2>1, ReceivedType
  <2>3. buf' = Received(m)
    BY <1>9 DEF Receive
  <2>4. /\ buf' \in BufType /\ (buf' # Nothing => buf'.kept <= SizeOf[buf'.word])
    BY <2>2, <2>3 DEF BufType
  <2>5. CASE Unsolicited(m) /\ UNCHANGED <<call, ret, len>>
    BY <1>0, <2>4, <2>5
  <2>6. CASE len' = Received(m).kept /\ Return(0)
    <3>1. call' \in CallType /\ (call'.at # "idle" => call'.verb \in AllVerbs)
          /\ ret' \in {0, -1, -2}
      BY <1>4, <1>9, <2>6 DEF Receive
    <3>2. len' \in Nat /\ len' < RESP_BUFFER_SIZE
      BY <1>0, <2>2, <2>6 DEF RESP_BUFFER_SIZE
    <3> QED BY <2>4, <3>1, <3>2
  <2> QED BY <1>9, <2>5, <2>6 DEF Receive
<1>10. CASE Attached \/ Answered
  BY <1>2, <1>10 DEF Attached, Answered
<1>11. CASE OpenCtrl \/ OpenMonitor \/ CloseCtrl \/ wifi_hal_wpa_dettach
            \/ Serve \/ Die \/ Terminated
  BY <1>1, <1>11 DEF OpenCtrl, OpenMonitor, CloseCtrl, wifi_hal_wpa_dettach,
     Serve, Die, Terminated
<1> QED BY <1>5, <1>6, <1>7, <1>8, <1>9, <1>10, <1>11
        DEF Next, HalStep, wpa_ctrl_request

LEMMA HalTypesStep ==
  ASSUME Types, Next
  PROVE  HalTypes'
<1> USE DEF HalTypes
<1>0. HalTypes /\ CallTypes
  BY DEF Types
<1>1. ASSUME UNCHANGED <<todo, step, nw_id>>,
             pc' \in {"ctrl", "monitor", "attach", "attaching", "next",
                      "closeCtrl"} \cup Ended
      PROVE  HalTypes'
  <2>1. Steps' = Steps
    BY <1>1 DEF Steps
  <2>2. pc' # "asking"
    BY <1>1 DEF Ended
  <2> QED BY <1>0, <1>1, <2>1, <2>2
<1>2. ASSUME UNCHANGED <<todo, step, nw_id, pc>> PROVE HalTypes'
  <2>1. Steps' = Steps
    BY <1>2 DEF Steps
  <2> QED BY <1>0, <1>2, <2>1
<1>3. OpenFailed \in {"exited", "next"}
  BY DEF OpenFailed
<1>4. CASE OpenCtrl \/ OpenMonitor \/ AttachMonitor \/ Attached \/ CloseCtrl
           \/ wifi_hal_wpa_dettach
  <2>1. UNCHANGED <<todo, step, nw_id>>
    BY <1>4 DEF OpenCtrl, OpenMonitor, AttachMonitor, Attached, CloseCtrl,
       wifi_hal_wpa_dettach
  <2>2. pc' \in {"monitor", "attach", "closeCtrl", "attaching", "next",
                 "exited", "crashed"}
    BY <1>3, <1>4 DEF OpenCtrl, OpenMonitor, AttachMonitor, Attached,
       CloseCtrl, wifi_hal_wpa_dettach
  <2> QED BY <1>1, <2>1, <2>2 DEF Ended
<1>5. CASE Ask
  <2>0. todo # << >>
    BY <1>5 DEF Ask
  <2>1. nw_id' = nw_id
    BY <1>5 DEF Ask
  <2>2. CASE After(Verdict(Now.check, -1)) /\ pc' = pc
    <3>1. /\ todo' \in Seq(Functions) /\ step' \in Nat \ {0}
          /\ todo' # << >> => step' <= Len(Steps')
      BY <1>0, <2>0, <2>2, AfterType
    <3>2. pc' = "next"
      BY <1>5, <2>2 DEF Ask
    <3> QED BY <1>0, <2>1, <3>1, <3>2
  <2>3. CASE pc' \in {"asking", "crashed"} /\ UNCHANGED <<result, todo, step>>
    <3>1. Steps' = Steps
      BY <2>3 DEF Steps
    <3> QED BY <1>0, <2>0, <2>1, <2>3, <3>1 DEF Ended
  <2> QED BY <1>5, <2>2, <2>3 DEF Ask
<1>6. CASE Answered
  <2>0. todo # << >> /\ pc' = "next"
    BY <1>0, <1>6 DEF Answered
  <2>1. /\ todo' \in Seq(Functions) /\ step' \in Nat \ {0}
        /\ todo' # << >> => step' <= Len(Steps')
    BY <1>0, <1>6, <2>0, AfterType DEF Answered
  <2>2. nw_id' \in -1 .. 1
    <3>1. buf.word = "ID" => buf.id \in 0 .. 1
      BY <1>0 DEF CallTypes, BufType, Nothing
    <3>2. nw_id' = nw_id \/ nw_id' = -1 \/ (buf.word = "ID" /\ nw_id' = buf.id)
      BY <1>6 DEF Answered
    <3> QED BY <1>0, <3>1, <3>2
  <2> QED BY <2>0, <2>1, <2>2
<1>7. CASE wifi_hal_wpa_mesh_attach
  <2>0. todo # << >> /\ pc' = "next" /\ nw_id' = nw_id
    BY <1>7 DEF wifi_hal_wpa_mesh_attach
  <2>1. /\ todo' \in Seq(Functions) /\ step' \in Nat \ {0}
        /\ todo' # << >> => step' <= Len(Steps')
    BY <1>0, <1>7, <2>0, AfterType DEF wifi_hal_wpa_mesh_attach
  <2> QED BY <1>0, <2>0, <2>1
<1>8. CASE (wpa_ctrl_request /\ UNCHANGED <<halVars, networks, refused>>)
           \/ RequestFails \/ Serve \/ Die \/ Terminated
  BY <1>2, <1>8 DEF RequestFails, Serve, Die, Terminated
<1> QED BY <1>4, <1>5, <1>6, <1>7, <1>8 DEF Next, HalStep

LEMMA NetworkTypesStep ==
  ASSUME Types, Next
  PROVE  NetworkTypes'
<1> USE DEF NetworkTypes
<1>0. NetworkTypes
  BY DEF Types
<1>1. CASE UNCHANGED networks
  BY <1>0, <1>1
<1>2. CASE Serve
  <2>1. networks' = networks \/ networks' = NetworksAfter(Head(inq))
    BY <1>2 DEF Serve
  <2>2. DOMAIN NetworksAfter(Head(inq))
          \subseteq DOMAIN networks \cup {NewId}
    <3>1. DOMAIN << >> = {}
      OBVIOUS
    <3> QED BY <3>1 DEF NetworksAfter
  <2>3. NewId \in 0 .. 1
    BY DEF NewId
  <2> QED BY <1>0, <2>1, <2>2, <2>3
<1>3. CASE Next /\ ~Serve
  BY <1>0, <1>3 DEF Next, HalStep, OpenCtrl, OpenMonitor, AttachMonitor,
     Attached, CloseCtrl, wifi_hal_wpa_dettach, Ask, Answered,
     wifi_hal_wpa_mesh_attach, RequestFails, Die, Terminated
<1> QED BY <1>2, <1>3

LEMMA TypesStep ==
  ASSUME Types, [Next]_vars
  PROVE  Types'
<1>1. CASE Next
  BY <1>1, SocketTypesStep, QueueTypesStep, CallTypesStep, HalTypesStep,
     NetworkTypesStep DEF Types
<1>2. CASE UNCHANGED vars
  BY <1>2 DEF Types, SocketTypes, QueueTypes, CallTypes, HalTypes,
     NetworkTypes, Steps
<1> QED BY <1>1, <1>2

LEMMA TypesImplyTypeOK == Types => TypeOK
<1> SUFFICES ASSUME Types PROVE TypeOK
  OBVIOUS
<1>1. inbox \in [Sockets -> Seq(Datagram)]
  <2>1. ASSUME NEW s \in Sockets PROVE inbox[s] \in Seq(Datagram)
    <3>1. inbox[s] \in Seq(Inbound)
      BY DEF Types, QueueTypes
    <3>2. \A m \in Inbound : m \in Datagram
      BY DEF Inbound, Datagram
    <3> QED BY <3>1, <3>2
  <2> QED BY <2>1 DEF Types, QueueTypes
<1>2. buf # Nothing => buf.word \in Words
  BY DEF Types, CallTypes, BufType
<1>3. call.at \in {"idle", "send", "select", "done"}
  BY DEF Types, CallTypes, CallType
<1>4. WpaTypeOK
  BY <1>1, <1>2, <1>3 DEF WpaTypeOK, Types, SocketTypes, QueueTypes, CallTypes
<1> QED BY <1>4 DEF TypeOK, Types, CallTypes, HalTypes, NetworkTypes

-----------------------------------------------------------------------------
(***************************************************************************)
(* The connections are opened and closed in order.                         *)
(***************************************************************************)
(* Which connections are there at each place, and that a request is made    *)
(* on one that is open.  A manager that gets to its functions has all that  *)
(* it needs.                                                                *)
Places ==
  /\ call.at = "idle" <=> pc \notin {"attaching", "asking"}
  /\ call.at # "idle" => handle[call.sock] = "open"
  /\ pc = "ctrl" => \A s \in Sockets : handle[s] = "NULL"
  /\ pc \in {"monitor", "closeCtrl"} =>
       handle["ctrl"] = "open" /\ handle["monitor"] = "NULL"
       /\ handle["mesh_ctrl"] = "NULL"
  /\ pc \in {"attach", "attaching"} =>
       handle["ctrl"] = "open" /\ handle["monitor"] = "open"
       /\ handle["mesh_ctrl"] = "NULL"
  /\ caller = "manager" /\ pc \in {"next", "asking"} =>
       handle["ctrl"] = "open" /\ handle["monitor"] = "open"
       /\ handle["mesh_ctrl"] # "freed"
  /\ caller = "manager" => pc # "crashed"

(* An open connection is not opened again.                                  *)
OpenedOnce ==
  /\ \A i, j \in DOMAIN todo :
       todo[i] = "join_mesh" /\ todo[j] = "join_mesh" => i = j
  /\ handle["mesh_ctrl"] = "open" =>
       \A i \in DOMAIN todo : todo[i] = "join_mesh" => i = 1 /\ step > 1

LEMMA PlacesInit == Init => Places
<1> SUFFICES ASSUME Init PROVE Places
  OBVIOUS
<1>1. pc = "ctrl" /\ call = NoCall /\ handle = [s \in Sockets |-> "NULL"]
  BY DEF Init, WpaInit
<1>2. NoCall.at = "idle"
  BY DEF NoCall
<1> QED BY <1>1, <1>2 DEF Places

LEMMA PlacesStep ==
  ASSUME Types, Places, [Next]_vars
  PROVE  Places'
<1> USE DEF Places
<1>0. SocketTypes /\ CallTypes /\ HalTypes
  BY DEF Types
<1>01. handle \in [Sockets -> {"NULL", "open", "freed"}]
       /\ call.sock \in Sockets
  BY <1>0 DEF SocketTypes, CallTypes, CallType
<1>02. NoCall.at = "idle"
  BY DEF NoCall
<1>1. CASE OpenCtrl
  <2>1. \/ handle' = [handle EXCEPT !["ctrl"] = "open"]
        \/ handle' = [handle EXCEPT !["ctrl"] = "NULL"]
    BY <1>1 DEF OpenCtrl, wpa_ctrl_open2
  <2>2. caller' = caller /\ call' = call /\ call.at = "idle"
    BY <1>1 DEF OpenCtrl
  <2>3. pc' = IF handle'["ctrl"] = "open" THEN "monitor" ELSE OpenFailed
    BY <1>1 DEF OpenCtrl
  <2>4. \A s \in Sockets : handle[s] = "NULL"
    BY <1>1 DEF OpenCtrl
  <2> QED BY <1>01, <2>1, <2>2, <2>3, <2>4 DEF Sockets, OpenFailed
<1>2. CASE OpenMonitor
  <2>1. \/ handle' = [handle EXCEPT !["monitor"] = "open"]
        \/ handle' = [handle EXCEPT !["monitor"] = "NULL"]
    BY <1>2 DEF OpenMonitor, wpa_ctrl_open2
  <2>2. caller' = caller /\ call' = call /\ pc = "monitor"
    BY <1>2 DEF OpenMonitor
  <2>3. pc' = IF handle'["monitor"] = "open" THEN "attach" ELSE "closeCtrl"
    BY <1>2 DEF OpenMonitor
  <2> QED BY <1>01, <2>1, <2>2, <2>3 DEF Sockets
<1>3. CASE AttachMonitor
  BY <1>3 DEF AttachMonitor, Request
<1>4. CASE Attached
  <2>0. pc = "attaching" /\ call' = NoCall /\ caller' = caller
    BY <1>4 DEF Attached
  <2>1. CASE pc' = "next" /\ handle' = handle
    BY <1>02, <2>0, <2>1
  <2>2. CASE pc' = OpenFailed
    BY <1>02, <2>0, <2>2 DEF OpenFailed
  <2> QED BY <1>4, <2>1, <2>2 DEF Attached
<1>5. CASE CloseCtrl
  BY <1>5 DEF CloseCtrl, OpenFailed
<1>6. CASE Ask
  <2>0. /\ pc = "next" /\ todo # << >> /\ handle' = handle
        /\ caller' = caller /\ call.at = "idle"
    BY <1>6 DEF Ask
  <2>1. CASE UNCHANGED <<pc, call>>
    BY <2>0, <2>1
  <2>2. CASE /\ handle[Now.sock] = "open" /\ pc' = "asking"
             /\ Request(Now.sock, Now.verb, nw_id)
    BY <2>0, <2>2 DEF Request
  <2>3. CASE ~Refuses /\ handle[Now.sock] # "open" /\ pc' = "crashed"
             /\ call' = call
    <3>1. Now.sock \in {"ctrl", "mesh_ctrl"}
      BY <1>0, <2>0, NowType DEF Sockets
    <3>2. caller # "manager"
      BY <1>01, <2>0, <2>3, <3>1 DEF Refuses, Sockets
    <3> QED BY <2>0, <2>3, <3>2
  <2> QED BY <1>6, <2>1, <2>2, <2>3 DEF Ask
<1>7. CASE Answered
  BY <1>02, <1>7 DEF Answered
<1>8. CASE wifi_hal_wpa_mesh_attach
  <2>1. \/ handle' = [handle EXCEPT !["mesh_ctrl"] = "open"]
        \/ handle' = [handle EXCEPT !["mesh_ctrl"] = "NULL"]
    BY <1>8 DEF wifi_hal_wpa_mesh_attach, wpa_ctrl_open2
  <2>2. caller' = caller /\ call' = call /\ pc = "next" /\ pc' = pc
    BY <1>8 DEF wifi_hal_wpa_mesh_attach
  <2> QED BY <1>01, <2>1, <2>2 DEF Sockets
<1>9. CASE wifi_hal_wpa_dettach
  <2>0. pc = "next" /\ call' = call /\ caller' = caller
    BY <1>9 DEF wifi_hal_wpa_dettach
  <2>1. CASE "freed" \in {handle[s] : s \in Sockets} /\ pc' = "crashed"
    BY <2>0, <2>1 DEF Sockets
  <2>2. CASE pc' = "exited"
    BY <2>0, <2>2
  <2> QED BY <1>9, <2>1, <2>2 DEF wifi_hal_wpa_dettach
<1>10. CASE (wpa_ctrl_request /\ UNCHANGED <<halVars, networks, refused>>)
            \/ RequestFails
  <2>1. UNCHANGED <<pc, caller, handle>> /\ call.at # "idle"
    BY <1>10 DEF wpa_ctrl_request, Send, SendAgain, Receive, Timeout,
       RequestFails, ReceiveFails
  <2>2. call'.sock = call.sock /\ call'.at # "idle"
    BY <1>0, <1>10, <2>1 DEF wpa_ctrl_request, Send, SendAgain, Receive,
       Timeout, RequestFails, ReceiveFails, Return, CallTypes, CallType
  <2> QED BY <2>1, <2>2
<1>11. CASE Serve \/ Die \/ Terminated \/ UNCHANGED vars
  BY <1>11 DEF Serve, Die, Terminated
<1> QED BY <1>1, <1>2, <1>3, <1>4, <1>5, <1>6, <1>7, <1>8, <1>9, <1>10, <1>11
        DEF Next, HalStep

(* What is left of a sequence.                                              *)
LEMMA TailFacts ==
  ASSUME NEW S, NEW q \in Seq(S), q # << >>
  PROVE  /\ Tail(q) \in Seq(S) /\ Len(Tail(q)) = Len(q) - 1
         /\ Head(q) = q[1] /\ Head(q) \in S /\ Len(q) \in Nat \ {0}
         /\ DOMAIN q = 1 .. Len(q) /\ DOMAIN Tail(q) = 1 .. Len(q) - 1
         /\ \A i \in 1 .. Len(q) - 1 : Tail(q)[i] = q[i + 1]
<1>1. /\ Tail(q) \in Seq(S) /\ Len(Tail(q)) = Len(q) - 1 /\ Head(q) = q[1]
      /\ Len(q) \in Nat \ {0} /\ Head(q) \in S
  OBVIOUS
<1>2. \A i \in 1 .. Len(q) - 1 : Tail(q)[i] = q[i + 1]
  OBVIOUS
<1>3. DOMAIN q = 1 .. Len(q) /\ DOMAIN Tail(q) = 1 .. Len(Tail(q))
  BY <1>1
<1> QED BY <1>1, <1>2, <1>3

(* A function goes on, or the next one becomes the first.                   *)
LEMMA AfterTodo ==
  ASSUME HalTypes, todo # << >>, NEW v, After(v)
  PROVE  \/ todo' = todo /\ step' = step + 1
         \/ todo' = Tail(todo)
BY DEF After

LEMMA OpenedOnceInit == ASSUME JoinsOnce, Init PROVE OpenedOnce
<1>1. PICK s \in Sessions : todo = s.calls
  BY DEF Init
<1>2. handle["mesh_ctrl"] = "NULL"
  BY DEF Init, WpaInit, Sockets
<1> QED BY <1>1, <1>2 DEF OpenedOnce, JoinsOnce

LEMMA OpenedOnceStep ==
  ASSUME Types, OpenedOnce, [Next]_vars
  PROVE  OpenedOnce'
<1> USE DEF OpenedOnce
<1>0. HalTypes /\ SocketTypes
  BY DEF Types
<1>01. handle \in [Sockets -> {"NULL", "open", "freed"}]
       /\ "mesh_ctrl" \in Sockets
  BY <1>0 DEF SocketTypes, Sockets
<1>1. ASSUME UNCHANGED <<todo, step>>,
             handle'["mesh_ctrl"] = "open" => handle["mesh_ctrl"] = "open"
      PROVE  OpenedOnce'
  BY <1>1
<1>2. ASSUME NEW S, wpa_ctrl_close(S)
      PROVE  handle'["mesh_ctrl"] = "open" => handle["mesh_ctrl"] = "open"
  BY <1>01, <1>2 DEF wpa_ctrl_close
<1>3. ASSUME todo # << >>, NEW v, After(v),
             handle'["mesh_ctrl"] = "open" =>
               (handle["mesh_ctrl"] = "open" \/ Head(todo) = "join_mesh")
      PROVE  OpenedOnce'
  <2>0. todo \in Seq(Functions) /\ step \in Nat \ {0} /\ Len(todo) \in Nat
        /\ DOMAIN todo = 1 .. Len(todo) /\ Len(todo) >= 1
        /\ Head(todo) = todo[1]
    BY <1>0, <1>3 DEF HalTypes
  <2>1. CASE todo' = todo /\ step' = step + 1
    BY <1>3, <2>0, <2>1
  <2>2. CASE todo' = Tail(todo)
    <3>0. /\ DOMAIN todo' = 1 .. Len(todo) - 1
          /\ \A i \in 1 .. Len(todo) - 1 : todo'[i] = todo[i + 1]
      BY <1>3, <2>0, <2>2, TailFacts
    <3>1. \A i \in DOMAIN todo' : i + 1 \in DOMAIN todo /\ todo'[i] = todo[i + 1]
      BY <2>0, <3>0
    <3>2. \A i \in DOMAIN todo' : i \in Nat \ {0}
      BY <2>0, <3>0
    <3>3. handle'["mesh_ctrl"] = "open" =>
            \A i \in DOMAIN todo' : todo'[i] # "join_mesh"
      BY <1>3, <2>0, <3>1, <3>2
    <3> QED BY <3>1, <3>2, <3>3
  <2> QED BY <1>0, <1>3, <2>1, <2>2, AfterTodo
<1>4. CASE OpenCtrl \/ OpenMonitor
  <2>1. handle'["mesh_ctrl"] = handle["mesh_ctrl"]
    BY <1>01, <1>4 DEF OpenCtrl, OpenMonitor, wpa_ctrl_open2
  <2> QED BY <1>1, <1>4, <2>1 DEF OpenCtrl, OpenMonitor
<1>5. CASE Attached \/ CloseCtrl \/ wifi_hal_wpa_dettach
  BY <1>1, <1>2, <1>5 DEF Attached, CloseCtrl, wifi_hal_wpa_dettach
<1>6. CASE Ask \/ Answered
  <2>1. UNCHANGED <<todo, step>> \/ (\E v : After(v) /\ todo # << >>)
    BY <1>0, <1>6 DEF Ask, Answered, HalTypes
  <2>2. handle' = handle
    BY <1>6 DEF Ask, Answered
  <2> QED BY <1>1, <1>3, <2>1, <2>2
<1>7. CASE wifi_hal_wpa_mesh_attach
  <2>1. todo # << >> /\ Head(todo) = "join_mesh"
    BY <1>0, <1>7, NowType DEF wifi_hal_wpa_mesh_attach, AllVerbs, Params
  <2>2. \E v : After(v)
    BY <1>7 DEF wifi_hal_wpa_mesh_attach
  <2> QED BY <1>3, <2>1, <2>2
<1>8. CASE AttachMonitor \/ RequestFails \/ Serve \/ Die \/ Terminated
           \/ UNCHANGED vars
           \/ (wpa_ctrl_request /\ UNCHANGED <<halVars, networks, refused>>)
  <2>1. UNCHANGED <<todo, step, handle>>
    BY <1>8 DEF AttachMonitor, RequestFails, ReceiveFails, Serve, Die,
       Terminated, wpa_ctrl_request, Send, SendAgain, Receive, Timeout
  <2> QED BY <1>1, <2>1
<1> QED BY <1>4, <1>5, <1>6, <1>7, <1>8 DEF Next, HalStep

(* A connection that is opened was not open; its file replaces one that was *)
(* in the way, and is removed again if the supplicant is not there.         *)
LEMMA OpenKeepsFiles ==
  ASSUME SocketTypes, FilesCleanedUp, NEW s \in Sockets, wpa_ctrl_open2(s),
         handle[s] # "open"
  PROVE  FilesCleanedUp'
<1>1. CASE /\ handle' = [handle EXCEPT ![s] = "open"]
           /\ local' = [local EXCEPT ![s] = counter + 1]
           /\ files' = Others(counter + 1) \cup {File(counter + 1)}
  <2> SUFFICES ASSUME NEW f \in files', f.ours
               PROVE  \E u \in Sockets : handle'[u] = "open" /\ local'[u] = f.n
    BY DEF FilesCleanedUp
  <2>1. CASE f = File(counter + 1)
    BY <1>1, <2>1 DEF SocketTypes, File
  <2>2. CASE f \in files
    <3>1. PICK u \in Sockets : handle[u] = "open" /\ local[u] = f.n
      BY <2>2 DEF FilesCleanedUp
    <3>2. u # s
      BY <3>1
    <3> QED BY <1>1, <3>1, <3>2 DEF SocketTypes
  <2> QED BY <1>1, <2>1, <2>2 DEF Others
<1>2. CASE /\ handle' = [handle EXCEPT ![s] = "NULL"] /\ local' = local
           /\ files' \subseteq files
  <2> SUFFICES ASSUME NEW f \in files', f.ours
               PROVE  \E u \in Sockets : handle'[u] = "open" /\ local'[u] = f.n
    BY DEF FilesCleanedUp
  <2>1. PICK u \in Sockets : handle[u] = "open" /\ local[u] = f.n
    BY <1>2 DEF FilesCleanedUp
  <2> QED BY <1>2, <2>1 DEF SocketTypes
<1> QED BY <1>1, <1>2 DEF wpa_ctrl_open2, ConnectFails, Others

LEMMA CloseKeepsFiles ==
  ASSUME SocketTypes, FilesCleanedUp, NEW S, wpa_ctrl_close(S),
         local' = local
  PROVE  FilesCleanedUp'
<1> SUFFICES ASSUME NEW f \in files', f.ours
             PROVE  \E u \in Sockets : handle'[u] = "open" /\ local'[u] = f.n
  BY DEF FilesCleanedUp
<1>1. f \in files /\ f \in [n : Nat, ours : BOOLEAN]
  BY DEF wpa_ctrl_close, SocketTypes
<1>2. PICK u \in Sockets : handle[u] = "open" /\ local[u] = f.n
  BY <1>1 DEF FilesCleanedUp
<1>3. f = File(local[u])
  BY <1>1, <1>2 DEF File
<1>4. ~(u \in S)
  BY <1>2, <1>3 DEF wpa_ctrl_close
<1> QED BY <1>2, <1>4 DEF wpa_ctrl_close

LEMMA FilesStep ==
  ASSUME Types, Places, OpenedOnce, FilesCleanedUp, [Next]_vars
  PROVE  FilesCleanedUp'
<1>0. SocketTypes /\ HalTypes
  BY DEF Types
<1>1. ASSUME UNCHANGED <<handle, local, files>> PROVE FilesCleanedUp'
  BY <1>1 DEF FilesCleanedUp
<1>2. CASE OpenCtrl
  BY <1>0, <1>2, OpenKeepsFiles DEF OpenCtrl, Places, Sockets
<1>3. CASE OpenMonitor
  BY <1>0, <1>3, OpenKeepsFiles DEF OpenMonitor, Places, Sockets
<1>4. CASE wifi_hal_wpa_mesh_attach
  <2>1. todo # << >> /\ Head(todo) = "join_mesh" /\ step = 1
    BY <1>0, <1>4, NowType DEF wifi_hal_wpa_mesh_attach, AllVerbs, Params
  <2>2. 1 \in DOMAIN todo /\ todo[1] = "join_mesh"
    BY <1>0, <2>1 DEF HalTypes
  <2>3. handle["mesh_ctrl"] # "open"
    BY <2>1, <2>2 DEF OpenedOnce
  <2> QED BY <1>0, <1>4, <2>3, OpenKeepsFiles
          DEF wifi_hal_wpa_mesh_attach, Sockets
<1>5. CASE Attached \/ CloseCtrl \/ wifi_hal_wpa_dettach
  BY <1>0, <1>1, <1>5, CloseKeepsFiles
     DEF Attached, CloseCtrl, wifi_hal_wpa_dettach
<1>6. CASE AttachMonitor \/ Ask \/ Answered \/ RequestFails \/ Serve \/ Die
           \/ Terminated \/ UNCHANGED vars \/ wpa_ctrl_request
  BY <1>1, <1>6 DEF AttachMonitor, Ask, Answered, RequestFails, ReceiveFails,
     Serve, Die, Terminated, wpa_ctrl_request, Send, SendAgain, Receive,
     Timeout
<1> QED BY <1>2, <1>3, <1>4, <1>5, <1>6 DEF Next, HalStep

(* Whatever fails, every connection that wifi_hal_wpa_attach and join_mesh  *)
(* open is given back with its socket file, and radio_manager never uses or *)
(* frees one that was closed.                                               *)
THEOREM ConnectionsAreReleased ==
  ASSUME JoinsOnce
  PROVE  Spec => []ConnectionsReleased
<1> DEFINE Inv == Types /\ Places /\ OpenedOnce /\ FilesCleanedUp
<1>1. Init => Inv
  <2>1. Init => FilesCleanedUp
    <3> SUFFICES ASSUME Init, NEW f \in files, f.ours PROVE FALSE
      BY DEF FilesCleanedUp
    <3>1. files \in {{}, {[n |-> 1, ours |-> FALSE]}}
      BY DEF Init, WpaInit
    <3>2. f = [n |-> 1, ours |-> FALSE]
      BY <3>1
    <3> QED BY <3>2
  <2> QED BY <2>1, TypesInit, PlacesInit, OpenedOnceInit
<1>2. Inv /\ [Next]_vars => Inv'
  BY TypesStep, PlacesStep, OpenedOnceStep, FilesStep
<1>3. Inv => ConnectionsReleased
  BY TypesImplyTypeOK DEF ConnectionsReleased, NoUseAfterClose, Places
<1> QED BY <1>1, <1>2, <1>3, PTL DEF Spec

-----------------------------------------------------------------------------
(***************************************************************************)
(* Replies come in the order of the commands.                              *)
(***************************************************************************)
(* The i-th datagram in the socket of a connection is the reply to its n-th *)
(* command; the i-th datagram in the supplicant's is that command.          *)
Has(s, i, n) == /\ i \in 1 .. Len(inbox[s])
                /\ ~Unsolicited(inbox[s][i]) /\ inbox[s][i].to = n
Waits(s, i, n) == /\ i \in 1 .. Len(inq)
                  /\ inq[i].sock = s /\ inq[i].from = local[s] /\ inq[i].n = n

(* Replies that wait in the socket belong to the commands behind the last   *)
(* one whose reply was taken, in order and without a gap.                   *)
InboxInOrder(s) ==
  /\ taken[s] <= sent[s]
  /\ \A i, n \in Nat : Has(s, i, n) => taken[s] < n /\ n <= sent[s]
  /\ \A i, k, n, m \in Nat : Has(s, i, n) /\ Has(s, k, m) /\ i < k => n < m
  /\ \A i, n, m \in Nat : Has(s, i, n) /\ taken[s] < m /\ m < n
                            => \E k \in Nat : Has(s, k, m)

(* Commands the supplicant has not read come after those it has answered.   *)
QueueInOrder(s) ==
  /\ \A i, n \in Nat : Waits(s, i, n) => taken[s] < n /\ n <= sent[s]
  /\ \A i, k, n, m \in Nat : Has(s, i, n) /\ Waits(s, k, m) => n < m
  /\ \A i, k, n, m \in Nat : Waits(s, i, n) /\ Waits(s, k, m) /\ i < k => n < m

(* While the supplicant lives no command is lost.                           *)
NoneLost(s) ==
  alive => \A n \in Nat : taken[s] < n /\ n <= sent[s] =>
             (\E i \in Nat : Has(s, i, n)) \/ (\E i \in Nat : Waits(s, i, n))

InOrder(s) ==
  /\ InboxInOrder(s)
  /\ handle[s] = "open" => QueueInOrder(s) /\ NoneLost(s)

(* No address is used for two connections.                                  *)
AddressesFresh ==
  /\ \A s \in Sockets : local[s] <= counter
  /\ \A i \in 1 .. Len(inq) : inq[i].from <= counter

RepliesInOrder == AddressesFresh /\ \A s \in Sockets : InOrder(s)

(* A connection that a step has nothing to do with.                         *)
LEMMA OrderKept ==
  ASSUME NEW s \in Sockets, InOrder(s),
         UNCHANGED <<sent[s], taken[s]>>,
         \A i, n \in Nat : Has(s, i, n)' = Has(s, i, n),
         \A i, n \in Nat : Waits(s, i, n)' = Waits(s, i, n),
         alive' => alive, handle'[s] = "open" => handle[s] = "open"
  PROVE  InOrder(s)'
<1>1. InboxInOrder(s)'
  BY DEF InOrder, InboxInOrder
<1>2. QueueInOrder(s) => QueueInOrder(s)'
  BY DEF QueueInOrder
<1>3. NoneLost(s) => NoneLost(s)'
  BY DEF NoneLost
<1> QED BY <1>1, <1>2, <1>3 DEF InOrder

LEMMA HasKept ==
  ASSUME NEW s \in Sockets, inbox'[s] = inbox[s]
  PROVE  \A i, n \in Nat : Has(s, i, n)' = Has(s, i, n)
BY DEF Has, Unsolicited

LEMMA WaitsKept ==
  ASSUME NEW s \in Sockets, local'[s] = local[s], inq' = inq
  PROVE  \A i, n \in Nat : Waits(s, i, n)' = Waits(s, i, n)
BY DEF Waits

(* A connection without datagrams that is closed, or new.                   *)
LEMMA OrderEmpty ==
  ASSUME NEW s \in Sockets, inbox'[s] = << >>, taken'[s] <= sent'[s],
         handle'[s] = "open" =>
           /\ sent'[s] = 0 /\ taken'[s] = 0
           /\ \A i \in 1 .. Len(inq') : inq'[i].from # local'[s]
  PROVE  InOrder(s)'
<1>1. \A i, n : ~Has(s, i, n)'
  BY DEF Has
<1>2. InboxInOrder(s)'
  BY <1>1 DEF InboxInOrder
<1>3. ASSUME handle'[s] = "open" PROVE QueueInOrder(s)' /\ NoneLost(s)'
  <2>1. \A i, n : ~Waits(s, i, n)'
    BY <1>3 DEF Waits
  <2>2. \A n \in Nat : ~(taken'[s] < n /\ n <= sent'[s])
    BY <1>3
  <2> QED BY <1>1, <2>1, <2>2 DEF QueueInOrder, NoneLost
<1> QED BY <1>2, <1>3 DEF InOrder

(* What the types say about one datagram.                                   *)
LEMMA DatagramTypes ==
  ASSUME QueueTypes
  PROVE  /\ \A i \in 1 .. Len(inq) :
              /\ inq[i] \in Command /\ inq[i].from \in Nat
              /\ inq[i].n \in Nat /\ inq[i].sock \in Sockets
         /\ \A s \in Sockets : \A i \in 1 .. Len(inbox[s]) :
              inbox[s][i] \in Inbound /\ inbox[s][i].to \in Nat
         /\ Len(inq) \in Nat /\ \A s \in Sockets : Len(inbox[s]) \in Nat
         /\ \A s \in Sockets : sent[s] \in Nat /\ taken[s] \in Nat
<1>1. ASSUME NEW i \in 1 .. Len(inq) PROVE inq[i] \in Command
  BY DEF QueueTypes
<1>2. ASSUME NEW s \in Sockets, NEW i \in 1 .. Len(inbox[s])
      PROVE  inbox[s][i] \in Inbound
  <2>1. inbox[s] \in Seq(Inbound)
    BY DEF QueueTypes
  <2> QED BY <2>1
<1>3. Len(inq) \in Nat /\ \A s \in Sockets : Len(inbox[s]) \in Nat
  <2>1. ASSUME NEW s \in Sockets PROVE Len(inbox[s]) \in Nat
    <3>1. inbox[s] \in Seq(Inbound)
      BY DEF QueueTypes
    <3> QED BY <3>1
  <2> QED BY <2>1 DEF QueueTypes
<1>4. \A s \in Sockets : sent[s] \in Nat /\ taken[s] \in Nat
  BY DEF QueueTypes
<1>5. \A c \in Command : c.from \in Nat /\ c.n \in Nat /\ c.sock \in Sockets
  BY DEF Command
<1>6. \A m \in Inbound : m.to \in Nat
  BY DEF Inbound
<1> QED BY <1>1, <1>2, <1>3, <1>4, <1>5, <1>6

LEMMA OpenInOrder ==
  ASSUME Types, RepliesInOrder, NEW s \in Sockets, wpa_ctrl_open2(s),
         UNCHANGED <<alive, inq>>
  PROVE  RepliesInOrder'
<1>0. SocketTypes /\ QueueTypes
  BY DEF Types
<1>1. counter' = counter + 1 /\ counter \in Nat
  BY <1>0 DEF wpa_ctrl_open2, SocketTypes
<1>2. \A i \in 1 .. Len(inq) : inq[i].from \in Nat
  BY <1>0, DatagramTypes
<1>3. \/ /\ handle' = [handle EXCEPT ![s] = "open"]
         /\ local' = [local EXCEPT ![s] = counter + 1]
         /\ inbox' = [inbox EXCEPT ![s] = << >>]
         /\ sent' = [sent EXCEPT ![s] = 0] /\ taken' = [taken EXCEPT ![s] = 0]
      \/ /\ handle' = [handle EXCEPT ![s] = "NULL"]
         /\ UNCHANGED <<local, inbox, sent, taken>>
  BY DEF wpa_ctrl_open2
<1>4. AddressesFresh'
  BY <1>0, <1>1, <1>2, <1>3 DEF RepliesInOrder, AddressesFresh, SocketTypes
<1>5. ASSUME NEW u \in Sockets PROVE InOrder(u)'
  <2>1. InOrder(u)
    BY DEF RepliesInOrder
  <2>2. CASE /\ UNCHANGED <<inbox[u], sent[u], taken[u], local[u]>>
             /\ handle'[u] = "open" => handle[u] = "open"
    BY <2>1, <2>2, OrderKept, HasKept, WaitsKept
  <2>3. CASE /\ u = s /\ handle'[s] = "open" /\ local'[s] = counter + 1
             /\ inbox'[s] = << >> /\ sent'[s] = 0 /\ taken'[s] = 0
    <3>1. \A i \in 1 .. Len(inq') : inq'[i].from # local'[s]
      BY <1>1, <1>2, <2>3 DEF RepliesInOrder, AddressesFresh
    <3> QED BY <2>3, <3>1, OrderEmpty
  <2> QED BY <1>0, <1>3, <2>2, <2>3 DEF SocketTypes, QueueTypes
<1> QED BY <1>4, <1>5 DEF RepliesInOrder

LEMMA CloseInOrder ==
  ASSUME Types, RepliesInOrder, NEW S, wpa_ctrl_close(S),
         UNCHANGED <<local, counter, alive, inq, sent, taken>>
  PROVE  RepliesInOrder'
<1>1. AddressesFresh'
  BY DEF RepliesInOrder, AddressesFresh
<1>2. ASSUME NEW u \in Sockets PROVE InOrder(u)'
  <2>1. InOrder(u)
    BY DEF RepliesInOrder
  <2>2. CASE inbox'[u] = inbox[u] /\ handle'[u] = handle[u]
    BY <2>1, <2>2, OrderKept, HasKept, WaitsKept
  <2>3. CASE inbox'[u] = << >> /\ handle'[u] = "freed"
    <3>1. taken'[u] <= sent'[u]
      BY <2>1 DEF InOrder, InboxInOrder
    <3> QED BY <2>3, <3>1, OrderEmpty
  <2> QED BY <2>2, <2>3 DEF wpa_ctrl_close
<1> QED BY <1>1, <1>2 DEF RepliesInOrder

(* A command is sent: it waits behind all others, with the next number.     *)
LEMMA SendInOrder ==
  ASSUME Types, Places, RepliesInOrder, Send
  PROVE  RepliesInOrder'
<1>0. SocketTypes /\ QueueTypes /\ CallTypes
  BY DEF Types
<1> DEFINE s == call.sock
           c == [sock |-> s, from |-> local[s], n |-> sent[s] + 1,
                 verb |-> call.verb, id |-> call.id]
<1>1. CASE UNCHANGED <<inq, sent>>
  <2>1. AddressesFresh'
    BY <1>1 DEF RepliesInOrder, AddressesFresh, Send
  <2>2. ASSUME NEW u \in Sockets PROVE InOrder(u)'
    BY <1>1, OrderKept, HasKept, WaitsKept DEF RepliesInOrder, Send
  <2> QED BY <2>1, <2>2 DEF RepliesInOrder
<1>2. CASE sent' = [sent EXCEPT ![s] = @ + 1] /\ inq' = Append(inq, c)
  <2>0. /\ call.at = "send" /\ UNCHANGED <<sockVars, inbox, taken, alive>>
    BY DEF Send
  <2>00. s \in Sockets /\ handle[s] = "open"
    BY <1>0, <2>0 DEF CallTypes, CallType, Places
  <2>1. /\ sent[s] \in Nat /\ taken[s] \in Nat /\ sent'[s] = sent[s] + 1
        /\ \A u \in Sockets \ {s} : sent'[u] = sent[u]
    BY <1>0, <1>2, <2>00 DEF QueueTypes
  <2>2. c.sock = s /\ c.from = local[s] /\ c.n = sent[s] + 1
    OBVIOUS
  <2> HIDE DEF c
  <2>3. /\ Len(inq) \in Nat /\ Len(inq') = Len(inq) + 1
        /\ inq'[Len(inq) + 1] = c
        /\ \A i \in 1 .. Len(inq) : inq'[i] = inq[i]
    BY <1>0, <1>2 DEF QueueTypes
  <2>4. AddressesFresh'
    BY <2>0, <2>00, <2>2, <2>3 DEF RepliesInOrder, AddressesFresh
  <2>5. ASSUME NEW u \in Sockets PROVE InOrder(u)'
    <3>0. InOrder(u)
      BY DEF RepliesInOrder
    <3>1. \A i, n \in Nat : Has(u, i, n)' = Has(u, i, n)
      BY <2>0, HasKept
    <3>2. \A i, n \in Nat : Waits(u, i, n)' <=>
            Waits(u, i, n) \/ (u = s /\ i = Len(inq) + 1 /\ n = sent[s] + 1)
      BY <2>0, <2>2, <2>3 DEF Waits
    <3>3. CASE u # s
      <4>1. \A i, n \in Nat : Waits(u, i, n)' = Waits(u, i, n)
        BY <3>2, <3>3 DEF Waits
      <4>2. UNCHANGED <<sent[u], taken[u], alive, handle[u]>>
        BY <2>0, <2>1, <3>3
      <4> QED BY <3>0, <3>1, <4>1, <4>2, OrderKept
    <3>4. CASE u = s
      <4>1. InboxInOrder(s) /\ QueueInOrder(s) /\ NoneLost(s)
        BY <2>00, <3>0, <3>4 DEF InOrder
      <4>2. \A i, n \in Nat : Waits(u, i, n) => i < Len(inq) + 1
        BY <2>3 DEF Waits
      <4>3. InboxInOrder(u)'
        BY <2>0, <2>1, <3>1, <3>4, <4>1 DEF InboxInOrder
      <4>4. QueueInOrder(u)'
        <5>1. \A i, n \in Nat : Waits(u, i, n)' => taken'[u] < n /\ n <= sent'[u]
          BY <2>0, <2>1, <3>2, <3>4, <4>1 DEF QueueInOrder, InboxInOrder
        <5>2. \A i, k, n, m \in Nat : Has(u, i, n)' /\ Waits(u, k, m)' => n < m
          BY <2>0, <2>1, <3>1, <3>2, <3>4, <4>1 DEF QueueInOrder, InboxInOrder
        <5>3. ASSUME NEW i \in Nat, NEW k \in Nat, NEW n \in Nat, NEW m \in Nat,
                     Waits(u, i, n)', Waits(u, k, m)', i < k
              PROVE  n < m
          <6>1. Waits(u, i, n)
            BY <2>3, <3>2, <4>2, <5>3
          <6>2. n <= sent[s]
            BY <3>4, <4>1, <6>1 DEF QueueInOrder
          <6> QED BY <2>1, <3>2, <3>4, <4>1, <5>3, <6>1, <6>2 DEF QueueInOrder
        <5> QED BY <5>1, <5>2, <5>3 DEF QueueInOrder
      <4>5. ASSUME alive', NEW n \in Nat, taken'[u] < n, n <= sent'[u]
            PROVE  \/ \E i \in Nat : Has(u, i, n)'
                   \/ \E i \in Nat : Waits(u, i, n)'
        <5>1. alive /\ taken[s] < n /\ n <= sent[s] + 1
          BY <2>0, <2>1, <3>4, <4>5
        <5>2. CASE n <= sent[s]
          <6>1. (\E i \in Nat : Has(s, i, n)) \/ (\E i \in Nat : Waits(s, i, n))
            BY <4>1, <5>1, <5>2 DEF NoneLost
          <6> QED BY <3>1, <3>2, <3>4, <6>1
        <5>3. CASE n = sent[s] + 1
          <6>1. PICK i \in Nat : i = Len(inq) + 1
            BY <2>3
          <6>2. Waits(u, i, n)'
            BY <3>2, <3>4, <5>3, <6>1
          <6> QED BY <6>2
        <5> QED BY <2>1, <5>1, <5>2, <5>3
      <4>6. NoneLost(u)'
        BY <4>5 DEF NoneLost
      <4> QED BY <4>3, <4>4, <4>6 DEF InOrder
    <3> QED BY <3>3, <3>4
  <2> QED BY <2>4, <2>5 DEF RepliesInOrder
<1> QED BY <1>1, <1>2 DEF Send

(* A sequence without its first element, and one with others at its end.    *)
LEMMA ConcatFacts ==
  ASSUME NEW S, NEW q \in Seq(S), NEW r \in Seq(S)
  PROVE  /\ q \o r \in Seq(S) /\ Len(q \o r) = Len(q) + Len(r)
         /\ \A i \in 1 .. Len(q) : (q \o r)[i] = q[i]
         /\ \A i \in 1 .. Len(r) : (q \o r)[Len(q) + i] = r[i]
OBVIOUS

(* The first datagram is read: the others move up.                          *)
LEMMA HasShift ==
  ASSUME QueueTypes, NEW s \in Sockets, inbox[s] # << >>,
         inbox'[s] = Tail(inbox[s])
  PROVE  \A i, n \in Nat : Has(s, i, n)' <=> i >= 1 /\ Has(s, i + 1, n)
<1>1. inbox[s] \in Seq(Inbound)
  BY DEF QueueTypes
<1>2. /\ Len(inbox[s]) \in Nat \ {0} /\ Len(inbox'[s]) = Len(inbox[s]) - 1
      /\ \A i \in 1 .. Len(inbox[s]) - 1 : inbox'[s][i] = inbox[s][i + 1]
  BY <1>1, TailFacts
<1> QED BY <1>2 DEF Has, Unsolicited

LEMMA WaitsShift ==
  ASSUME QueueTypes, NEW s \in Sockets, inq # << >>, inq' = Tail(inq),
         local' = local
  PROVE  \A i, n \in Nat : Waits(s, i, n)' <=> i >= 1 /\ Waits(s, i + 1, n)
<1>2. /\ Len(inq) \in Nat \ {0} /\ Len(inq') = Len(inq) - 1
      /\ \A i \in 1 .. Len(inq) - 1 : inq'[i] = inq[i + 1]
  BY TailFacts DEF QueueTypes
<1> QED BY <1>2 DEF Waits

LEMMA HasIndex ==
  \A s, i, n : (Has(s, i, n) => i >= 1) /\ (Waits(s, i, n) => i >= 1)
BY DEF Has, Waits

(* The reply that is taken is the next one, and the order stays.            *)
LEMMA ReceiveInOrder ==
  ASSUME Types, Places, RepliesInOrder, Receive
  PROVE  /\ RepliesInOrder'
         /\ \/ UNCHANGED <<call, ret, sent, taken>>
            \/ /\ call.sock \in Sockets /\ taken[call.sock] < sent[call.sock]
               /\ taken' = [taken EXCEPT ![call.sock] = @ + 1]
               /\ ret' = 0 /\ call' = [call EXCEPT !.at = "done"]
               /\ UNCHANGED sent
<1>0. SocketTypes /\ QueueTypes /\ CallTypes
  BY DEF Types
<1>01. PICK s \in Sockets : s = call.sock
  BY <1>0 DEF CallTypes, CallType
<1> DEFINE m == Head(inbox[s])
<1>1. /\ call.at = "select" /\ inbox[s] # << >>
      /\ inbox' = [inbox EXCEPT ![s] = Tail(@)]
      /\ UNCHANGED <<sockVars, alive, inq, sent>>
  BY <1>01 DEF Receive
<1>2. s \in Sockets /\ handle[s] = "open"
  BY <1>01, <1>1 DEF Places
<1>3. /\ inbox'[s] = Tail(inbox[s])
      /\ \A u \in Sockets \ {s} : inbox'[u] = inbox[u]
  BY <1>0, <1>1, <1>2 DEF QueueTypes
<1>4. m = inbox[s][1] /\ 1 \in 1 .. Len(inbox[s]) /\ m.to \in Nat
  <2>1. inbox[s] \in Seq(Inbound)
    BY <1>0, <1>2 DEF QueueTypes
  <2>2. m = inbox[s][1] /\ Len(inbox[s]) \in Nat \ {0}
    BY <1>1, <2>1, TailFacts
  <2> QED BY <1>0, <1>2, <2>2, DatagramTypes
<1>5. \A i, n \in Nat : Has(s, i, n)' <=> i >= 1 /\ Has(s, i + 1, n)
  BY <1>0, <1>1, <1>2, <1>3, HasShift
<1>6. \A u \in Sockets : \A i, n \in Nat : Waits(u, i, n)' = Waits(u, i, n)
  BY <1>1, WaitsKept
<1>7. AddressesFresh'
  BY <1>1 DEF RepliesInOrder, AddressesFresh
<1>8. InboxInOrder(s) /\ QueueInOrder(s) /\ NoneLost(s)
  BY <1>2 DEF RepliesInOrder, InOrder
<1>9. sent[s] \in Nat /\ taken[s] \in Nat
  BY <1>0, <1>2, DatagramTypes
<1>10. ASSUME UNCHANGED <<taken>> \/ taken' = [taken EXCEPT ![s] = m.to],
              NEW u \in Sockets \ {s}
       PROVE  InOrder(u)'
  <2>1. taken'[u] = taken[u]
    BY <1>0, <1>10 DEF QueueTypes
  <2>2. \A i, n \in Nat : Has(u, i, n)' = Has(u, i, n)
    BY <1>3, HasKept
  <2> QED BY <1>1, <1>6, <2>1, <2>2, OrderKept DEF RepliesInOrder
<1> HIDE DEF m
<1>11. CASE Unsolicited(m) /\ UNCHANGED <<call, ret, len, taken>>
  <2>1. \A n : ~Has(s, 1, n)
    BY <1>4, <1>11 DEF Has
  <2>2. \A n \in Nat : (\E i \in Nat : Has(s, i, n)')
                         <=> (\E i \in Nat : Has(s, i, n))
    <3>1. ASSUME NEW n \in Nat, NEW i \in Nat, Has(s, i, n)
          PROVE  \E k \in Nat : Has(s, k, n)'
      <4>1. i > 1
        BY <2>1, <3>1, HasIndex
      <4>2. i - 1 \in Nat /\ i - 1 >= 1 /\ (i - 1) + 1 = i
        BY <4>1
      <4> QED BY <1>5, <3>1, <4>2
    <3> QED BY <1>5, <3>1
  <2>3. InboxInOrder(s)'
    <3>1. \A i, n \in Nat : Has(s, i, n)' => taken[s] < n /\ n <= sent[s]
      BY <1>5, <1>8 DEF InboxInOrder
    <3>2. \A i, k, n, l \in Nat : Has(s, i, n)' /\ Has(s, k, l)' /\ i < k => n < l
      BY <1>5, <1>8 DEF InboxInOrder
    <3>3. \A i, n, l \in Nat : Has(s, i, n)' /\ taken[s] < l /\ l < n
                                => \E k \in Nat : Has(s, k, l)'
      BY <1>5, <1>8, <2>2 DEF InboxInOrder
    <3> QED BY <1>1, <1>8, <1>11, <3>1, <3>2, <3>3 DEF InboxInOrder
  <2>4. QueueInOrder(s)'
    <3>1. \A i, k, n, l \in Nat : Has(s, i, n)' /\ Waits(s, k, l) => n < l
      BY <1>5, <1>8 DEF QueueInOrder
    <3> QED BY <1>1, <1>6, <1>8, <1>11, <3>1 DEF QueueInOrder
  <2>5. NoneLost(s)'
    BY <1>1, <1>2, <1>6, <1>8, <1>11, <2>2 DEF NoneLost
  <2> QED BY <1>1, <1>7, <1>10, <1>11, <2>3, <2>4, <2>5
          DEF RepliesInOrder, InOrder
<1>12. CASE /\ ~Unsolicited(m) /\ taken' = [taken EXCEPT ![s] = m.to]
            /\ Return(0)
  <2>1. Has(s, 1, m.to)
    BY <1>4, <1>12 DEF Has
  <2>2. taken[s] < m.to /\ m.to <= sent[s]
    BY <1>4, <1>8, <2>1 DEF InboxInOrder
  <2>3. m.to = taken[s] + 1
    <3> SUFFICES ASSUME taken[s] + 1 < m.to PROVE FALSE
      BY <1>4, <1>9, <2>2
    <3>1. PICK k \in Nat : Has(s, k, taken[s] + 1)
      BY <1>4, <1>8, <1>9, <2>1 DEF InboxInOrder
    <3>2. k # 1
      BY <1>4, <2>1, <3>1 DEF Has
    <3>3. 1 < k
      BY <3>1, <3>2, HasIndex
    <3> QED BY <1>4, <1>8, <1>9, <2>1, <3>1, <3>3 DEF InboxInOrder
  <2>4. taken' = [taken EXCEPT ![s] = @ + 1] /\ taken'[s] = taken[s] + 1
    BY <1>0, <1>2, <1>12, <2>3 DEF QueueTypes
  <2>5. \A i, n \in Nat : Has(s, i, n)' => taken[s] + 1 < n /\ n <= sent[s]
    <3> SUFFICES ASSUME NEW i \in Nat, NEW n \in Nat, Has(s, i, n)'
                 PROVE  taken[s] + 1 < n /\ n <= sent[s]
      OBVIOUS
    <3>1. i + 1 \in Nat /\ 1 < i + 1 /\ Has(s, i + 1, n)
      BY <1>5
    <3>2. m.to < n
      BY <1>4, <1>8, <2>1, <3>1 DEF InboxInOrder
    <3> QED BY <1>8, <2>3, <3>1, <3>2 DEF InboxInOrder
  <2>6. \A n \in Nat : n > taken[s] + 1 /\ (\E i \in Nat : Has(s, i, n))
                         => \E i \in Nat : Has(s, i, n)'
    <3> SUFFICES ASSUME NEW n \in Nat, n > taken[s] + 1, NEW i \in Nat,
                        Has(s, i, n)
                 PROVE  \E k \in Nat : Has(s, k, n)'
      OBVIOUS
    <3>1. i # 1
      BY <1>4, <2>3 DEF Has
    <3>2. i - 1 \in Nat /\ i - 1 >= 1 /\ (i - 1) + 1 = i
      BY <3>1, HasIndex
    <3> QED BY <1>5, <3>2
  <2>7. InboxInOrder(s)'
    <3>1. \A i, k, n, l \in Nat : Has(s, i, n)' /\ Has(s, k, l)' /\ i < k => n < l
      BY <1>5, <1>8 DEF InboxInOrder
    <3>2. ASSUME NEW i \in Nat, NEW n \in Nat, NEW l \in Nat, Has(s, i, n)',
                 taken[s] + 1 < l, l < n
          PROVE  \E k \in Nat : Has(s, k, l)'
      <4>1. taken[s] < l /\ Has(s, i + 1, n) /\ i + 1 \in Nat
        BY <1>5, <1>9, <3>2
      <4>2. \E k \in Nat : Has(s, k, l)
        BY <1>8, <3>2, <4>1 DEF InboxInOrder
      <4> QED BY <2>6, <3>2, <4>2
    <3> QED BY <1>1, <2>2, <2>3, <2>4, <2>5, <3>1, <3>2 DEF InboxInOrder
  <2>8. QueueInOrder(s)'
    <3>1. \A i, n \in Nat : Waits(s, i, n) => taken[s] + 1 < n /\ n <= sent[s]
      BY <1>4, <1>8, <2>1, <2>3 DEF QueueInOrder
    <3>2. \A i, k, n, l \in Nat : Has(s, i, n)' /\ Waits(s, k, l) => n < l
      BY <1>5, <1>8 DEF QueueInOrder
    <3> QED BY <1>1, <1>2, <1>6, <1>8, <2>4, <3>1, <3>2 DEF QueueInOrder
  <2>9. NoneLost(s)'
    BY <1>1, <1>2, <1>6, <1>8, <1>9, <2>4, <2>6 DEF NoneLost
  <2>10. RepliesInOrder'
    BY <1>1, <1>7, <1>10, <1>12, <2>7, <2>8, <2>9 DEF RepliesInOrder, InOrder
  <2>11. taken[s] < sent[s]
    BY <1>4, <1>9, <2>2, DatagramTypes
  <2> QED BY <1>01, <1>1, <1>12, <2>4, <2>10, <2>11 DEF Return
<1> QED BY <1>01, <1>11, <1>12 DEF Receive, m

(* A command that is not this connection's is read by the supplicant.       *)
LEMMA OtherServed ==
  ASSUME QueueTypes, NEW u \in Sockets, InOrder(u), inq # << >>,
         inq' = Tail(inq), inbox'[u] = inbox[u],
         UNCHANGED <<local, handle, sent, taken, alive>>,
         handle[u] = "open" => \A n : ~Waits(u, 1, n)
  PROVE  InOrder(u)'
<1>1. \A i, n \in Nat : Has(u, i, n)' = Has(u, i, n)
  BY HasKept
<1>2. \A i, n \in Nat : Waits(u, i, n)' <=> i >= 1 /\ Waits(u, i + 1, n)
  BY WaitsShift
<1>3. InboxInOrder(u)'
  BY <1>1 DEF InOrder, InboxInOrder
<1>4. ASSUME handle[u] = "open" PROVE QueueInOrder(u)' /\ NoneLost(u)'
  <2>1. QueueInOrder(u) /\ NoneLost(u)
    BY <1>4 DEF InOrder
  <2>2. ASSUME NEW i \in Nat, NEW n \in Nat, Waits(u, i, n)
        PROVE  \E k \in Nat : Waits(u, k, n)'
    <3>1. i - 1 \in Nat /\ i - 1 >= 1 /\ (i - 1) + 1 = i
      BY <1>4, <2>2, HasIndex
    <3> QED BY <1>2, <2>2, <3>1
  <2>3. \A i, n \in Nat : Waits(u, i, n)' => taken[u] < n /\ n <= sent[u]
    BY <1>2, <2>1 DEF QueueInOrder
  <2>4. \A i, k, n, l \in Nat : Has(u, i, n) /\ Waits(u, k, l)' => n < l
    BY <1>2, <2>1 DEF QueueInOrder
  <2>5. \A i, k, n, l \in Nat : Waits(u, i, n)' /\ Waits(u, k, l)' /\ i < k
                                 => n < l
    BY <1>2, <2>1 DEF QueueInOrder
  <2>6. QueueInOrder(u)'
    BY <1>1, <2>3, <2>4, <2>5 DEF QueueInOrder
  <2>7. NoneLost(u)'
    BY <1>1, <2>1, <2>2 DEF NoneLost
  <2> QED BY <2>6, <2>7
<1> QED BY <1>3, <1>4 DEF InOrder

(* The oldest command of a connection is answered behind the other replies. *)
LEMMA OwnServed ==
  ASSUME QueueTypes, NEW u \in Sockets, InOrder(u), handle[u] = "open",
         alive, inq # << >>, inq' = Tail(inq),
         UNCHANGED <<local, handle, sent, taken, alive>>,
         NEW no \in Nat, Waits(u, 1, no),
         NEW last \in Nat, last > Len(inbox[u]),
         \A i, n \in Nat : Has(u, i, n)' <=> Has(u, i, n) \/ (i = last /\ n = no)
  PROVE  InOrder(u)'
<1>1. InboxInOrder(u) /\ QueueInOrder(u) /\ NoneLost(u)
  BY DEF InOrder
<1>2. \A i, n \in Nat : Waits(u, i, n)' <=> i >= 1 /\ Waits(u, i + 1, n)
  BY WaitsShift
<1>3. taken[u] \in Nat /\ sent[u] \in Nat /\ Len(inbox[u]) \in Nat
  BY DatagramTypes
<1>4. taken[u] < no /\ no <= sent[u]
  BY <1>1 DEF QueueInOrder
<1>5. \A i, n \in Nat : Has(u, i, n) => n < no /\ i < last
  BY <1>1, <1>3 DEF QueueInOrder, Has
<1>6. ASSUME NEW i \in Nat, NEW n \in Nat, Waits(u, i, n)
      PROVE  (i = 1 /\ n = no) \/ (i > 1 /\ no < n)
  <2>1. CASE i = 1
    <3>1. Waits(u, 1, n)
      BY <1>6, <2>1
    <3>2. no = n
      BY ONLY <3>1, Waits(u, 1, no) DEF Waits
    <3> QED BY <2>1, <3>2
  <2>2. CASE i > 1
    BY <1>1, <1>6, <2>2 DEF QueueInOrder
  <2> QED BY <1>6, <2>1, <2>2, HasIndex
<1>7. \A n \in Nat : taken[u] < n /\ n < no => \E k \in Nat : Has(u, k, n)
  BY <1>1, <1>3, <1>4, <1>6 DEF NoneLost
<1>8. InboxInOrder(u)'
  <2>1. \A i, n \in Nat : Has(u, i, n)' => taken[u] < n /\ n <= sent[u]
    BY <1>1, <1>4 DEF InboxInOrder
  <2>2. \A i, k, n, l \in Nat : Has(u, i, n)' /\ Has(u, k, l)' /\ i < k => n < l
    BY <1>1, <1>5 DEF InboxInOrder
  <2>3. ASSUME NEW i \in Nat, NEW n \in Nat, NEW l \in Nat, Has(u, i, n)',
               taken[u] < l, l < n
        PROVE  \E k \in Nat : Has(u, k, l)'
    <3>1. \E k \in Nat : Has(u, k, l)
      BY <1>1, <1>7, <2>3 DEF InboxInOrder
    <3> QED BY <3>1
  <2> QED BY <1>1, <2>1, <2>2, <2>3 DEF InboxInOrder
<1>9. QueueInOrder(u)'
  <2>1. ASSUME NEW i \in Nat, NEW n \in Nat, Waits(u, i, n)'
        PROVE  Waits(u, i + 1, n) /\ i + 1 \in Nat /\ no < n
    <3>1. Waits(u, i + 1, n) /\ i + 1 \in Nat /\ i + 1 > 1
      BY <1>2, <2>1
    <3> QED BY <1>6, <3>1
  <2>2. \A i, n \in Nat : Waits(u, i, n)' => taken[u] < n /\ n <= sent[u]
    BY <1>1, <2>1 DEF QueueInOrder
  <2>3. \A i, k, n, l \in Nat : Has(u, i, n)' /\ Waits(u, k, l)' => n < l
    BY <1>5, <2>1
  <2>4. \A i, k, n, l \in Nat : Waits(u, i, n)' /\ Waits(u, k, l)' /\ i < k
                                 => n < l
    <3> SUFFICES ASSUME NEW i \in Nat, NEW k \in Nat, NEW n \in Nat,
                        NEW l \in Nat, Waits(u, i, n)', Waits(u, k, l)', i < k
                 PROVE  n < l
      OBVIOUS
    <3>1. Waits(u, i + 1, n) /\ Waits(u, k + 1, l) /\ i + 1 < k + 1
          /\ i + 1 \in Nat /\ k + 1 \in Nat
      BY <2>1
    <3> QED BY <1>1, <3>1 DEF QueueInOrder
  <2> QED BY <2>2, <2>3, <2>4 DEF QueueInOrder
<1>10. NoneLost(u)'
  <2> SUFFICES ASSUME NEW n \in Nat, taken[u] < n, n <= sent[u]
               PROVE  (\E i \in Nat : Has(u, i, n)')
                        \/ (\E i \in Nat : Waits(u, i, n)')
    BY DEF NoneLost
  <2>1. CASE \E i \in Nat : Has(u, i, n)
    BY <2>1
  <2>2. ASSUME NEW i \in Nat, Waits(u, i, n)
        PROVE  (\E k \in Nat : Has(u, k, n)') \/ (\E k \in Nat : Waits(u, k, n)')
    <3>1. CASE n = no
      BY <3>1
    <3>2. CASE i > 1
      <4>1. i - 1 \in Nat /\ i - 1 >= 1 /\ (i - 1) + 1 = i
        BY <3>2
      <4> QED BY <1>2, <2>2, <4>1
    <3> QED BY <1>6, <2>2, <3>1, <3>2
  <2> QED BY <1>1, <2>1, <2>2 DEF NoneLost
<1> QED BY <1>8, <1>9, <1>10 DEF InOrder

LEMMA ServeInOrder ==
  ASSUME Types, RepliesInOrder, Serve
  PROVE  RepliesInOrder'
<1>0. SocketTypes /\ QueueTypes /\ NetworkTypes
  BY DEF Types
<1>1. /\ alive /\ inq # << >> /\ inq' = Tail(inq)
      /\ UNCHANGED <<sockVars, sent, taken, alive>>
  BY DEF Serve
<1>2. PICK c : c = Head(inq)
  OBVIOUS
<1>3. PICK w : ReplyTo(c, w) /\ w \in {"OK", "FAIL", "ID", "TABLE"}
  BY <1>2 DEF Serve, WordFor
<1>4. /\ c = inq[1] /\ c \in Command /\ Len(inq) \in Nat \ {0}
      /\ c.sock \in Sockets /\ c.n \in Nat
  <2>1. c = inq[1] /\ Len(inq) \in Nat \ {0}
    BY <1>0, <1>1, <1>2, TailFacts DEF QueueTypes
  <2> QED BY <1>0, <2>1, DatagramTypes
<1>5. AddressesFresh'
  <2>1. /\ Len(inq') = Len(inq) - 1
        /\ \A i \in 1 .. Len(inq) - 1 : inq'[i] = inq[i + 1]
    BY <1>0, <1>1, TailFacts DEF QueueTypes
  <2> QED BY <1>1, <1>4, <2>1 DEF RepliesInOrder, AddressesFresh
<1>6. ASSUME NEW u \in Sockets PROVE InOrder(u)'
  <2>0. InOrder(u)
    BY DEF RepliesInOrder
  <2>1. CASE ~(handle[u] = "open" /\ c.sock = u /\ c.from = local[u])
    <3>1. inbox'[u] = inbox[u]
      BY <1>0, <1>3, <2>1 DEF ReplyTo, QueueTypes
    <3>2. handle[u] = "open" => \A n : ~Waits(u, 1, n)
      BY <1>4, <2>1 DEF Waits
    <3> QED BY <1>0, <1>1, <2>0, <3>1, <3>2, OtherServed
  <2>2. CASE handle[u] = "open" /\ c.sock = u /\ c.from = local[u]
    <3> DEFINE m == [word |-> w, to |-> c.n, id |-> NewId]
               e == [word |-> "EVENT", to |-> 0, id |-> 0]
    <3>1. PICK news \in {<<m>>, <<e, m>>} :
            inbox' = [inbox EXCEPT ![c.sock] = @ \o news]
      BY <1>3, <2>2 DEF ReplyTo
    <3>2. inbox[u] \in Seq(Inbound)
      BY <1>0 DEF QueueTypes
    <3>3. m \in Inbound /\ e \in Inbound
      BY <1>3, <1>4 DEF Inbound, NewId, Words, SizeOf
    <3>4. m.to = c.n /\ ~Unsolicited(m) /\ Unsolicited(e)
      BY <1>3 DEF Unsolicited
    <3> HIDE DEF m, e
    <3>5. news \in Seq(Inbound) /\ Len(news) \in {1, 2}
          /\ news[Len(news)] = m
          /\ \A i \in 1 .. Len(news) - 1 : Unsolicited(news[i])
      <4>1. CASE news = <<m>>
        BY <3>3, <4>1
      <4>2. CASE news = <<e, m>>
        BY <3>3, <3>4, <4>2
      <4> QED BY <4>1, <4>2
    <3>6. inbox'[u] = inbox[u] \o news
      BY <1>0, <2>2, <3>1 DEF QueueTypes
    <3> DEFINE last == Len(inbox[u]) + Len(news)
    <3>7. /\ Len(inbox[u]) \in Nat /\ Len(inbox'[u]) = last
          /\ \A i \in 1 .. Len(inbox[u]) : inbox'[u][i] = inbox[u][i]
          /\ \A i \in 1 .. Len(news) : inbox'[u][Len(inbox[u]) + i] = news[i]
      BY <3>2, <3>5, <3>6, ConcatFacts
    <3>70. Len(news) \in Nat /\ Len(news) >= 1 /\ Len(news) \in 1 .. Len(news)
      <4>1. Len(news) = 1 \/ Len(news) = 2
        BY <3>5
      <4> QED BY ONLY <4>1
    <3>8. last \in Nat /\ last > Len(inbox[u])
      BY ONLY <3>70, Len(inbox[u]) \in Nat, <3>7
    <3>9. inbox'[u][last] = m
      BY <3>5, <3>7, <3>70
    <3>10. ASSUME NEW i \in 1 .. last, ~(i \in 1 .. Len(inbox[u])), i # last
           PROVE  Unsolicited(inbox'[u][i])
      <4>1. i - Len(inbox[u]) \in 1 .. Len(news) - 1
            /\ Len(inbox[u]) + (i - Len(inbox[u])) = i
        BY <3>5, <3>7, <3>8, <3>10
      <4>2. PICK k \in 1 .. Len(news) - 1 : i = Len(inbox[u]) + k
        BY <4>1
      <4>3. k \in 1 .. Len(news) /\ Unsolicited(news[k])
        BY <3>5, <3>70
      <4>4. inbox'[u][Len(inbox[u]) + k] = news[k]
        BY <3>7, <4>3
      <4> QED BY <4>2, <4>3, <4>4
    <3> HIDE DEF last
    <3>11. ASSUME NEW i \in Nat, NEW n \in Nat
           PROVE  Has(u, i, n)' <=> Has(u, i, n) \/ (i = last /\ n = c.n)
      <4>1. CASE i \in 1 .. Len(inbox[u])
        BY <3>7, <3>8, <4>1 DEF Has, Unsolicited
      <4>2. CASE i = last
        BY <3>4, <3>7, <3>8, <3>9, <4>2 DEF Has, Unsolicited
      <4>3. CASE ~(i \in 1 .. Len(inbox[u])) /\ i # last
        BY <3>7, <3>10, <4>3 DEF Has, Unsolicited
      <4> QED BY <4>1, <4>2, <4>3
    <3>12. Waits(u, 1, c.n)
      BY <1>4, <2>2 DEF Waits
    <3> QED BY <1>0, <1>1, <1>4, <2>0, <2>2, <3>8, <3>11, <3>12, OwnServed
  <2> QED BY <2>1, <2>2
<1> QED BY <1>5, <1>6 DEF RepliesInOrder

LEMMA RepliesInOrderInit == Init => RepliesInOrder
<1> SUFFICES ASSUME Init PROVE RepliesInOrder
  OBVIOUS
<1>1. /\ counter = 0 /\ inq = << >> /\ local = [s \in Sockets |-> 0]
      /\ inbox = [s \in Sockets |-> << >>] /\ sent = [s \in Sockets |-> 0]
      /\ taken = [s \in Sockets |-> 0]
  BY DEF Init, WpaInit
<1>2. AddressesFresh
  BY <1>1 DEF AddressesFresh
<1>3. ASSUME NEW s \in Sockets PROVE InOrder(s)
  <2>1. (\A i, n : ~Has(s, i, n)) /\ (\A i, n : ~Waits(s, i, n))
    BY <1>1 DEF Has, Waits
  <2>2. taken[s] = 0 /\ sent[s] = 0
    BY <1>1
  <2> QED BY <2>1, <2>2 DEF InOrder, InboxInOrder, QueueInOrder, NoneLost
<1> QED BY <1>2, <1>3 DEF RepliesInOrder

LEMMA RepliesInOrderStep ==
  ASSUME Types, Places, RepliesInOrder, [Next]_vars
  PROVE  RepliesInOrder'
<1>1. ASSUME UNCHANGED <<handle, local, counter, alive, inq, inbox, sent, taken>>
      PROVE  RepliesInOrder'
  <2>1. AddressesFresh'
    BY <1>1 DEF RepliesInOrder, AddressesFresh
  <2>2. ASSUME NEW u \in Sockets PROVE InOrder(u)'
    BY <1>1, OrderKept, HasKept, WaitsKept DEF RepliesInOrder
  <2> QED BY <2>1, <2>2 DEF RepliesInOrder
<1>2. CASE OpenCtrl \/ OpenMonitor \/ wifi_hal_wpa_mesh_attach
  BY <1>2, OpenInOrder
     DEF OpenCtrl, OpenMonitor, wifi_hal_wpa_mesh_attach, Sockets
<1>3. CASE Attached \/ CloseCtrl \/ wifi_hal_wpa_dettach
  BY <1>1, <1>3, CloseInOrder DEF Attached, CloseCtrl, wifi_hal_wpa_dettach
<1>4. CASE wpa_ctrl_request
  BY <1>1, <1>4, SendInOrder, ReceiveInOrder
     DEF wpa_ctrl_request, SendAgain, Timeout
<1>5. CASE Die
  <2>0. /\ inq' = << >> /\ ~alive' /\ UNCHANGED <<sockVars, inbox, sent, taken>>
    BY <1>5 DEF Die
  <2>1. AddressesFresh'
    BY <2>0 DEF RepliesInOrder, AddressesFresh
  <2>2. ASSUME NEW u \in Sockets PROVE InOrder(u)'
    <3>1. InboxInOrder(u)'
      BY <2>0, HasKept DEF RepliesInOrder, InOrder, InboxInOrder
    <3>2. \A i, n : ~Waits(u, i, n)'
      BY <2>0 DEF Waits
    <3> QED BY <2>0, <3>1, <3>2 DEF InOrder, QueueInOrder, NoneLost
  <2> QED BY <2>1, <2>2 DEF RepliesInOrder
<1>6. CASE Serve
  BY <1>6, ServeInOrder
<1>7. CASE AttachMonitor \/ Ask \/ Answered \/ RequestFails \/ Terminated
           \/ UNCHANGED vars
  BY <1>1, <1>7 DEF AttachMonitor, Ask, Answered, RequestFails, ReceiveFails,
     Terminated
<1> QED BY <1>2, <1>3, <1>4, <1>5, <1>6, <1>7 DEF Next, HalStep

(* A step of the connections is one of the service's, or none.              *)
LEMMA ServiceStep ==
  ASSUME Types, Places, RepliesInOrder, [Next]_vars
  PROVE  [Service!Next]_(Service!vars)
<1> DEFINE busy == IF call.at = "select" THEN {call.sock} ELSE {}
<1>0. CallTypes /\ HalTypes /\ QueueTypes
  BY DEF Types
<1>1. ASSUME UNCHANGED <<sent, taken, ret>>, busy' = busy
      PROVE  UNCHANGED Service!vars
  BY <1>1 DEF Service!vars
<1>2. ASSUME NEW s \in Sockets, wpa_ctrl_open2(s), call.at = "idle",
             UNCHANGED <<call, ret>>
      PROVE  [Service!Next]_(Service!vars)
  <2>1. CASE UNCHANGED <<sent, taken>>
    BY <1>1, <1>2, <2>1
  <2>2. CASE /\ sent' = [sent EXCEPT ![s] = 0]
             /\ taken' = [taken EXCEPT ![s] = 0]
    <3>1. Service!Open(s)
      BY <1>2, <2>2 DEF Service!Open
    <3> QED BY <3>1 DEF Service!Next
  <2> QED BY <1>2, <2>1, <2>2 DEF wpa_ctrl_open2
<1>3. CASE OpenCtrl \/ OpenMonitor \/ wifi_hal_wpa_mesh_attach
  <2>1. call.at = "idle" /\ UNCHANGED <<call, ret>>
    BY <1>3 DEF Places, OpenCtrl, OpenMonitor, wifi_hal_wpa_mesh_attach
  <2> QED BY <1>2, <1>3, <2>1
          DEF OpenCtrl, OpenMonitor, wifi_hal_wpa_mesh_attach, Sockets
<1>4. CASE AttachMonitor \/ Attached \/ Ask \/ Answered
  <2>1. call.at # "select" /\ call'.at # "select"
        /\ UNCHANGED <<sent, taken, ret>>
    <3>1. CASE AttachMonitor
      BY <3>1 DEF AttachMonitor, Request, Places
    <3>2. CASE Attached \/ Answered
      <4>1. NoCall.at = "idle"
        BY DEF NoCall
      <4> QED BY <3>2, <4>1 DEF Attached, Answered
    <3>3. CASE Ask
      <4>1. call.at = "idle" /\ UNCHANGED <<sent, taken, ret>>
        BY <3>3 DEF Ask, Places
      <4>2. call' = call \/ \E v, i, z : call' = [at |-> "send", sock |-> z,
                                    verb |-> v, id |-> i, started |-> FALSE]
        BY <3>3 DEF Ask, Request
      <4> QED BY <4>1, <4>2
    <3> QED BY <1>4, <3>1, <3>2, <3>3
  <2> QED BY <1>1, <2>1
<1>5. CASE CloseCtrl \/ wifi_hal_wpa_dettach \/ Serve \/ Die \/ Terminated
           \/ UNCHANGED vars
  BY <1>1, <1>5 DEF CloseCtrl, wifi_hal_wpa_dettach, Serve, Die, Terminated
<1>6. ASSUME NEW r, Return(r), UNCHANGED <<sent, taken>>,
             \/ call.at = "send" /\ r = -1
             \/ call.at = "select" /\ r \in {-1, -2}
      PROVE  Service!Next
  <2>1. call'.at = "done" /\ ret' = r
    BY <1>0, <1>6 DEF Return, CallTypes, CallType
  <2> QED BY <1>6, <2>1 DEF Service!Next, Service!Unsent, Service!GiveUp
<1>7. CASE Timeout \/ RequestFails
  BY <1>6, <1>7 DEF Timeout, RequestFails, ReceiveFails
<1>8. CASE SendAgain
  <2>1. call.at = "send" /\ UNCHANGED <<sent, taken>>
    BY <1>8 DEF SendAgain
  <2>2. CASE call' = [call EXCEPT !.started = TRUE] /\ UNCHANGED ret
    <3>1. call'.at = "send"
      BY <1>0, <2>1, <2>2 DEF CallTypes, CallType
    <3> QED BY <1>1, <2>1, <2>2, <3>1
  <2>3. CASE Return(-1)
    BY <1>6, <2>1, <2>3
  <2> QED BY <1>8, <2>2, <2>3 DEF SendAgain
<1>9. CASE Send
  <2>1. call.at = "send" /\ UNCHANGED taken
    BY <1>9 DEF Send
  <2>2. CASE Return(-1) /\ UNCHANGED sent
    BY <1>6, <2>1, <2>2
  <2>3. CASE /\ sent' = [sent EXCEPT ![call.sock] = @ + 1]
             /\ call' = [call EXCEPT !.at = "select"] /\ UNCHANGED ret
    <3>1. call.sock \in Sockets /\ call'.at = "select"
          /\ call'.sock = call.sock
      BY <1>0, <2>3 DEF CallTypes, CallType
    <3>2. Service!Request(call.sock)
      BY <2>1, <2>3, <3>1 DEF Service!Request
    <3> QED BY <3>1, <3>2 DEF Service!Next
  <2> QED BY <1>9, <2>2, <2>3 DEF Send
<1>10. CASE Receive
  <2>1. call.at = "select"
    BY <1>10 DEF Receive
  <2>2. CASE UNCHANGED <<call, ret, sent, taken>>
    BY <1>1, <2>2
  <2>3. CASE /\ call.sock \in Sockets /\ taken[call.sock] < sent[call.sock]
             /\ taken' = [taken EXCEPT ![call.sock] = @ + 1]
             /\ ret' = 0 /\ call' = [call EXCEPT !.at = "done"]
             /\ UNCHANGED sent
    <3>1. call'.at = "done"
      BY <1>0, <2>3 DEF CallTypes, CallType
    <3>2. Service!Reply(call.sock)
      BY <2>1, <2>3, <3>1 DEF Service!Reply
    <3> QED BY <2>3, <3>2 DEF Service!Next
  <2> QED BY <1>10, <2>2, <2>3, ReceiveInOrder
<1> QED BY <1>3, <1>4, <1>5, <1>7, <1>8, <1>9, <1>10
        DEF Next, HalStep, wpa_ctrl_request

(* The connections of a radio are the service WpaService describes: a reply *)
(* that is taken belongs to the oldest command of its connection that has   *)
(* none, however many calls were given up, whatever the supplicant refuses, *)
(* and whether it dies or the connection is opened again.                   *)
THEOREM ConnectionsImplementService == Spec => ConnectionsAreServices
<1> DEFINE Inv == Types /\ Places /\ RepliesInOrder
<1>1. Init => Inv
  BY TypesInit, PlacesInit, RepliesInOrderInit
<1>2. Inv /\ [Next]_vars => Inv'
  BY TypesStep, PlacesStep, RepliesInOrderStep
<1>3. Init => Service!Init
  <2>1. NoCall.at = "idle"
    BY DEF NoCall
  <2> QED BY <2>1 DEF Init, WpaInit, Service!Init
<1>4. Inv /\ [Next]_vars => [Service!Next]_(Service!vars)
  BY ServiceStep
<1> QED BY <1>1, <1>2, <1>3, <1>4, PTL
        DEF Spec, ConnectionsAreServices, Service!Spec

-----------------------------------------------------------------------------
(***************************************************************************)
(* The networks that the functions configure.                              *)
(*                                                                         *)
(* The supplicant answers in order, but it may answer late, and a function *)
(* that goes on after a timeout reads the answer to an earlier command.  A *)
(* function that has lost no answer is on course: the command under way is *)
(* the only one the supplicant may still serve, and what was set before is *)
(* set in the network that was added.                                      *)
(***************************************************************************)

(***************************************************************************)
(* What the tables of commands have in common.                             *)
(***************************************************************************)
Removers == {"REMOVE_NETWORK", "ADD_NETWORK"}
Enablers == {"ENABLE_NETWORK", "MESH_GROUP_ADD"}

(* A network is added before anything is set, every setting is checked, and *)
(* enabling comes last, after the name and the key.                         *)
Sequenced(T) ==
  \A k \in 1 .. Len(T) :
    /\ T[k].verb \in Removers => \A j \in 1 .. k - 1 : T[j].verb \notin Params
    /\ T[k].verb \in Params => T[k].check \in {"ok", "okret", "buf"}
    /\ T[k].verb \in Enablers =>
         \A p \in {"ssid", "psk"} : \E j \in 1 .. k - 1 : T[j].verb = p

(* create_ap and join_mesh set every parameter and end with a checked       *)
(* command that enables the network.                                        *)
Thorough(T) ==
  /\ Len(T) > 3
  /\ T[Len(T)].verb \in Enablers /\ T[Len(T)].check = "ok"
  /\ \A p \in Params : \E j \in 1 .. Len(T) - 1 : T[j].verb = p
  /\ \A k \in 1 .. Len(T) : T[k].check \in {"ret", "minus", "ok", "none"}
  /\ T[1].check \in {"ret", "minus"}

(* join_mesh uses its own connection once it has removed the networks.      *)
MeshTable(T) ==
  /\ T[1].verb = "wpa_mesh_attach" /\ T[1].sock = "mesh_ctrl"
  /\ T[2].sock = "ctrl" /\ T[2].verb = "REMOVE_NETWORK" /\ T[2].check = "none"
  /\ T[3].verb = "ADD_NETWORK"
  /\ \A k \in 3 .. Len(T) : /\ T[k].sock = "mesh_ctrl"
                            /\ T[k].check \in {"minus", "ok"}
  /\ \A k \in 2 .. Len(T) : T[k].verb \in AllVerbs \ {"ATTACH"}

(* The others use one connection, and return if the first command fails.    *)
PlainTable(T) ==
  /\ \A k \in 1 .. Len(T) : /\ T[k].sock = "ctrl"
                            /\ T[k].verb \in AllVerbs \ {"ATTACH"}
  /\ T[1].check = "ret" \/ Len(T) = 1

LEMMA Tables ==
  \A f \in Functions :
    /\ Sequenced(wifi_hal_ops[f])
    /\ f \in Makers => Thorough(wifi_hal_ops[f])
    /\ f = "join_mesh" => MeshTable(wifi_hal_ops[f])
    /\ f # "join_mesh" => PlainTable(wifi_hal_ops[f])
    /\ f = "create_ap" => \A k \in 1 .. Len(wifi_hal_ops[f]) :
                            wifi_hal_ops[f][k].check \in {"ret", "ok"}
<1> USE DEF Cmd, Sequenced, Thorough, MeshTable, PlainTable, Removers, Enablers,
            AllVerbs, Params
<1>1. Sequenced(wifi_hal_connect_ap) /\ PlainTable(wifi_hal_connect_ap)
  BY DEF wifi_hal_connect_ap
<1>2. /\ Sequenced(wifi_hal_create_ap) /\ Thorough(wifi_hal_create_ap)
      /\ PlainTable(wifi_hal_create_ap)
      /\ \A k \in 1 .. Len(wifi_hal_create_ap) :
           wifi_hal_create_ap[k].check \in {"ret", "ok"}
  BY DEF wifi_hal_create_ap
<1>3. /\ Sequenced(wifi_hal_join_mesh) /\ Thorough(wifi_hal_join_mesh)
      /\ MeshTable(wifi_hal_join_mesh)
  BY DEF wifi_hal_join_mesh
<1>4. Sequenced(wifi_hal_trigger_scan) /\ PlainTable(wifi_hal_trigger_scan)
  BY DEF wifi_hal_trigger_scan
<1>5. /\ Sequenced(wifi_hal_get_scan_results)
      /\ PlainTable(wifi_hal_get_scan_results)
  BY DEF wifi_hal_get_scan_results
<1>6. /\ wifi_hal_ops["connect_ap"] = wifi_hal_connect_ap
      /\ wifi_hal_ops["create_ap"] = wifi_hal_create_ap
      /\ wifi_hal_ops["join_mesh"] = wifi_hal_join_mesh
      /\ wifi_hal_ops["trigger_scan"] = wifi_hal_trigger_scan
      /\ wifi_hal_ops["scan_results"] = wifi_hal_get_scan_results
  BY DEF wifi_hal_ops
<1> HIDE DEF Sequenced, Thorough, MeshTable, PlainTable
<1> QED BY <1>1, <1>2, <1>3, <1>4, <1>5, <1>6 DEF Functions, Makers

-----------------------------------------------------------------------------
(***************************************************************************)
(* The inductive invariant.                                                *)
(***************************************************************************)
NetworkRecord == [set : SUBSET Params, on : BOOLEAN]

ResultRecord == [fn : Functions, val : Int]

NetworkRecords == networks \in [DOMAIN networks -> NetworkRecord]

(* The request that is made is the command of the table; it was not refused *)
(* and neither is a later one of the function.                              *)
CallKnown ==
  /\ pc = "attaching" => call.sock = "monitor" /\ call.verb = "ATTACH"
  /\ pc = "asking" => /\ call.sock = Now.sock /\ call.verb = Now.verb
                      /\ call.id = nw_id /\ ~Refuses
                      /\ Now.verb \in AllVerbs \ {"ATTACH"}
  /\ pc \notin {"next", "asking"} \cup Ended => step = 1
  /\ todo # << >> /\ step > 1 =>
       /\ Head(todo) # "join_mesh" => handle["monitor"] # "NULL"
       /\ Head(todo) = "join_mesh" /\ pc # "crashed" => handle["mesh_ctrl"] = "open"
(* Unsolicited messages come to the monitor only.                           *)
EventsApart ==
  /\ \A i \in 1 .. Len(inq) : inq[i].verb = "ATTACH" => inq[i].sock = "monitor"
  /\ \A s \in {"ctrl", "mesh_ctrl"} : \A i \in 1 .. Len(inbox[s]) :
       ~Unsolicited(inbox[s][i])

(* join_mesh cannot give up before it has opened its connection.            *)
ResultKnown ==
  /\ result \in Seq(ResultRecord)
  /\ gaveUp /\ result = << >> /\ todo = <<"join_mesh">> => step > 2

Requests == NetworkRecords /\ CallKnown /\ EventsApart /\ ResultKnown

(* Nothing has failed, except perhaps the removal of the networks at the    *)
(* start of join_mesh, after which join_mesh goes on.                       *)
OnCourse ==
  \/ ~gaveUp
  \/ todo = <<"join_mesh">> /\ result = << >>
  \/ todo = << >> /\ result = <<[fn |-> "join_mesh", val |-> 0]>>

(* The call under way has failed, which the function has not seen yet.      *)
Failed == pc = "asking" /\ call.at = "done" /\ ret < 0
Succeeded == pc = "asking" /\ call.at = "done" /\ ret = 0

(* The i-th command the supplicant has not read is that of the call under   *)
(* way, or join_mesh's removal of the networks that was given up.           *)
Awaited(i) ==
  /\ pc = "asking" /\ (call.at = "select" \/ Failed)
  /\ inq[i].sock = call.sock /\ inq[i].from = local[call.sock]
  /\ inq[i].n = sent[call.sock]
  /\ inq[i].verb = call.verb /\ inq[i].id = call.id
Late(i) ==
  /\ inq[i].verb = "REMOVE_NETWORK" /\ inq[i].sock = "ctrl"
  /\ gaveUp /\ todo = <<"join_mesh">> /\ step = 3
  /\ pc \in {"next", "asking"} /\ ~Succeeded

QueueKnown ==
  /\ \A i \in 1 .. Len(inq) : inq[i].verb = "ATTACH" \/ Awaited(i) \/ Late(i)
  /\ \A i \in 1 .. Len(inq) : Late(i) =>
       /\ inbox["mesh_ctrl"] = << >>
       /\ \A j \in 1 .. Len(inq) : inq[j].verb = "ADD_NETWORK" => i < j

(* Every answer but that of the call under way has been taken.              *)
InStep ==
  \A s \in {"ctrl", "mesh_ctrl"} :
    \/ s = "ctrl" /\ gaveUp
    \/ Failed /\ call.sock = s
    \/ sent[s] = taken[s] + (IF call.at = "select" /\ call.sock = s THEN 1 ELSE 0)

(* What the command under way does to the network; if it is answered with   *)
(* OK, that has been done.                                                  *)
Effect ==
  /\ Now.verb \in Params => /\ nw_id \in DOMAIN networks
                            /\ Now.verb \in networks[nw_id].set
  /\ Now.verb \in Enablers => nw_id \in DOMAIN networks /\ networks[nw_id].on
Applied ==
  pc = "asking" =>
    /\ call.at = "select" =>
         \A i \in 1 .. Len(inbox[call.sock]) :
           inbox[call.sock][i].word = "OK" => Effect
    /\ Succeeded /\ buf.word = "OK" => Effect

(* What the function has set so far is set in the network it has added.     *)
SetUpTo(f, k) == {wifi_hal_ops[f][j].verb : j \in 1 .. k - 1} \cap Params
SetBefore == SetUpTo(Head(todo), step)
Configured ==
  todo # << >> /\ pc \in {"next", "asking"} /\ SetBefore # {} =>
    nw_id \in DOMAIN networks /\ SetBefore \subseteq networks[nw_id].set

NoneOpen == \A i \in DOMAIN networks :
              networks[i].on => {"ssid", "psk"} \subseteq networks[i].set

Course == QueueKnown /\ InStep /\ Applied /\ Configured /\ NoneOpen

-----------------------------------------------------------------------------
(***************************************************************************)
(* The result of a command, and how a function goes on.                    *)
(***************************************************************************)
LEMMA CommandResultFacts ==
  ASSUME ret \in {0, -1, -2}
  PROVE  /\ CommandResult \in {0, -1, -2}
         /\ CommandResult = 0 => ret = 0
         /\ ret < 0 => CommandResult < 0
BY DEF CommandResult

LEMMA VerdictFacts ==
  ASSUME NEW check \in Checks, NEW r \in {0, -1, -2}
  PROVE  /\ Verdict(check, r) \in {1, 0, -1, -2}
         /\ check \in {"ret", "minus"} /\ r < 0 => Verdict(check, r) < 0
         /\ check \in {"ret", "minus"} => Verdict(check, r) # 0
         /\ check = "ok" => Verdict(check, r) \in {1, -1}
         /\ check \in {"ok", "okret"} /\ Verdict(check, r) > 0 => r = 0
         /\ check \in {"ok", "okret", "buf"} /\ Verdict(check, r) > 0
              => buf.word = "OK"
         /\ check = "none" => Verdict(check, r) = 1
BY DEF Verdict, Checks, StartsWith

LEMMA AfterFacts ==
  ASSUME HalTypes, todo # << >>, NEW v \in Int, After(v)
  PROVE  \/ /\ v > 0 /\ step < Len(Steps) /\ result' = result
            /\ todo' = todo /\ step' = step + 1
         \/ /\ v <= 0 \/ step = Len(Steps)
            /\ result' = Append(result, [fn |-> Head(todo),
                                         val |-> IF v <= 0 THEN v ELSE 0])
            /\ todo' = Tail(todo) /\ step' = 1
<1>1. step \in 1 .. Len(Steps) /\ Len(Steps) \in Nat
  BY NowType
<1> QED BY <1>1 DEF After

(* What the command that is next is like.                                   *)
LEMMA NowFacts ==
  ASSUME HalTypes, todo # << >>
  PROVE  /\ Sequenced(Steps) /\ step \in 1 .. Len(Steps) /\ Len(Steps) \in Nat
         /\ Head(todo) \in Functions /\ Now = Steps[step]
         /\ Head(todo) \in Makers => Thorough(Steps)
         /\ Head(todo) = "join_mesh" => MeshTable(Steps) /\ Thorough(Steps)
         /\ Head(todo) # "join_mesh" => PlainTable(Steps) /\ Now.sock = "ctrl"
         /\ Head(todo) = "join_mesh" /\ step > 1 =>
              Now.sock = (IF step = 2 THEN "ctrl" ELSE "mesh_ctrl")
              /\ Now.verb \in AllVerbs \ {"ATTACH"}
         /\ Now.verb \in AllVerbs /\ Head(todo) = "join_mesh" => step > 1
<1>1. Head(todo) \in Functions /\ step \in 1 .. Len(Steps) /\ Len(Steps) \in Nat
  BY NowType
<1>2. /\ Sequenced(Steps)
      /\ Head(todo) \in Makers => Thorough(Steps)
      /\ Head(todo) = "join_mesh" => MeshTable(Steps)
      /\ Head(todo) # "join_mesh" => PlainTable(Steps)
  BY <1>1, Tables DEF Steps
<1>3. Head(todo) # "join_mesh" => Now.sock = "ctrl"
  BY <1>1, <1>2 DEF PlainTable, Now
<1>4. Head(todo) = "join_mesh" /\ step > 1 =>
        Now.sock = (IF step = 2 THEN "ctrl" ELSE "mesh_ctrl")
        /\ Now.verb \in AllVerbs \ {"ATTACH"}
  BY <1>1, <1>2 DEF MeshTable, Now
<1>5. Now.verb \in AllVerbs /\ Head(todo) = "join_mesh" => step > 1
  <2>1. "wpa_mesh_attach" \notin AllVerbs
    BY DEF AllVerbs, Params
  <2> QED BY <1>1, <1>2, <2>1 DEF MeshTable, Now
<1> QED BY <1>1, <1>2, <1>3, <1>4, <1>5 DEF Makers, Now

-----------------------------------------------------------------------------
(***************************************************************************)
(* Requests is an invariant.                                               *)
(***************************************************************************)
LEMMA RequestsInit == Init => Requests
<1> SUFFICES ASSUME Init PROVE Requests
  OBVIOUS
<1>1. /\ pc = "ctrl" /\ step = 1 /\ inq = << >> /\ result = << >>
      /\ inbox = [s \in Sockets |-> << >>] /\ ~gaveUp
  BY DEF Init, WpaInit
<1>2. NetworkRecords
  <2>1. Stale \in NetworkRecord
    BY DEF Stale, NetworkRecord
  <2>2. PICK d : networks = [i \in d |-> Stale]
    BY DEF Init
  <2> QED BY <2>1, <2>2 DEF NetworkRecords
<1>3. CallKnown
  BY <1>1 DEF CallKnown, Ended
<1>4. EventsApart
  BY <1>1 DEF EventsApart, Sockets
<1>5. ResultKnown
  BY <1>1 DEF ResultKnown
<1> QED BY <1>2, <1>3, <1>4, <1>5 DEF Requests

LEMMA NetworkRecordsAfter ==
  ASSUME NetworkRecords, NEW c, OnNetwork(c) => c.id \in DOMAIN networks
  PROVE  NetworksAfter(c) \in [DOMAIN NetworksAfter(c) -> NetworkRecord]
<1>0. networks \in [DOMAIN networks -> NetworkRecord]
  BY DEF NetworkRecords
<1> DEFINE empty == [set |-> {}, on |-> FALSE]
<1>1. empty \in NetworkRecord
  BY DEF NetworkRecord
<1>2. CASE c.verb = "REMOVE_NETWORK"
  <2>1. NetworksAfter(c) = << >>
    BY <1>2 DEF NetworksAfter, Params
  <2>2. << >> \in [{} -> NetworkRecord] /\ DOMAIN << >> = {}
    OBVIOUS
  <2> QED BY <2>1, <2>2
<1>3. CASE c.verb = "ADD_NETWORK"
  <2>1. NetworksAfter(c) = [i \in DOMAIN networks \cup {NewId} |->
                              IF i = NewId THEN empty ELSE networks[i]]
    BY <1>3 DEF NetworksAfter, Params
  <2> HIDE DEF empty
  <2> QED BY <1>0, <1>1, <2>1
<1>4. CASE c.verb \in Params
  <2>1. c.id \in DOMAIN networks
    BY <1>4 DEF OnNetwork
  <2>2. NetworksAfter(c) = [networks EXCEPT ![c.id].set = @ \cup {c.verb}]
    BY <1>4 DEF NetworksAfter, Params
  <2>3. networks[c.id] \in NetworkRecord
    BY <1>0, <2>1
  <2>4. [networks[c.id] EXCEPT !.set = @ \cup {c.verb}] \in NetworkRecord
    BY <1>4, <2>3 DEF NetworkRecord
  <2> QED BY <1>0, <2>1, <2>2, <2>4
<1>5. CASE c.verb \in {"ENABLE_NETWORK", "MESH_GROUP_ADD"}
  <2>1. c.id \in DOMAIN networks
    BY <1>5 DEF OnNetwork
  <2>2. NetworksAfter(c) = [networks EXCEPT ![c.id].on = TRUE]
    BY <1>5 DEF NetworksAfter, Params
  <2>3. networks[c.id] \in NetworkRecord
    BY <1>0, <2>1
  <2>4. [networks[c.id] EXCEPT !.on = TRUE] \in NetworkRecord
    BY <2>3 DEF NetworkRecord
  <2> QED BY <1>0, <2>1, <2>2, <2>4
<1>6. CASE c.verb \notin Params \cup {"REMOVE_NETWORK", "ADD_NETWORK",
                                       "ENABLE_NETWORK", "MESH_GROUP_ADD"}
  BY <1>0, <1>6 DEF NetworksAfter
<1> QED BY <1>2, <1>3, <1>4, <1>5, <1>6

(* The steps that neither change the networks nor answer a command.         *)
LEMMA OthersKeepNetworks ==
  ASSUME [Next]_vars, ~Serve
  PROVE  UNCHANGED networks
BY DEF Next, HalStep, OpenCtrl, OpenMonitor, AttachMonitor, Attached,
   CloseCtrl, wifi_hal_wpa_dettach, Ask, Answered, wifi_hal_wpa_mesh_attach,
   RequestFails, Die, Terminated

LEMMA NetworkRecordsStep ==
  ASSUME NetworkRecords, [Next]_vars
  PROVE  NetworkRecords'
<1>1. CASE Serve
  <2>1. \/ networks' = networks
        \/ /\ networks' = NetworksAfter(Head(inq))
           /\ OnNetwork(Head(inq)) => Head(inq).id \in DOMAIN networks
    BY <1>1 DEF Serve
  <2> QED BY <2>1, NetworkRecordsAfter DEF NetworkRecords
<1>2. CASE ~Serve
  BY <1>2, OthersKeepNetworks DEF NetworkRecords
<1> QED BY <1>1, <1>2

(* A step of a request keeps what is asked for.                             *)
LEMMA RequestKeeps ==
  ASSUME CallTypes, wpa_ctrl_request \/ ReceiveFails
  PROVE  /\ call.at \in {"send", "select"}
         /\ call'.sock = call.sock /\ call'.verb = call.verb
         /\ call'.id = call.id /\ UNCHANGED sockVars
         /\ \/ call'.at = call.at
            \/ call.at = "send" /\ call'.at = "select"
            \/ call'.at = "done"
<1>1. \/ call' = call
      \/ call' = [call EXCEPT !.at = "done"]
      \/ call' = [call EXCEPT !.at = "select"] /\ call.at = "send"
      \/ call' = [call EXCEPT !.started = TRUE]
  BY DEF wpa_ctrl_request, Send, SendAgain, Receive, Timeout, ReceiveFails,
     Return
<1>2. call.at \in {"send", "select"} /\ UNCHANGED sockVars
  BY DEF wpa_ctrl_request, Send, SendAgain, Receive, Timeout, ReceiveFails
<1> QED BY <1>1, <1>2 DEF CallTypes, CallType

LEMMA CallKnownStep ==
  ASSUME Types, Places, CallKnown, [Next]_vars
  PROVE  CallKnown'
<1>0. SocketTypes /\ CallTypes /\ HalTypes
  BY DEF Types
<1>01. handle \in [Sockets -> {"NULL", "open", "freed"}]
  BY <1>0 DEF SocketTypes
<1>1. CASE OpenCtrl \/ OpenMonitor \/ AttachMonitor \/ Attached \/ CloseCtrl
  <2>1. pc \notin {"next", "asking"} \cup Ended
    BY <1>1 DEF OpenCtrl, OpenMonitor, AttachMonitor, Attached, CloseCtrl, Ended
  <2>2. step' = 1
    BY <1>1, <2>1
       DEF CallKnown, OpenCtrl, OpenMonitor, AttachMonitor, Attached, CloseCtrl
  <2>3. pc' # "asking"
    BY <1>1 DEF OpenCtrl, OpenMonitor, AttachMonitor, Attached, CloseCtrl,
       OpenFailed
  <2>4. pc' = "attaching" => call'.sock = "monitor" /\ call'.verb = "ATTACH"
    <3>1. pc' = "attaching" => AttachMonitor
      BY <1>1 DEF OpenCtrl, OpenMonitor, Attached, CloseCtrl, OpenFailed
    <3> QED BY <3>1 DEF AttachMonitor, Request
  <2> QED BY <2>2, <2>3, <2>4 DEF CallKnown
<1>2. CASE Ask
  <2>0. /\ pc = "next" /\ todo # << >> /\ Now.verb # "wpa_mesh_attach"
        /\ UNCHANGED <<handle, nw_id>> /\ call.at = "idle"
    BY <1>2 DEF Ask, Places
  <2>1. CASE Refuses /\ After(Verdict(Now.check, -1)) /\ UNCHANGED <<pc, call>>
    <3>1. Verdict(Now.check, -1) \in Int
      BY <1>0, <2>0, NowType, VerdictFacts
    <3>2. CASE todo' = Tail(todo) /\ step' = 1
      BY <2>0, <2>1, <3>2 DEF CallKnown
    <3>3. CASE /\ Verdict(Now.check, -1) > 0 /\ step < Len(Steps)
               /\ todo' = todo /\ step' = step + 1
      <4>1. CASE step > 1
        BY <2>0, <2>1, <3>3, <4>1 DEF CallKnown
      <4>2. CASE step = 1 /\ Head(todo) # "join_mesh"
        <5>1. Now.check = "ret"
          BY <1>0, <2>0, <3>3, <4>2, NowFacts DEF PlainTable
        <5> QED BY <3>3, <5>1, VerdictFacts DEF Checks
      <4>3. CASE step = 1 /\ Head(todo) = "join_mesh"
        BY <1>0, <2>0, <4>3, NowFacts DEF MeshTable
      <4> QED BY <1>0, <4>1, <4>2, <4>3 DEF HalTypes
    <3> QED BY <1>0, <2>0, <2>1, <3>1, <3>2, <3>3, AfterFacts
  <2>2. CASE /\ ~Refuses /\ Request(Now.sock, Now.verb, nw_id)
             /\ pc' = "asking" /\ UNCHANGED <<result, todo, step>>
    <3>1. Now.verb \in AllVerbs \ {"ATTACH"}
      <4>1. CASE Head(todo) # "join_mesh"
        BY <1>0, <2>0, <4>1, NowFacts DEF PlainTable
      <4>2. CASE Head(todo) = "join_mesh"
        <5>1. step > 1
          BY <1>0, <2>0, <4>2, NowFacts, NowType
        <5> QED BY <1>0, <2>0, <4>2, <5>1, NowFacts
      <4> QED BY <4>1, <4>2
    <3>2. Now' = Now /\ Refuses' = Refuses
      BY <2>0, <2>2 DEF Now, Steps, Refuses
    <3>3. call'.sock = Now.sock /\ call'.verb = Now.verb /\ call'.id = nw_id
      BY <2>2 DEF Request
    <3> QED BY <2>0, <2>2, <3>1, <3>2, <3>3 DEF CallKnown
  <2>3. CASE pc' = "crashed" /\ UNCHANGED <<call, result, todo, step>>
    BY <2>0, <2>3 DEF CallKnown, Ended
  <2> QED BY <1>2, <2>1, <2>2, <2>3 DEF Ask
<1>3. CASE Answered
  <2>0. /\ pc = "asking" /\ pc' = "next" /\ UNCHANGED handle /\ todo # << >>
        /\ After(Verdict(Now.check, CommandResult))
    BY <1>0, <1>3 DEF Answered, HalTypes
  <2>1. Verdict(Now.check, CommandResult) \in Int
    BY <1>0, <2>0, NowType, VerdictFacts, CommandResultFacts DEF CallTypes
  <2>2. CASE step' = 1
    BY <2>0, <2>2 DEF CallKnown
  <2>3. CASE todo' = todo /\ step' = step + 1
    <3>1. Head(todo) # "join_mesh" => handle["monitor"] # "NULL"
      BY <1>0, <2>0, NowFacts DEF CallKnown, Refuses
    <3>2. Head(todo) = "join_mesh" => handle["mesh_ctrl"] = "open"
      BY <1>0, <2>0, NowFacts DEF CallKnown
    <3> QED BY <2>0, <2>3, <3>1, <3>2 DEF CallKnown
  <2> QED BY <1>0, <2>0, <2>1, <2>2, <2>3, AfterFacts
<1>4. CASE wifi_hal_wpa_mesh_attach
  <2>0. /\ pc = "next" /\ pc' = "next" /\ todo # << >>
        /\ Now.verb = "wpa_mesh_attach"
        /\ After(Verdict(Now.check, IF handle'["mesh_ctrl"] = "open" THEN 0
                                    ELSE -1))
    BY <1>4 DEF wifi_hal_wpa_mesh_attach
  <2>1. Head(todo) = "join_mesh" /\ step = 1 /\ Now.check = "minus"
    <3>1. "wpa_mesh_attach" \notin AllVerbs
      BY DEF AllVerbs, Params
    <3>2. Head(todo) = "join_mesh" /\ step = 1
      BY <1>0, <2>0, <3>1, NowType
    <3>3. Steps = wifi_hal_join_mesh
      BY <3>2 DEF Steps, wifi_hal_ops
    <3> QED BY <3>2, <3>3 DEF Now, wifi_hal_join_mesh, Cmd
  <2> DEFINE v == Verdict(Now.check, IF handle'["mesh_ctrl"] = "open" THEN 0
                                     ELSE -1)
  <2>2. v \in Int /\ (v > 0 => handle'["mesh_ctrl"] = "open")
    BY <2>1, VerdictFacts DEF Checks
  <2>3. CASE step' = 1
    BY <2>0, <2>3 DEF CallKnown
  <2>4. CASE v > 0 /\ todo' = todo
    BY <2>0, <2>1, <2>2, <2>4 DEF CallKnown
  <2> QED BY <1>0, <2>0, <2>2, <2>3, <2>4, AfterFacts
<1>5. CASE wifi_hal_wpa_dettach
  BY <1>5 DEF wifi_hal_wpa_dettach, CallKnown, Ended
<1>6. ASSUME UNCHANGED <<pc, todo, step, nw_id, handle>>,
             call'.sock = call.sock, call'.verb = call.verb,
             call'.id = call.id
      PROVE  CallKnown'
  BY <1>6 DEF CallKnown, Now, Steps, Refuses
<1>7. CASE (wpa_ctrl_request /\ UNCHANGED <<halVars, networks, refused>>)
           \/ RequestFails
  BY <1>0, <1>6, <1>7, RequestKeeps DEF RequestFails
<1>8. CASE Serve \/ Die \/ Terminated \/ UNCHANGED vars
  BY <1>6, <1>8 DEF Serve, Die, Terminated
<1> QED BY <1>1, <1>2, <1>3, <1>4, <1>5, <1>7, <1>8 DEF Next, HalStep

(* What the supplicant does with the command it reads.                      *)
LEMMA ServeFacts ==
  ASSUME Types, Serve
  PROVE  \E c \in Command, w \in {"OK", "FAIL", "ID", "TABLE"} :
           /\ inq # << >> /\ c = Head(inq) /\ c = inq[1] /\ ReplyTo(c, w)
           /\ \/ /\ networks' = NetworksAfter(c) /\ w = WordFor(c)
                 /\ OnNetwork(c) => c.id \in DOMAIN networks
              \/ networks' = networks /\ w = "FAIL"
<1>1. QueueTypes /\ inq # << >>
  BY DEF Types, Serve
<1>2. PICK c \in Command : c = Head(inq) /\ c = inq[1]
  BY <1>1, TailFacts DEF QueueTypes
<1>3. CASE /\ networks' = NetworksAfter(c) /\ ReplyTo(c, WordFor(c))
           /\ OnNetwork(c) => c.id \in DOMAIN networks
  <2>1. WordFor(c) \in {"OK", "FAIL", "ID", "TABLE"}
    BY DEF WordFor
  <2> QED BY <1>1, <1>2, <1>3, <2>1
<1>4. CASE networks' = networks /\ ReplyTo(c, "FAIL")
  BY <1>1, <1>2, <1>4
<1> QED BY <1>2, <1>3, <1>4 DEF Serve

(* A reply that no event comes before.                                      *)
LEMMA PlainReply ==
  ASSUME QueueTypes, NEW c \in Command, c.verb # "ATTACH",
         NEW w \in {"OK", "FAIL", "ID", "TABLE"}, ReplyTo(c, w)
  PROVE  \/ inbox' = inbox
         \/ \E m \in Inbound :
              /\ m.word = w /\ ~Unsolicited(m)
              /\ inbox' = [inbox EXCEPT ![c.sock] = Append(@, m)]
<1> DEFINE m == [word |-> w, to |-> c.n, id |-> NewId]
           e == [word |-> "EVENT", to |-> 0, id |-> 0]
<1>1. m \in Inbound /\ m.word = w /\ ~Unsolicited(m)
  BY DEF Inbound, NewId, Words, SizeOf, Command, Unsolicited
<1>2. Len(<<e, m>>) = 2
  OBVIOUS
<1>3. CASE inbox' # inbox
  <2>1. PICK news \in {<<m>>, <<e, m>>} :
          /\ Len(news) = 2 => c.verb = "ATTACH"
          /\ inbox' = [inbox EXCEPT ![c.sock] = @ \o news]
    BY <1>3 DEF ReplyTo
  <2> HIDE DEF m, e
  <2>2. news = <<m>>
    BY <1>2, <2>1
  <2>3. inbox[c.sock] \in Seq(Inbound)
    <3>1. c.sock \in Sockets
      BY DEF Command
    <3> QED BY <3>1 DEF QueueTypes
  <2>4. inbox[c.sock] \o <<m>> = Append(inbox[c.sock], m)
    BY <1>1, <2>3
  <2> QED BY <1>1, <2>1, <2>2, <2>4
<1> QED BY <1>3

(* A reply reaches no connection but the one that asked.                    *)
LEMMA OtherReply ==
  ASSUME QueueTypes, NEW c \in Command, NEW w, ReplyTo(c, w),
         NEW u \in Sockets \ {c.sock}
  PROVE  inbox'[u] = inbox[u]
BY DEF ReplyTo, QueueTypes

LEMMA EventsApartStep ==
  ASSUME Types, Places, CallKnown, EventsApart, [Next]_vars
  PROVE  EventsApart'
<1>0. QueueTypes /\ CallTypes
  BY DEF Types
<1> DEFINE Mine == {"ctrl", "mesh_ctrl"}
           Quiet(s) == \A i \in 1 .. Len(inbox[s]) : ~Unsolicited(inbox[s][i])
<1>01. Mine \subseteq Sockets /\ \A s \in Mine : Quiet(s)
  BY DEF Sockets, EventsApart
<1>1. ASSUME UNCHANGED inq,
             \A s \in Mine : inbox'[s] = inbox[s] \/ inbox'[s] = << >>
      PROVE  EventsApart'
  <2>1. ASSUME NEW s \in Mine PROVE Quiet(s)'
    <3>1. CASE inbox'[s] = inbox[s]
      BY <1>01, <3>1 DEF Unsolicited
    <3>2. CASE inbox'[s] = << >>
      BY <3>2
    <3> QED BY <1>1, <3>1, <3>2
  <2> QED BY <1>1, <2>1 DEF EventsApart
<1>2. CASE OpenCtrl \/ OpenMonitor \/ wifi_hal_wpa_mesh_attach
  <2>1. PICK s : wpa_ctrl_open2(s) /\ inq' = inq
    BY <1>2 DEF OpenCtrl, OpenMonitor, wifi_hal_wpa_mesh_attach
  <2>2. inbox' = inbox \/ inbox' = [inbox EXCEPT ![s] = << >>]
    BY <2>1 DEF wpa_ctrl_open2
  <2> QED BY <1>0, <1>01, <1>1, <2>1, <2>2 DEF QueueTypes
<1>3. CASE Attached \/ CloseCtrl \/ wifi_hal_wpa_dettach
  <2>1. inq' = inq /\ (inbox' = inbox \/ \E S : wpa_ctrl_close(S))
    BY <1>3 DEF Attached, CloseCtrl, wifi_hal_wpa_dettach
  <2> QED BY <1>01, <1>1, <2>1 DEF wpa_ctrl_close
<1>4. CASE Send
  <2>1. CASE UNCHANGED inq
    BY <1>1, <1>4, <2>1 DEF Send
  <2>2. CASE inq' # inq
    <3> DEFINE c == [sock |-> call.sock, from |-> local[call.sock],
                     n |-> sent[call.sock] + 1, verb |-> call.verb,
                     id |-> call.id]
    <3>1. inq' = Append(inq, c) /\ UNCHANGED inbox /\ call.at = "send"
      BY <1>4, <2>2 DEF Send
    <3>2. c.verb = call.verb /\ c.sock = call.sock
      OBVIOUS
    <3>3. c.verb = "ATTACH" => c.sock = "monitor"
      BY <3>1, <3>2 DEF Places, CallKnown
    <3> HIDE DEF c
    <3>4. \A i \in 1 .. Len(inq') : inq'[i].verb = "ATTACH" =>
            inq'[i].sock = "monitor"
      <4>1. Len(inq) \in Nat /\ Len(inq') = Len(inq) + 1
            /\ inq'[Len(inq) + 1] = c
            /\ \A i \in 1 .. Len(inq) : inq'[i] = inq[i]
        BY <1>0, <3>1 DEF QueueTypes
      <4> QED BY <3>3, <4>1 DEF EventsApart
    <3> QED BY <1>01, <3>1, <3>4 DEF EventsApart, Unsolicited
  <2> QED BY <2>1, <2>2
<1>5. CASE Receive
  <2>1. /\ UNCHANGED inq /\ inbox[call.sock] # << >>
        /\ inbox' = [inbox EXCEPT ![call.sock] = Tail(@)]
    BY <1>5 DEF Receive
  <2>2. ASSUME NEW s \in Mine PROVE Quiet(s)'
    <3>1. CASE s # call.sock
      BY <1>0, <1>01, <2>1, <3>1 DEF QueueTypes, Unsolicited
    <3>2. CASE s = call.sock
      <4>1. inbox[s] \in Seq(Inbound) /\ inbox'[s] = Tail(inbox[s])
            /\ inbox[s] # << >>
        BY <1>0, <1>01, <2>1, <3>2 DEF QueueTypes
      <4>2. /\ Len(inbox[s]) \in Nat \ {0} /\ Len(inbox'[s]) = Len(inbox[s]) - 1
            /\ \A i \in 1 .. Len(inbox[s]) - 1 : inbox'[s][i] = inbox[s][i + 1]
        BY <4>1, TailFacts
      <4> QED BY <1>01, <4>2 DEF Unsolicited
    <3> QED BY <3>1, <3>2
  <2> QED BY <2>1, <2>2 DEF EventsApart
<1>6. CASE Serve
  <2>1. PICK c \in Command, w \in {"OK", "FAIL", "ID", "TABLE"} :
          inq # << >> /\ c = inq[1] /\ ReplyTo(c, w)
    BY <1>6, ServeFacts
  <2>2. /\ Len(inq) \in Nat \ {0} /\ Len(inq') = Len(inq) - 1
        /\ \A i \in 1 .. Len(inq) - 1 : inq'[i] = inq[i + 1]
    BY <1>0, <1>6, TailFacts DEF QueueTypes, Serve
  <2>3. \A i \in 1 .. Len(inq') : inq'[i].verb = "ATTACH" =>
          inq'[i].sock = "monitor"
    BY <2>2 DEF EventsApart
  <2>4. ASSUME NEW s \in Mine PROVE Quiet(s)'
    <3>1. CASE inbox'[s] = inbox[s]
      BY <1>01, <3>1 DEF Unsolicited
    <3>2. CASE inbox'[s] # inbox[s]
      <4>1. s = c.sock
        BY <1>0, <1>01, <2>1, <3>2, OtherReply
      <4>2. c.verb # "ATTACH"
        BY <2>1, <2>2, <4>1 DEF EventsApart
      <4>3. PICK m \in Inbound :
              /\ ~Unsolicited(m)
              /\ inbox' = [inbox EXCEPT ![c.sock] = Append(@, m)]
        BY <1>0, <2>1, <3>2, <4>2, PlainReply
      <4>4. inbox[s] \in Seq(Inbound) /\ inbox'[s] = Append(inbox[s], m)
        BY <1>0, <1>01, <4>1, <4>3 DEF QueueTypes
      <4>5. /\ Len(inbox[s]) \in Nat /\ Len(inbox'[s]) = Len(inbox[s]) + 1
            /\ inbox'[s][Len(inbox[s]) + 1] = m
            /\ \A i \in 1 .. Len(inbox[s]) : inbox'[s][i] = inbox[s][i]
        BY <4>4
      <4> QED BY <1>01, <4>3, <4>5 DEF Unsolicited
    <3> QED BY <3>1, <3>2
  <2> QED BY <2>3, <2>4 DEF EventsApart
<1>7. CASE Die
  <2>1. inq' = << >> /\ inbox' = inbox
    BY <1>7 DEF Die
  <2> QED BY <1>01, <2>1 DEF EventsApart, Unsolicited
<1>8. CASE AttachMonitor \/ Ask \/ Answered \/ RequestFails \/ Terminated
           \/ UNCHANGED vars \/ SendAgain \/ Timeout
  BY <1>1, <1>8 DEF AttachMonitor, Ask, Answered, RequestFails, ReceiveFails,
     Terminated, SendAgain, Timeout
<1> QED BY <1>2, <1>3, <1>4, <1>5, <1>6, <1>7, <1>8
        DEF Next, HalStep, wpa_ctrl_request

LEMMA ResultKnownStep ==
  ASSUME Types, CallKnown, ResultKnown, [Next]_vars
  PROVE  ResultKnown'
<1>0. HalTypes /\ CallTypes
  BY DEF Types
<1>1. CASE UNCHANGED <<result, gaveUp, todo, step>>
  BY <1>1 DEF ResultKnown
<1>2. CASE Ask \/ Answered \/ wifi_hal_wpa_mesh_attach
  <2>1. CASE UNCHANGED <<result, todo, step>> /\ ~Answered
    BY <1>1, <1>2, <2>1 DEF Ask, wifi_hal_wpa_mesh_attach
  <2>2. ASSUME todo # << >>, NEW v \in {1, 0, -1, -2}, After(v)
        PROVE  ResultKnown'
    <3>1. CASE todo' = todo /\ step' = step + 1 /\ result' = result
      <4>1. CASE ~Answered
        <5>1. gaveUp' = gaveUp
          BY <1>2, <4>1 DEF Ask, wifi_hal_wpa_mesh_attach
        <5> QED BY <1>0, <3>1, <5>1 DEF ResultKnown, HalTypes
      <4>2. CASE Answered
        <5>1. todo = <<"join_mesh">> => step > 1
          <6>1. Head(<<"join_mesh">>) = "join_mesh"
            OBVIOUS
          <6> QED BY <1>0, <2>2, <4>2, <6>1, NowFacts DEF Answered, CallKnown
        <5> QED BY <1>0, <3>1, <5>1 DEF ResultKnown, HalTypes
      <4> QED BY <4>1, <4>2
    <3>2. CASE result' = Append(result, [fn |-> Head(todo),
                                        val |-> IF v <= 0 THEN v ELSE 0])
      <4> DEFINE r == [fn |-> Head(todo), val |-> IF v <= 0 THEN v ELSE 0]
      <4>1. r \in ResultRecord
        BY <1>0, <2>2, NowType DEF ResultRecord
      <4> HIDE DEF r
      <4>2. result' = Append(result, r) /\ result \in Seq(ResultRecord)
        BY <3>2 DEF r, ResultKnown
      <4>3. result' \in Seq(ResultRecord) /\ result' # << >>
        BY <4>1, <4>2
      <4> QED BY <4>3 DEF ResultKnown
    <3> QED BY <1>0, <2>2, <3>1, <3>2, AfterFacts
  <2>3. ASSUME todo # << >>, NEW r \in {0, -1, -2}, After(Verdict(Now.check, r))
        PROVE  ResultKnown'
    BY <1>0, <2>2, <2>3, NowType, VerdictFacts
  <2>4. CASE Ask
    <3>1. ~Answered
      BY <2>4 DEF Ask, Answered
    <3>2. UNCHANGED <<result, todo, step>>
          \/ (todo # << >> /\ After(Verdict(Now.check, -1)))
      BY <2>4 DEF Ask
    <3> QED BY <2>1, <2>3, <3>1, <3>2
  <2>5. CASE Answered
    BY <1>0, <2>3, <2>5, CommandResultFacts DEF Answered, HalTypes, CallTypes
  <2>6. CASE wifi_hal_wpa_mesh_attach
    BY <2>3, <2>6 DEF wifi_hal_wpa_mesh_attach
  <2> QED BY <1>2, <2>4, <2>5, <2>6
<1>3. CASE ~(Ask \/ Answered \/ wifi_hal_wpa_mesh_attach)
  <2>1. UNCHANGED <<result, gaveUp, todo, step>>
    BY <1>3 DEF Next, HalStep, OpenCtrl, OpenMonitor, AttachMonitor, Attached,
       CloseCtrl, wifi_hal_wpa_dettach, RequestFails, Serve, Die, Terminated
  <2> QED BY <1>1, <2>1
<1> QED BY <1>2, <1>3

LEMMA RequestsStep ==
  ASSUME Types, Places, Requests, [Next]_vars
  PROVE  Requests'
BY NetworkRecordsStep, CallKnownStep, EventsApartStep, ResultKnownStep
   DEF Requests

-----------------------------------------------------------------------------
(***************************************************************************)
(* A function that is on course stays so.                                  *)
(***************************************************************************)
OnlyAttach == \A i \in 1 .. Len(inq) : inq[i].verb = "ATTACH"

LEMMA OnCourseBack ==
  ASSUME Types, ResultKnown, [Next]_vars, OnCourse'
  PROVE  OnCourse
<1>0. HalTypes /\ CallTypes
  BY DEF Types
<1> SUFFICES ASSUME gaveUp PROVE OnCourse
  BY DEF OnCourse
<1>1. CASE UNCHANGED <<gaveUp, todo, result>>
  BY <1>1 DEF OnCourse
<1>2. ASSUME todo # << >>, NEW r \in {0, -1, -2}, After(Verdict(Now.check, r)),
             gaveUp'
      PROVE  OnCourse
  <2>1. Verdict(Now.check, r) \in Int
    BY <1>0, <1>2, NowType, VerdictFacts
  <2>2. CASE UNCHANGED <<todo, result>>
    BY <1>2, <2>2 DEF OnCourse
  <2>3. CASE /\ todo' = Tail(todo)
             /\ \E x : result' = Append(result, x) /\ x.fn = Head(todo)
    <3>1. PICK x : result' = Append(result, x) /\ x.fn = Head(todo)
      BY <2>3
    <3>2. result \in Seq(ResultRecord)
      BY DEF ResultKnown
    <3>3. result' # << >> /\ Len(result') = Len(result) + 1 /\ Len(result) \in Nat
          /\ result'[Len(result) + 1] = x
      BY <3>1, <3>2
    <3>4. todo' = << >> /\ result' = <<[fn |-> "join_mesh", val |-> 0]>>
      BY <1>2, <3>3 DEF OnCourse
    <3>5. Len(result) = 0 /\ result = << >>
      BY <3>2, <3>3, <3>4
    <3>6. x = [fn |-> "join_mesh", val |-> 0]
      BY <3>3, <3>4, <3>5
    <3>7. Head(todo) = "join_mesh" /\ Tail(todo) = << >>
          /\ todo \in Seq(Functions)
      BY <1>0, <2>3, <3>1, <3>4, <3>6 DEF HalTypes
    <3>8. todo = <<"join_mesh">>
      <4>1. Len(todo) = 1 /\ todo[1] = "join_mesh"
        <5>1. Len(Tail(todo)) = Len(todo) - 1 /\ Len(todo) \in Nat
              /\ Head(todo) = todo[1]
          BY <1>2, <3>7, TailFacts
        <5>2. Len(Tail(todo)) = 0
          BY <3>7
        <5> QED BY <3>7, <5>1, <5>2
      <4> QED BY <3>7, <4>1
    <3> QED BY <3>5, <3>8 DEF OnCourse
  <2>4. \A f, z : [fn |-> f, val |-> z].fn = f
    OBVIOUS
  <2> QED BY <1>0, <1>2, <2>1, <2>2, <2>3, <2>4, AfterFacts
<1>3. CASE Ask \/ Answered \/ wifi_hal_wpa_mesh_attach
  <2>1. gaveUp'
    BY <1>3 DEF Ask, Answered, wifi_hal_wpa_mesh_attach
  <2>2. CASE Ask
    <3>1. UNCHANGED <<gaveUp, todo, result>>
          \/ (todo # << >> /\ After(Verdict(Now.check, -1)))
      BY <2>2 DEF Ask
    <3> QED BY <1>1, <1>2, <2>1, <3>1
  <2>3. CASE Answered
    <3>1. todo # << >> /\ CommandResult \in {0, -1, -2}
      BY <1>0, <2>3, CommandResultFacts DEF Answered, HalTypes, CallTypes
    <3> QED BY <1>2, <2>1, <2>3, <3>1 DEF Answered
  <2>4. CASE wifi_hal_wpa_mesh_attach
    BY <1>2, <2>1, <2>4 DEF wifi_hal_wpa_mesh_attach
  <2> QED BY <1>3, <2>2, <2>3, <2>4
<1>4. CASE ~(Ask \/ Answered \/ wifi_hal_wpa_mesh_attach)
  <2>1. UNCHANGED <<result, gaveUp, todo, step>>
    BY <1>4 DEF Next, HalStep, OpenCtrl, OpenMonitor, AttachMonitor, Attached,
       CloseCtrl, wifi_hal_wpa_dettach, RequestFails, Serve, Die, Terminated
  <2> QED BY <1>1, <2>1
<1> QED BY <1>3, <1>4

(* A connection that is in step has no datagrams to read.                   *)
LEMMA EmptySocket ==
  ASSUME Types, RepliesInOrder, EventsApart, NEW s \in {"ctrl", "mesh_ctrl"},
         sent[s] = taken[s]
  PROVE  inbox[s] = << >>
<1>0. QueueTypes /\ s \in Sockets
  BY DEF Types, Sockets
<1>1. inbox[s] \in Seq(Inbound) /\ sent[s] \in Nat
  BY <1>0 DEF QueueTypes
<1> SUFFICES ASSUME inbox[s] # << >> PROVE FALSE
  OBVIOUS
<1>2. 1 \in 1 .. Len(inbox[s])
  BY <1>1
<1>3. inbox[s][1].to \in Nat /\ ~Unsolicited(inbox[s][1])
  BY <1>0, <1>2, DatagramTypes DEF EventsApart
<1>4. Has(s, 1, inbox[s][1].to)
  BY <1>2, <1>3 DEF Has
<1>5. InboxInOrder(s)
  BY <1>0 DEF RepliesInOrder, InOrder
<1> QED BY <1>1, <1>3, <1>4, <1>5 DEF InboxInOrder

(* Before a function is called nothing has been set.                        *)
LEMMA NothingSet == \A f : SetUpTo(f, 1) = {}
BY DEF SetUpTo

(* A gave-up join_mesh that goes on uses its own connection.                *)
LEMMA CourseSocket ==
  ASSUME Types, Requests, OnCourse, pc = "asking"
  PROVE  /\ todo # << >> /\ call.sock \in {"ctrl", "mesh_ctrl"}
         /\ gaveUp => call.sock = "mesh_ctrl"
<1>1. HalTypes /\ todo # << >>
  BY DEF Types, HalTypes
<1>2. Now.sock \in {"ctrl", "mesh_ctrl"} /\ call.sock = Now.sock
  BY <1>1, NowType DEF Sockets, Requests, CallKnown
<1>3. ASSUME gaveUp PROVE call.sock = "mesh_ctrl"
  <2>1. todo = <<"join_mesh">> /\ result = << >>
    BY <1>1, <1>3 DEF OnCourse
  <2>2. Head(todo) = "join_mesh" /\ step > 2
    BY <1>3, <2>1 DEF Requests, ResultKnown
  <2> QED BY <1>1, <1>2, <2>2, NowFacts
<1> QED BY <1>1, <1>2, <1>3

(* Steps before the first function and after the last one.                  *)
LEMMA CourseOutside ==
  ASSUME Types', Course, pc # "asking", pc' # "asking",
         UNCHANGED <<todo, step, networks, inq, gaveUp>>,
         call.at # "select", call'.at # "select",
         step = 1 \/ todo = << >>,
         \A s \in {"ctrl", "mesh_ctrl"} :
           sent'[s] = taken'[s] \/ UNCHANGED <<sent[s], taken[s]>>
  PROVE  Course'
<1>1. OnlyAttach
  BY DEF Course, QueueKnown, Awaited, Late, OnlyAttach
<1>2. QueueKnown'
  <2>1. ~(todo' = <<"join_mesh">> /\ step' = 3)
    OBVIOUS
  <2>2. \A i : ~Late(i)'
    BY <2>1 DEF Late
  <2> QED BY <1>1, <2>2 DEF QueueKnown, OnlyAttach
<1>3. InStep'
  <2>1. \A s \in {"ctrl", "mesh_ctrl"} : sent'[s] \in Nat /\ taken'[s] \in Nat
    BY DEF Types, QueueTypes, Sockets
  <2>2. ~Failed /\ ~Failed'
    BY DEF Failed
  <2> SUFFICES ASSUME NEW s \in {"ctrl", "mesh_ctrl"}, ~(s = "ctrl" /\ gaveUp)
               PROVE  sent'[s] = taken'[s] + 0
    BY DEF InStep
  <2>3. sent[s] = taken[s] + 0
    BY <2>2 DEF Course, InStep
  <2> QED BY <2>1, <2>3
<1>4. Applied'
  BY DEF Applied
<1>5. Configured'
  BY NothingSet DEF Configured, SetBefore
<1>6. NoneOpen'
  BY DEF Course, NoneOpen
<1> QED BY <1>2, <1>3, <1>4, <1>5, <1>6 DEF Course

(* join_mesh has set nothing when it is about to add its network.           *)
LEMMA MeshNothingSet ==
  ASSUME NEW k \in 1 .. 3
  PROVE  SetUpTo("join_mesh", k) = {}
<1>1. MeshTable(wifi_hal_ops["join_mesh"])
  BY Tables DEF Functions
<1>2. ASSUME NEW j \in 1 .. k - 1
      PROVE  wifi_hal_ops["join_mesh"][j].verb \notin Params
  <2>1. j = 1 \/ j = 2
    OBVIOUS
  <2> QED BY <1>1, <2>1 DEF MeshTable, Params
<1> QED BY <1>2 DEF SetUpTo

(* Without a step of the connections, a function goes on as it should.      *)
LEMMA CourseAsk ==
  ASSUME Types, Types', Places, Requests, OnCourse, Course, Ask
  PROVE  Course'
<1>0. HalTypes /\ HalTypes' /\ CallTypes
  BY DEF Types
<1>1. /\ pc = "next" /\ todo # << >> /\ call.at = "idle"
      /\ UNCHANGED <<handle, local, inq, inbox, sent, taken, ret, nw_id, gaveUp,
                     networks>>
  BY DEF Ask, Places
<1>2. \A i \in 1 .. Len(inq) : inq[i].verb = "ATTACH" \/ Late(i)
  BY <1>1 DEF Course, QueueKnown, Awaited
<1>3. NoneOpen'
  BY <1>1 DEF Course, NoneOpen
<1>4. ASSUME NEW i, Late(i)
      PROVE  Head(todo) = "join_mesh" /\ step = 3 /\ handle[Now.sock] = "open"
             /\ Now.sock = "mesh_ctrl" /\ ~Refuses
  <2>1. Head(todo) = "join_mesh" /\ step = 3
    BY <1>4 DEF Late
  <2>2. Now.sock = "mesh_ctrl" /\ handle["mesh_ctrl"] = "open"
    BY <1>0, <1>1, <2>1, NowFacts DEF Requests, CallKnown
  <2> QED BY <2>1, <2>2 DEF Refuses
<1>5. InStep /\ ~Failed
  BY <1>1 DEF Course, Failed
<1>6. CASE Refuses /\ After(Verdict(Now.check, -1)) /\ UNCHANGED <<pc, call>>
  <2>1. OnlyAttach
    BY <1>2, <1>4, <1>6 DEF OnlyAttach
  <2>2. QueueKnown'
    <3>1. ASSUME NEW i \in 1 .. Len(inq') PROVE ~Late(i)'
      BY <1>1, <2>1, <3>1 DEF Late, OnlyAttach
    <3> QED BY <1>1, <2>1, <3>1 DEF QueueKnown, OnlyAttach
  <2>3. InStep'
    BY <1>1, <1>5, <1>6 DEF InStep, Failed
  <2>4. Applied'
    BY <1>1, <1>6 DEF Applied
  <2>5. Configured'
    <3>0. Verdict(Now.check, -1) \in Int
      BY <1>0, <1>1, NowType, VerdictFacts
    <3>1. CASE step' = 1
      BY <3>1, NothingSet DEF Configured, SetBefore
    <3>2. CASE /\ Verdict(Now.check, -1) > 0 /\ step < Len(Steps)
               /\ todo' = todo /\ step' = step + 1
      <4>1. CASE Head(todo) # "join_mesh"
        <5>1. Now.sock = "ctrl" /\ handle["monitor"] = "NULL"
          BY <1>0, <1>1, <1>6, <4>1, NowFacts DEF Refuses
        <5>2. step = 1
          BY <1>0, <1>1, <4>1, <5>1 DEF Requests, CallKnown, HalTypes
        <5>3. Now.check = "ret"
          BY <1>0, <1>1, <3>2, <4>1, <5>2, NowFacts DEF PlainTable
        <5> QED BY <3>2, <5>3, VerdictFacts DEF Checks
      <4>2. CASE Head(todo) = "join_mesh"
        <5>1. step <= 2
          <6> SUFFICES ASSUME step > 2 PROVE FALSE
            BY <1>0 DEF HalTypes
          <6>1. Now.sock = "mesh_ctrl" /\ handle["mesh_ctrl"] = "open"
            BY <1>0, <1>1, <4>2, NowFacts DEF Requests, CallKnown
          <6> QED BY <1>6, <6>1 DEF Refuses
        <5>2. Head(todo') = "join_mesh" /\ step' \in 1 .. 3
          BY <1>0, <3>2, <4>2, <5>1 DEF HalTypes
        <5>3. SetBefore' = {}
          BY <5>2, MeshNothingSet DEF SetBefore
        <5> QED BY <5>3 DEF Configured
      <4> QED BY <4>1, <4>2
    <3> QED BY <1>0, <1>1, <1>6, <3>0, <3>1, <3>2, AfterFacts
  <2> QED BY <1>3, <2>2, <2>3, <2>4, <2>5 DEF Course
<1>7. CASE /\ Request(Now.sock, Now.verb, nw_id) /\ pc' = "asking"
           /\ UNCHANGED <<result, todo, step>>
  <2>1. call'.at = "send"
    BY <1>7 DEF Request
  <2>2. QueueKnown'
    <3>1. \A i \in 1 .. Len(inq) : Late(i) => Late(i)'
      BY <1>1, <1>7, <2>1 DEF Late, Succeeded
    <3>2. \A i \in 1 .. Len(inq) : Late(i)' => Late(i)
      BY <1>1, <1>7, <2>1 DEF Late, Succeeded
    <3> QED BY <1>1, <1>2, <3>1, <3>2 DEF QueueKnown, Course
  <2>3. InStep'
    BY <1>1, <1>5, <2>1 DEF InStep, Failed
  <2>4. Applied'
    BY <2>1 DEF Applied, Succeeded
  <2>5. Configured'
    BY <1>1, <1>7 DEF Configured, Course, SetBefore, Steps
  <2> QED BY <1>3, <2>2, <2>3, <2>4, <2>5 DEF Course
<1>8. CASE /\ ~Refuses /\ handle[Now.sock] # "open" /\ pc' = "crashed"
           /\ UNCHANGED <<call, result, todo, step>>
  <2>1. OnlyAttach
    BY <1>2, <1>4, <1>8 DEF OnlyAttach
  <2>2. QueueKnown'
    <3>1. \A i : ~Late(i)'
      BY <1>8 DEF Late
    <3> QED BY <1>1, <2>1, <3>1 DEF QueueKnown, OnlyAttach
  <2>3. InStep'
    BY <1>1, <1>5, <1>8 DEF InStep, Failed
  <2>4. Applied' /\ Configured'
    BY <1>8 DEF Applied, Configured
  <2> QED BY <1>3, <2>2, <2>3, <2>4 DEF Course
<1> QED BY <1>6, <1>7, <1>8 DEF Ask

LEMMA CourseMesh ==
  ASSUME Types, Types', Places, Requests, OnCourse, Course,
         wifi_hal_wpa_mesh_attach
  PROVE  Course'
<1>0. HalTypes /\ HalTypes' /\ QueueTypes /\ QueueTypes'
  BY DEF Types
<1>1. /\ pc = "next" /\ pc' = "next" /\ todo # << >> /\ call.at = "idle"
      /\ Now.verb = "wpa_mesh_attach" /\ wpa_ctrl_open2("mesh_ctrl")
      /\ UNCHANGED <<call, inq, gaveUp, networks, ret>>
  BY DEF wifi_hal_wpa_mesh_attach, Places
<1>2. Head(todo) = "join_mesh" /\ step = 1
  <2>1. "wpa_mesh_attach" \notin AllVerbs
    BY DEF AllVerbs, Params
  <2> QED BY <1>0, <1>1, <2>1, NowType
<1>3. OnlyAttach
  BY <1>1, <1>2 DEF Course, QueueKnown, Awaited, Late, OnlyAttach
<1>4. QueueKnown'
  <2>1. ASSUME NEW i \in 1 .. Len(inq') PROVE ~Late(i)'
    BY <1>1, <1>3, <2>1 DEF Late, OnlyAttach
  <2> QED BY <1>1, <1>3, <2>1 DEF QueueKnown, OnlyAttach
<1>5. InStep'
  <2>1. \A s \in {"ctrl", "mesh_ctrl"} :
          (sent'[s] = 0 /\ taken'[s] = 0) \/ UNCHANGED <<sent[s], taken[s]>>
    BY <1>0, <1>1 DEF wpa_ctrl_open2, QueueTypes, Sockets
  <2> QED BY <1>1, <2>1 DEF Course, InStep, Failed
<1>6. Applied' /\ NoneOpen'
  BY <1>1 DEF Applied, Course, NoneOpen
<1>7. Configured'
  <2> DEFINE r == IF handle'["mesh_ctrl"] = "open" THEN 0 ELSE -1
  <2>1. After(Verdict(Now.check, r)) /\ Verdict(Now.check, r) \in Int
    <3>1. Now.check \in Checks
      BY <1>0, <1>1, NowType
    <3>2. Verdict(Now.check, r) \in {1, 0, -1, -2}
      BY <3>1, VerdictFacts
    <3> QED BY <3>2 DEF wifi_hal_wpa_mesh_attach
  <2>2. step' = 1 \/ (todo' = todo /\ step' = 2)
    <3>1. PICK v \in Int : After(v)
      BY <2>1
    <3>2. (todo' = todo /\ step' = step + 1) \/ step' = 1
      BY <1>0, <1>1, <3>1, AfterFacts
    <3> QED BY <1>2, <3>2
  <2>3. CASE step' = 1
    BY <2>3, NothingSet DEF Configured, SetBefore
  <2>4. CASE todo' = todo /\ step' = 2
    <3>1. SetBefore' = {}
      BY <1>2, <2>4, MeshNothingSet DEF SetBefore
    <3> QED BY <3>1 DEF Configured
  <2> QED BY <2>2, <2>3, <2>4
<1> QED BY <1>4, <1>5, <1>6, <1>7 DEF Course

(* create_ap and join_mesh return 0 only behind their last command.         *)
LEMMA ReturnsZero ==
  ASSUME HalTypes, todo # << >>, Head(todo) \in Makers, NEW r \in {0, -1, -2},
         \/ Verdict(Now.check, r) = 0
         \/ Verdict(Now.check, r) > 0 /\ step = Len(Steps)
  PROVE  step = Len(Steps) /\ r = 0 /\ buf.word = "OK"
<1>1. Thorough(Steps) /\ Now = Steps[step] /\ step \in 1 .. Len(Steps)
  BY NowFacts
<1>2. Now.check \in {"ret", "minus", "ok", "none"}
  BY <1>1 DEF Thorough
<1>3. Verdict(Now.check, r) # 0
  BY <1>2, VerdictFacts DEF Checks
<1>4. Now.check = "ok"
  BY <1>1, <1>3 DEF Thorough
<1> QED BY <1>3, <1>4, VerdictFacts DEF Checks

LEMMA AppendFacts ==
  ASSUME NEW S, NEW q \in Seq(S), NEW x
  PROVE  /\ Len(q) \in Nat /\ Len(Append(q, x)) = Len(q) + 1
         /\ Append(q, x)[Len(q) + 1] = x
         /\ \A i \in 1 .. Len(q) : Append(q, x)[i] = q[i]
         /\ Append(q, x) # << >>
<1> DEFINE T == S \cup {x}
<1>1. q \in Seq(T) /\ x \in T
  OBVIOUS
<1> HIDE DEF T
<1>2. /\ Len(q) \in Nat /\ Len(Append(q, x)) = Len(q) + 1
      /\ Append(q, x)[Len(q) + 1] = x
      /\ \A i \in 1 .. Len(q) : Append(q, x)[i] = q[i]
  BY <1>1
<1>3. Len(<< >>) = 0
  OBVIOUS
<1> QED BY <1>2, <1>3

(* A function returns: what is left is the record of its result.            *)
LEMMA OneResult ==
  ASSUME NEW q \in Seq(ResultRecord), NEW x, NEW y, Append(q, x) = <<y>>
  PROVE  q = << >> /\ x = y
<1>1. Len(Append(q, x)) = Len(q) + 1 /\ Append(q, x)[Len(q) + 1] = x
      /\ Len(q) \in Nat
  BY AppendFacts
<1>2. Len(<<y>>) = 1 /\ <<y>>[1] = y
  OBVIOUS
<1>3. Len(q) = 0
  BY <1>1, <1>2
<1> QED BY <1>1, <1>2, <1>3

(* A function looks at the answer.                                          *)
LEMMA CourseAnswered ==
  ASSUME Types, Types', RepliesInOrder, Requests, OnCourse, OnCourse', Course,
         Answered
  PROVE  Course'
<1>0. HalTypes /\ HalTypes' /\ CallTypes /\ QueueTypes /\ ret \in {0, -1, -2}
  BY DEF Types, CallTypes
<1>1. /\ pc = "asking" /\ pc' = "next" /\ call.at = "done" /\ call'.at = "idle"
      /\ UNCHANGED <<inq, inbox, sent, taken, ret, networks>>
      /\ gaveUp' = (gaveUp \/ ret < 0)
  <2>1. NoCall.at = "idle"
    BY DEF NoCall
  <2> QED BY <2>1 DEF Answered
<1>2. todo # << >> /\ call.sock = Now.sock /\ call.verb = Now.verb
  BY <1>0, <1>1 DEF HalTypes, Requests, CallKnown
<1> DEFINE r == CommandResult
           v == Verdict(Now.check, r)
<1>3. r \in {0, -1, -2} /\ (r = 0 => ret = 0) /\ (ret < 0 => r < 0)
  BY <1>0, CommandResultFacts
<1>4. v \in {1, 0, -1, -2} /\ After(v) /\ v \in Int /\ Now.check \in Checks
  <2>1. Now.check \in Checks
    BY <1>0, <1>2, NowType
  <2>2. v \in {1, 0, -1, -2}
    BY <1>3, <2>1, VerdictFacts
  <2> QED BY <2>1, <2>2 DEF Answered
<1>5. NoneOpen' /\ Applied'
  BY <1>1 DEF Course, NoneOpen, Applied
(* Only join_mesh goes on after a failure, behind its second command.       *)
<1>6. ASSUME ret < 0
      PROVE  /\ todo = <<"join_mesh">> /\ todo' = todo /\ step = 2 /\ step' = 3
             /\ Now.sock = "ctrl" /\ Now.verb = "REMOVE_NETWORK" /\ gaveUp'
             /\ result' = << >>
  <2>1. gaveUp' /\ r < 0
    BY <1>1, <1>3, <1>6
  <2>2. CASE result' = << >>
    <3>1. todo' = <<"join_mesh">>
      BY <2>1, <2>2 DEF OnCourse
    <3>2. todo' = todo /\ step' = step + 1 /\ v > 0
      <4>1. result \in Seq(ResultRecord)
        BY DEF Requests, ResultKnown
      <4>2. \A x : Append(result, x) # << >>
        BY <4>1, AppendFacts
      <4> QED BY <1>0, <1>2, <1>4, <2>2, <4>2, AfterFacts
    <3>3. Head(todo) = "join_mesh" /\ step > 1
      <4>1. Now.verb \in AllVerbs
        BY <1>1 DEF Requests, CallKnown
      <4>2. Head(todo) = "join_mesh"
        BY <3>1, <3>2
      <4> QED BY <1>0, <1>2, <4>1, <4>2, NowFacts
    <3>4. step = 2
      <4> SUFFICES ASSUME step > 2 PROVE FALSE
        BY <1>0, <3>3 DEF HalTypes
      <4>1. Now.check \in {"minus", "ok"}
        BY <1>0, <1>2, <3>3, NowFacts DEF MeshTable
      <4> QED BY <1>3, <1>4, <2>1, <3>2, <4>1, VerdictFacts
    <3>5. Now.sock = "ctrl" /\ Now.verb = "REMOVE_NETWORK"
      BY <1>0, <1>2, <3>3, <3>4, NowFacts DEF MeshTable
    <3> QED BY <2>1, <2>2, <3>1, <3>2, <3>4, <3>5
  <2>3. CASE result' # << >>
    <3>1. result' = <<[fn |-> "join_mesh", val |-> 0]>> /\ todo' = << >>
      BY <2>1, <2>3 DEF OnCourse
    <3> DEFINE x == [fn |-> Head(todo), val |-> IF v <= 0 THEN v ELSE 0]
               y == [fn |-> "join_mesh", val |-> 0]
    <3>2. result' = Append(result, x) /\ (v <= 0 \/ step = Len(Steps))
      BY <1>0, <1>2, <1>4, <3>1, AfterFacts
    <3>3. result \in Seq(ResultRecord)
      BY DEF Requests, ResultKnown
    <3>4. x = y
      <4> HIDE DEF x, y
      <4>1. Append(result, x) = <<y>>
        BY <3>1, <3>2 DEF y
      <4> QED BY <3>3, <4>1, OneResult
    <3>5. x.fn = y.fn /\ x.val = y.val
      BY <3>4
    <3>6. Head(todo) = "join_mesh" /\ (IF v <= 0 THEN v ELSE 0) = 0
      BY <3>5
    <3>7. v = 0 \/ (v > 0 /\ step = Len(Steps))
      BY <1>4, <3>2, <3>6
    <3>8. r = 0
      BY <1>0, <1>2, <1>3, <3>6, <3>7, ReturnsZero DEF Makers
    <3> QED BY <2>1, <3>8
  <2> QED BY <2>2, <2>3

<1>7. QueueKnown'
  <2>1. CASE ret = 0
    <3>1. OnlyAttach
      BY <1>1, <2>1 DEF Course, QueueKnown, Awaited, Late, Failed, Succeeded,
         OnlyAttach
    <3>2. ASSUME NEW i \in 1 .. Len(inq') PROVE ~Late(i)'
      BY <1>1, <3>1, <3>2 DEF Late, OnlyAttach
    <3> QED BY <1>1, <3>1, <3>2 DEF QueueKnown, OnlyAttach
  <2>2. CASE ret < 0
    <3>1. ASSUME NEW i \in 1 .. Len(inq) PROVE ~Late(i)
      BY <1>6, <2>2 DEF Late
    <3>2. ASSUME NEW i \in 1 .. Len(inq), inq[i].verb # "ATTACH"
          PROVE  inq[i].verb = "REMOVE_NETWORK" /\ Late(i)' /\ Awaited(i)
      <4>1. Awaited(i)
        BY <3>1, <3>2 DEF Course, QueueKnown
      <4>2. inq[i].verb = "REMOVE_NETWORK" /\ inq[i].sock = "ctrl"
        BY <1>2, <1>6, <2>2, <4>1 DEF Awaited
      <4>3. ~Succeeded'
        BY <1>1 DEF Succeeded
      <4> QED BY <1>1, <1>6, <2>2, <4>1, <4>2, <4>3 DEF Late
    <3>3. inbox["mesh_ctrl"] = << >>
      <4>1. taken["mesh_ctrl"] \in Nat
        BY <1>0 DEF QueueTypes, Sockets
      <4>2. sent["mesh_ctrl"] = taken["mesh_ctrl"] + 0
        BY <1>1, <1>2, <1>6, <2>2 DEF Course, InStep
      <4> QED BY <4>1, <4>2, EmptySocket DEF Requests
    <3>4. \A j \in 1 .. Len(inq) : inq[j].verb # "ADD_NETWORK"
      BY <3>2
    <3> QED BY <1>1, <3>2, <3>3, <3>4 DEF QueueKnown
  <2> QED BY <1>0, <2>1, <2>2
<1>8. InStep'
  <2> SUFFICES ASSUME NEW s \in {"ctrl", "mesh_ctrl"}, ~(s = "ctrl" /\ gaveUp')
               PROVE  sent[s] = taken[s] + 0
    BY <1>1 DEF InStep
  <2>1. ~(Failed /\ call.sock = s)
    BY <1>1, <1>2, <1>6 DEF Failed
  <2> QED BY <1>1, <2>1 DEF Course, InStep
<1>9. Configured'
  <2>1. CASE step' = 1
    BY <2>1, NothingSet DEF Configured, SetBefore
  <2>2. CASE v > 0 /\ step < Len(Steps) /\ todo' = todo /\ step' = step + 1
    <3>1. SetBefore' = SetBefore \cup ({Now.verb} \cap Params)
      <4>1. step \in Nat \ {0} /\ 1 .. step' - 1 = (1 .. step - 1) \cup {step}
        BY <1>0, <2>2 DEF HalTypes
      <4> QED BY <2>2, <4>1 DEF SetBefore, SetUpTo, Now, Steps
    <3>2. CASE Now.verb \in Removers
      <4>1. SetBefore = {}
        BY <1>0, <1>2, <3>2, NowFacts DEF Sequenced, SetBefore, SetUpTo, Steps
      <4>2. Now.verb \notin Params
        BY <3>2 DEF Removers, Params
      <4> QED BY <3>1, <4>1, <4>2 DEF Configured
    <3>3. CASE Now.verb \in Params
      <4>1. Now.check \in {"ok", "okret", "buf"}
        BY <1>0, <1>2, <3>3, NowFacts DEF Sequenced
      <4>2. buf.word = "OK"
        BY <1>3, <1>4, <2>2, <4>1, VerdictFacts
      <4>3. ret = 0
        BY <1>0, <1>6, <3>3 DEF Params
      <4>4. nw_id \in DOMAIN networks /\ Now.verb \in networks[nw_id].set
        BY <1>1, <3>3, <4>2, <4>3 DEF Course, Applied, Succeeded, Effect
      <4>5. nw_id' = nw_id
        BY <3>3 DEF Answered, Params
      <4>6. SetBefore' \subseteq networks[nw_id].set
        BY <1>1, <1>2, <3>1, <3>3, <4>4 DEF Course, Configured
      <4> QED BY <1>1, <4>4, <4>5, <4>6 DEF Configured
    <3>4. CASE Now.verb \notin Removers \cup Params
      <4>1. nw_id' = nw_id /\ SetBefore' = SetBefore
        BY <3>1, <3>4 DEF Answered, Removers
      <4> QED BY <1>1, <1>2, <4>1 DEF Course, Configured
    <3> QED BY <3>2, <3>3, <3>4
  <2> QED BY <1>0, <1>2, <1>4, <2>1, <2>2, AfterFacts
<1> QED BY <1>5, <1>7, <1>8, <1>9 DEF Course

(* The request of the monitor has nothing to do with the networks.          *)
LEMMA CourseMonitor ==
  ASSUME Types, Requests, Course, pc = "attaching",
         wpa_ctrl_request \/ ReceiveFails, UNCHANGED <<halVars, networks>>
  PROVE  Course'
<1>0. QueueTypes /\ CallTypes
  BY DEF Types
<1>1. call.sock = "monitor" /\ call.verb = "ATTACH" /\ step = 1
  BY DEF Requests, CallKnown, Ended
<1>2. OnlyAttach
  BY <1>1 DEF Course, QueueKnown, Awaited, Late, OnlyAttach
<1>3. OnlyAttach'
  <2>1. CASE inq' = inq
    BY <1>2, <2>1 DEF OnlyAttach
  <2>2. CASE inq' # inq
    <3> DEFINE c == [sock |-> call.sock, from |-> local[call.sock],
                     n |-> sent[call.sock] + 1, verb |-> call.verb,
                     id |-> call.id]
    <3>1. inq' = Append(inq, c)
      BY <2>2 DEF wpa_ctrl_request, Send, SendAgain, Receive, Timeout,
         ReceiveFails
    <3>2. c.verb = "ATTACH"
      BY <1>1
    <3> HIDE DEF c
    <3>3. Len(inq') = Len(inq) + 1 /\ inq'[Len(inq) + 1] = c /\ Len(inq) \in Nat
          /\ \A i \in 1 .. Len(inq) : inq'[i] = inq[i]
      BY <1>0, <3>1, AppendFacts DEF QueueTypes
    <3> QED BY <1>2, <3>2, <3>3 DEF OnlyAttach
  <2> QED BY <2>1, <2>2
<1>4. QueueKnown'
  BY <1>1, <1>3 DEF QueueKnown, OnlyAttach, Late
<1>5. InStep'
  <2>1. ASSUME NEW s \in {"ctrl", "mesh_ctrl"}
        PROVE  sent'[s] = sent[s] /\ taken'[s] = taken[s]
    BY <1>0, <1>1 DEF wpa_ctrl_request, Send, SendAgain, Receive, Timeout,
       ReceiveFails, QueueTypes, Sockets
  <2>2. call'.sock = "monitor"
    BY <1>0, <1>1, RequestKeeps
  <2> QED BY <1>1, <2>1, <2>2 DEF Course, InStep, Failed
<1>6. Applied' /\ Configured' /\ NoneOpen'
  BY DEF Course, Applied, Configured, NoneOpen
<1> QED BY <1>4, <1>5, <1>6 DEF Course

(* The command of the table is sent.                                        *)
LEMMA CourseSend ==
  ASSUME Types, RepliesInOrder, Requests, OnCourse, Course, pc = "asking",
         Send, call'.at = "select", UNCHANGED <<halVars, networks>>
  PROVE  Course'
<1>0. QueueTypes /\ CallTypes /\ HalTypes
  BY DEF Types
<1> DEFINE c == [sock |-> call.sock, from |-> local[call.sock],
                 n |-> sent[call.sock] + 1, verb |-> call.verb,
                 id |-> call.id]
<1>1. /\ sent' = [sent EXCEPT ![call.sock] = @ + 1] /\ inq' = Append(inq, c)
      /\ call.at = "send" /\ UNCHANGED <<local, inbox, taken, ret>>
  BY <1>0 DEF Send, Return, CallTypes, CallType
<1>2. call'.sock = call.sock /\ call'.verb = call.verb /\ call'.id = call.id
  BY <1>0, RequestKeeps DEF wpa_ctrl_request
<1>3. /\ todo # << >> /\ call.sock \in {"ctrl", "mesh_ctrl"}
      /\ ~(call.sock = "ctrl" /\ gaveUp)
  BY CourseSocket
<1>4. \A s \in {"ctrl", "mesh_ctrl"} : sent[s] \in Nat /\ taken[s] \in Nat
  BY <1>0 DEF QueueTypes, Sockets
<1>5. sent[call.sock] = taken[call.sock]
  BY <1>1, <1>3, <1>4 DEF Course, InStep, Failed
<1>6. inbox[call.sock] = << >>
  BY <1>3, <1>5, EmptySocket DEF Requests
<1>7. sent'[call.sock] = sent[call.sock] + 1
      /\ \A s \in Sockets \ {call.sock} : sent'[s] = sent[s]
  BY <1>0, <1>1, <1>3 DEF QueueTypes, Sockets
<1>8. c.sock = call.sock /\ c.from = local[call.sock] /\ c.n = sent[call.sock] + 1
      /\ c.verb = call.verb /\ c.id = call.id
  OBVIOUS
<1> HIDE DEF c
<1>9. Len(inq') = Len(inq) + 1 /\ inq'[Len(inq) + 1] = c /\ Len(inq) \in Nat
      /\ \A i \in 1 .. Len(inq) : inq'[i] = inq[i]
  BY <1>0, <1>1, AppendFacts DEF QueueTypes
<1>10. QueueKnown'
  <2>0. PICK k : k = Len(inq) + 1
    OBVIOUS
  <2>1. Awaited(k)'
    BY <1>1, <1>2, <1>7, <1>8, <1>9, <2>0 DEF Awaited
  <2>2. ~Succeeded /\ ~Succeeded' /\ ~Failed
    BY <1>1 DEF Succeeded, Failed
  <2>3. ASSUME NEW i \in 1 .. Len(inq)
        PROVE  Late(i)' <=> Late(i)
    BY <1>9, <2>2 DEF Late
  <2>4. ASSUME NEW i \in 1 .. Len(inq)
        PROVE  inq[i].verb = "ATTACH" \/ Late(i)
    BY <1>1, <2>2 DEF Course, QueueKnown, Awaited
  <2>5. ASSUME NEW i \in 1 .. Len(inq'), Late(i)'
        PROVE  i \in 1 .. Len(inq)
    <3> SUFFICES ASSUME i = Len(inq) + 1 PROVE FALSE
      BY <1>9
    <3>1. Head(todo) = "join_mesh" /\ step = 3
      BY <2>5 DEF Late
    <3>2. Now.verb = "ADD_NETWORK"
      BY <1>0, <1>3, <3>1, NowFacts DEF MeshTable
    <3> QED BY <1>8, <1>9, <2>5, <3>2 DEF Late, Requests, CallKnown
  <2>6. ASSUME NEW i \in 1 .. Len(inq), Late(i), NEW j \in 1 .. Len(inq'),
               inq'[j].verb = "ADD_NETWORK"
        PROVE  i < j
    BY <1>9, <2>6 DEF Course, QueueKnown
  <2>7. ASSUME NEW i \in 1 .. Len(inq')
        PROVE  inq'[i].verb = "ATTACH" \/ Awaited(i)' \/ Late(i)'
    <3>1. CASE i = k
      BY <2>1, <3>1
    <3>2. CASE i \in 1 .. Len(inq)
      BY <1>9, <2>3, <2>4, <3>2
    <3> QED BY <1>9, <2>0, <3>1, <3>2
  <2>8. ASSUME NEW i \in 1 .. Len(inq'), Late(i)'
        PROVE  /\ inbox'["mesh_ctrl"] = << >>
               /\ \A j \in 1 .. Len(inq') : inq'[j].verb = "ADD_NETWORK" => i < j
    BY <1>1, <2>3, <2>5, <2>6, <2>8 DEF Course, QueueKnown
  <2> QED BY <2>7, <2>8 DEF QueueKnown
<1>11. InStep'
  <2>1. ASSUME NEW s \in {"ctrl", "mesh_ctrl"} \ {call.sock}
        PROVE  \/ s = "ctrl" /\ gaveUp
               \/ sent'[s] = taken'[s] + 0
    BY <1>1, <1>7, <2>1 DEF Course, InStep, Failed, Sockets
  <2> QED BY <1>1, <1>2, <1>5, <1>7, <2>1 DEF InStep
<1>12. Applied'
  BY <1>1, <1>2, <1>6 DEF Applied, Succeeded
<1>13. Configured' /\ NoneOpen'
  BY DEF Course, Configured, SetBefore, NoneOpen
<1> QED BY <1>10, <1>11, <1>12, <1>13 DEF Course

(* A call fails, or tries again.                                            *)
LEMMA CourseReturn ==
  ASSUME Types, Requests, Course, pc = "asking",
         call.at \in {"send", "select"},
         \/ call'.at = call.at /\ UNCHANGED ret
         \/ call'.at = "done" /\ ret' < 0,
         call'.sock = call.sock, call'.verb = call.verb, call'.id = call.id,
         UNCHANGED <<local, inq, inbox, sent, taken, halVars, networks>>
  PROVE  Course'
<1>1. \A i \in 1 .. Len(inq) : (Awaited(i) => Awaited(i)') /\ Late(i)' = Late(i)
  BY DEF Awaited, Late, Failed, Succeeded
<1>2. QueueKnown'
  BY <1>1 DEF Course, QueueKnown
<1>3. InStep'
  BY DEF Course, InStep, Failed
<1>4. Applied'
  BY DEF Course, Applied, Succeeded, Effect, Now, Steps
<1>5. Configured' /\ NoneOpen'
  BY DEF Course, Configured, SetBefore, NoneOpen
<1> QED BY <1>2, <1>3, <1>4, <1>5 DEF Course

(* The answer is read: it is that of the command under way.                 *)
LEMMA CourseReceive ==
  ASSUME Types, Types', Places, RepliesInOrder, RepliesInOrder', Requests,
         OnCourse, Course, pc = "asking", Receive, UNCHANGED <<halVars, networks>>
  PROVE  Course'
<1>0. QueueTypes /\ QueueTypes' /\ CallTypes /\ HalTypes
  BY DEF Types
<1>1. PICK s \in {"ctrl", "mesh_ctrl"} : s = call.sock /\ ~(s = "ctrl" /\ gaveUp)
  BY CourseSocket
<1>2. /\ call.at = "select" /\ inbox[s] # << >>
      /\ inbox' = [inbox EXCEPT ![s] = Tail(@)]
      /\ UNCHANGED <<handle, local, inq, sent>>
  BY <1>1 DEF Receive
<1>3. s \in Sockets /\ handle[s] = "open"
  BY <1>1, <1>2 DEF Sockets, Places
<1>4. PICK m \in Inbound : m = Head(inbox[s]) /\ m = inbox[s][1]
                           /\ 1 \in 1 .. Len(inbox[s])
  <2>1. inbox[s] \in Seq(Inbound)
    BY <1>0, <1>3 DEF QueueTypes
  <2>2. /\ Head(inbox[s]) = inbox[s][1] /\ Head(inbox[s]) \in Inbound
        /\ Len(inbox[s]) \in Nat \ {0}
    BY <1>2, <2>1, TailFacts
  <2> QED BY <2>2
<1>5. ~Unsolicited(m)
  BY <1>1, <1>4 DEF Requests, EventsApart
<1>6. /\ buf' = Received(m) /\ taken' = [taken EXCEPT ![s] = m.to]
      /\ ret' = 0 /\ call' = [call EXCEPT !.at = "done"]
  BY <1>1, <1>4, <1>5 DEF Receive, Return
<1>7. call'.at = "done" /\ call'.sock = s /\ Succeeded' /\ ~Failed'
  <2>1. call'.at = "done" /\ call'.sock = s
    BY <1>0, <1>1, <1>6 DEF CallTypes, CallType
  <2>2. pc' = "asking"
    OBVIOUS
  <2> QED BY <1>6, <2>1, <2>2 DEF Succeeded, Failed
<1>8. taken[s] \in Nat /\ sent[s] \in Nat /\ sent[s] = taken[s] + 1
  BY <1>0, <1>1, <1>2, <1>3 DEF Course, InStep, Failed, QueueTypes
<1>9. taken' = [taken EXCEPT ![s] = taken[s] + 1] /\ taken'[s] = sent[s]
  <2>1. taken' = [taken EXCEPT ![call.sock] = @ + 1] \/ call' = call
    BY ReceiveInOrder
  <2>2. call' # call
    BY <1>2, <1>7
  <2> QED BY <1>0, <1>1, <1>3, <1>8, <2>1, <2>2 DEF QueueTypes
<1>10. Now' = Now /\ Effect' = Effect
  <2>1. Now' = Now
    BY DEF Now, Steps
  <2> QED BY <2>1 DEF Effect
<1>11. QueueKnown'
  <2>1. ASSUME NEW i \in 1 .. Len(inq), Awaited(i) PROVE FALSE
    <3>1. Waits(s, i, sent[s])
      BY <1>1, <2>1 DEF Waits, Awaited
    <3>2. Waits(s, i, sent[s])' /\ i \in Nat
      <4>1. \A k, n \in Nat : Waits(s, k, n)' = Waits(s, k, n)
        BY <1>2, <1>3, WaitsKept
      <4> QED BY <1>2, <1>8, <3>1, <4>1 DEF Waits
    <3>3. QueueInOrder(s)'
      BY <1>2, <1>3 DEF RepliesInOrder, InOrder
    <3> QED BY <1>2, <1>8, <1>9, <3>2, <3>3 DEF QueueInOrder
  <2>2. ASSUME NEW i \in 1 .. Len(inq), Late(i) PROVE FALSE
    <3>1. gaveUp /\ inbox["mesh_ctrl"] = << >>
      BY <2>2 DEF Late, Course, QueueKnown
    <3> QED BY <1>1, <1>2, <3>1
  <2>3. OnlyAttach
    BY <2>1, <2>2 DEF Course, QueueKnown, OnlyAttach
  <2>4. \A i : ~Late(i)'
    BY <1>7 DEF Late
  <2> QED BY <1>2, <2>3, <2>4 DEF QueueKnown, OnlyAttach
<1>12. InStep'
  <2>1. ASSUME NEW u \in {"ctrl", "mesh_ctrl"}, u # s
        PROVE  \/ u = "ctrl" /\ gaveUp
               \/ sent'[u] = taken'[u] + 0
    <3>1. taken'[u] = taken[u] /\ sent'[u] = sent[u]
      BY <1>0, <1>2, <1>9, <2>1 DEF QueueTypes, Sockets
    <3> QED BY <1>1, <1>2, <2>1, <3>1 DEF Course, InStep, Failed
  <2>2. sent'[s] = taken'[s] + 0
    BY <1>2, <1>8, <1>9
  <2> QED BY <1>7, <2>1, <2>2 DEF InStep
<1>13. Applied'
  <2>1. buf'.word = m.word
    BY <1>0, <1>6, ReceivedType DEF CallTypes
  <2>2. m.word = "OK" => Effect
    BY <1>1, <1>2, <1>4 DEF Course, Applied
  <2> QED BY <1>7, <1>10, <2>1, <2>2 DEF Applied
<1>14. Configured' /\ NoneOpen'
  BY DEF Course, Configured, SetBefore, NoneOpen
<1> QED BY <1>11, <1>12, <1>13, <1>14 DEF Course

(* The supplicant does what the command under way says.                     *)
LEMMA NetworkEffect ==
  ASSUME Types, Requests, Configured, NoneOpen, pc = "asking",
         NEW c \in Command, c.verb = Now.verb, c.id = nw_id,
         networks' = NetworksAfter(c), UNCHANGED halVars,
         OnNetwork(c) => c.id \in DOMAIN networks
  PROVE  Effect' /\ Configured' /\ NoneOpen'
<1>0. HalTypes /\ todo # << >> /\ networks \in [DOMAIN networks -> NetworkRecord]
  BY DEF Types, HalTypes, Requests, NetworkRecords
<1>1. Now' = Now /\ SetBefore' = SetBefore /\ nw_id' = nw_id
  BY DEF Now, Steps, SetBefore
<1>2. /\ Sequenced(Steps) /\ Now = Steps[step] /\ step \in 1 .. Len(Steps)
      /\ SetBefore = {Steps[j].verb : j \in 1 .. step - 1} \cap Params
  BY <1>0, NowFacts DEF SetBefore, SetUpTo, Steps
<1>3. ASSUME SetBefore # {}
      PROVE  nw_id \in DOMAIN networks /\ SetBefore \subseteq networks[nw_id].set
  BY <1>0, <1>3 DEF Configured
<1>4. CASE c.verb \in Removers
  <2>1. Effect'
    BY <1>1, <1>4 DEF Effect, Removers, Params, Enablers
  <2>2. SetBefore = {}
    BY <1>2, <1>4 DEF Sequenced
  <2>3. NoneOpen'
    <3>1. CASE c.verb = "REMOVE_NETWORK"
      <4>1. networks' = << >>
        BY <3>1 DEF NetworksAfter, Params
      <4>2. DOMAIN networks' = {}
        BY <4>1
      <4> QED BY <4>2 DEF NoneOpen
    <3>2. CASE c.verb = "ADD_NETWORK"
      <4> DEFINE e == [set |-> {}, on |-> FALSE]
      <4>1. networks' = [i \in DOMAIN networks \cup {NewId} |->
                           IF i = NewId THEN e ELSE networks[i]]
        BY <3>2 DEF NetworksAfter, Params
      <4>2. ~e.on
        OBVIOUS
      <4> HIDE DEF e
      <4> QED BY <4>1, <4>2 DEF NoneOpen
    <3> QED BY <1>4, <3>1, <3>2 DEF Removers
  <2> QED BY <1>1, <2>1, <2>2, <2>3 DEF Configured
<1>5. CASE c.verb \in Params
  <2>1. nw_id \in DOMAIN networks
    BY <1>5 DEF OnNetwork
  <2>2. networks' = [networks EXCEPT ![nw_id].set = @ \cup {c.verb}]
    BY <1>5 DEF NetworksAfter, Params
  <2>3. /\ DOMAIN networks' = DOMAIN networks
        /\ networks'[nw_id].set = networks[nw_id].set \cup {c.verb}
        /\ networks'[nw_id].on = networks[nw_id].on
        /\ \A i \in DOMAIN networks \ {nw_id} : networks'[i] = networks[i]
    BY <1>0, <2>1, <2>2 DEF NetworkRecord
  <2>4. Effect'
    BY <1>1, <1>5, <2>1, <2>3 DEF Effect, Params, Enablers
  <2>5. Configured'
    BY <1>1, <1>3, <2>1, <2>3 DEF Configured
  <2>6. NoneOpen'
    BY <2>3 DEF NoneOpen
  <2> QED BY <2>4, <2>5, <2>6
<1>6. CASE c.verb \in Enablers
  <2>1. nw_id \in DOMAIN networks
    BY <1>6 DEF OnNetwork, Enablers
  <2>2. networks' = [networks EXCEPT ![nw_id].on = TRUE]
    BY <1>6 DEF NetworksAfter, Params, Enablers
  <2>3. /\ DOMAIN networks' = DOMAIN networks
        /\ networks'[nw_id].set = networks[nw_id].set /\ networks'[nw_id].on
        /\ \A i \in DOMAIN networks \ {nw_id} : networks'[i] = networks[i]
    BY <1>0, <2>1, <2>2 DEF NetworkRecord
  <2>4. {"ssid", "psk"} \subseteq SetBefore
    BY <1>2, <1>6 DEF Sequenced, Params
  <2>5. {"ssid", "psk"} \subseteq networks[nw_id].set
    BY <1>3, <2>4
  <2>6. Effect'
    BY <1>1, <1>6, <2>1, <2>3 DEF Effect, Params, Enablers
  <2>7. Configured'
    BY <1>1, <1>3, <2>1, <2>3 DEF Configured
  <2>8. NoneOpen'
    BY <2>3, <2>5 DEF NoneOpen
  <2> QED BY <2>6, <2>7, <2>8
<1>7. CASE c.verb \notin Removers \cup Params \cup Enablers
  <2>1. networks' = networks
    BY <1>7 DEF NetworksAfter, Removers, Enablers
  <2> QED BY <1>1, <1>7, <2>1 DEF Effect, Configured, NoneOpen
<1> QED BY <1>4, <1>5, <1>6, <1>7

(* The supplicant serves a command.                                         *)
LEMMA CourseServe ==
  ASSUME Types, Requests, OnCourse, Course, Serve
  PROVE  Course'
<1>0. QueueTypes /\ CallTypes /\ HalTypes
  BY DEF Types
<1>1. /\ inq # << >> /\ inq' = Tail(inq)
      /\ UNCHANGED <<handle, local, call, ret, buf, taken, sent, halVars>>
  BY DEF Serve
<1>2. PICK c \in Command, w \in {"OK", "FAIL", "ID", "TABLE"} :
        /\ c = inq[1] /\ ReplyTo(c, w)
        /\ \/ /\ networks' = NetworksAfter(c) /\ w = WordFor(c)
              /\ OnNetwork(c) => c.id \in DOMAIN networks
           \/ networks' = networks /\ w = "FAIL"
  BY ServeFacts
<1>3. /\ Len(inq) \in Nat \ {0} /\ Len(inq') = Len(inq) - 1
      /\ \A i \in 1 .. Len(inq) - 1 : inq'[i] = inq[i + 1]
  BY <1>0, <1>1, TailFacts DEF QueueTypes
<1>4. ASSUME NEW i \in 1 .. Len(inq')
      PROVE  /\ i + 1 \in 1 .. Len(inq) /\ inq'[i] = inq[i + 1]
             /\ (Awaited(i)' <=> Awaited(i + 1))
             /\ (Late(i)' <=> Late(i + 1))
  <2>1. i + 1 \in 1 .. Len(inq) /\ inq'[i] = inq[i + 1]
    BY <1>3
  <2> QED BY <1>1, <2>1 DEF Awaited, Late, Failed, Succeeded
<1>5. ASSUME \/ inbox'["mesh_ctrl"] = inbox["mesh_ctrl"]
             \/ \A i \in 1 .. Len(inq) : ~Late(i)
      PROVE  QueueKnown'
  <2>1. \A i \in 1 .. Len(inq') : inq'[i].verb = "ATTACH" \/ Awaited(i)' \/ Late(i)'
    BY <1>4 DEF Course, QueueKnown
  <2>2. ASSUME NEW i \in 1 .. Len(inq'), Late(i)'
        PROVE  /\ inbox'["mesh_ctrl"] = << >>
               /\ \A j \in 1 .. Len(inq') : inq'[j].verb = "ADD_NETWORK" => i < j
    <3>1. Late(i + 1) /\ i + 1 \in 1 .. Len(inq)
      BY <1>4, <2>2
    <3>2. inbox'["mesh_ctrl"] = << >>
      BY <1>5, <3>1 DEF Course, QueueKnown
    <3>3. ASSUME NEW j \in 1 .. Len(inq'), inq'[j].verb = "ADD_NETWORK"
          PROVE  i < j
      <4>1. j + 1 \in 1 .. Len(inq) /\ inq[j + 1].verb = "ADD_NETWORK"
        BY <1>4, <3>3
      <4>2. i + 1 < j + 1
        BY <3>1, <4>1 DEF Course, QueueKnown
      <4> QED BY <1>3, <4>2
    <3> QED BY <3>2, <3>3
  <2> QED BY <2>1, <2>2 DEF QueueKnown
<1>6. InStep'
  BY <1>1 DEF Course, InStep, Failed
<1>7. Now' = Now /\ SetBefore' = SetBefore
  BY <1>1 DEF Now, Steps, SetBefore
<1>8. CASE c.verb = "ATTACH"
  <2>1. c.sock = "monitor"
    BY <1>2, <1>3, <1>8 DEF Requests, EventsApart
  <2>2. \A s \in {"ctrl", "mesh_ctrl"} : inbox'[s] = inbox[s]
    BY <1>0, <1>2, <2>1, OtherReply DEF Sockets
  <2>3. networks' = networks
    BY <1>2, <1>8 DEF NetworksAfter, Params
  <2>4. Effect' = Effect
    BY <1>1, <1>7, <2>3 DEF Effect
  <2>5. Applied'
    <3>1. pc = "asking" => inbox'[call.sock] = inbox[call.sock]
      BY <2>2, CourseSocket
    <3> QED BY <1>1, <2>4, <3>1 DEF Course, Applied, Succeeded
  <2>6. Configured' /\ NoneOpen'
    BY <1>1, <1>7, <2>3 DEF Course, Configured, NoneOpen
  <2> QED BY <1>5, <1>6, <2>2, <2>5, <2>6 DEF Course
<1>9. CASE Late(1)
  <2>1. /\ c.sock = "ctrl" /\ c.verb = "REMOVE_NETWORK" /\ step = 3
        /\ Head(todo) = "join_mesh" /\ gaveUp /\ ~Succeeded
    BY <1>2, <1>9 DEF Late
  <2>2. inbox'["mesh_ctrl"] = inbox["mesh_ctrl"]
    BY <1>0, <1>2, <2>1, OtherReply DEF Sockets
  <2>3. networks' = networks \/ DOMAIN networks' = {}
    <3>1. networks' = networks \/ networks' = << >>
      BY <1>2, <2>1 DEF NetworksAfter, Params
    <3> QED BY <3>1
  <2>4. SetBefore = {}
    BY <2>1, MeshNothingSet DEF SetBefore
  <2>5. Configured' /\ NoneOpen'
    BY <1>7, <2>3, <2>4 DEF Course, Configured, NoneOpen
  <2>6. Applied'
    <3> SUFFICES ASSUME pc = "asking" PROVE Applied'
      BY <1>1 DEF Applied
    <3>1. Now.verb = "ADD_NETWORK"
      BY <1>0, <2>1, CourseSocket, NowFacts DEF MeshTable
    <3>2. Effect'
      BY <1>7, <3>1 DEF Effect, Params, Enablers
    <3> QED BY <3>2 DEF Applied
  <2> QED BY <1>5, <1>6, <2>2, <2>5, <2>6 DEF Course
<1>10. CASE Awaited(1)
  <2>1. /\ pc = "asking" /\ (call.at = "select" \/ Failed) /\ ~Succeeded
        /\ c.sock = call.sock /\ c.verb = Now.verb /\ c.id = nw_id
        /\ Now.verb # "ATTACH"
    BY <1>2, <1>10 DEF Awaited, Requests, CallKnown, Succeeded, Failed
  <2>2. ASSUME NEW i \in 1 .. Len(inq), Late(i) PROVE FALSE
    <3>1. Head(todo) = "join_mesh" /\ step = 3
      BY <2>2 DEF Late
    <3>2. inq[1].verb = "ADD_NETWORK" /\ 1 \in 1 .. Len(inq)
      BY <1>0, <1>2, <1>3, <2>1, <3>1, CourseSocket, NowFacts DEF MeshTable
    <3>3. i < 1
      BY <2>2, <3>2 DEF Course, QueueKnown
    <3> QED BY <1>3, <3>3
  <2>3. CASE /\ networks' = NetworksAfter(c)
             /\ OnNetwork(c) => c.id \in DOMAIN networks
    <3>1. Effect' /\ Configured' /\ NoneOpen'
      BY <1>1, <2>1, <2>3, NetworkEffect DEF Course
    <3>2. Applied'
      BY <3>1 DEF Applied
    <3> QED BY <1>5, <1>6, <2>2, <3>1, <3>2 DEF Course
  <2>4. CASE networks' = networks /\ w = "FAIL"
    <3>1. Configured' /\ NoneOpen' /\ Effect' = Effect
      BY <1>1, <1>7, <2>4 DEF Course, Configured, NoneOpen, Effect
    <3>2. Applied'
      <4> SUFFICES ASSUME call.at = "select",
                          NEW i \in 1 .. Len(inbox'[call.sock]),
                          inbox'[call.sock][i].word = "OK"
                   PROVE  Effect
        BY <1>1, <2>1, <3>1 DEF Applied, Succeeded
      <4>1. CASE inbox' = inbox
        BY <2>1, <4>1 DEF Course, Applied
      <4>2. CASE inbox' # inbox
        <5>1. PICK m \in Inbound :
                m.word = "FAIL" /\ inbox' = [inbox EXCEPT ![c.sock] = Append(@, m)]
          BY <1>0, <1>2, <2>1, <2>4, <4>2, PlainReply
        <5>2. call.sock \in Sockets /\ inbox[call.sock] \in Seq(Inbound)
          BY <1>0 DEF CallTypes, CallType, QueueTypes
        <5>3. inbox'[call.sock] = Append(inbox[call.sock], m)
          BY <1>0, <2>1, <5>1, <5>2 DEF QueueTypes
        <5>4. /\ Len(inbox[call.sock]) \in Nat
              /\ Len(inbox'[call.sock]) = Len(inbox[call.sock]) + 1
              /\ inbox'[call.sock][Len(inbox[call.sock]) + 1] = m
              /\ \A k \in 1 .. Len(inbox[call.sock]) :
                   inbox'[call.sock][k] = inbox[call.sock][k]
          BY <5>2, <5>3, AppendFacts
        <5>5. i \in 1 .. Len(inbox[call.sock])
          BY <5>1, <5>4
        <5> QED BY <2>1, <5>4, <5>5 DEF Course, Applied
      <4> QED BY <4>1, <4>2
    <3> QED BY <1>5, <1>6, <2>2, <3>1, <3>2 DEF Course
  <2> QED BY <1>2, <2>3, <2>4
<1> QED BY <1>2, <1>3, <1>8, <1>9, <1>10 DEF Course, QueueKnown

LEMMA CourseInit == Init => (OnCourse => Course)
<1> SUFFICES ASSUME Init PROVE Course
  OBVIOUS
<1>1. /\ pc = "ctrl" /\ step = 1 /\ inq = << >>
      /\ sent = [s \in Sockets |-> 0] /\ taken = [s \in Sockets |-> 0]
      /\ call = NoCall
  BY DEF Init, WpaInit
<1>2. QueueKnown /\ Applied /\ Configured
  BY <1>1 DEF QueueKnown, Applied, Configured
<1>3. InStep
  <2>1. NoCall.at = "idle"
    BY DEF NoCall
  <2> QED BY <1>1, <2>1 DEF InStep, Sockets
<1>4. NoneOpen
  <2>1. PICK d : networks = [i \in d |-> Stale]
    BY DEF Init
  <2>2. {"ssid", "psk"} \subseteq Stale.set
    BY DEF Stale, Params
  <2> QED BY <2>1, <2>2 DEF NoneOpen
<1> QED BY <1>2, <1>3, <1>4 DEF Course

LEMMA CourseStep ==
  ASSUME Types, Places, RepliesInOrder, Requests, OnCourse => Course,
         [Next]_vars, OnCourse'
  PROVE  Course'
<1>0. Types' /\ RepliesInOrder'
  BY TypesStep, RepliesInOrderStep
<1>1. OnCourse /\ Course
  BY OnCourseBack DEF Requests
<1>2. CallTypes /\ QueueTypes /\ HalTypes
  BY DEF Types
<1>3. CASE OpenCtrl \/ OpenMonitor \/ AttachMonitor \/ Attached \/ CloseCtrl
           \/ wifi_hal_wpa_dettach
  <2>1. /\ pc # "asking" /\ pc' # "asking" /\ call.at # "select"
        /\ UNCHANGED <<todo, step, networks, inq, gaveUp>>
    BY <1>3 DEF Places, OpenCtrl, OpenMonitor, AttachMonitor, Attached,
       CloseCtrl, wifi_hal_wpa_dettach, OpenFailed
  <2>2. call'.at # "select"
    <3>1. call' = call \/ call' = NoCall \/ Request("monitor", "ATTACH", -1)
      BY <1>3 DEF OpenCtrl, OpenMonitor, AttachMonitor, Attached, CloseCtrl,
         wifi_hal_wpa_dettach
    <3>2. NoCall.at = "idle"
      BY DEF NoCall
    <3> QED BY <2>1, <3>1, <3>2 DEF Request
  <2>3. step = 1 \/ todo = << >>
    BY <1>3 DEF Requests, CallKnown, Ended, OpenCtrl, OpenMonitor,
       AttachMonitor, Attached, CloseCtrl, wifi_hal_wpa_dettach
  <2>4. ASSUME NEW s \in {"ctrl", "mesh_ctrl"}
        PROVE  sent'[s] = taken'[s] \/ UNCHANGED <<sent[s], taken[s]>>
    <3>1. UNCHANGED <<sent, taken>> \/ \E u : wpa_ctrl_open2(u)
      BY <1>3 DEF OpenCtrl, OpenMonitor, AttachMonitor, Attached, CloseCtrl,
         wifi_hal_wpa_dettach
    <3> QED BY <1>2, <3>1 DEF wpa_ctrl_open2, QueueTypes, Sockets
  <2> QED BY <1>0, <1>1, <2>1, <2>2, <2>3, <2>4, CourseOutside
<1>4. CASE Ask
  BY <1>0, <1>1, <1>4, CourseAsk
<1>5. CASE Answered
  BY <1>0, <1>1, <1>5, CourseAnswered
<1>6. CASE wifi_hal_wpa_mesh_attach
  BY <1>0, <1>1, <1>6, CourseMesh
<1>7. CASE /\ wpa_ctrl_request \/ ReceiveFails
           /\ UNCHANGED <<halVars, networks, refused>>
  <2>0. call.at \in {"send", "select"} /\ pc \in {"attaching", "asking"}
    BY <1>2, <1>7, RequestKeeps DEF Places
  <2>1. CASE pc = "attaching"
    BY <1>1, <1>7, <2>1, CourseMonitor
  <2>2. CASE pc = "asking" /\ Receive
    BY <1>0, <1>1, <1>7, <2>2, CourseReceive
  <2>3. CASE pc = "asking" /\ Send /\ call'.at = "select"
    BY <1>1, <1>7, <2>3, CourseSend
  <2>4. CASE /\ pc = "asking"
             /\ SendAgain \/ Timeout \/ ReceiveFails
                \/ (Send /\ call'.at # "select")
    <3>1. /\ call'.sock = call.sock /\ call'.verb = call.verb
          /\ call'.id = call.id
      BY <1>2, <1>7, RequestKeeps
    <3>2. UNCHANGED <<local, inbox, taken>>
      BY <2>4 DEF SendAgain, Timeout, ReceiveFails, Send
    <3>3. /\ \/ call'.at = call.at /\ UNCHANGED ret
             \/ call'.at = "done" /\ ret' < 0
          /\ UNCHANGED <<inq, sent>>
      <4>0. ASSUME NEW r \in {-1, -2}, Return(r)
            PROVE  call'.at = "done" /\ ret' < 0
        <5>1. call' = [call EXCEPT !.at = "done"] /\ ret' = r /\ r < 0
          BY <4>0 DEF Return
        <5>2. call'.at = "done"
          BY <1>2, <5>1 DEF CallTypes, CallType
        <5> QED BY <5>1, <5>2
      <4>1. CASE Send /\ call'.at # "select"
        <5>1. call' = [call EXCEPT !.at = "select"] => call'.at = "select"
          BY <1>2 DEF CallTypes, CallType
        <5> QED BY <4>0, <4>1, <5>1 DEF Send
      <4>2. CASE SendAgain
        <5>1. call' = [call EXCEPT !.started = TRUE] => call'.at = call.at
          BY <1>2 DEF CallTypes, CallType
        <5> QED BY <4>0, <4>2, <5>1 DEF SendAgain
      <4>3. CASE Timeout \/ ReceiveFails
        BY <4>0, <4>3 DEF Timeout, ReceiveFails
      <4> QED BY <2>4, <4>1, <4>2, <4>3
    <3> QED BY <1>1, <1>7, <2>0, <2>4, <3>1, <3>2, <3>3, CourseReturn
  <2> QED BY <1>7, <2>0, <2>1, <2>2, <2>3, <2>4 DEF wpa_ctrl_request
<1>8. CASE Serve
  BY <1>1, <1>8, CourseServe
<1>9. CASE Die
  <2>1. /\ inq' = << >> /\ UNCHANGED <<inbox, sent, callVars, halVars, networks>>
    BY <1>9 DEF Die
  <2>2. QueueKnown'
    BY <2>1 DEF QueueKnown
  <2>3. InStep' /\ Applied' /\ Configured' /\ NoneOpen'
    BY <1>1, <2>1 DEF Course, InStep, Failed, Applied, Succeeded, Effect, Now,
       Steps, Configured, SetBefore, NoneOpen
  <2> QED BY <2>2, <2>3 DEF Course
<1>10. CASE UNCHANGED vars
  BY <1>1, <1>10 DEF Course, QueueKnown, Awaited, Late, InStep, Failed,
     Succeeded, Applied, Effect, Now, Steps, Configured, SetBefore, NoneOpen
<1> QED BY <1>3, <1>4, <1>5, <1>6, <1>7, <1>8, <1>9, <1>10
        DEF Next, HalStep, RequestFails, Terminated

(* As long as no request has failed, no network is enabled that has no name *)
(* or no key: whatever the supplicant refuses and however slowly it         *)
(* answers, ENABLE_NETWORK and MESH_GROUP_ADD reach it only for the network *)
(* that was added, after the settings it has accepted.                      *)
THEOREM NoHalfConfiguredNetwork == Spec => []NoOpenNetwork
<1> DEFINE Inv == /\ Types /\ Places /\ RepliesInOrder /\ Requests
                  /\ OnCourse => Course
<1>1. Init => Inv
  BY TypesInit, PlacesInit, RepliesInOrderInit, RequestsInit, CourseInit
<1>2. Inv /\ [Next]_vars => Inv'
  BY TypesStep, PlacesStep, RepliesInOrderStep, RequestsStep, CourseStep
<1>3. Inv => NoOpenNetwork
  BY DEF NoOpenNetwork, OnCourse, Course, NoneOpen
<1> QED BY <1>1, <1>2, <1>3, PTL DEF Spec

-----------------------------------------------------------------------------
(***************************************************************************)
(* Success is complete.                                                    *)
(***************************************************************************)
Lone ==
  /\ \A i \in 1 .. Len(todo) : todo[i] \in Makers => Len(todo) = 1 /\ result = << >>
  /\ \A i \in 1 .. Len(result) : result[i].fn \in Makers => todo = << >>
  /\ todo # << >> /\ Head(todo) = "create_ap" => ~gaveUp

(* A function that has returned 0 was on course, and has done its work.     *)
Finished ==
  \A i \in 1 .. Len(result) : result[i].fn \in Makers /\ result[i].val = 0 =>
    /\ OnCourse /\ nw_id \in DOMAIN networks /\ networks[nw_id].on
    /\ Params \subseteq networks[nw_id].set

LEMMA LoneInit == ASSUME ConfiguresOnce, Init PROVE Lone /\ Finished
<1>1. PICK s \in Sessions : todo = s.calls
  BY DEF Init
<1>2. s.calls \in Seq(Functions)
  BY SessionAssumption, Operations
<1>3. result = << >> /\ ~gaveUp
  BY DEF Init
<1> QED BY <1>1, <1>2, <1>3 DEF Lone, Finished, ConfiguresOnce

(* What a step that is the last of a function leaves.                       *)
LEMMA LoneStep ==
  ASSUME Types, Requests, Lone, [Next]_vars
  PROVE  Lone'
<1>0. HalTypes /\ CallTypes /\ result \in Seq(ResultRecord)
  BY DEF Types, Requests, ResultKnown
<1>1. CASE UNCHANGED <<result, gaveUp, todo>>
  BY <1>1 DEF Lone
<1>2. ASSUME todo # << >>, NEW r \in {0, -1, -2}, After(Verdict(Now.check, r)),
             gaveUp' => gaveUp \/ (r < 0 /\ Answered)
      PROVE  Lone'
  <2>1. Verdict(Now.check, r) \in Int /\ Head(todo) \in Functions
    BY <1>0, <1>2, NowType, VerdictFacts
  <2>2. CASE UNCHANGED <<todo, result>> /\ Verdict(Now.check, r) > 0
    <3>1. Head(todo) = "create_ap" => r = 0
      <4>1. Head(todo) = "create_ap" => Now.check \in {"ret", "ok"}
        BY <1>0, <1>2, Tables, NowFacts DEF Now, Steps, Functions
      <4> QED BY <2>2, <4>1, VerdictFacts DEF Checks
    <3> QED BY <1>2, <2>2, <3>1 DEF Lone
  <2>3. CASE /\ todo' = Tail(todo)
             /\ \E x : result' = Append(result, x) /\ x.fn = Head(todo)
    <3>1. PICK x : result' = Append(result, x) /\ x.fn = Head(todo)
      BY <2>3
    <3>2. /\ Len(result) \in Nat /\ Len(result') = Len(result) + 1
          /\ result'[Len(result) + 1] = x
          /\ \A i \in 1 .. Len(result) : result'[i] = result[i]
      BY <1>0, <3>1, AppendFacts
    <3>3. /\ Len(todo) \in Nat \ {0} /\ Len(todo') = Len(todo) - 1
          /\ Head(todo) = todo[1] /\ todo' \in Seq(Functions)
          /\ \A i \in 1 .. Len(todo) - 1 : todo'[i] = todo[i + 1]
      BY <1>0, <1>2, <2>3, TailFacts DEF HalTypes
    <3>4. ASSUME NEW i \in 1 .. Len(todo') PROVE todo'[i] \notin Makers
      BY <3>3, <3>4 DEF Lone
    <3>5. ASSUME NEW i \in 1 .. Len(result'), result'[i].fn \in Makers
          PROVE  todo' = << >>
      <4>1. i = Len(result) + 1
        BY <1>2, <3>2, <3>5 DEF Lone
      <4>2. todo[1] \in Makers
        BY <3>1, <3>2, <3>3, <3>5, <4>1
      <4>3. Len(todo') = 0
        BY <3>3, <4>2 DEF Lone
      <4> QED BY <3>3, <4>3
    <3>6. ASSUME todo' # << >> PROVE Head(todo') # "create_ap"
      <4>1. Head(todo') = todo'[1] /\ Len(todo') \in Nat \ {0}
        BY <3>3, <3>6, TailFacts
      <4>2. todo'[1] \notin Makers
        BY <3>4, <4>1
      <4> QED BY <4>1, <4>2 DEF Makers
    <3> QED BY <3>4, <3>5, <3>6 DEF Lone
  <2>4. \A f, z : [fn |-> f, val |-> z].fn = f
    OBVIOUS
  <2> QED BY <1>0, <1>2, <2>1, <2>2, <2>3, <2>4, AfterFacts
<1>3. CASE Ask
  <2>1. UNCHANGED <<gaveUp, todo, result>>
        \/ (todo # << >> /\ After(Verdict(Now.check, -1)) /\ gaveUp' = gaveUp)
    BY <1>3 DEF Ask
  <2> QED BY <1>1, <1>2, <2>1
<1>4. CASE Answered
  <2>1. todo # << >> /\ CommandResult \in {0, -1, -2} /\ (ret < 0 => CommandResult < 0)
    BY <1>0, <1>4, CommandResultFacts DEF Answered, HalTypes, CallTypes
  <2> QED BY <1>2, <1>4, <2>1 DEF Answered
<1>5. CASE wifi_hal_wpa_mesh_attach
  BY <1>2, <1>5 DEF wifi_hal_wpa_mesh_attach
<1>6. CASE ~(Ask \/ Answered \/ wifi_hal_wpa_mesh_attach)
  <2>1. UNCHANGED <<result, gaveUp, todo, step>>
    BY <1>6 DEF Next, HalStep, OpenCtrl, OpenMonitor, AttachMonitor, Attached,
       CloseCtrl, wifi_hal_wpa_dettach, RequestFails, Serve, Die, Terminated
  <2> QED BY <1>1, <2>1
<1> QED BY <1>3, <1>4, <1>5, <1>6

LEMMA FinishedStep ==
  ASSUME Types, Requests, OnCourse => Course, Lone, Finished, [Next]_vars
  PROVE  Finished'
<1>0. HalTypes /\ CallTypes /\ result \in Seq(ResultRecord)
  BY DEF Types, Requests, ResultKnown
<1>1. CASE ~(Ask \/ Answered \/ wifi_hal_wpa_mesh_attach)
  <2>1. UNCHANGED <<result, gaveUp, todo, nw_id>>
    BY <1>1 DEF Next, HalStep, OpenCtrl, OpenMonitor, AttachMonitor, Attached,
       CloseCtrl, wifi_hal_wpa_dettach, RequestFails, Serve, Die, Terminated
  <2>2. CASE networks' = networks
    BY <2>1, <2>2 DEF Finished, OnCourse
  <2>3. ASSUME NEW i \in 1 .. Len(result), result[i].fn \in Makers,
               result[i].val = 0
        PROVE  networks' = networks
    <3>1. todo = << >> /\ Course
      BY <2>3 DEF Lone, Finished
    <3>2. pc # "asking" /\ ~(todo = <<"join_mesh">>)
      BY <1>0, <3>1 DEF HalTypes
    <3>3. OnlyAttach
      BY <3>1, <3>2 DEF OnlyAttach, Course, QueueKnown, Awaited, Late
    <3>4. CASE ~Serve
      BY <3>4, OthersKeepNetworks
    <3>5. CASE Serve
      <4>1. PICK c \in Command :
              /\ c = inq[1] /\ inq # << >>
              /\ networks' = NetworksAfter(c) \/ networks' = networks
        BY <3>5, ServeFacts
      <4>2. c.verb = "ATTACH"
        <5>1. 1 \in 1 .. Len(inq)
          BY <4>1, TailFacts DEF Types, QueueTypes
        <5> QED BY <3>3, <4>1, <5>1 DEF OnlyAttach
      <4> QED BY <4>1, <4>2 DEF NetworksAfter, Params
    <3> QED BY <3>4, <3>5
  <2> QED BY <2>1, <2>2, <2>3 DEF Finished
<1>2. ASSUME todo # << >> PROVE \A i \in 1 .. Len(result) : result[i].fn \notin Makers
  BY <1>2 DEF Lone
<1>3. ASSUME todo # << >>, UNCHANGED result PROVE Finished'
  BY <1>2, <1>3 DEF Finished
<1>4. ASSUME todo # << >>, NEW r \in {0, -1, -2}, After(Verdict(Now.check, r)),
             ~(/\ Head(todo) \in Makers /\ r = 0 /\ step = Len(Steps)
               /\ buf.word = "OK")
      PROVE  Finished'
  <2> DEFINE v == Verdict(Now.check, r)
  <2>1. v \in Int
    BY <1>0, <1>4, NowType, VerdictFacts
  <2>2. CASE UNCHANGED result
    BY <1>3, <1>4, <2>2
  <2>3. CASE /\ v <= 0 \/ step = Len(Steps)
             /\ result' = Append(result, [fn |-> Head(todo),
                                          val |-> IF v <= 0 THEN v ELSE 0])
    <3> DEFINE x == [fn |-> Head(todo), val |-> IF v <= 0 THEN v ELSE 0]
    <3>1. x.fn = Head(todo) /\ x.val = IF v <= 0 THEN v ELSE 0
      OBVIOUS
    <3>2. ~(x.fn \in Makers /\ x.val = 0)
      <4> SUFFICES ASSUME Head(todo) \in Makers, x.val = 0 PROVE FALSE
        BY <3>1
      <4>1. v = 0 \/ (v > 0 /\ step = Len(Steps))
        BY <2>1, <2>3, <3>1
      <4> QED BY <1>0, <1>4, <4>1, ReturnsZero
    <3> HIDE DEF x
    <3>3. result' = Append(result, x)
      BY <2>3 DEF x
    <3>4. /\ Len(result) \in Nat /\ Len(result') = Len(result) + 1
          /\ result'[Len(result) + 1] = x
          /\ \A i \in 1 .. Len(result) : result'[i] = result[i]
      BY <1>0, <3>3, AppendFacts
    <3> QED BY <1>2, <1>4, <3>2, <3>4 DEF Finished
  <2> QED BY <1>0, <1>4, <2>1, <2>2, <2>3, AfterFacts
<1>5. CASE Ask
  <2>1. todo # << >> /\ (UNCHANGED result \/ After(Verdict(Now.check, -1)))
    BY <1>5 DEF Ask
  <2> QED BY <1>3, <1>4, <2>1
<1>6. CASE wifi_hal_wpa_mesh_attach
  <2>1. todo # << >> /\ Now.verb = "wpa_mesh_attach"
    BY <1>6 DEF wifi_hal_wpa_mesh_attach
  <2>2. Head(todo) = "join_mesh" /\ step = 1
    <3>1. "wpa_mesh_attach" \notin AllVerbs
      BY DEF AllVerbs, Params
    <3> QED BY <1>0, <2>1, <3>1, NowType
  <2>3. step # Len(Steps)
    BY <1>0, <2>1, <2>2, NowFacts DEF Thorough
  <2> QED BY <1>4, <1>6, <2>1, <2>3 DEF wifi_hal_wpa_mesh_attach
<1>7. CASE Answered
  <2>0. /\ pc = "asking" /\ call.at = "done" /\ todo # << >>
        /\ ret \in {0, -1, -2} /\ UNCHANGED networks
        /\ gaveUp' = (gaveUp \/ ret < 0)
    BY <1>0, <1>7 DEF Answered, HalTypes, CallTypes
  <2> DEFINE r == CommandResult
             v == Verdict(Now.check, r)
  <2>1. r \in {0, -1, -2} /\ (r = 0 => ret = 0) /\ After(v)
    BY <1>7, <2>0, CommandResultFacts DEF Answered
  <2>2. CASE ~(/\ Head(todo) \in Makers /\ r = 0 /\ step = Len(Steps)
               /\ buf.word = "OK")
    BY <1>4, <2>0, <2>1, <2>2
  <2>3. CASE /\ Head(todo) \in Makers /\ r = 0 /\ step = Len(Steps)
             /\ buf.word = "OK"
    <3>1. ret = 0 /\ Succeeded
      BY <2>0, <2>1, <2>3 DEF Succeeded
    <3>2. Head(todo) = todo[1] /\ Len(todo) = 1 /\ result = << >>
          /\ Tail(todo) = << >>
      <4>1. /\ Len(todo) \in Nat \ {0} /\ Head(todo) = todo[1]
            /\ Len(Tail(todo)) = Len(todo) - 1 /\ Tail(todo) \in Seq(Functions)
        BY <1>0, <2>0, TailFacts DEF HalTypes
      <4>2. Len(todo) = 1 /\ result = << >>
        BY <2>3, <4>1 DEF Lone
      <4>3. Len(Tail(todo)) = 0
        BY <4>1, <4>2
      <4>4. \A t \in Seq(Functions) : Len(t) = 0 => t = << >>
        OBVIOUS
      <4>5. Tail(todo) = << >>
        BY <4>1, <4>3, <4>4
      <4> QED BY <4>1, <4>2, <4>5
    <3>3. OnCourse
      <4>1. CASE Head(todo) = "create_ap"
        BY <2>0, <4>1 DEF Lone, OnCourse
      <4>2. CASE Head(todo) = "join_mesh"
        <5>1. todo = <<"join_mesh">>
          BY <1>0, <3>2, <4>2 DEF HalTypes
        <5> QED BY <3>2, <5>1 DEF OnCourse
      <4> QED BY <2>3, <4>1, <4>2 DEF Makers
    <3>4. Thorough(Steps) /\ Now = Steps[step] /\ step \in Nat
      BY <1>0, <2>0, <2>3, NowFacts
    <3>5. Now.verb \in Enablers
      BY <2>3, <3>4 DEF Thorough
    <3>6. nw_id' = nw_id
      BY <1>7, <3>5 DEF Answered, Enablers
    <3>7. nw_id \in DOMAIN networks /\ networks[nw_id].on
      BY <2>0, <2>3, <3>1, <3>3, <3>5 DEF Course, Applied, Effect
    <3>8. Params \subseteq networks[nw_id].set
      <4>1. Params \subseteq SetBefore
        BY <2>3, <3>4 DEF Thorough, SetBefore, SetUpTo, Steps
      <4>2. "ssid" \in SetBefore
        BY <4>1 DEF Params
      <4> QED BY <2>0, <3>3, <4>1, <4>2 DEF Course, Configured
    <3>9. v \in {1, -1}
      <4>1. Now.check = "ok"
        BY <2>3, <3>4 DEF Thorough
      <4> QED BY <2>1, <4>1, VerdictFacts DEF Checks
    <3> DEFINE x == [fn |-> Head(todo), val |-> IF v <= 0 THEN v ELSE 0]
    <3>10. todo' = << >> /\ result' = Append(result, x)
      <4>1. v \in Int /\ After(v) /\ HalTypes /\ todo # << >>
        BY <1>0, <2>0, <2>1, <3>9
      <4>2. step = Len(Steps) /\ Len(Steps) \in Nat
        BY <2>3, <4>1, NowType
      <4>3. ~(step < Len(Steps))
        BY <4>2
      <4>4. result' = Append(result, x) /\ todo' = Tail(todo)
        BY <4>1, <4>3, AfterFacts
      <4> QED BY <3>2, <4>4
    <3>11. x.fn = Head(todo) /\ x.val = IF v <= 0 THEN v ELSE 0
      OBVIOUS
    <3>12. x.val = 0 => OnCourse'
      <4> SUFFICES ASSUME x.val = 0 PROVE OnCourse'
        OBVIOUS
      <4>1. CASE ~gaveUp
        <5>1. ~(ret < 0)
          BY <3>1
        <5>2. ~gaveUp'
          BY <2>0, <4>1, <5>1, Zenon
        <5> QED BY <5>2 DEF OnCourse
      <4>2. CASE gaveUp
        <5>1. Head(todo) = "join_mesh"
          BY <2>0, <2>3, <3>2, <4>2 DEF Lone, Makers
        <5>2. v = 1
          BY <3>9, <3>11
        <5>3. x = [fn |-> "join_mesh", val |-> 0]
          BY <5>1, <5>2
        <5> HIDE DEF x
        <5>4. result' = <<x>>
          BY <3>2, <3>10
        <5> QED BY <3>10, <5>3, <5>4 DEF OnCourse
      <4> QED BY <4>1, <4>2
    <3> HIDE DEF x, v, r
    <3>13. Len(result') = 1 /\ result'[1] = x
      BY <3>2, <3>10
    <3> QED BY <2>0, <3>6, <3>7, <3>8, <3>12, <3>13 DEF Finished
  <2> QED BY <2>2, <2>3
<1> QED BY <1>1, <1>5, <1>6, <1>7

(* wifi_hal_create_ap and wifi_hal_join_mesh return 0 only if the network   *)
(* they added has every parameter and is enabled, whatever the supplicant   *)
(* refused and whenever it answered: a reply of an earlier command is never *)
(* taken for the one that was asked for, and join_mesh survives the late    *)
(* answer to its removal of the networks, which comes on another            *)
(* connection.                                                              *)
THEOREM SuccessMeansComplete ==
  ASSUME ConfiguresOnce
  PROVE  Spec => []SuccessIsComplete
<1> DEFINE Inv == /\ Types /\ Places /\ RepliesInOrder /\ Requests
                  /\ OnCourse => Course
                  /\ Lone /\ Finished
<1>1. Init => Inv
  BY TypesInit, PlacesInit, RepliesInOrderInit, RequestsInit, CourseInit,
     LoneInit
<1>2. Inv /\ [Next]_vars => Inv'
  BY TypesStep, PlacesStep, RepliesInOrderStep, RequestsStep, CourseStep,
     LoneStep, FinishedStep
<1>3. Inv => SuccessIsComplete
  <2> SUFFICES ASSUME Inv, NEW i \in DOMAIN result, result[i].fn \in Makers,
                      result[i].val = 0
               PROVE  Complete(result[i].fn)
    BY DEF SuccessIsComplete, Results, Makers
  <2>1. i \in 1 .. Len(result)
    BY DEF Requests, ResultKnown
  <2>2. Needs(result[i].fn) = Params
    BY DEF Needs, Makers
  <2> QED BY <2>1, <2>2 DEF Finished, Complete
<1> QED BY <1>1, <1>2, <1>3, PTL DEF Spec

=============================================================================
