------------------------------ MODULE WpaCtrl ------------------------------
(***************************************************************************)
(* The control connection to wpa_supplicant                                *)
(* (src/wifi/wpa_socket/wpa_ctrl.c, UNIX datagram sockets): opening and    *)
(* closing a connection, with the socket file it leaves in the file        *)
(* system, and wpa_ctrl_request.                                           *)
(*                                                                         *)
(* One thread uses the connections of a radio, one call at a time.  The    *)
(* supplicant has one socket that all connections send to, and replies to  *)
(* the connection a command came from.  A reply is what its reader tells   *)
(* apart in it: its first word, its length and, for a history, the number  *)
(* of the command it answers.  The actions of the supplicant are in        *)
(* WifiConfig.                                                             *)
(***************************************************************************)
EXTENDS Integers, Sequences, FiniteSetsExt

CONSTANTS
  Verbs,          \* the commands that can be sent
  QueueLimit      \* datagrams the supplicant's socket holds

ASSUME WpaAssumption == QueueLimit \in Nat \ {0}

VARIABLES
  handle,         \* the struct wpa_ctrl of each connection
  local,          \* the number in its sun_path
  counter,        \* how often wpa_ctrl_open2 has been called
  files,          \* the socket files in the directory, ours and older ones
  alive,          \* the supplicant runs (external)
  inq,            \* commands the supplicant has not read yet (external)
  inbox,          \* datagrams in the socket of each connection
  call,           \* the wpa_ctrl_request under way
  ret,            \* what the last one returned
  buf,            \* the caller's reply buffer
  len,            \* the caller's *reply_len
  sent,           \* history: commands sent on each connection
  taken           \* history: the command whose reply was taken last

sockVars == <<handle, local, counter, files>>
callVars == <<call, ret, buf, len, taken>>
ctrlVars == <<sockVars, callVars, alive, inq, inbox, sent>>

Sockets == {"ctrl", "monitor", "mesh_ctrl"}

(* A command carries the address it was sent from, a number in a sun_path.  *)
(* First words of datagrams, with their lengths; "TABLE" is an answer       *)
(* longer than any other, "ID" the number of a network.                     *)
SizeOf == [OK |-> 3, FAIL |-> 5, ID |-> 2, TABLE |-> 100, EVENT |-> 30]
Words == DOMAIN SizeOf
Nothing == [word |-> "none", kept |-> 0, id |-> 0]

Datagram == [word : Words, to : Nat, id : Nat]
Command == [sock : Sockets, from : Nat, n : Nat, verb : Verbs, id : Int]

WpaTypeOK ==
  /\ handle \in [Sockets -> {"NULL", "open", "freed"}]
  /\ local \in [Sockets -> Nat] /\ counter \in Nat
  /\ files \subseteq [n : Nat, ours : BOOLEAN]
  /\ alive \in BOOLEAN
  /\ inq \in Seq(Command) /\ Len(inq) <= QueueLimit
  /\ inbox \in [Sockets -> Seq(Datagram)]
  /\ call.at \in {"idle", "send", "select", "done"}
  /\ ret \in {0, -1, -2}
  /\ buf # Nothing => buf.word \in Words /\ buf.kept <= SizeOf[buf.word]
  /\ len \in Nat
  /\ sent \in [Sockets -> Nat] /\ taken \in [Sockets -> Nat]

NoCall == [at |-> "idle", sock |-> "ctrl", verb |-> "", id |-> 0,
           started |-> FALSE]

(* A file left by an earlier process may have the number the next           *)
(* connection gets.                                                         *)
WpaInit ==
  /\ handle = [s \in Sockets |-> "NULL"]
  /\ local = [s \in Sockets |-> 0]
  /\ counter = 0 /\ files \in {{}, {[n |-> 1, ours |-> FALSE]}}
  /\ alive \in BOOLEAN
  /\ inq = << >> /\ inbox = [s \in Sockets |-> << >>]
  /\ call = NoCall /\ ret = 0 /\ buf = Nothing /\ len = 0
  /\ sent = [s \in Sockets |-> 0] /\ taken = [s \in Sockets |-> 0]

-----------------------------------------------------------------------------
(***************************************************************************)
(* Opening and closing.                                                    *)
(***************************************************************************)
File(k) == [n |-> k, ours |-> TRUE]
Others(k) == {f \in files : f.n # k}

ConnectFails(k) == files' = Others(k)

(* A file that is in the way is unlinked and bind tried once more; connect  *)
(* fails without a supplicant, and the file is removed again.  The other    *)
(* failures (no memory, no socket, a path that is too long, a directory     *)
(* that cannot be written) come before the file exists.                     *)
wpa_ctrl_open2(s) ==
  LET k == counter + 1
  IN /\ counter' = k
     /\ \/ /\ alive
           /\ handle' = [handle EXCEPT ![s] = "open"]
           /\ local' = [local EXCEPT ![s] = k]
           /\ files' = Others(k) \cup {File(k)}
           /\ inbox' = [inbox EXCEPT ![s] = << >>]
           /\ sent' = [sent EXCEPT ![s] = 0]
           /\ taken' = [taken EXCEPT ![s] = 0]
        \/ /\ handle' = [handle EXCEPT ![s] = "NULL"]
           /\ IF alive THEN UNCHANGED files ELSE ConnectFails(k)
           /\ UNCHANGED <<local, inbox, sent, taken>>

(* The structures of a set of connections are freed; null pointers are      *)
(* left alone.                                                              *)
wpa_ctrl_close(S) ==
  LET closed == {s \in S : handle[s] = "open"}
  IN /\ handle' = [s \in Sockets |-> IF s \in closed THEN "freed"
                                     ELSE handle[s]]
     /\ files' = files \ {File(local[s]) : s \in closed}
     /\ inbox' = [s \in Sockets |-> IF s \in closed THEN << >> ELSE inbox[s]]

-----------------------------------------------------------------------------
(***************************************************************************)
(* wpa_ctrl_request.                                                       *)
(***************************************************************************)
Request(s, v, i) ==
  /\ call.at = "idle"
  /\ call' = [at |-> "send", sock |-> s, verb |-> v, id |-> i,
              started |-> FALSE]

Return(r) == ret' = r /\ call' = [call EXCEPT !.at = "done"]

Full == Len(inq) = QueueLimit

Send ==
  /\ call.at = "send"
  /\ \/ /\ ~alive /\ Return(-1)
        /\ UNCHANGED <<inq, sent>>
     \/ /\ alive /\ ~Full
        /\ sent' = [sent EXCEPT ![call.sock] = @ + 1]
        /\ inq' = Append(inq, [sock |-> call.sock, from |-> local[call.sock],
                               n |-> sent[call.sock] + 1,
                               verb |-> call.verb, id |-> call.id])
        /\ call' = [call EXCEPT !.at = "select"]
        /\ UNCHANGED ret
  /\ UNCHANGED <<sockVars, buf, len, taken, alive, inbox>>

(* EAGAIN: the first one starts the clock, a later one ends the call when   *)
(* five seconds have passed; in between Send is tried again.                *)
SendAgain ==
  /\ call.at = "send" /\ alive /\ Full
  /\ \/ ~call.started /\ call' = [call EXCEPT !.started = TRUE]
        /\ UNCHANGED ret
     \/ call.started /\ Return(-1)
  /\ UNCHANGED <<sockVars, buf, len, taken, alive, inq, inbox, sent>>

(* What recv leaves of a datagram in a buffer of this length.               *)
Received(m) == [word |-> m.word, kept |-> Min({SizeOf[m.word], len}),
                id |-> m.id]

(* Mutant: any datagram is taken for the reply.                             *)
Unsolicited_Never(m) == FALSE

(* A message that starts with '<' or IFNAME=.                               *)
Unsolicited(m) == m.word = "EVENT"

(* One datagram is read: an unsolicited one is passed over, for there is no *)
(* msg_cb, and the buffer keeps it; another one is the reply.               *)
Receive ==
  /\ call.at = "select" /\ inbox[call.sock] # << >>
  /\ LET m == Head(inbox[call.sock])
     IN /\ inbox' = [inbox EXCEPT ![call.sock] = Tail(@)]
        /\ buf' = Received(m)
        /\ \/ Unsolicited(m) /\ UNCHANGED <<call, ret, len, taken>>
           \/ /\ ~Unsolicited(m)
              /\ len' = Received(m).kept
              /\ taken' = [taken EXCEPT ![call.sock] = m.to]
              /\ Return(0)
  /\ UNCHANGED <<sockVars, alive, inq, sent>>

(* Mutant: select is called without a timeout.                              *)
Timeout_None == FALSE /\ UNCHANGED ctrlVars

(* select sees nothing for ten seconds.  The reply may still come.          *)
Timeout ==
  /\ call.at = "select" /\ inbox[call.sock] = << >>
  /\ Return(-2)
  /\ UNCHANGED <<sockVars, buf, len, taken, alive, inq, inbox, sent>>

(* select or recv fails, EINTR of select apart.                             *)
ReceiveFails ==
  /\ call.at = "select"
  /\ Return(-1)
  /\ UNCHANGED <<sockVars, buf, len, taken, alive, inq, inbox, sent>>

wpa_ctrl_request == Send \/ SendAgain \/ Receive \/ Timeout

-----------------------------------------------------------------------------
(***************************************************************************)
(* Properties.                                                             *)
(***************************************************************************)
(* The connections as the service of WpaService.                            *)
Service == INSTANCE WpaService WITH
  busy <- IF call.at = "select" THEN {call.sock} ELSE {}

(* The socket files of this process are those of the open connections: an   *)
(* open that fails half-way leaves none behind, and closing removes them.   *)
FilesCleanedUp ==
  \A f \in files : f.ours =>
    \E s \in Sockets : handle[s] = "open" /\ local[s] = f.n

=============================================================================
