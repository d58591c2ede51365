----------------------------- MODULE WpaService -----------------------------
(***************************************************************************)
(* What wpa_ctrl_request promises on its connections, as far as it can be  *)
(* kept: calls come one after the other, a call ends with a reply, with an *)
(* error or by giving up, and every reply that is taken belongs to the     *)
(* oldest command of the connection that has not had its own.              *)
(*                                                                         *)
(* The reply is that of the command itself as long as no call was given    *)
(* up; afterwards every call gets the reply of an earlier one.             *)
(***************************************************************************)
EXTENDS Integers

CONSTANT Sockets      \* the connections of a client

VARIABLES
  sent,         \* commands of each connection that got to the supplicant
  taken,        \* replies taken, which is also the number of the last one
  busy,         \* the connection of the call under way, its command sent
  ret           \* what the last call returned: 0 with a reply

vars == <<sent, taken, busy, ret>>

Init ==
  /\ sent = [s \in Sockets |-> 0] /\ taken = [s \in Sockets |-> 0]
  /\ busy = {} /\ ret = 0

(* A connection is opened, or opened again: its replies are forgotten.      *)
Open(s) ==
  /\ busy = {}
  /\ sent' = [sent EXCEPT ![s] = 0] /\ taken' = [taken EXCEPT ![s] = 0]
  /\ UNCHANGED <<busy, ret>>

(* The command is sent, or cannot be sent.                                  *)
Request(s) ==
  /\ busy = {} /\ busy' = {s}
  /\ sent' = [sent EXCEPT ![s] = @ + 1]
  /\ UNCHANGED <<taken, ret>>

Unsent == busy = {} /\ ret' = -1 /\ UNCHANGED <<sent, taken, busy>>

(* The next reply in the order of the commands.                             *)
Reply(s) ==
  /\ busy = {s} /\ busy' = {}
  /\ taken[s] < sent[s] /\ taken' = [taken EXCEPT ![s] = @ + 1]
  /\ ret' = 0
  /\ UNCHANGED sent

(* A timeout or an error.                                                   *)
GiveUp ==
  /\ busy # {} /\ busy' = {}
  /\ ret' \in {-1, -2}
  /\ UNCHANGED <<sent, taken>>

Next == Unsent \/ GiveUp \/ \E s \in Sockets : Open(s) \/ Request(s) \/ Reply(s)

Spec == Init /\ [][Next]_vars

=============================================================================
