-------------------------- MODULE SupplicantStart --------------------------
(***************************************************************************)
(* How wifi_hal_open (src/wifi/wifi_hal_main.cpp) starts a supplicant for  *)
(* each radio and connects to it, when the process is started again and    *)
(* again: nothing stops the supplicants of an earlier open.  A supplicant  *)
(* is named by the open that started it.                                   *)
(*                                                                         *)
(* External: the shell, whose commands may fail unseen because pclose's    *)
(* result is dropped; and the supplicants, which bind the control socket   *)
(* unless a live one has it, and which die at any time.                    *)
(***************************************************************************)
EXTENDS Integers, FiniteSets

CONSTANTS
  radio_amount,     \* radios that the dump has found
  MaxOpens          \* bound on the opens of all processes

VARIABLES
  open,             \* the open that is made; 0 before the first
  at,               \* "config", "rm", "start", "attach", "opened", "failed"
  i,                \* the radio of the loop
  conf,             \* is there a default configuration?
  sock,             \* the supplicant that bound the socket of each radio, or 0
  alive,            \* of each radio: the supplicants that run
  conn,             \* of each radio: the supplicant its socket is connected to,
                    \* dead or alive, or 0
  unseen            \* history: commands of this open that were not run

vars == <<open, at, i, conf, sock, alive, conn, unseen>>

Radios == 0 .. radio_amount - 1

Init ==
  /\ open = 0 /\ at = "failed" /\ i = 0 /\ conf = FALSE
  /\ sock = [r \in Radios |-> 0] /\ alive = [r \in Radios |-> {}]
  /\ conn = [r \in Radios |-> 0] /\ unseen = {}

-----------------------------------------------------------------------------
(***************************************************************************)
(* wifi_hal_start_wpa_dummy_config.                                        *)
(***************************************************************************)
(* A file that cannot be written ends it, and wifi_hal_open goes on.        *)
create_default_wpa_config ==
  /\ at = "config" /\ i' = 0
  /\ \/ conf' = TRUE /\ at' = "rm" /\ UNCHANGED unseen
     \/ at' = "attach" /\ unseen' = unseen \cup Radios /\ UNCHANGED conf
  /\ UNCHANGED <<open, sock, alive, conn>>

(* Mutant: the socket is not removed.                                       *)
RemoveSocket_No ==
  /\ at = "rm" /\ at' = "start"
  /\ UNCHANGED <<open, i, conf, sock, alive, conn, unseen>>

(* rm of the control socket, of whoever it is.  No shell is only warned of. *)
RemoveSocket ==
  /\ at = "rm" /\ at' = "start"
  /\ \/ sock' = [sock EXCEPT ![i] = 0] /\ UNCHANGED unseen
     \/ unseen' = unseen \cup {i} /\ UNCHANGED sock
  /\ UNCHANGED <<open, i, conf, alive, conn>>

(* Mutant: the loop stays at its radio.                                     *)
Onward_Stay ==
  IF i + 1 < radio_amount THEN at' = "rm" /\ i' = i
  ELSE at' = "attach" /\ i' = 0

(* The next radio, or wpa_attach from the first one on.                     *)
Onward ==
  IF i + 1 < radio_amount THEN at' = "rm" /\ i' = i + 1
  ELSE at' = "attach" /\ i' = 0

(* The supplicant comes up, or fails and nothing is noticed, or there is no *)
(* shell, which leaves out the radios behind this one too.                  *)
StartSupplicant ==
  /\ at = "start"
  /\ \/ /\ sock[i] \notin alive[i]
        /\ sock' = [sock EXCEPT ![i] = open]
        /\ alive' = [alive EXCEPT ![i] = @ \cup {open}]
        /\ Onward /\ UNCHANGED unseen
     \/ Onward /\ UNCHANGED <<sock, alive, unseen>>
     \/ /\ at' = "attach" /\ i' = 0
        /\ unseen' = unseen \cup {r \in Radios : r >= i}
        /\ UNCHANGED <<sock, alive>>
  /\ UNCHANGED <<open, conf, conn>>

-----------------------------------------------------------------------------
(***************************************************************************)
(* wifi_hal_open behind it.  WpaCtrl has the steps of wifi_hal_wpa_attach. *)
(***************************************************************************)
wpa_attach ==
  /\ at = "attach"
  /\ \/ /\ sock[i] \in alive[i]
        /\ conn' = [conn EXCEPT ![i] = sock[i]]
        /\ i' = i + 1 /\ at' = IF i' = radio_amount THEN "opened" ELSE at
     \/ at' = "failed" /\ UNCHANGED <<conn, i>>
  /\ UNCHANGED <<open, conf, sock, alive, unseen>>

wifi_hal_open ==
  \/ create_default_wpa_config \/ RemoveSocket \/ StartSupplicant \/ wpa_attach

(* The process ends or crashes, wherever it is, and another one opens.      *)
Restart ==
  /\ open < MaxOpens /\ open' = open + 1 /\ at' = "config"
  /\ i' = 0 /\ unseen' = {} /\ conn' = [r \in Radios |-> 0]
  /\ UNCHANGED <<conf, sock, alive>>

(* A supplicant that ends in order takes its socket along; one that is      *)
(* killed leaves it.                                                        *)
SupplicantDies ==
  /\ \E r \in Radios : \E s \in alive[r] :
       /\ alive' = [alive EXCEPT ![r] = @ \ {s}]
       /\ sock' \in {sock, [sock EXCEPT ![r] = IF @ = s THEN 0 ELSE @]}
  /\ UNCHANGED <<open, at, i, conf, conn, unseen>>

Next == wifi_hal_open \/ Restart \/ SupplicantDies

(* The statements of the open are run; its commands return.                 *)
Spec == Init /\ [][Next]_vars /\ WF_vars(wifi_hal_open)

-----------------------------------------------------------------------------
(***************************************************************************)
(* Properties.                                                             *)
(***************************************************************************)
(* Every variable has its type, the loops stay within the table of radios,  *)
(* and no socket or connection belongs to a supplicant of the future.       *)
TypeOK ==
  /\ open \in 0 .. MaxOpens /\ conf \in BOOLEAN
  /\ at \in {"config", "rm", "start", "attach", "opened", "failed"}
  /\ i \in Radios \/ (at = "opened" /\ i = radio_amount)
  /\ unseen \subseteq Radios
  /\ sock \in [Radios -> 0 .. open] /\ conn \in [Radios -> 0 .. open]
  /\ alive \in [Radios -> SUBSET (1 .. open)]

(* The HAL never drives a supplicant that an earlier process left behind,   *)
(* with that process's networks, unless a command of this open could not be *)
(* run: though the HAL sees no exit status, a supplicant that did not start *)
(* is noticed because its predecessor's socket was removed first.           *)
OwnSupplicant ==
  \A r \in Radios : conn[r] \in {0, open} \/ r \in unseen

(* An open that succeeds has connected all radios, whatever happened to the *)
(* commands.                                                                *)
AllAttached ==
  at # "opened" /\ at' = "opened" => \A r \in Radios : conn'[r] # 0

(* The strengthening that makes these inductive: of the radios that the     *)
(* loop has passed, the socket is gone or was bound by a supplicant of this *)
(* open, unless a command was not run; and the radios before that of        *)
(* wpa_attach are connected.                                                *)
Fresh(r) == sock[r] \in {0, open} \/ r \in unseen

SocketsFresh ==
  /\ at \in {"config", "rm", "start", "attach"} => open > 0 /\ i \in Radios
  /\ \A r \in Radios :
       /\ at \in {"rm", "start"} /\ r < i => Fresh(r)
       /\ at = "start" /\ r = i => Fresh(r)
       /\ at = "attach" => Fresh(r) /\ (r < i => conn[r] # 0)

Running == at \notin {"opened", "failed"}

=============================================================================
