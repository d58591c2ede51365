----------------------------- MODULE WifiEvents -----------------------------
(***************************************************************************)
(* The life of a Wi-Fi HAL (src/wifi/wifi_hal_main.cpp): attach, open, the *)
(* event loop with its state machine, or one call of the HAL's interface,  *)
(* close and dettach.                                                      *)
(*                                                                         *)
(* One thread at a time runs the HAL.  What is said to a supplicant and    *)
(* how opening its connections can fail is in WifiConfig; here such a call *)
(* succeeds or fails.  Each supplicant (external) sends events to the      *)
(* monitor of its radio.                                                   *)
(***************************************************************************)
EXTENDS WifiNetlink

CONSTANTS
  Configs,          \* configurations: what tells them apart, for each radio
  Spoken            \* what the supplicants say

VARIABLES
  config,           \* ctx->config, far for a distance out of range
  at,               \* where the HAL is
  radio,            \* the radio that a loop or a call is at
  plan,             \* settings still to make
  then,             \* where the HAL goes after them
  monitor,          \* the monitor connection of each radio
  state,            \* sc->state
  eNewEvent,        \* the event of each radio
  index,            \* the radio of the last event; -1 before the first
  events,           \* events in the monitor sockets
  heard,            \* history: events each supplicant has sent
  talk,             \* bound on the events they still send
  readable          \* stdin has input or is at its end

halVars == <<config, at, radio, plan, then, monitor, state, eNewEvent, index>>
wifiVars == <<nlVars, halVars, events, heard, talk, readable>>

WpaEvents == {"CTRL-EVENT-DISCONNECTED", "AP-ENABLED", "MESH-GROUP-STARTED",
              "MESH-PEER-CONNECTED", "CTRL-EVENT-TERMINATING", "error",
              "other"}

wifi_state == {"UNKNOWN_STATE", "INIT_STATE", "IF_DOWN_STATE",
               "IF_INIT_STAGE_1", "IF_UP_STATE", "SHUTDOWN_STATE"}

wifi_SystemEvent == {"NO_EVENT", "STARTUP_EVENT", "STARTUP_STAGE_2_EVENT",
                     "AP_ENABLED_EVENT", "DISCONNECTED_EVENT",
                     "CONNECTED_EVENT", "TERMINATE_EVENT"}

ASSUME EventsAssumption == Spoken \subseteq WpaEvents

Radios == {i \in Slots : i < radio_amount}

WifiTypeOK ==
  /\ NetlinkTypeOK
  /\ radio \in Nat /\ index \in Slots \cup {-1}
  /\ monitor \in [Slots -> {"NULL", "open", "freed"}]
  /\ state \in [Slots -> wifi_state]
  /\ eNewEvent \in [Slots -> wifi_SystemEvent]
  /\ events \in [Slots -> Seq(WpaEvents)]
  /\ talk \in Nat /\ readable \in BOOLEAN

(* calloc: IF_DOWN_STATE is 0.  eNewEvent has no value before it is set.    *)
WifiInit(dump, configs, most) ==
  /\ NetlinkInit(dump)
  /\ config = configs
  /\ at = "off" /\ radio = 0 /\ plan = << >> /\ then = "off"
  /\ monitor = [i \in Slots |-> "NULL"]
  /\ state = [i \in Slots |-> "IF_DOWN_STATE"]
  /\ eNewEvent = [i \in Slots |-> "NO_EVENT"] /\ index = -1
  /\ events = [i \in Slots |-> << >>] /\ heard = [i \in Slots |-> {}]
  /\ talk = most /\ readable \in BOOLEAN

Goto(here, there) == at = here /\ at' = there

-----------------------------------------------------------------------------
(***************************************************************************)
(* Attach, open and close.                                                 *)
(***************************************************************************)
(* No memory, no socket, no nl80211: no context.  Without memory for a      *)
(* callback the error path releases the other callbacks twice.              *)
wifi_hal_attach ==
  /\ at = "attach" /\ at' \in {"attached", "nullptr", "crashed"}
  /\ UNCHANGED <<nlVars, config, radio, plan, then, monitor, state, eNewEvent,
                 index, events, heard, talk, readable>>

(* The dump is asked for, or cannot be.  ifindex[0] is -1, never 0, when    *)
(* nothing was found, so that is not noticed.                               *)
wifi_hal_open ==
  /\ \/ Goto("open", "dump") /\ wifi_hal_get_interface
     \/ Goto("open", "failed") /\ UNCHANGED nlVars
  /\ radio' = 0
  /\ UNCHANGED <<config, plan, then, monitor, state, eNewEvent, index, events,
                 heard, talk, readable>>

Nameless == /\ nlq # << >> /\ Head(nlq).type = "IFACE"
            /\ Head(nlq).f.name = << >>

(* One message of an answer; one without IFNAME is a null pointer.          *)
Receive ==
  /\ \/ Nameless /\ at' = "crashed" /\ UNCHANGED nlVars
     \/ ~Nameless /\ nl_recvmsgs /\ UNCHANGED at
  /\ UNCHANGED <<config, radio, plan, then, monitor, state, eNewEvent, index,
                 events, heard, talk, readable>>

(* The supplicants are started with a default configuration, which may      *)
(* fail, and the connections opened radio by radio.  A failure may leave    *)
(* pointers to connections that were freed.                                 *)
wifi_hal_wpa_attach ==
  /\ cb_err = 0
  /\ \/ /\ Goto("dump", "dump") /\ radio \in Radios
        /\ monitor' = [monitor EXCEPT ![radio] = "open"]
        /\ radio' = radio + 1
     \/ /\ Goto("dump", "failed") /\ radio \in Radios
        /\ \E m \in {"NULL", "freed"} :
             monitor' = [monitor EXCEPT ![radio] = m]
        /\ UNCHANGED radio
     \/ Goto("dump", "opened") /\ radio \notin Radios
        /\ UNCHANGED <<monitor, radio>>
  /\ UNCHANGED <<nlVars, config, plan, then, state, eNewEvent, index, events,
                 heard, talk, readable>>

(* A connection that was freed is freed again.                              *)
wifi_hal_close ==
  /\ \/ /\ Goto("close", "closed")
        /\ \A i \in Radios : monitor[i] # "freed"
        /\ monitor' = [i \in Slots |-> IF i \in Radios THEN "freed"
                                       ELSE monitor[i]]
        /\ ifname' = [i \in Slots |-> IF i \in Radios THEN << >> ELSE ifname[i]]
        /\ ifindex' = [i \in Slots |-> IF i \in Radios THEN -1 ELSE ifindex[i]]
     \/ /\ Goto("close", "crashed")
        /\ \E i \in Radios : monitor[i] = "freed"
        /\ UNCHANGED <<monitor, ifname, ifindex>>
  /\ UNCHANGED <<interfaces, phyname, radio_amount, signal, nlq, cb_err,
                 kernelVars, debugfs_root, config, radio, plan, then, state,
                 eNewEvent, index, events, heard, talk, readable>>

-----------------------------------------------------------------------------
(***************************************************************************)
(* Settings, made between the commands of create_ap, connect_ap and        *)
(* join_mesh.                                                              *)
(***************************************************************************)
Settings == <<"chanbw", "txpower", "distance", "country">>

(* A command before the settings fails, or they are made.                   *)
Configure(i, next) ==
  /\ radio' = i /\ then' = next
  /\ \/ at' = next /\ plan' = << >>
     \/ at' = "set" /\ plan' = Settings

(* A setting that cannot be made is only warned of, a distance that has no  *)
(* coverage class included.                                                 *)
Set ==
  /\ at = "set" /\ cb_err = 0 /\ plan # << >> /\ plan' = Tail(plan)
  /\ \/ Head(plan) = "chanbw" /\ wifi_debugfs_write(radio)
     \/ Head(plan) = "txpower" /\ wifi_hal_set_txpower(radio)
     \/ /\ Head(plan) = "distance" /\ ~config[radio].far
        /\ wifi_hal_set_distance(radio)
     \/ /\ Head(plan) = "distance" /\ config[radio].far
        /\ UNCHANGED nlVars
     \/ Head(plan) = "country" /\ wifi_hal_set_country(radio)
     \/ Head(plan) = "mesh_fwding" /\ wifi_hal_set_mesh_fwding(radio)
     \/ Unsent
  /\ UNCHANGED <<config, at, radio, then, monitor, state, eNewEvent, index,
                 events, heard, talk, readable>>

(* What is left of the function has no other effect here.                   *)
SetDone ==
  /\ at = "set" /\ cb_err = 0 /\ plan = << >> /\ at' = then
  /\ UNCHANGED <<nlVars, config, radio, plan, then, monitor, state, eNewEvent,
                 index, events, heard, talk, readable>>

-----------------------------------------------------------------------------
(***************************************************************************)
(* wifi_events.                                                            *)
(***************************************************************************)
EventsStart ==
  /\ Goto("thread", "init")
  /\ state' = [i \in Slots |-> IF i \in Radios THEN "INIT_STATE" ELSE state[i]]
  /\ eNewEvent' = [i \in Slots |-> IF i \in Radios THEN "STARTUP_EVENT"
                                   ELSE eNewEvent[i]]
  /\ index' = -1
  /\ UNCHANGED <<nlVars, config, radio, plan, then, monitor, events, heard,
                 talk, readable>>

(* The next radio that is still to be started; behind the last one the code *)
(* reads radio_amount, which is no INIT_STATE.                              *)
NextRadio ==
  LET waits == index + 1 \in Slots /\ state[index + 1] = "INIT_STATE"
  IN /\ at = "init"
     /\ \/ waits /\ index' = index + 1 /\ at' = "handle"
        \/ ~waits /\ at' = "wait" /\ UNCHANGED index
     /\ UNCHANGED <<nlVars, config, radio, plan, then, monitor, state,
                    eNewEvent, events, heard, talk, readable>>

wifi_hal_map_wpa_event_to_state ==
  [e \in WpaEvents |->
     CASE e = "CTRL-EVENT-DISCONNECTED" -> "DISCONNECTED_EVENT"
       [] e = "AP-ENABLED" -> "AP_ENABLED_EVENT"
       [] e = "MESH-GROUP-STARTED" -> "STARTUP_STAGE_2_EVENT"
       [] e = "MESH-PEER-CONNECTED" -> "CONNECTED_EVENT"
       [] e \in {"CTRL-EVENT-TERMINATING", "error"} -> "TERMINATE_EVENT"
       [] e = "other" -> "NO_EVENT"]

(* Mutant: poll is called with the number of radios.                        *)
Polled_Short == Slots \cap 0 .. radio_amount - 2

(* The radios whose monitors poll watches, besides stdin.                   *)
Polled == Radios

(* Mutant: the caller's index is not set.                                   *)
IndexAfter_Kept(i) == index

IndexAfter(i) == i

Blind == \E i \in Slots : monitor[i] = "NULL"

wpa_ctrl_pending(i) == events[i] # << >>

wpa_ctrl_recv(i) == events' = [events EXCEPT ![i] = Tail(@)]

(* A radio without a monitor, or stdin, is taken for a terminated           *)
(* supplicant, that of the last event; otherwise the first radio with an    *)
(* event is read.  Without radios there is no last event, and the new one   *)
(* is written in front of the array.                                        *)
wifi_hal_wait_on_event ==
  /\ at = "wait"
  /\ LET pending == {i \in Radios : wpa_ctrl_pending(i)}
         woken == readable \/ \E i \in Polled : events[i] # << >>
         first == CHOOSE i \in pending : \A j \in pending : i <= j
     IN \/ /\ index # -1
           /\ Blind \/ (woken /\ pending = {})
           /\ eNewEvent' = [eNewEvent EXCEPT ![index] = "TERMINATE_EVENT"]
           /\ at' = "handle" /\ UNCHANGED <<index, events>>
        \/ /\ index = -1 /\ at' \in {"wait", "crashed"}
           /\ UNCHANGED <<eNewEvent, index, events>>
        \/ /\ ~Blind /\ woken /\ pending # {}
           /\ index' = IndexAfter(first)
           /\ eNewEvent' = [eNewEvent EXCEPT ![index'] =
                wifi_hal_map_wpa_event_to_state[Head(events[first])]]
           /\ wpa_ctrl_recv(first)
           /\ at' = "handle"
  /\ UNCHANGED <<nlVars, config, radio, plan, then, monitor, state, heard,
                 talk, readable>>

Starts == state[index] = "INIT_STATE" /\ eNewEvent[index] = "STARTUP_EVENT"
GroupStarted == /\ state[index] = "IF_INIT_STAGE_1"
                /\ eNewEvent[index] = "STARTUP_STAGE_2_EVENT"
Terminates == /\ state[index] = "IF_UP_STATE"
              /\ eNewEvent[index] = "TERMINATE_EVENT"

Over == \E i \in Radios : state[i] = "SHUTDOWN_STATE"

(* Nothing to do, or no row of wifi_asStateMachine; a radio that is shut    *)
(* down ends the loop at the next event of any radio.  The rows of          *)
(* CONNECTED_STATE and DISCONNECTED_STATE are never reached.                *)
NoRow ==
  /\ at = "handle"
  /\ \/ eNewEvent[index] = "NO_EVENT" /\ at' = "wait"
     \/ eNewEvent[index] # "NO_EVENT" /\ Over /\ at' = "close"
     \/ /\ eNewEvent[index] # "NO_EVENT" /\ ~Over
        /\ ~(Starts \/ GroupStarted \/ Terminates)
        /\ at' = "wait"
  /\ UNCHANGED <<nlVars, config, radio, plan, then, monitor, state, eNewEvent,
                 index, events, heard, talk, readable>>

(* The function of the mode; its result is not looked at.                   *)
init_handler ==
  /\ at = "handle" /\ ~Over /\ Starts
  /\ wifi_debugfs_init(index)
  /\ \/ /\ config[index].mode \in {"ap", "sta", "mesh"}
        /\ Configure(index, "init")
        /\ state' = [state EXCEPT ![index] = "IF_INIT_STAGE_1"]
     \/ /\ config[index].mode \notin {"ap", "sta", "mesh"}
        /\ state' = [state EXCEPT ![index] = "UNKNOWN_STATE"]
        /\ at' = "init" /\ UNCHANGED <<radio, plan, then>>
  /\ UNCHANGED <<interfaces, tableVars, signal, nlq, cb_err, kernelVars,
                 config, monitor, eNewEvent, index, events, heard, talk, readable>>

init_stage_2_handler ==
  /\ at = "handle" /\ ~Over /\ GroupStarted
  /\ \/ /\ config[index].mode = "mesh"
        /\ plan' = <<"mesh_fwding">> /\ at' = "set"
     \/ /\ config[index].mode # "mesh"
        /\ plan' = << >> /\ at' = "wait"
  /\ radio' = index /\ then' = "wait"
  /\ state' = [state EXCEPT ![index] = "IF_UP_STATE"]
  /\ UNCHANGED <<nlVars, config, monitor, eNewEvent, index, events, heard,
                 talk, readable>>

terminate_handler ==
  /\ at = "handle" /\ ~Over /\ Terminates
  /\ state' = [state EXCEPT ![index] = "SHUTDOWN_STATE"]
  /\ at' = "wait"
  /\ UNCHANGED <<nlVars, config, radio, plan, then, monitor, eNewEvent, index,
                 events, heard, talk, readable>>

wifi_events ==
  \/ EventsStart \/ NextRadio \/ wifi_hal_wait_on_event \/ NoRow
  \/ init_handler \/ init_stage_2_handler \/ terminate_handler

-----------------------------------------------------------------------------
(***************************************************************************)
(* The supplicants (external).                                             *)
(***************************************************************************)
(* Each says a thing once; a dead one says nothing.  An event that comes    *)
(* while nobody waits is not seen before the next wait, so none does.       *)
Event(i, e) ==
  /\ at = "wait"
  /\ monitor[i] = "open" /\ e \notin heard[i] /\ talk > 0 /\ talk' = talk - 1
  /\ {"CTRL-EVENT-TERMINATING", "error"} \cap heard[i] = {}
  /\ events' = [events EXCEPT ![i] = Append(@, e)]
  /\ heard' = [heard EXCEPT ![i] = @ \cup {e}]
  /\ UNCHANGED <<nlVars, halVars, readable>>

-----------------------------------------------------------------------------
(***************************************************************************)
(* Properties.                                                             *)
(***************************************************************************)
(* An event changes the state of the radio whose supplicant sent it: no     *)
(* radio is up whose mesh group has not started, and none is shut down      *)
(* unless its own supplicant has ended or stdin woke the loop.              *)
OwnEvents ==
  \A i \in Radios :
    /\ state[i] \in {"IF_UP_STATE", "SHUTDOWN_STATE"}
         => "MESH-GROUP-STARTED" \in heard[i]
    /\ state[i] = "SHUTDOWN_STATE" /\ ~readable /\ ~Blind
         => {"CTRL-EVENT-TERMINATING", "error"} \cap heard[i] # {}

(* A mesh radio that is up forwards the way its configuration says.         *)
MeshFwding ==
  \A i \in Radios :
    LET set == applied.fwding[Iface(i)]
    IN state[i] = "IF_UP_STATE" /\ at = "wait" /\ set # Default
         => set = config[i].mesh_fwding

=============================================================================
