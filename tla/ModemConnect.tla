---------------------------- MODULE ModemConnect ----------------------------
(***************************************************************************)
(* The modem HAL's way from power-up to a data connection                  *)
(* (src/modem/modem_hal_main.cpp): modem_events in MODEM_INIT_STATE calls  *)
(* init_handler, which calls modem_hal_connect and comes back a second     *)
(* later when that fails.  A SIM counts the wrong PINs it is given and     *)
(* locks itself after the last one, so what matters is what all the        *)
(* attempts together do to it.                                             *)
(*                                                                         *)
(* An AT command is one step, with what the channel can make of it: an     *)
(* error, a final error response, a successful answer, or no answer at     *)
(* all, for which the thread waits for ever: every command here is sent    *)
(* with timeout 0.  The SIM, the network and qmicli are external.  faults  *)
(* is the number of commands that may still go wrong.                      *)
(***************************************************************************)
EXTENDS Integers

CONSTANTS
  MaxRetries,        \* wrong PINs a SIM accepts before it asks for the PUK
  MaxWaitCount,      \* modem_hal_get_registration_status: 10
  QpincReplies,      \* what AT+QPINC? answers: "SC" (a line for PIN1) or not
  CgregErrors,       \* may AT+CGREG? be answered with a final error?
  MaxFaults          \* bound on the commands that go wrong

ASSUME BoundsAssumption ==
  /\ MaxRetries \in Nat \ {0} /\ MaxWaitCount \in Nat \ {0}
  /\ MaxFaults \in Nat

ASSUME RepliesAssumption ==
  QpincReplies \subseteq {"SC", "none"} /\ CgregErrors \in BOOLEAN

VARIABLES
  pc,                \* the next command of modem_hal_connect
  state,             \* sc->state
  pin1_retries,
  wait_count,
  sim,               \* what AT+CPIN? tells: the state of the SIM
  left,              \* the SIM's own count of tries left
  pinCorrect,        \* is config->pin the SIM's PIN?
  network,           \* what qmicli --wds-start-network has done
  faults

vars == <<pc, state, pin1_retries, wait_count, sim, left, pinCorrect, network,
          faults>>

Steps == {"check_pin_status", "get_numretries", "enter_sim_pin", "verify_pin",
          "initialise", "get_registration_status", "start_network", "returned",
          "waiting", "crashed"}
SimStates == {"READY", "SIM PIN", "SIM PUK", "ABSENT"}
RIL_RegState == {"NOT_SEARCHING", "HOME", "SEARCHING", "DENIED", "UNKNOWN",
                 "ROAMING", "EMERGENCY"}

CountType ==
  /\ pin1_retries \in -1 .. MaxRetries
  /\ wait_count \in 0 .. MaxWaitCount
  /\ left \in 0 .. MaxRetries
  /\ faults \in 0 .. MaxFaults

PlaceType ==
  /\ pc \in Steps
  /\ state \in {"MODEM_INIT_STATE", "MODEM_IF_UP_STATE"}
  /\ sim \in SimStates
  /\ pinCorrect \in BOOLEAN
  /\ network \in {"not run", "failed", "started"}

(* Every variable has its type: no counter leaves its range.                *)
TypeOK == CountType /\ PlaceType

Init ==
  /\ pc = "check_pin_status" /\ state = "MODEM_INIT_STATE"
  /\ pin1_retries = 0 /\ wait_count = 0 /\ network = "not run"
  /\ pinCorrect \in BOOLEAN
  /\ left \in 0 .. MaxRetries
  /\ sim \in SimStates /\ (sim = "SIM PUK" <=> left = 0)
  /\ faults = MaxFaults

-----------------------------------------------------------------------------
(***************************************************************************)
(* modem_hal_connect, step by step.                                        *)
(***************************************************************************)
(* A command comes back with a failure: it could not be written, the        *)
(* channel is closed, or a final error, its own or an unsolicited NO        *)
(* CARRIER, or an unreadable answer ended it.                               *)
Fault == faults > 0 /\ faults' = faults - 1

(* The command or its answer is lost (or qmicli never ends): the thread     *)
(* stays in pthread_cond_wait, and modem_hal_connect does not return.       *)
Lost ==
  /\ faults > 0 /\ faults' = faults - 1
  /\ pc' = "waiting"
  /\ UNCHANGED pin1_retries

(* modem_hal_connect returns -1; init_handler sleeps and stays in INIT, and *)
(* modem_events calls it again.                                             *)
ConnectFails == pc' = "check_pin_status" /\ pin1_retries' = 0

check_pin_status ==
  /\ pc = "check_pin_status" /\ state = "MODEM_INIT_STATE"
  /\ \/ /\ \/ Fault                                     \* SIM_NOT_READY
           \/ sim \in {"ABSENT", "SIM PUK"} /\ UNCHANGED faults
        /\ ConnectFails
     \/ /\ sim = "SIM PIN" /\ pc' = "get_numretries"
        /\ UNCHANGED <<pin1_retries, faults>>
     \/ /\ sim = "READY" /\ pc' = "initialise"
        /\ UNCHANGED <<pin1_retries, faults>>
     \/ Lost
  /\ UNCHANGED <<state, wait_count, sim, left, pinCorrect, network>>

(* pin1_remaining_times is never initialised: without a line for PIN1 the    *)
(* function returns whatever the stack held.                                *)
get_numretries ==
  /\ pc = "get_numretries"
  /\ \/ /\ pc' = "enter_sim_pin"
        /\ \/ Fault /\ pin1_retries' = -1
           \/ "SC" \in QpincReplies /\ pin1_retries' = left /\ UNCHANGED faults
           \/ /\ "none" \in QpincReplies /\ UNCHANGED faults
              /\ pin1_retries' \in -1 .. MaxRetries
     \/ Lost
  /\ UNCHANGED <<state, wait_count, sim, left, pinCorrect, network>>

(* The SIM is given a PIN (external).                                       *)
SimTakesPin ==
  IF pinCorrect
  THEN sim' = "READY" /\ left' = MaxRetries
  ELSE /\ left' = left - 1
       /\ sim' = IF left = 1 THEN "SIM PUK" ELSE "SIM PIN"

(* Mutant: the last retry is used like the others.                          *)
enter_sim_pin_Last ==
  /\ pc = "enter_sim_pin"
  /\ \/ pin1_retries < 1 /\ ConnectFails /\ UNCHANGED <<sim, left, faults>>
     \/ /\ pin1_retries >= 1
        /\ SimTakesPin
        /\ \/ Fault /\ ConnectFails
           \/ Lost
           \/ ~pinCorrect /\ ConnectFails /\ UNCHANGED faults
           \/ /\ pinCorrect /\ pc' = "verify_pin"
              /\ UNCHANGED <<pin1_retries, faults>>
  /\ UNCHANGED <<state, wait_count, pinCorrect, network>>

(* Mutant: two tries are left alone.                                        *)
enter_sim_pin_Early ==
  /\ pc = "enter_sim_pin"
  /\ \/ pin1_retries <= 2 /\ ConnectFails /\ UNCHANGED <<sim, left, faults>>
     \/ /\ pin1_retries > 2
        /\ SimTakesPin
        /\ \/ Fault /\ ConnectFails
           \/ Lost
           \/ ~pinCorrect /\ ConnectFails /\ UNCHANGED faults
           \/ /\ pinCorrect /\ pc' = "verify_pin"
              /\ UNCHANGED <<pin1_retries, faults>>
  /\ UNCHANGED <<state, wait_count, pinCorrect, network>>

(* AT+CPIN="..." only while more than one try is left.  The command may     *)
(* fail or get lost before it reaches the SIM.  Once the SIM has taken the  *)
(* PIN, NO CARRIER may end the command in place of its answer, or the       *)
(* answer may get lost, and the thread waits.                               *)
enter_sim_pin ==
  /\ pc = "enter_sim_pin"
  /\ \/ pin1_retries <= 1 /\ ConnectFails /\ UNCHANGED <<sim, left, faults>>
     \/ /\ pin1_retries > 1 /\ UNCHANGED <<sim, left>>
        /\ Lost \/ (Fault /\ ConnectFails)
     \/ /\ pin1_retries > 1
        /\ SimTakesPin
        /\ \/ Fault /\ ConnectFails
           \/ Lost
           \/ ~pinCorrect /\ ConnectFails /\ UNCHANGED faults
           \/ /\ pinCorrect /\ pc' = "verify_pin"
              /\ UNCHANGED <<pin1_retries, faults>>
  /\ UNCHANGED <<state, wait_count, pinCorrect, network>>

(* AT+CPIN? after the PIN was accepted: anything but READY is a failure; a  *)
(* SIM that has taken its PIN answers otherwise only while it is busy.      *)
verify_pin ==
  /\ pc = "verify_pin"
  /\ \/ Fault /\ ConnectFails
     \/ Lost
     \/ /\ sim = "READY" /\ pc' = "initialise"
        /\ UNCHANGED <<pin1_retries, faults>>
  /\ UNCHANGED <<state, wait_count, sim, left, pinCorrect, network>>

(* ATS0=0 ... AT+CFUN=1: the results are not looked at, but waited for.     *)
initialise ==
  /\ pc = "initialise"
  /\ \/ /\ wait_count' = 0 /\ pc' = "get_registration_status"
        /\ UNCHANGED <<pin1_retries, faults>>
     \/ Lost /\ UNCHANGED wait_count
  /\ UNCHANGED <<state, sim, left, pinCorrect, network>>

(* Mutant: the count starts again instead of ending the wait.               *)
get_registration_status_Forever ==
  /\ pc = "get_registration_status"
  /\ \E reg \in RIL_RegState :
       /\ wait_count' = IF wait_count = MaxWaitCount THEN 0
                        ELSE wait_count + 1
       /\ pc' = IF reg \in {"NOT_SEARCHING", "SEARCHING", "UNKNOWN"}
                THEN pc ELSE "start_network"
  /\ UNCHANGED <<pin1_retries, faults, state, sim, left, pinCorrect, network>>

(* AT+CGREG? until the network is found; the answer after the tenth is not  *)
(* looked at.  A final error has no line, and the line is read all the same. *)
get_registration_status ==
  /\ pc = "get_registration_status"
  /\ \/ Fault /\ ConnectFails /\ wait_count' = 0
     \/ Lost /\ UNCHANGED wait_count
     \/ /\ CgregErrors /\ Fault
        /\ pc' = "crashed" /\ UNCHANGED <<wait_count, pin1_retries>>
     \/ \E reg \in RIL_RegState :
          /\ UNCHANGED faults
          /\ \/ /\ wait_count = MaxWaitCount
                /\ ConnectFails /\ wait_count' = 0
             \/ /\ wait_count < MaxWaitCount
                /\ wait_count' = wait_count + 1
                /\ pc' = IF reg \in {"NOT_SEARCHING", "SEARCHING", "UNKNOWN"}
                         THEN pc ELSE "start_network"
                /\ UNCHANGED pin1_retries
  /\ UNCHANGED <<state, sim, left, pinCorrect, network>>

(* Mutant: the result of popen is not looked at.                            *)
start_network_Unchecked ==
  /\ pc = "start_network"
  /\ \/ Fault /\ UNCHANGED network
     \/ network' \in {"failed", "started"} /\ UNCHANGED faults
  /\ pc' = "returned"
  /\ UNCHANGED <<state, pin1_retries, wait_count, sim, left, pinCorrect>>

(* modem_hal_run_sys_cmd fails when popen does; what pclose says of qmicli  *)
(* is dropped, so modem_hal_connect returns 0 whether it succeeded or not.  *)
start_network ==
  /\ pc = "start_network"
  /\ \/ Fault /\ ConnectFails /\ UNCHANGED network
     \/ Lost /\ UNCHANGED network
     \/ /\ network' \in {"failed", "started"} /\ pc' = "returned"
        /\ UNCHANGED <<pin1_retries, faults>>
  /\ UNCHANGED <<state, wait_count, sim, left, pinCorrect>>

(* init_handler returns MODEM_IF_UP_STATE.                                  *)
init_handler ==
  /\ pc = "returned" /\ state = "MODEM_INIT_STATE"
  /\ state' = "MODEM_IF_UP_STATE"
  /\ UNCHANGED <<pc, pin1_retries, wait_count, sim, left, pinCorrect, network,
                 faults>>

(* In MODEM_IF_UP_STATE the registration handler changes nothing.           *)
registration_handler ==
  /\ state = "MODEM_IF_UP_STATE"
  /\ UNCHANGED vars

modem_hal_connect ==
  \/ check_pin_status \/ get_numretries \/ enter_sim_pin \/ verify_pin
  \/ initialise \/ get_registration_status \/ start_network

Next == modem_hal_connect \/ init_handler \/ registration_handler

Spec == Init /\ [][Next]_vars

(* The event thread keeps running.                                          *)
FairSpec == Spec /\ WF_vars(modem_hal_connect) /\ WF_vars(init_handler)

Registered == get_registration_status /\ pc' = "start_network"

(* A network that is asked again and again registers the modem some day.    *)
NetworkReached == SF_vars(Registered)

-----------------------------------------------------------------------------
(***************************************************************************)
(* Properties.                                                             *)
(***************************************************************************)
(* However often init_handler comes back with a wrong PIN, the HAL never    *)
(* uses the SIM's last try, so it never locks a SIM.                        *)
NeverLocksSim == [][left' = 0 => left = 0]_vars

(* MODEM_IF_UP_STATE is reached only with an unlocked SIM and after qmicli  *)
(* was run to start the network, whatever commands failed on the way.       *)
UpMeansConnected ==
  state = "MODEM_IF_UP_STATE" => sim = "READY" /\ network # "not run"

(* modem_hal_get_registration_status asks a bounded number of times, even   *)
(* if the modem never finds a network: with every query answered, in time   *)
(* or not, the loop is left (a lost answer leaves it waiting for ever).     *)
AttemptEnds ==
  pc = "get_registration_status" ~> pc # "get_registration_status"

(* Where the network is reached some day, a SIM that is ready, or whose PIN *)
(* is configured and has two tries left, gets connected: no write error,    *)
(* final error, refused registration or failed qmicli run leaves            *)
(* modem_events stuck in MODEM_INIT_STATE.  What does is the crash on a     *)
(* final ERROR without a line, and a lost answer, as none has a timeout.    *)
ConnectsEventually ==
  NetworkReached =>
    ((sim = "READY" \/ (sim = "SIM PIN" /\ pinCorrect /\ left > 1))
       ~> (state = "MODEM_IF_UP_STATE" \/ pc \in {"crashed", "waiting"}))

(* The strengthening that makes NeverLocksSim inductive: the count read     *)
(* from the SIM is still its count when the PIN is sent.                    *)
CountIsFresh ==
  /\ pc \in {"get_numretries", "enter_sim_pin"} => sim = "SIM PIN"
  /\ pc = "enter_sim_pin" => pin1_retries <= left
  /\ left = 0 => sim = "SIM PUK"

(* The strengthening that makes UpMeansConnected inductive: past the PIN    *)
(* the SIM stays ready, and modem_hal_connect returns 0 after qmicli ran.   *)
PastPin ==
  /\ pc \in {"initialise", "get_registration_status", "start_network",
             "returned"} => sim = "READY"
  /\ pc = "returned" => network # "not run"
  /\ state = "MODEM_IF_UP_STATE" => pc = "returned"

=============================================================================
