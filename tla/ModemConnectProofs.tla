------------------------- MODULE ModemConnectProofs -------------------------
(***************************************************************************)
(* Theorems about ModemConnect, for every SIM and every number of faults.  *)
(***************************************************************************)
EXTENDS ModemConnect, TLAPS

USE DEF vars, Fault, Lost, ConnectFails

LEMMA TypeInit == Init => TypeOK
<1> SUFFICES ASSUME Init PROVE TypeOK
  OBVIOUS
<1>1. CountType
  <2>1. /\ MaxRetries \in Nat /\ MaxWaitCount \in Nat /\ MaxFaults \in Nat
    BY BoundsAssumption
  <2>2. /\ pin1_retries = 0 /\ wait_count = 0 /\ faults = MaxFaults
        /\ left \in 0 .. MaxRetries
    BY DEF Init
  <2> HIDE DEF Init
  <2> QED BY <2>1, <2>2 DEF CountType
<1>2. PlaceType
  BY DEF Init, PlaceType, Steps, SimStates
<1> QED BY <1>1, <1>2 DEF TypeOK

(* A step of modem_hal_connect keeps the counters in their ranges; the SIM  *)
(* has a try left when it is given a PIN, because only a SIM in "SIM PIN"   *)
(* is given one.                                                            *)
LEMMA CountStep ==
  ASSUME TypeOK, CountIsFresh, [Next]_vars
  PROVE  CountType'
<1>1. /\ MaxRetries \in Nat \ {0} /\ MaxWaitCount \in Nat \ {0}
      /\ MaxFaults \in Nat
  BY BoundsAssumption
<1>2. CountType
  BY DEF TypeOK
<1>3. faults' = faults \/ (faults > 0 /\ faults' = faults - 1)
  BY DEF Next, modem_hal_connect, check_pin_status, get_numretries,
         enter_sim_pin, verify_pin, initialise, get_registration_status,
         start_network, init_handler, registration_handler
<1>4. \/ wait_count' = wait_count \/ wait_count' = 0
      \/ wait_count < MaxWaitCount /\ wait_count' = wait_count + 1
  BY DEF Next, modem_hal_connect, check_pin_status, get_numretries,
         enter_sim_pin, verify_pin, initialise, get_registration_status,
         start_network, init_handler, registration_handler
<1>5. \/ pin1_retries' = pin1_retries \/ pin1_retries' = 0
      \/ pin1_retries' = -1 \/ pin1_retries' = left
      \/ pin1_retries' \in -1 .. MaxRetries
  BY DEF Next, modem_hal_connect, check_pin_status, get_numretries,
         enter_sim_pin, verify_pin, initialise, get_registration_status,
         start_network, init_handler, registration_handler
<1>6. \/ left' = left \/ left' = MaxRetries
      \/ left # 0 /\ left' = left - 1
  <2>1. CASE enter_sim_pin
    <3>1. left # 0
      BY <2>1 DEF enter_sim_pin, CountIsFresh
    <3> QED BY <2>1, <3>1 DEF enter_sim_pin, SimTakesPin
  <2>2. CASE ~enter_sim_pin
    BY <2>2 DEF Next, modem_hal_connect, check_pin_status, get_numretries,
           verify_pin, initialise, get_registration_status, start_network,
           init_handler, registration_handler
  <2> QED BY <2>1, <2>2
<1> QED BY <1>1, <1>2, <1>3, <1>4, <1>5, <1>6 DEF CountType

LEMMA PlaceStep ==
  ASSUME TypeOK, [Next]_vars
  PROVE  PlaceType'
<1> USE DEF TypeOK, PlaceType, Steps, SimStates
<1>1. CASE modem_hal_connect
  BY <1>1 DEF modem_hal_connect, check_pin_status, get_numretries,
         enter_sim_pin, SimTakesPin, verify_pin, initialise,
         get_registration_status, start_network
<1>2. CASE init_handler \/ registration_handler \/ UNCHANGED vars
  BY <1>2 DEF init_handler, registration_handler
<1> QED BY <1>1, <1>2 DEF Next

(* When every answer to AT+QPINC? has a line for PIN1, the count that was   *)
(* read is the SIM's count until the PIN is sent.                           *)
LEMMA FreshStep ==
  ASSUME TypeOK, CountIsFresh, [Next]_vars, "none" \notin QpincReplies
  PROVE  CountIsFresh' /\ (left' = 0 => left = 0)
<1>0. pin1_retries \in Int /\ left \in Nat /\ MaxRetries \in Nat \ {0}
  <2>1. CountType
    BY DEF TypeOK
  <2> QED BY <2>1, BoundsAssumption DEF CountType
<1>1. CASE check_pin_status
  BY <1>1 DEF check_pin_status, CountIsFresh
<1>2. CASE get_numretries
  <2>0. CASE pc' = "waiting"
    BY <1>2, <2>0 DEF get_numretries, CountIsFresh
  <2> SUFFICES ASSUME pc' # "waiting" PROVE CountIsFresh' /\ (left' = 0 => left = 0)
    BY <2>0
  <2>1. /\ pin1_retries' = -1 \/ pin1_retries' = left
        /\ pc' = "enter_sim_pin" /\ sim' = sim /\ left' = left
        /\ sim = "SIM PIN" /\ left # 0
    BY <1>2 DEF get_numretries, CountIsFresh
  <2>2. pin1_retries' <= left'
    <3>1. -1 <= left
      BY <1>0
    <3>2. left <= left
      BY <1>0
    <3> QED BY <2>1, <3>1, <3>2
  <2> QED BY <2>1, <2>2 DEF CountIsFresh
<1>3. CASE enter_sim_pin
  <2>1. sim = "SIM PIN" /\ left # 0 /\ pin1_retries <= left
    BY <1>3 DEF enter_sim_pin, CountIsFresh
  <2>2. CASE UNCHANGED <<sim, left>>
    BY <1>3, <2>1, <2>2 DEF enter_sim_pin, CountIsFresh
  <2>3. CASE pin1_retries > 1 /\ SimTakesPin
    <3>1. left' = MaxRetries \/ left' = left - 1
      BY <2>3 DEF SimTakesPin
    <3>2. left > 1
      <4>1. pin1_retries > 1 /\ pin1_retries <= left
        BY <2>1, <2>3
      <4> QED BY <1>0, <4>1
    <3>3. left' # 0
      BY <1>0, <3>1, <3>2
    <3>4. pc' \in {"check_pin_status", "verify_pin", "waiting"}
      BY <1>3 DEF enter_sim_pin
    <3> QED BY <3>3, <3>4 DEF CountIsFresh
  <2> QED BY <1>3, <2>2, <2>3 DEF enter_sim_pin
<1>4. CASE verify_pin
  BY <1>4 DEF verify_pin, CountIsFresh
<1>5. CASE initialise
  BY <1>5 DEF initialise, CountIsFresh
<1>6. CASE get_registration_status
  BY <1>6 DEF get_registration_status, CountIsFresh
<1>7. CASE start_network
  BY <1>7 DEF start_network, CountIsFresh
<1>8. CASE init_handler
  BY <1>8 DEF init_handler, CountIsFresh
<1>9. CASE registration_handler \/ UNCHANGED vars
  BY <1>9 DEF registration_handler, CountIsFresh
<1> QED BY <1>1, <1>2, <1>3, <1>4, <1>5, <1>6, <1>7, <1>8, <1>9
      DEF Next, modem_hal_connect

(* Through any number of attempts, with any PIN and any number of lost or   *)
(* failed commands, the HAL never takes the SIM's last try.                 *)
THEOREM SimIsNeverLocked ==
  ASSUME "none" \notin QpincReplies
  PROVE  Spec => NeverLocksSim
<1>1. Init => CountIsFresh
  BY DEF Init, CountIsFresh
<1>2. TypeOK /\ CountIsFresh /\ [Next]_vars => TypeOK' /\ CountIsFresh'
  BY CountStep, PlaceStep, FreshStep DEF TypeOK
<1>3. TypeOK /\ CountIsFresh /\ [Next]_vars => [left' = 0 => left = 0]_vars
  BY FreshStep
<1> QED BY <1>1, <1>2, <1>3, TypeInit, PTL DEF Spec, NeverLocksSim

(* With any answers, errors and retries, the event thread leaves            *)
(* MODEM_INIT_STATE only with a SIM that is ready and after qmicli was run. *)
THEOREM UpIsConnected == Spec => []UpMeansConnected
<1>1. Init => PastPin
  BY DEF Init, PastPin
<1>2. PastPin /\ [Next]_vars => PastPin'
  <2> SUFFICES ASSUME PastPin, [Next]_vars PROVE PastPin'
    OBVIOUS
  <2> USE DEF PastPin
  <2>1. CASE check_pin_status \/ get_numretries \/ verify_pin
    BY <2>1 DEF check_pin_status, get_numretries, verify_pin
  <2>2. CASE enter_sim_pin
    BY <2>2 DEF enter_sim_pin
  <2>3. CASE initialise \/ get_registration_status \/ start_network
    BY <2>3 DEF initialise, get_registration_status, start_network
  <2>4. CASE init_handler \/ registration_handler \/ UNCHANGED vars
    BY <2>4 DEF init_handler, registration_handler
  <2> QED BY <2>1, <2>2, <2>3, <2>4 DEF Next, modem_hal_connect
<1>3. PastPin => UpMeansConnected
  BY DEF PastPin, UpMeansConnected
<1> QED BY <1>1, <1>2, <1>3, PTL DEF Spec

=============================================================================
