---------------------------- MODULE SupportProofs ----------------------------
(***************************************************************************)
(* Theorems about the parts that Support runs one at a time.               *)
(***************************************************************************)
EXTENDS Support, SequenceTheorems, FiniteSetTheorems, TLAPS

-----------------------------------------------------------------------------
(***************************************************************************)
(* wifi_hal_open and the supplicants (SupplicantStart).                    *)
(***************************************************************************)
SupplicantInv == W!TypeOK /\ W!OwnSupplicant /\ W!SocketsFresh

(* There is a radio, and the table ends with the last one.                  *)
LEMMA SupplicantConstants ==
  /\ radio_amount \in Nat /\ radio_amount > 0 /\ MaxOpens \in Nat
  /\ W!Radios = 0 .. radio_amount - 1 /\ 0 \in W!Radios
<1>1. radio_amount \in Nat \ {0} /\ MaxOpens \in Nat
  BY SupportAssumption, Zenon DEF SupportAssumption
<1> QED BY <1>1 DEF W!Radios

(* Before the first open there is nothing.                                  *)
LEMMA SupplicantInit ==
  ASSUME W!Init
  PROVE  SupplicantInv
<1>1. /\ v1 = 0 /\ v2 = "failed" /\ v3 = 0 /\ v4 = FALSE /\ v8 = {}
      /\ v5 = [r \in W!Radios |-> 0] /\ v6 = [r \in W!Radios |-> {}]
      /\ v7 = [r \in W!Radios |-> 0]
  BY DEF W!Init
<1>2. /\ v5 \in [W!Radios -> 0 .. v1] /\ v7 \in [W!Radios -> 0 .. v1]
      /\ v6 \in [W!Radios -> SUBSET (1 .. v1)]
  BY <1>1
<1>3. v1 \in 0 .. MaxOpens /\ v3 \in W!Radios /\ v8 \subseteq W!Radios
  BY <1>1, SupplicantConstants
<1>4. W!TypeOK
  BY <1>1, <1>2, <1>3, Zenon DEF W!TypeOK
<1>5. W!OwnSupplicant
  BY <1>1 DEF W!OwnSupplicant
<1>6. W!SocketsFresh
  BY <1>1 DEF W!SocketsFresh
<1> QED BY <1>4, <1>5, <1>6 DEF SupplicantInv

(* What TypeOK says, with the radios as a set of any kind.                  *)
LEMMA SupplicantTypes ==
  ASSUME SupplicantInv
  PROVE  /\ v1 \in Nat /\ v1 <= MaxOpens /\ v4 \in BOOLEAN
         /\ v2 \in {"config", "rm", "start", "attach", "opened", "failed"}
         /\ v3 \in W!Radios \/ (v2 = "opened" /\ v3 = radio_amount)
         /\ v8 \subseteq W!Radios
         /\ v5 \in [W!Radios -> 0 .. v1] /\ v7 \in [W!Radios -> 0 .. v1]
         /\ v6 \in [W!Radios -> SUBSET (1 .. v1)]
  BY SupplicantConstants DEF SupplicantInv, W!TypeOK

(* The same of the next state: what a step has to show.                     *)
LEMMA SupplicantTypesNext ==
  ASSUME v1' \in Nat, v1' <= MaxOpens, v4' \in BOOLEAN,
         v2' \in {"config", "rm", "start", "attach", "opened", "failed"},
         v3' \in W!Radios \/ (v2' = "opened" /\ v3' = radio_amount),
         v8' \subseteq W!Radios,
         v5' \in [W!Radios -> 0 .. v1'], v7' \in [W!Radios -> 0 .. v1'],
         v6' \in [W!Radios -> SUBSET (1 .. v1')]
  PROVE  W!TypeOK'
<1>1. W!Radios' = W!Radios
  BY DEF W!Radios
<1>2. v1' \in 0 .. MaxOpens
  BY SupplicantConstants
<1> QED BY <1>1, <1>2, Zenon DEF W!TypeOK

(* Likewise for the other two parts of the invariant.                       *)
LEMMA SupplicantFreshNext ==
  ASSUME v2' \in {"config", "rm", "start", "attach"} => v1' > 0 /\ v3' \in W!Radios,
         \A r \in W!Radios : v7'[r] \in {0, v1'} \/ r \in v8',
         \A r \in W!Radios :
           v2' \in {"rm", "start"} /\ (r < v3' \/ (v2' = "start" /\ r = v3'))
             => v5'[r] \in {0, v1'} \/ r \in v8',
         \A r \in W!Radios :
           v2' = "attach" => /\ v5'[r] \in {0, v1'} \/ r \in v8'
                             /\ r < v3' => v7'[r] # 0
  PROVE  W!OwnSupplicant' /\ W!SocketsFresh'
<1>1. W!Radios' = W!Radios
  BY DEF W!Radios
<1>2. W!OwnSupplicant'
  BY <1>1, Zenon DEF W!OwnSupplicant
<1>3. W!SocketsFresh'
  BY <1>1, SMT DEF W!SocketsFresh, W!Fresh
<1> QED BY <1>2, <1>3

(* The configuration is written: no radio has been passed.  When it is not, *)
(* every radio counts as one whose command was not run.                     *)
LEMMA ConfigKept ==
  ASSUME SupplicantInv, W!create_default_wpa_config
  PROVE  SupplicantInv'
<1>1. /\ v2 = "config" /\ v3' = 0
      /\ \/ v4' = TRUE /\ v2' = "rm" /\ v8' = v8
         \/ v2' = "attach" /\ v8' = v8 \cup W!Radios /\ v4' = v4
      /\ v1' = v1 /\ v5' = v5 /\ v6' = v6 /\ v7' = v7
  BY DEF W!create_default_wpa_config
<1>2. v1 > 0 /\ \A r \in W!Radios : v7[r] \in {0, v1} \/ r \in v8
  BY <1>1 DEF SupplicantInv, W!SocketsFresh, W!OwnSupplicant
<1>3. v8' \subseteq W!Radios /\ v8 \subseteq v8' /\ v3' \in W!Radios
  BY <1>1, SupplicantTypes, SupplicantConstants
<1>4. W!TypeOK'
  BY <1>1, <1>3, SupplicantTypes, SupplicantTypesNext
<1>5. \A r \in W!Radios : ~(r < v3')
  BY <1>1, SupplicantConstants
<1>6. W!OwnSupplicant' /\ W!SocketsFresh'
  BY <1>1, <1>2, <1>3, <1>5, SupplicantFreshNext
<1> QED BY <1>4, <1>6 DEF SupplicantInv

(* The socket of this radio is gone, or its rm was not run.                 *)
LEMMA RemoveKept ==
  ASSUME SupplicantInv, W!RemoveSocket
  PROVE  SupplicantInv'
<1>1. /\ v2 = "rm" /\ v2' = "start"
      /\ \/ v5' = [v5 EXCEPT ![v3] = 0] /\ v8' = v8
         \/ v8' = v8 \cup {v3} /\ v5' = v5
      /\ v1' = v1 /\ v3' = v3 /\ v4' = v4 /\ v6' = v6 /\ v7' = v7
  BY DEF W!RemoveSocket
<1>2. /\ v1 > 0 /\ v3 \in W!Radios
      /\ \A r \in W!Radios : v7[r] \in {0, v1} \/ r \in v8
      /\ \A r \in W!Radios : r < v3 => v5[r] \in {0, v1} \/ r \in v8
  BY <1>1 DEF SupplicantInv, W!SocketsFresh, W!OwnSupplicant, W!Fresh
<1>3. v8' \subseteq W!Radios /\ v8 \subseteq v8'
  BY <1>1, <1>2, SupplicantTypes
<1>4. v5' \in [W!Radios -> 0 .. v1]
  BY <1>1, SupplicantTypes
<1>5. \A r \in W!Radios : r < v3 \/ r = v3 => v5'[r] \in {0, v1} \/ r \in v8'
  BY <1>1, <1>2, SupplicantTypes
<1>6. W!TypeOK'
  BY <1>1, <1>2, <1>3, <1>4, SupplicantTypes, SupplicantTypesNext
<1>7. W!OwnSupplicant' /\ W!SocketsFresh'
  BY <1>1, <1>2, <1>3, <1>5, SupplicantFreshNext
<1> QED BY <1>6, <1>7 DEF SupplicantInv

(* The loop goes on: to a next radio of the table or to the first one.      *)
LEMMA OnwardMoves ==
  ASSUME v3 \in W!Radios, W!Onward
  PROVE  /\ v3' \in W!Radios
         /\ \/ v2' = "rm" /\ \A r \in W!Radios : r < v3' => r < v3 \/ r = v3
            \/ /\ v2' = "attach"
               /\ \A r \in W!Radios : ~(r < v3') /\ (r < v3 \/ r = v3)
<1>1. \/ v3 + 1 < radio_amount /\ v2' = "rm" /\ v3' = v3 + 1
      \/ ~(v3 + 1 < radio_amount) /\ v2' = "attach" /\ v3' = 0
  BY DEF W!Onward
<1> QED BY <1>1, SupplicantConstants

(* A supplicant of this open comes up, or none; without a shell the radios  *)
(* from this one on count as not run.                                       *)
LEMMA StartKept ==
  ASSUME SupplicantInv, W!StartSupplicant
  PROVE  SupplicantInv'
<1>1. /\ v2 = "start" /\ v1' = v1 /\ v4' = v4 /\ v7' = v7
      /\ \/ /\ v5' = [v5 EXCEPT ![v3] = v1]
            /\ v6' = [v6 EXCEPT ![v3] = v6[v3] \cup {v1}]
            /\ W!Onward /\ v8' = v8
         \/ W!Onward /\ v5' = v5 /\ v6' = v6 /\ v8' = v8
         \/ /\ v2' = "attach" /\ v3' = 0 /\ v5' = v5 /\ v6' = v6
            /\ v8' = v8 \cup {r \in W!Radios : r >= v3}
  BY DEF W!StartSupplicant
<1>2. /\ v1 > 0 /\ v3 \in W!Radios
      /\ \A r \in W!Radios : v7[r] \in {0, v1} \/ r \in v8
      /\ \A r \in W!Radios : r < v3 \/ r = v3 => v5[r] \in {0, v1} \/ r \in v8
  BY <1>1 DEF SupplicantInv, W!SocketsFresh, W!OwnSupplicant, W!Fresh
<1>3. v8' \subseteq W!Radios /\ v8 \subseteq v8'
  BY <1>1, SupplicantTypes
<1>4. v1 \in 0 .. v1 /\ v1 \in 1 .. v1
  BY <1>2, SupplicantTypes
<1>5. v5' \in [W!Radios -> 0 .. v1]
  BY <1>1, <1>4, SupplicantTypes
<1>6. v6' \in [W!Radios -> SUBSET (1 .. v1)]
  <2>1. CASE v6' = v6
    BY <2>1, SupplicantTypes
  <2>2. CASE v6' = [v6 EXCEPT ![v3] = v6[v3] \cup {v1}]
    <3>1. v6[v3] \cup {v1} \in SUBSET (1 .. v1)
      BY <1>2, <1>4, SupplicantTypes
    <3> QED BY <2>2, <3>1, SupplicantTypes
  <2> QED BY <1>1, <2>1, <2>2
<1>7. /\ v3' \in W!Radios /\ v2' \in {"rm", "attach"}
      /\ v2' = "rm" => v8' = v8 /\ \A r \in W!Radios : r < v3' => r < v3 \/ r = v3
      /\ v2' = "attach" => \A r \in W!Radios :
                             ~(r < v3') /\ (r < v3 \/ r = v3 \/ r \in v8')
  <2>1. CASE W!Onward /\ v8' = v8
    BY <2>1, <1>2, OnwardMoves
  <2>2. CASE v2' = "attach" /\ v3' = 0 /\ v8' = v8 \cup {r \in W!Radios : r >= v3}
    BY <2>2, <1>2, SupplicantConstants
  <2> QED BY <1>1, <2>1, <2>2
<1>8. \A r \in W!Radios : r < v3 \/ r = v3 => v5'[r] \in {0, v1} \/ r \in v8'
  BY <1>1, <1>2, SupplicantTypes
<1>9. W!TypeOK'
  BY <1>1, <1>3, <1>5, <1>6, <1>7, SupplicantTypes, SupplicantTypesNext
<1>10. W!OwnSupplicant' /\ W!SocketsFresh'
  BY <1>1, <1>2, <1>3, <1>7, <1>8, SupplicantFreshNext
<1> QED BY <1>9, <1>10 DEF SupplicantInv

(* A connection is made to the supplicant that has the socket, which is one *)
(* of this open; the last connection opens.                                 *)
LEMMA AttachKept ==
  ASSUME SupplicantInv, W!wpa_attach
  PROVE  SupplicantInv' /\ W!AllAttached
<1>1. /\ v2 = "attach" /\ v1' = v1 /\ v4' = v4 /\ v5' = v5 /\ v6' = v6 /\ v8' = v8
      /\ \/ /\ v5[v3] \in v6[v3] /\ v7' = [v7 EXCEPT ![v3] = v5[v3]]
            /\ v3' = v3 + 1
            /\ v2' = IF v3' = radio_amount THEN "opened" ELSE "attach"
         \/ v2' = "failed" /\ v7' = v7 /\ v3' = v3
  BY DEF W!wpa_attach
<1>2. /\ v1 > 0 /\ v3 \in W!Radios
      /\ \A r \in W!Radios : v7[r] \in {0, v1} \/ r \in v8
      /\ \A r \in W!Radios : v5[r] \in {0, v1} \/ r \in v8
      /\ \A r \in W!Radios : r < v3 => v7[r] # 0
  BY <1>1 DEF SupplicantInv, W!SocketsFresh, W!OwnSupplicant, W!Fresh
<1>3. v7' \in [W!Radios -> 0 .. v1]
  BY <1>1, <1>2, SupplicantTypes
<1>4. v5[v3] \in v6[v3] => v5[v3] # 0
  BY <1>2, SupplicantTypes
<1>5. \A r \in W!Radios : v7'[r] \in {0, v1} \/ r \in v8
  BY <1>1, <1>2, SupplicantTypes
<1>6. v2' # "failed" => \A r \in W!Radios : r < v3 \/ r = v3 => v7'[r] # 0
  BY <1>1, <1>2, <1>4, SupplicantTypes
<1>7. /\ v3' \in W!Radios \/ (v2' = "opened" /\ v3' = radio_amount)
      /\ v2' = "attach" => v3' \in W!Radios
      /\ v2' # "failed" => \A r \in W!Radios : r < v3' => r < v3 \/ r = v3
      /\ v2' = "opened" => \A r \in W!Radios : r < v3'
  BY <1>1, <1>2, SupplicantConstants
<1>8. W!TypeOK'
  BY <1>1, <1>3, <1>7, SupplicantTypes, SupplicantTypesNext
<1>9. v2' \in {"attach", "opened", "failed"}
  BY <1>1
<1>10. W!OwnSupplicant' /\ W!SocketsFresh'
  BY <1>1, <1>2, <1>5, <1>6, <1>7, <1>9, SupplicantFreshNext
<1>11. W!AllAttached
  BY <1>6, <1>7 DEF W!AllAttached
<1> QED BY <1>8, <1>10, <1>11 DEF SupplicantInv

(* Another process: nothing has been passed, nothing is connected, and the  *)
(* supplicants that are there are of earlier opens.                         *)
LEMMA RestartKept ==
  ASSUME SupplicantInv, W!Restart
  PROVE  SupplicantInv'
<1>1. /\ v1 < MaxOpens /\ v1' = v1 + 1 /\ v2' = "config" /\ v3' = 0 /\ v8' = {}
      /\ v7' = [r \in W!Radios |-> 0] /\ v4' = v4 /\ v5' = v5 /\ v6' = v6
  BY DEF W!Restart
<1>2. v5' \in [W!Radios -> 0 .. v1'] /\ v7' \in [W!Radios -> 0 .. v1']
  BY <1>1, SupplicantTypes
<1>3. 1 .. v1 \subseteq 1 .. v1'
  BY <1>1, SupplicantTypes
<1>4. v6' \in [W!Radios -> SUBSET (1 .. v1')]
  BY <1>1, <1>3, SupplicantTypes
<1>5. v1' \in Nat /\ v1' > 0 /\ v1' <= MaxOpens /\ v3' \in W!Radios
  BY <1>1, SupplicantTypes, SupplicantConstants
<1>6. W!TypeOK'
  BY <1>1, <1>2, <1>4, <1>5, SupplicantTypes, SupplicantTypesNext
<1>7. W!OwnSupplicant' /\ W!SocketsFresh'
  BY <1>1, <1>5, SupplicantFreshNext
<1> QED BY <1>6, <1>7 DEF SupplicantInv

(* A supplicant that dies leaves the socket as it was, or frees it.         *)
LEMMA DiesKept ==
  ASSUME SupplicantInv, W!SupplicantDies
  PROVE  SupplicantInv'
<1>1. /\ \E r \in W!Radios : \E s \in v6[r] :
           /\ v6' = [v6 EXCEPT ![r] = v6[r] \ {s}]
           /\ \/ v5' = v5
              \/ v5' = [v5 EXCEPT ![r] = IF v5[r] = s THEN 0 ELSE v5[r]]
      /\ v1' = v1 /\ v2' = v2 /\ v3' = v3 /\ v4' = v4 /\ v7' = v7 /\ v8' = v8
  BY DEF W!SupplicantDies
<1>2. PICK r \in W!Radios : \E s \in v6[r] :
           /\ v6' = [v6 EXCEPT ![r] = v6[r] \ {s}]
           /\ \/ v5' = v5
              \/ v5' = [v5 EXCEPT ![r] = IF v5[r] = s THEN 0 ELSE v5[r]]
  BY <1>1
<1>3. PICK s \in v6[r] :
           /\ v6' = [v6 EXCEPT ![r] = v6[r] \ {s}]
           /\ \/ v5' = v5
              \/ v5' = [v5 EXCEPT ![r] = IF v5[r] = s THEN 0 ELSE v5[r]]
  BY <1>2
<1>4. v6[r] \ {s} \in SUBSET (1 .. v1)
  BY SupplicantTypes
<1>5. v6' \in [W!Radios -> SUBSET (1 .. v1)]
  BY <1>3, <1>4, SupplicantTypes
<1>6. v5' \in [W!Radios -> 0 .. v1]
  BY <1>3, SupplicantTypes
<1>7. \A q \in W!Radios : v5'[q] \in {0, v5[q]}
  BY <1>3, SupplicantTypes
<1>8. /\ v2 \in {"config", "rm", "start", "attach"} => v1 > 0 /\ v3 \in W!Radios
      /\ \A q \in W!Radios : v7[q] \in {0, v1} \/ q \in v8
      /\ \A q \in W!Radios :
           v2 \in {"rm", "start"} /\ (q < v3 \/ (v2 = "start" /\ q = v3))
             => v5[q] \in {0, v1} \/ q \in v8
      /\ \A q \in W!Radios :
           v2 = "attach" => /\ v5[q] \in {0, v1} \/ q \in v8
                            /\ q < v3 => v7[q] # 0
  BY DEF SupplicantInv, W!SocketsFresh, W!OwnSupplicant, W!Fresh
<1>9. W!TypeOK'
  BY <1>1, <1>5, <1>6, SupplicantTypes, SupplicantTypesNext
<1>10. W!OwnSupplicant' /\ W!SocketsFresh'
  BY <1>1, <1>7, <1>8, SupplicantFreshNext
<1> QED BY <1>9, <1>10 DEF SupplicantInv

(* Only wpa_attach opens.                                                   *)
LEMMA SupplicantKept ==
  ASSUME SupplicantInv, W!Next
  PROVE  SupplicantInv' /\ W!AllAttached
<1>1. CASE W!wpa_attach
  BY <1>1, AttachKept
<1>2. CASE \/ W!create_default_wpa_config \/ W!RemoveSocket \/ W!StartSupplicant
           \/ W!Restart \/ W!SupplicantDies
  <2>1. SupplicantInv'
    BY <1>2, ConfigKept, RemoveKept, StartKept, RestartKept, DiesKept
  <2>2. v2' = "opened" => v2 = "opened"
    BY <1>2 DEF W!create_default_wpa_config, W!RemoveSocket, W!StartSupplicant,
         W!Onward, W!Restart, W!SupplicantDies
  <2> QED BY <2>1, <2>2 DEF W!AllAttached
<1> QED BY <1>1, <1>2 DEF W!Next, W!wifi_hal_open

(* SupplicantOwn for every number of radios and of opens: the HAL is only   *)
(* ever connected to supplicants of its own open, but for radios whose      *)
(* commands were not run, and an open that succeeds has connected them all, *)
(* wherever a process or a supplicant ends (wifi_hal_open).                 *)
THEOREM OwnSupplicantsOnly == Spec => SupplicantOwn
<1> DEFINE I == part = "supplicant" => SupplicantInv
<1>1. Init => I
  <2> SUFFICES ASSUME Init, part = "supplicant" PROVE SupplicantInv
    OBVIOUS
  <2>1. W!Init
    BY DEF Init
  <2> QED BY <2>1, SupplicantInit
<1>2. I /\ [Next]_vars => I' /\ [part = "supplicant" => W!AllAttached]_vars
  <2> SUFFICES ASSUME I, [Next]_vars
               PROVE  I' /\ [part = "supplicant" => W!AllAttached]_vars
    OBVIOUS
  <2>1. CASE UNCHANGED vars
    <3>1. I'
      BY <2>1 DEF vars, SupplicantInv, W!TypeOK, W!OwnSupplicant,
           W!SocketsFresh, W!Fresh, W!Radios
    <3> QED BY <2>1, <3>1
  <2>2. CASE Next /\ part = "supplicant"
    <3>1. W!Next /\ part' = part
      BY <2>2 DEF Next
    <3> QED BY <2>2, <3>1, SupplicantKept
  <2>3. CASE Next /\ part # "supplicant"
    <3>1. part' = part
      BY <2>3 DEF Next
    <3> QED BY <2>3, <3>1
  <2> QED BY <2>1, <2>2, <2>3
<1>3. I => (part = "supplicant" => W!TypeOK /\ W!OwnSupplicant)
  BY DEF SupplicantInv
<1> QED BY <1>1, <1>2, <1>3, PTL DEF Spec, SupplicantOwn

-----------------------------------------------------------------------------
(***************************************************************************)
(* The retry loop of wpa_ctrl_request (RetryClock).                        *)
(***************************************************************************)
RetryInv == T!TypeOK /\ T!ClockSettled /\ T!AgeIsWaited /\ T!AFewSeconds

(* What a time is; the number of microseconds in a second stays unexpanded  *)
(* wherever a range ends with it.                                           *)
LEMMA SecIs == T!SEC = 1000000
  BY SMT DEF T!SEC

LEMMA StampIs ==
  ASSUME NEW t \in T!Stamps
  PROVE  /\ t.sec \in Int /\ t.usec \in Int /\ 0 <= t.usec /\ t.usec < 1000000
         /\ T!Us(t) = t.sec * 1000000 + t.usec
<1>1. T!SEC \in Nat
  BY SMT DEF T!SEC
<1>2. t.sec \in Int /\ t.usec \in Int /\ 0 <= t.usec /\ t.usec < T!SEC
  BY <1>1, SMT DEF T!Stamps
<1>3. T!Us(t) = t.sec * T!SEC + t.usec
  BY SMT DEF T!Us
<1> QED BY <1>2, <1>3, SecIs, SMT

LEMMA StampOf ==
  ASSUME NEW s \in Int, NEW u \in Int, 0 <= u, u < 1000000
  PROVE  [sec |-> s, usec |-> u] \in T!Stamps
<1>1. T!SEC \in Nat /\ u < T!SEC
  BY SecIs, SMT
<1> QED BY <1>1, SMT DEF T!Stamps

(* The longest sleep takes a second at least, and none takes longer.        *)
LEMMA LongestSleep ==
  /\ T!Longest \in Nat /\ T!Longest >= 1000000
  /\ \A d \in Delays : d \in Nat /\ 1000000 + d <= T!Longest
<1> DEFINE m == CHOOSE d \in Delays : \A e \in Delays : e <= d
<1>1. Delays \subseteq Nat /\ \E d \in Delays : \A e \in Delays : e <= d
  BY DelayAssumption DEF DelayAssumption
<1>2. m \in Delays /\ \A e \in Delays : e <= m
  BY <1>1, Zenon
<1>3. T!Longest = 1 * T!SEC + m
  BY Zenon DEF T!Longest
<1> HIDE DEF m
<1> QED BY <1>1, <1>2, <1>3, SecIs, SMT

(* Division by a second, and what an age with a borrowed second says.       *)
LEMMA SecondsAndRest ==
  ASSUME NEW x \in Int
  PROVE  /\ x \div 1000000 \in Int /\ x % 1000000 \in Int
         /\ 0 <= x % 1000000 /\ x % 1000000 < 1000000
         /\ x = 1000000 * (x \div 1000000) + (x % 1000000)
  BY SMT

LEMMA BorrowedAge ==
  ASSUME NEW a \in Int, NEW b \in Int, NEW c \in Int, NEW d \in Int,
         0 <= b, b < 1000000, 0 <= d, d < 1000000, b < d
  PROVE  (a - c - 1 > 5 \/ (a - c - 1 = 5 /\ b - d + 1000000 > 0))
           <=> (a * 1000000 + b) - (c * 1000000 + d) > 5 * 1000000
  BY SMT

(* Later carries into the seconds, also when time is set back, and the      *)
(* result is n microseconds later.                                          *)
LEMMA LaterIsLater ==
  ASSUME NEW t \in T!Stamps, NEW n \in Int
  PROVE  T!Later(t, n) \in T!Stamps /\ T!Us(T!Later(t, n)) = T!Us(t) + n
<1> DEFINE x == t.usec + n
           q == x \div 1000000
           u == x % 1000000
<1>1. x \in Int
  BY StampIs, SMT
<1>2. q \in Int /\ u \in Int /\ 0 <= u /\ u < 1000000 /\ x = 1000000 * q + u
  BY <1>1, SecondsAndRest, SMT
<1>3. T!Later(t, n) = [sec |-> t.sec + q, usec |-> u]
  BY SMT DEF T!Later, T!SEC
<1> HIDE DEF q, u
<1>4. t.sec \in Int /\ t.sec + q \in Int
  BY <1>2, StampIs, SMT
<1>5. T!Later(t, n) \in T!Stamps
  BY <1>2, <1>3, <1>4, StampOf, SMT
<1>6. T!Us(T!Later(t, n)) = (t.sec + q) * 1000000 + u
  BY <1>3, <1>5, StampIs, SMT
<1>7. T!Us(t) = t.sec * 1000000 + t.usec /\ t.usec \in Int
  BY StampIs, SMT
<1> QED BY <1>2, <1>4, <1>5, <1>6, <1>7, SMT

(* os_reltime_sub borrows: os_reltime_expired compares microseconds.        *)
LEMMA ExpiredIsOlder ==
  ASSUME NEW now \in T!Stamps, NEW ts \in T!Stamps
  PROVE  T!os_reltime_expired(now, ts, 5) <=> T!Us(now) - T!Us(ts) > 5 * 1000000
<1>1. /\ now.sec \in Int /\ now.usec \in Int /\ 0 <= now.usec /\ now.usec < 1000000
      /\ ts.sec \in Int /\ ts.usec \in Int /\ 0 <= ts.usec /\ ts.usec < 1000000
      /\ T!Us(now) = now.sec * 1000000 + now.usec
      /\ T!Us(ts) = ts.sec * 1000000 + ts.usec
  BY StampIs, SMT
<1>2. CASE now.usec < ts.usec
  <2>1. T!os_reltime_sub(now, ts) = [sec |-> now.sec - ts.sec - 1,
                                     usec |-> now.usec - ts.usec + 1000000]
    BY <1>1, <1>2, SMT DEF T!os_reltime_sub, T!SEC
  <2>2. T!os_reltime_expired(now, ts, 5) <=>
          \/ now.sec - ts.sec - 1 > 5
          \/ now.sec - ts.sec - 1 = 5 /\ now.usec - ts.usec + 1000000 > 0
    BY <2>1, SMT DEF T!os_reltime_expired
  <2> QED BY <1>1, <1>2, <2>2, BorrowedAge, SMT
<1>3. CASE ~(now.usec < ts.usec)
  <2>1. T!os_reltime_sub(now, ts) = [sec |-> now.sec - ts.sec,
                                     usec |-> now.usec - ts.usec]
    BY <1>1, <1>3, SMT DEF T!os_reltime_sub
  <2>2. T!os_reltime_expired(now, ts, 5) <=>
          \/ now.sec - ts.sec > 5
          \/ now.sec - ts.sec = 5 /\ now.usec - ts.usec > 0
    BY <2>1, SMT DEF T!os_reltime_expired
  <2> QED BY <1>1, <1>3, <2>2, SMT
<1> QED BY <1>2, <1>3

(* The clocks fall back in order, and the last one always works.            *)
LEMMA WorkingClock ==
  ASSUME v3 \in T!Clocks, v1 \subseteq T!Clocks \ {"REALTIME"}
  PROVE  /\ T!Working \in T!Clocks /\ T!Working \notin v1
         /\ v3 \notin v1 => T!Working = v3
         /\ T!Working = "MONOTONIC" => v3 = "MONOTONIC" \/ "BOOTTIME" \in v1
         /\ T!Working = "REALTIME" => \/ v3 = "REALTIME"
                                      \/ v3 = "MONOTONIC" /\ "MONOTONIC" \in v1
                                      \/ {"BOOTTIME", "MONOTONIC"} \subseteq v1
<1>1. /\ T!NextClock["BOOTTIME"] = "MONOTONIC"
      /\ T!NextClock["MONOTONIC"] = "REALTIME"
      /\ T!NextClock["REALTIME"] = "REALTIME"
  BY DEF T!NextClock
<1>2. T!Working = IF v3 \notin v1 THEN v3
                  ELSE IF T!NextClock[v3] \notin v1 THEN T!NextClock[v3]
                  ELSE T!NextClock[T!NextClock[v3]]
  BY DEF T!Working
<1> QED BY <1>1, <1>2 DEF T!Clocks

(* What the invariant says of the clocks; a clock's time can be read.       *)
LEMMA RetryTypes ==
  ASSUME RetryInv
  PROVE  /\ v3 \in T!Clocks /\ v1 \subseteq T!Clocks \ {"REALTIME"}
         /\ v2 \in [T!Clocks -> T!Stamps] /\ v4 \in T!Stamps
         /\ v5 \in {"send", "busy", "sleep", "select", "send_err"}
         /\ v7 \in Nat /\ v6 \in BOOLEAN /\ v8 \subseteq T!Clocks
         /\ v3 = "MONOTONIC" => "BOOTTIME" \in v1
         /\ v3 = "REALTIME" => {"BOOTTIME", "MONOTONIC"} \subseteq v1
         /\ v3 \in v1 => v8 = {} /\ v4 = T!Zero /\ v5 # "sleep"
  BY Zenon DEF RetryInv, T!TypeOK, T!ClockSettled

(* The same of the next state: what a step has to show.                     *)
LEMMA RetryTypesNext ==
  ASSUME v3' \in T!Clocks, v1' \subseteq T!Clocks \ {"REALTIME"},
         v2' \in [T!Clocks -> T!Stamps], v4' \in T!Stamps,
         v5' \in {"send", "busy", "sleep", "select", "send_err"},
         v7' \in Nat, v6' \in BOOLEAN, v8' \subseteq T!Clocks,
         v3' = "MONOTONIC" => "BOOTTIME" \in v1',
         v3' = "REALTIME" => {"BOOTTIME", "MONOTONIC"} \subseteq v1',
         v3' \in v1' => v8' = {} /\ v4' = T!Zero /\ v5' # "sleep"
  PROVE  T!TypeOK' /\ T!ClockSettled'
<1>1. \A c \in T!Clocks : v2'[c].sec \in Int /\ v2'[c].usec \in 0 .. T!SEC - 1
  <2> SUFFICES ASSUME NEW c \in T!Clocks
               PROVE  v2'[c].sec \in Int /\ v2'[c].usec \in 0 .. T!SEC - 1
    OBVIOUS
  <2>1. v2'[c] \in T!Stamps
    OBVIOUS
  <2> QED BY <2>1, SMT DEF T!Stamps
<1>2. T!TypeOK'
  BY <1>1, Zenon DEF T!TypeOK
<1>3. T!ClockSettled'
  BY Zenon DEF T!ClockSettled
<1> QED BY <1>2, <1>3

(* The ages, with the numbers in place.                                     *)
LEMMA RetryAges ==
  ASSUME RetryInv, v3 \notin v8
  PROVE  LET age == T!Us(v2[v3]) - T!Us(v4) IN
         /\ v5 = "sleep" /\ v4.sec = 0 => age = 0 /\ v7 = 0
         /\ v5 = "sleep" /\ v4.sec # 0 =>
              age <= 5 * 1000000 /\ v7 - age >= 0 /\ v7 - age <= T!Longest
         /\ v5 \in {"send", "busy"} /\ v4 # T!Zero /\ v4.sec = 0 =>
              age = v7 /\ 1000000 <= v7 /\ v7 <= T!Longest
         /\ v5 \in {"send", "busy"} /\ v4 # T!Zero /\ v4.sec # 0 =>
              /\ age <= 5 * 1000000 + T!Longest
              /\ v7 - age >= 0 /\ v7 - age <= T!Longest
<1>1. T!Us(v2[v3]) \in Int /\ T!Us(v4) \in Int
  <2>1. v2[v3] \in T!Stamps /\ v4 \in T!Stamps
    BY RetryTypes
  <2> QED BY <2>1, StampIs, SMT
<1>2. T!AgeIsWaited
  BY DEF RetryInv
<1> QED BY <1>1, <1>2, SecIs, LongestSleep, SMT DEF T!AgeIsWaited, T!Age

LEMMA RetryAgesNext ==
  ASSUME v2'[v3'] \in T!Stamps, v4' \in T!Stamps, v7' \in Nat,
         v3' \notin v8' =>
           LET age == T!Us(v2'[v3']) - T!Us(v4') IN
           /\ v5' = "sleep" /\ v4'.sec = 0 => age = 0 /\ v7' = 0
           /\ v5' = "sleep" /\ v4'.sec # 0 =>
                age <= 5 * 1000000 /\ v7' - age >= 0 /\ v7' - age <= T!Longest
           /\ v5' \in {"send", "busy"} /\ v4' # T!Zero /\ v4'.sec = 0 =>
                age = v7' /\ 1000000 <= v7' /\ v7' <= T!Longest
           /\ v5' \in {"send", "busy"} /\ v4' # T!Zero /\ v4'.sec # 0 =>
                /\ age <= 5 * 1000000 + T!Longest
                /\ v7' - age >= 0 /\ v7' - age <= T!Longest
  PROVE  T!AgeIsWaited'
<1>1. T!Us(v2'[v3']) \in Int /\ T!Us(v4') \in Int
  BY StampIs, SMT
<1> QED BY <1>1, SecIs, LongestSleep, SMT DEF T!AgeIsWaited, T!Age, T!Us

(* Before the first EAGAIN no time has been taken.                          *)
LEMMA RetryInit ==
  ASSUME T!Init
  PROVE  RetryInv
<1>1. /\ v1 \in {{}, {"BOOTTIME"}, {"BOOTTIME", "MONOTONIC"}}
      /\ v3 = "BOOTTIME" /\ v4 = T!Zero
      /\ v5 = "send" /\ v6 = FALSE /\ v7 = 0 /\ v8 = {}
      /\ \E up \in Uptimes :
           v2 = [BOOTTIME |-> up, MONOTONIC |-> up,
                 REALTIME |-> T!Later(up, 900 * T!SEC)]
  BY DEF T!Init
<1>2. PICK up \in Uptimes : v2 = [BOOTTIME |-> up, MONOTONIC |-> up,
                                  REALTIME |-> T!Later(up, 900 * T!SEC)]
  BY <1>1
<1>3. up \in T!Stamps
  BY UptimeAssumption DEF UptimeAssumption
<1>4. 900 * T!SEC \in Int
  BY SecIs, SMT
<1>5. T!Later(up, 900 * T!SEC) \in T!Stamps
  BY <1>3, <1>4, LaterIsLater
<1>6. v2 \in [T!Clocks -> T!Stamps]
  BY <1>2, <1>3, <1>5 DEF T!Clocks
<1>7. v4 \in T!Stamps
  BY <1>1, StampOf, SMT DEF T!Zero
<1>8. \A c \in T!Clocks : v2[c].sec \in Int /\ v2[c].usec \in 0 .. T!SEC - 1
  BY <1>6, SMT DEF T!Stamps
<1>9. v3 \in T!Clocks /\ v1 \subseteq T!Clocks \ {"REALTIME"} /\ v7 \in Nat
  BY <1>1 DEF T!Clocks
<1>10. T!TypeOK
  BY <1>1, <1>8, <1>9, Zenon DEF T!TypeOK
<1>11. T!ClockSettled
  BY <1>1, <1>6, <1>7 DEF T!ClockSettled
<1>12. T!AgeIsWaited
  BY <1>1 DEF T!AgeIsWaited
<1>13. T!AFewSeconds
  BY <1>1 DEF T!AFewSeconds, T!GaveUp
<1> QED BY <1>10, <1>11, <1>12, <1>13 DEF RetryInv

(* send() leaves the clocks alone; what ends the loop here is no give-up.   *)
LEMMA SendKept ==
  ASSUME RetryInv, T!Send
  PROVE  RetryInv'
<1>1. /\ v5 = "send"
      /\ \/ v5' = "select" /\ v6' = v6
         \/ v5' = "send_err" /\ v6' = TRUE
         \/ v5' = "busy" /\ v6' = v6
      /\ v1' = v1 /\ v2' = v2 /\ v3' = v3 /\ v4' = v4 /\ v7' = v7 /\ v8' = v8
  BY DEF T!Send
<1>2. v5' \in {"busy", "select", "send_err"} /\ v6' \in BOOLEAN
  BY <1>1, RetryTypes
<1>3. T!TypeOK' /\ T!ClockSettled'
  BY <1>1, <1>2, RetryTypes, RetryTypesNext
<1>4. T!AgeIsWaited'
  BY <1>1, RetryTypes, RetryAges, RetryAgesNext, SMT
<1>5. T!AFewSeconds'
  BY <1>1 DEF T!AFewSeconds, T!GaveUp
<1> QED BY <1>3, <1>4, <1>5 DEF RetryInv

(* A start of the first second is taken again when a whole second has been  *)
(* slept: only once, for then it is not one of the first second any more.   *)
LEMMA BusyKept ==
  ASSUME RetryInv, T!Busy
  PROVE  RetryInv'
<1>1. /\ v5 = "busy" /\ v1' = v1 /\ v2' = v2 /\ v6' = v6 /\ v8' = v8
      /\ v3' = T!Working
      /\ \/ /\ v4.sec = 0 /\ v4' = v2[T!Working] /\ v5' = "sleep"
            /\ v7' = IF v4 = T!Zero THEN 0 ELSE v7
         \/ /\ v4.sec # 0 /\ v4' = v4 /\ v7' = v7
            /\ v5' = IF T!os_reltime_expired(v2[T!Working], v4, 5)
                     THEN "send_err" ELSE "sleep"
  BY DEF T!Busy, T!os_get_reltime
<1>2. v3' \in T!Clocks /\ v3' \notin v1 /\ (v3 \notin v1 => v3' = v3)
  BY <1>1, RetryTypes, WorkingClock
<1>3. /\ v3' = "MONOTONIC" => "BOOTTIME" \in v1
      /\ v3' = "REALTIME" => {"BOOTTIME", "MONOTONIC"} \subseteq v1
  BY <1>1, RetryTypes, WorkingClock
<1>4. v2[v3'] \in T!Stamps /\ v4 \in T!Stamps /\ v2[v3] \in T!Stamps
  BY <1>2, RetryTypes
<1>5. v4' \in T!Stamps /\ v7' \in Nat /\ v5' \in {"sleep", "send_err"}
  BY <1>1, <1>4, RetryTypes
<1>6. T!TypeOK' /\ T!ClockSettled'
  BY <1>1, <1>2, <1>3, <1>5, RetryTypes, RetryTypesNext
<1>7. v4 # T!Zero => v3' = v3
  BY <1>2, RetryTypes
<1>8. v4.sec # 0 => v4 # T!Zero
  BY SMT DEF T!Zero
<1>9. /\ T!Us(v2[v3']) \in Int /\ T!Us(v4) \in Int
      /\ v4.sec = 0 => T!Us(v4) >= 0
      /\ v2[v3'].sec = 0 => T!Us(v2[v3']) < 1000000
  BY <1>4, StampIs, SMT
<1>10. T!AgeIsWaited' /\ T!AFewSeconds'
  <2>1. CASE v4 = T!Zero
    <3>1. v4.sec = 0
      BY <2>1, SMT DEF T!Zero
    <3>2. v4' = v2[v3'] /\ v7' = 0 /\ v5' = "sleep"
      BY <1>1, <2>1, <3>1
    <3>3. T!Us(v2'[v3']) - T!Us(v4') = 0
      BY <1>1, <1>9, <3>2, SMT
    <3>4. T!AgeIsWaited'
      BY <1>1, <1>4, <1>5, <3>2, <3>3, LongestSleep, RetryAgesNext, SMT
    <3> QED BY <3>2, <3>4 DEF T!AFewSeconds, T!GaveUp
  <2>2. CASE v4 # T!Zero /\ v4.sec = 0
    <3>1. v4' = v2[v3'] /\ v7' = v7 /\ v5' = "sleep" /\ v3' = v3
      BY <1>1, <1>7, <2>2
    <3>2. T!Us(v2'[v3']) - T!Us(v4') = 0
      BY <1>1, <1>9, <3>1, SMT
    <3>3. v3 \notin v8 => v4'.sec # 0 /\ v7' <= T!Longest
      BY <1>1, <1>9, <2>2, <3>1, LongestSleep, RetryAges, RetryTypes, SMT
    <3>4. T!AgeIsWaited'
      BY <1>1, <1>4, <1>5, <3>1, <3>2, <3>3, LongestSleep, RetryAgesNext, SMT
    <3> QED BY <3>1, <3>4 DEF T!AFewSeconds, T!GaveUp
  <2>3. CASE v4.sec # 0
    <3>1. v4' = v4 /\ v7' = v7 /\ v3' = v3 /\ v3 = T!Working
      BY <1>1, <1>7, <1>8, <2>3
    <3>2. v5' = IF T!Us(v2[v3]) - T!Us(v4) > 5 * 1000000 THEN "send_err" ELSE "sleep"
      BY <1>1, <1>4, <2>3, <3>1, ExpiredIsOlder, SMT
    <3>3. T!AgeIsWaited'
      BY <1>1, <1>4, <1>5, <1>8, <1>9, <2>3, <3>1, <3>2, RetryTypes, LongestSleep,
         RetryAges, RetryAgesNext, SMT
    <3>4. v3 \notin v8 /\ v5' = "send_err" =>
            v7 > 5 * 1000000 /\ v7 <= 5 * 1000000 + 2 * T!Longest
      BY <1>1, <1>8, <1>9, <2>3, <3>1, <3>2, RetryTypes, LongestSleep, RetryAges, SMT
    <3>5. T!AFewSeconds'
      BY <1>1, <3>1, <3>4, SecIs, SMT DEF T!AFewSeconds, T!GaveUp
    <3> QED BY <3>3, <3>5
  <2> QED BY <2>1, <2>2, <2>3
<1> QED BY <1>6, <1>10 DEF RetryInv

(* A sleep ages all clocks by what it adds to the wait.                     *)
LEMMA SleepKept ==
  ASSUME RetryInv, T!Sleep
  PROVE  RetryInv'
<1>1. /\ v5 = "sleep" /\ v5' = "send"
      /\ v1' = v1 /\ v3' = v3 /\ v4' = v4 /\ v6' = v6 /\ v8' = v8
      /\ \E d \in Delays :
           /\ v2' = [c \in T!Clocks |-> T!Later(v2[c], 1 * T!SEC + d)]
           /\ v7' = v7 + 1 * T!SEC + d
  BY DEF T!Sleep, T!os_sleep
<1>2. PICK d \in Delays : /\ v2' = [c \in T!Clocks |-> T!Later(v2[c], 1 * T!SEC + d)]
                          /\ v7' = v7 + 1 * T!SEC + d
  BY <1>1
<1>3. d \in Nat /\ 1000000 + d <= T!Longest /\ 1 * T!SEC + d = 1000000 + d
  BY LongestSleep, SecIs, SMT
<1>4. 1 * T!SEC + d \in Int
  BY <1>3, SMT
<1>5. v7' = v7 + 1000000 + d /\ v7' \in Nat
  BY <1>2, <1>3, RetryTypes, SecIs, SMT
<1>6. \A c \in T!Clocks : /\ v2'[c] \in T!Stamps
                          /\ T!Us(v2'[c]) = T!Us(v2[c]) + (1 * T!SEC + d)
  BY <1>2, <1>4, RetryTypes, LaterIsLater
<1>7. v2' \in [T!Clocks -> T!Stamps]
  BY <1>2, <1>6
<1>8. T!TypeOK' /\ T!ClockSettled'
  BY <1>1, <1>5, <1>7, RetryTypes, RetryTypesNext
<1>9. /\ v2[v3] \in T!Stamps /\ v4 \in T!Stamps /\ v2'[v3] \in T!Stamps
      /\ T!Us(v2'[v3]) = T!Us(v2[v3]) + (1 * T!SEC + d)
  BY <1>6, RetryTypes
<1>a. T!Us(v2[v3]) \in Int /\ T!Us(v4) \in Int
  BY <1>9, StampIs, SMT
<1>10. T!Us(v2'[v3]) = T!Us(v2[v3]) + 1000000 + d
  BY <1>3, <1>9, <1>a, SecIs, SMT
<1>11. T!AgeIsWaited'
  BY <1>1, <1>3, <1>5, <1>9, <1>a, <1>10, RetryTypes, LongestSleep, RetryAges,
     RetryAgesNext, SMT
<1>12. T!AFewSeconds'
  BY <1>1 DEF T!AFewSeconds, T!GaveUp
<1> QED BY <1>8, <1>11, <1>12 DEF RetryInv

(* A clock that is set, or ages while the system is suspended, is odd from  *)
(* then on; the others show what they showed.                               *)
LEMMA OddKept ==
  ASSUME RetryInv, T!SetClock \/ T!Suspend
  PROVE  RetryInv'
<1>1. /\ v5 = "sleep" /\ v5' = v5 /\ v8 = {} /\ v8' \subseteq T!Clocks
      /\ v1' = v1 /\ v3' = v3 /\ v4' = v4 /\ v6' = v6 /\ v7' = v7
  BY DEF T!SetClock, T!Suspend, T!Clocks
<1>2. /\ v2' \in [T!Clocks -> T!Stamps]
      /\ \A c \in T!Clocks : c \notin v8' => v2'[c] = v2[c]
  <2>1. CASE T!SetClock
    <3>1. PICK n \in {-20, 20} :
            v2' = [v2 EXCEPT !["REALTIME"] = T!Later(v2["REALTIME"], n * T!SEC)]
      BY <2>1 DEF T!SetClock
    <3>2. n * T!SEC \in Int
      BY <3>1, SecIs, SMT
    <3>3. "REALTIME" \in T!Clocks /\ v2["REALTIME"] \in T!Stamps
      BY RetryTypes DEF T!Clocks
    <3>4. T!Later(v2["REALTIME"], n * T!SEC) \in T!Stamps
      BY <3>2, <3>3, LaterIsLater
    <3>5. v8' = {"REALTIME"}
      BY <2>1 DEF T!SetClock
    <3> QED BY <3>1, <3>3, <3>4, <3>5, RetryTypes
  <2>2. CASE T!Suspend
    <3>1. /\ v2' = [c \in T!Clocks |-> IF c = "MONOTONIC" THEN v2[c]
                                       ELSE T!Later(v2[c], 20 * T!SEC)]
          /\ v8' = {"BOOTTIME", "REALTIME"}
      BY <2>2 DEF T!Suspend
    <3>2. 20 * T!SEC \in Int
      BY SecIs, SMT
    <3>3. \A c \in T!Clocks : v2[c] \in T!Stamps /\ T!Later(v2[c], 20 * T!SEC) \in T!Stamps
      BY <3>2, RetryTypes, LaterIsLater
    <3>4. v2' \in [T!Clocks -> T!Stamps]
      BY <3>1, <3>3
    <3>5. \A c \in T!Clocks : c \notin v8' => c = "MONOTONIC"
      BY <3>1 DEF T!Clocks
    <3> QED BY <3>1, <3>4, <3>5
  <2> QED BY <2>1, <2>2
<1>3. v3 \notin v1
  BY <1>1, RetryTypes
<1>4. T!TypeOK' /\ T!ClockSettled'
  BY <1>1, <1>2, <1>3, RetryTypes, RetryTypesNext
<1>5. v2'[v3] \in T!Stamps /\ v4 \in T!Stamps /\ (v3 \notin v8' => v2'[v3] = v2[v3])
  BY <1>2, RetryTypes
<1>6. T!AgeIsWaited'
  BY <1>1, <1>5, RetryTypes, RetryAges, RetryAgesNext, SMT
<1>7. T!AFewSeconds'
  BY <1>1 DEF T!AFewSeconds, T!GaveUp
<1> QED BY <1>4, <1>6, <1>7 DEF RetryInv

(* The clock changes only before a start is taken, for want of a better.    *)
LEMMA RetryKept ==
  ASSUME RetryInv, T!Next
  PROVE  RetryInv' /\ T!OneClock
<1>1. RetryInv'
  BY SendKept, BusyKept, SleepKept, OddKept DEF T!Next, T!wpa_ctrl_request
<1>2. v1' = v1 /\ (v3' = v3 \/ v3' = T!Working)
  BY DEF T!Next, T!wpa_ctrl_request, T!Send, T!Busy, T!os_get_reltime, T!Sleep,
         T!os_sleep, T!SetClock, T!Suspend
<1>3. v4 # T!Zero => v3' = v3
  BY <1>2, RetryTypes, WorkingClock
<1>4. v3' = "REALTIME" => {"BOOTTIME", "MONOTONIC"} \subseteq v1
  BY <1>2, RetryTypes, WorkingClock
<1> QED BY <1>1, <1>3, <1>4 DEF T!OneClock

(* RetriesTimed for every uptime, every set of delays and however long the  *)
(* loop goes on: a busy supplicant is given more than five seconds and at   *)
(* most two sleeps more by one clock, unless that clock itself was set or   *)
(* ran on in suspend (wpa_ctrl_request, os_get_reltime, os_reltime_expired).*)
THEOREM RetriesAreTimed == Spec => RetriesTimed
<1> DEFINE I == part = "retry" => RetryInv
<1>1. Init => I
  <2> SUFFICES ASSUME Init, part = "retry" PROVE RetryInv
    OBVIOUS
  <2>1. T!Init
    BY DEF Init
  <2> QED BY <2>1, RetryInit
<1>2. I /\ [Next]_vars => I' /\ [part = "retry" => T!OneClock]_vars
  <2> SUFFICES ASSUME I, [Next]_vars
               PROVE  I' /\ [part = "retry" => T!OneClock]_vars
    OBVIOUS
  <2>1. CASE UNCHANGED vars
    <3>1. /\ v1' = v1 /\ v2' = v2 /\ v3' = v3 /\ v4' = v4 /\ v5' = v5 /\ v6' = v6
          /\ v7' = v7 /\ v8' = v8 /\ part' = part
      BY <2>1 DEF vars
    <3>2. RetryInv => RetryInv'
      BY <3>1, Zenon DEF RetryInv, T!TypeOK, T!ClockSettled, T!AgeIsWaited,
           T!Age, T!AFewSeconds, T!GaveUp
    <3> QED BY <2>1, <3>1, <3>2
  <2>2. CASE Next /\ part = "retry"
    <3>1. T!Next /\ part' = part
      BY <2>2 DEF Next
    <3> QED BY <2>2, <3>1, RetryKept
  <2>3. CASE Next /\ part # "retry"
    <3>1. part' = part
      BY <2>3 DEF Next
    <3> QED BY <2>3, <3>1
  <2> QED BY <2>1, <2>2, <2>3
<1>3. I => (part = "retry" => T!TypeOK /\ T!AFewSeconds)
  BY DEF RetryInv
<1> QED BY <1>1, <1>2, <1>3, PTL DEF Spec, RetriesTimed

-----------------------------------------------------------------------------
(***************************************************************************)
(* The spectral capture (WifiStats).                                       *)
(***************************************************************************)
StatsInv ==
  S!TypeOK /\ S!TablesKnown /\ S!NoScanLeftOn /\ S!InProgram /\ S!FilesClosed

Written == {"chanscan", "background", "trigger", "disable", "refused"}

(* The programs and the words of the two drivers, step by step.             *)
LEMMA Program9 ==
  LET P == S!Program("ath9k")
      L == S!Words("ath9k") IN
  /\ P # << >> /\ Len(P) = 3 /\ P[1] = "chanscan" /\ P[2] = "SCAN" /\ P[3] = "disable"
  /\ L[1] = << >> /\ L[2] = <<"chanscan">> /\ L[3] = <<"chanscan">>
  /\ L[4] = <<"chanscan", "disable">>
  BY DEF S!Program, S!Words

LEMMA Program10 ==
  LET P == S!Program("ath10k")
      L == S!Words("ath10k") IN
  /\ P # << >> /\ Len(P) = 4 /\ P[1] = "background" /\ P[2] = "trigger"
  /\ P[3] = "SCAN" /\ P[4] = "disable"
  /\ L[1] = << >> /\ L[2] = <<"background">> /\ L[3] = <<"background", "trigger">>
  /\ L[4] = <<"background", "trigger">>
  /\ L[5] = <<"background", "trigger", "disable">>
  BY DEF S!Program, S!Words

(* A word behind others.                                                    *)
LEMMA TwoIs ==
  ASSUME NEW E, NEW s \in Seq(E), Len(s) = 2
  PROVE  s = <<s[1], s[2]>>
  OBVIOUS

LEMMA ThreeIs ==
  ASSUME NEW E, NEW s \in Seq(E), Len(s) = 3
  PROVE  s = <<s[1], s[2], s[3]>>
  OBVIOUS

LEMMA AppendFirst ==
  ASSUME NEW x
  PROVE  Append(<< >>, x) = <<x>>
  OBVIOUS

LEMMA AppendSecond ==
  ASSUME NEW x, NEW y
  PROVE  Append(<<x>>, y) = <<x, y>>
<1>1. <<x>> \in Seq({x, y})
  OBVIOUS
<1>2. /\ Append(<<x>>, y) \in Seq({x, y}) /\ Len(Append(<<x>>, y)) = 2
      /\ Append(<<x>>, y)[1] = x /\ Append(<<x>>, y)[2] = y
  BY <1>1, AppendProperties
<1> QED BY <1>2, TwoIs

LEMMA AppendThird ==
  ASSUME NEW x, NEW y, NEW z
  PROVE  Append(<<x, y>>, z) = <<x, y, z>>
<1>1. <<x, y>> \in Seq({x, y, z})
  OBVIOUS
<1>2. /\ Append(<<x, y>>, z) \in Seq({x, y, z}) /\ Len(Append(<<x, y>>, z)) = 3
      /\ Append(<<x, y>>, z)[1] = x /\ Append(<<x, y>>, z)[2] = y
      /\ Append(<<x, y>>, z)[3] = z
  BY <1>1, AppendProperties
<1> QED BY <1>2, ThreeIs

LEMMA Words9 ==
  LET L == S!Words("ath9k") IN
  L[2] = Append(L[1], "chanscan") /\ L[4] = Append(L[3], "disable")
<1>1. Append(<< >>, "chanscan") = <<"chanscan">>
  BY AppendFirst
<1>2. Append(<<"chanscan">>, "disable") = <<"chanscan", "disable">>
  BY AppendSecond
<1> QED BY <1>1, <1>2, Program9, Zenon

LEMMA Words10 ==
  LET L == S!Words("ath10k") IN
  /\ L[2] = Append(L[1], "background") /\ L[3] = Append(L[2], "trigger")
  /\ L[5] = Append(L[4], "disable")
<1>1. Append(<< >>, "background") = <<"background">>
  BY AppendFirst
<1>2. Append(<<"background">>, "trigger") = <<"background", "trigger">>
  BY AppendSecond
<1>3. Append(<<"background", "trigger">>, "disable")
        = <<"background", "trigger", "disable">>
  BY AppendThird
<1> QED BY <1>1, <1>2, <1>3, Program10, Zenon

(* A capture at step k of driver version v, which may be behind the last.   *)
Step(v, k) == k \in 1 .. 5 /\ (v = "ath10k" \/ (v = "ath9k" /\ k <= 4))

(* What a word is, and where the capture is behind it.                      *)
LEMMA StepOn ==
  ASSUME NEW v, NEW k, Step(v, k), k <= Len(S!Program(v))
  PROVE  LET w == S!Program(v)[k] IN
         /\ Step(v, k + 1)
         /\ w # "disable" => k + 1 \in 2 .. Len(S!Program(v))
         /\ w = "SCAN" => S!Words(v)[k + 1] = S!Words(v)[k]
         /\ w # "SCAN" =>
              /\ w \in {"chanscan", "background", "trigger", "disable"}
              /\ S!Words(v)[k + 1] = Append(S!Words(v)[k], w)
<1>1. CASE v = "ath9k"
  <2>1. Len(S!Program(v)) = 3
    BY <1>1, Program9
  <2>2. k = 1 \/ k = 2 \/ k = 3
    BY <2>1 DEF Step
  <2>3. CASE k = 1
    BY <1>1, <2>3, Program9, Words9 DEF Step
  <2>4. CASE k = 2
    BY <1>1, <2>4, Program9 DEF Step
  <2>5. CASE k = 3
    BY <1>1, <2>5, Program9, Words9 DEF Step
  <2> QED BY <2>2, <2>3, <2>4, <2>5
<1>2. CASE v = "ath10k"
  <2>1. Len(S!Program(v)) = 4
    BY <1>2, Program10
  <2>2. k = 1 \/ k = 2 \/ k = 3 \/ k = 4
    BY <2>1 DEF Step
  <2>3. CASE k = 1
    BY <1>2, <2>3, Program10, Words10 DEF Step
  <2>4. CASE k = 2
    BY <1>2, <2>4, Program10, Words10 DEF Step
  <2>5. CASE k = 3
    BY <1>2, <2>5, Program10 DEF Step
  <2>6. CASE k = 4
    BY <1>2, <2>6, Program10, Words10 DEF Step
  <2> QED BY <2>2, <2>3, <2>4, <2>5, <2>6
<1> QED BY <1>1, <1>2 DEF Step

LEMMA StepWrites ==
  ASSUME NEW v, NEW k, Step(v, k), k <= Len(S!Program(v)),
         NEW w, w = S!Program(v)[k], w # "SCAN"
  PROVE  /\ w \in {"chanscan", "background", "trigger", "disable"}
         /\ w # "disable" => k + 1 \in 2 .. Len(S!Program(v))
         /\ S!Words(v)[k + 1] = Append(S!Words(v)[k], w)
  BY StepOn

(* What has been written before a step is words.                            *)
LEMMA StepWords ==
  ASSUME NEW v, NEW k, Step(v, k)
  PROVE  S!Words(v)[k] \in Seq(Written)
<1>1. /\ << >> \in Seq(Written)
      /\ <<"chanscan">> \in Seq(Written) /\ <<"chanscan", "disable">> \in Seq(Written)
      /\ <<"background">> \in Seq(Written) /\ <<"background", "trigger">> \in Seq(Written)
      /\ <<"background", "trigger", "disable">> \in Seq(Written)
  BY DEF Written
<1>2. CASE v = "ath9k"
  <2>1. k = 1 \/ k = 2 \/ k = 3 \/ k = 4
    BY <1>2 DEF Step
  <2> QED BY <1>1, <1>2, <2>1, Program9
<1>3. CASE v = "ath10k"
  <2>1. k = 1 \/ k = 2 \/ k = 3 \/ k = 4 \/ k = 5
    BY DEF Step
  <2> QED BY <1>1, <1>3, <2>1, Program10
<1> QED BY <1>2, <1>3 DEF Step

(* One word more, taken or refused.                                         *)
LEMMA GivenAppend ==
  ASSUME NEW s \in Seq(Written), NEW t \in Seq(Written),
         NEW x \in Written, NEW w \in Written, S!Given(s, t), x = w \/ x = "refused"
  PROVE  Append(s, x) \in Seq(Written) /\ S!Given(Append(s, x), Append(t, w))
<1>1. /\ Len(s) \in Nat /\ Len(t) = Len(s) /\ DOMAIN t = 1 .. Len(s)
      /\ \A k \in 1 .. Len(s) : s[k] = t[k] \/ s[k] = "refused"
  BY DEF S!Given
<1>2. /\ Append(s, x) \in Seq(Written) /\ Append(t, w) \in Seq(Written)
      /\ Len(Append(s, x)) = Len(s) + 1 /\ Len(Append(t, w)) = Len(s) + 1
      /\ \A k \in 1 .. Len(s) : Append(s, x)[k] = s[k] /\ Append(t, w)[k] = t[k]
      /\ Append(s, x)[Len(s) + 1] = x /\ Append(t, w)[Len(s) + 1] = w
  BY <1>1, AppendProperties
<1>3. DOMAIN Append(t, w) = 1 .. Len(s) + 1
  BY <1>2
<1>4. \A k \in 1 .. Len(s) + 1 :
        Append(s, x)[k] = Append(t, w)[k] \/ Append(s, x)[k] = "refused"
  <2> TAKE k \in 1 .. Len(s) + 1
  <2>1. k \in 1 .. Len(s) \/ k = Len(s) + 1
    BY <1>1
  <2> QED BY <1>1, <1>2, <2>1
<1> QED BY <1>2, <1>3, <1>4 DEF S!Given

(* Behind the last step all words have been written.                        *)
LEMMA StepLast ==
  ASSUME NEW v, NEW k, Step(v, k), ~(k <= Len(S!Program(v)))
  PROVE  /\ v = "ath9k" => S!Words(v)[k] = <<"chanscan", "disable">>
         /\ v = "ath10k" => S!Words(v)[k] = <<"background", "trigger", "disable">>
<1>1. CASE v = "ath9k"
  <2>1. k = 4
    BY <1>1, Program9 DEF Step
  <2> QED BY <1>1, <2>1, Program9
<1>2. CASE v = "ath10k"
  <2>1. k = 5
    BY <1>2, Program10 DEF Step
  <2> QED BY <1>2, <2>1, Program10
<1> QED BY <1>1, <1>2 DEF Step

(* Before the first one nothing has been written.                           *)
LEMMA StepFirst ==
  ASSUME NEW v \in S!Drivers, S!Program(v) # << >>
  PROVE  Step(v, 1) /\ S!Words(v)[1] = << >>
<1>1. v \in {"ath9k", "ath10k"}
  BY DEF S!Program, S!Drivers
<1> QED BY <1>1, Program9, Program10 DEF Step

(* The invariant with a capture's record taken apart.                       *)
LEMMA StatsTypes ==
  ASSUME StatsInv
  PROVE  /\ v1 \in [StatRadios -> S!Drivers \cup {"gone"}]
         /\ v2 \in [StatRadios -> {"disable", "chanscan", "background"}]
         /\ v3 \in [StatRadios -> S!Drivers]
         /\ v4 \in [StatRadios -> S!Drivers \cup {""}]
         /\ v6 \in {"0", "error", "length", "crash"}
         /\ v7 \in Nat /\ v8 \subseteq {"spectral_scan_ctl"}
         /\ v9 \in Seq(Written) /\ v10 \subseteq StatRadios
         /\ v11 \in Nat /\ v7 <= v11
         /\ \A i \in StatRadios : v1[i] = "gone" => v2[i] = "disable"
         /\ \A i \in StatRadios : /\ v4[i] \in {"", v3[i]}
                                  /\ v4[i] \in {"", v1[i]} \/ v1[i] = "gone"
         /\ \/ v5 = S!Idle
            \/ \E i \in StatRadios, k \in 1 .. 5 :
                 v5 = [fn |-> "capture", i |-> i, at |-> k] /\ Step(v3[i], k)
  BY DEF StatsInv, S!TypeOK, S!TablesKnown, S!InProgram, S!FilesClosed, Step, Written

(* What a step has to show of the types.                                    *)
LEMMA StatsTypesNext ==
  ASSUME v1' \in [StatRadios -> S!Drivers \cup {"gone"}],
         v2' \in [StatRadios -> {"disable", "chanscan", "background"}],
         v3' \in [StatRadios -> S!Drivers],
         v4' \in [StatRadios -> S!Drivers \cup {""}],
         v6' \in {"0", "error", "length", "crash"},
         v7' \in Nat, v8' \subseteq {"spectral_scan_ctl"},
         v10' \subseteq StatRadios, v11' \in Nat, v7' <= v11',
         \A i \in StatRadios : /\ v4'[i] \in {"", v3'[i]}
                               /\ v4'[i] \in {"", v1'[i]} \/ v1'[i] = "gone",
         \/ v5' = S!Idle
         \/ \E i \in StatRadios, k \in 1 .. 5 :
              v5' = [fn |-> "capture", i |-> i, at |-> k] /\ Step(v3'[i], k)
  PROVE  S!TypeOK' /\ S!TablesKnown' /\ S!FilesClosed'
<1>1. v5'.i \in StatRadios \cup {0}
  <2>1. CASE v5' = S!Idle
    BY <2>1 DEF S!Idle
  <2>2. CASE \E i \in StatRadios, k \in 1 .. 5 :
               v5' = [fn |-> "capture", i |-> i, at |-> k]
    <3>1. PICK i \in StatRadios, k \in 1 .. 5 :
            v5' = [fn |-> "capture", i |-> i, at |-> k]
      BY <2>2
    <3>2. v5'.i = i
      BY <3>1
    <3> QED BY <3>2
  <2> QED BY <2>1, <2>2
<1>2. S!TypeOK'
  BY <1>1 DEF S!TypeOK
<1>3. S!TablesKnown'
  BY DEF S!TablesKnown, Step
<1>4. S!FilesClosed'
  BY DEF S!FilesClosed
<1> QED BY <1>2, <1>3, <1>4

LEMMA StatsInit ==
  ASSUME S!Init
  PROVE  StatsInv
<1>1. /\ v1 \in Machines
      /\ v2 = [i \in StatRadios |-> "disable"]
      /\ v3 = [i \in StatRadios |-> "ath9k"] /\ v4 = [i \in StatRadios |-> ""]
      /\ v5 = S!Idle /\ v6 = "0" /\ v7 = 0 /\ v8 = {} /\ v9 = << >> /\ v10 = {}
      /\ v11 = 0
  BY DEF S!Init
<1>2. v1 \in [StatRadios -> S!Drivers]
  BY <1>1, MachinesAssumption DEF MachinesAssumption
<1>3. v1 \in [StatRadios -> S!Drivers \cup {"gone"}]
  BY <1>2
<1>z. v7 = 0 /\ v11 = 0
  BY <1>1, Zenon
<1>a. v7 \in Nat /\ v7 <= v11 /\ v11 \in Nat
  BY <1>z, SMT
<1>b. v5.i \in StatRadios \cup {0} /\ v5.fn # "capture"
  BY <1>1 DEF S!Idle
<1>c. v2 \in [StatRadios -> {"disable", "chanscan", "background"}]
      /\ \A i \in StatRadios : v2[i] = "disable"
  BY <1>1
<1>4. S!TypeOK
  BY <1>1, <1>a, <1>b, <1>c DEF S!TypeOK
<1>5. S!TablesKnown
  BY <1>1, <1>3, <1>a DEF S!TablesKnown, S!Drivers
<1>d. << >> \in Seq({"chanscan", "background", "trigger", "disable", "refused"})
  OBVIOUS
<1>6. S!InProgram
  BY <1>1, <1>b, <1>c, <1>d, Zenon DEF S!InProgram, S!Told
<1>7. S!NoScanLeftOn
  BY <1>c, Zenon DEF S!NoScanLeftOn
<1>8. S!FilesClosed
  BY <1>a DEF S!FilesClosed
<1> QED BY <1>4, <1>5, <1>6, <1>7, <1>8 DEF StatsInv

(* Between captures a scan is on only where a failed step left it on.       *)
LEMMA IdleIsOff ==
  ASSUME StatsInv, v5 = S!Idle
  PROVE  \A i \in StatRadios : v2[i] # "disable" => i \in v10
<1>1. v5.fn # "capture"
  BY DEF S!Idle
<1> QED BY <1>1, Zenon DEF StatsInv, S!NoScanLeftOn

(* What is to be shown of a step behind which no capture runs.              *)
LEMMA IdleNext ==
  ASSUME v5' = S!Idle, v9' \in Seq(Written),
         \A i \in StatRadios : v2'[i] # "disable" => i \in v10',
         \A i \in StatRadios : v1'[i] = "gone" => v2'[i] = "disable",
         S!TypeOK' /\ S!TablesKnown' /\ S!FilesClosed'
  PROVE  StatsInv'
<1>1. v5'.fn # "capture"
  BY DEF S!Idle
<1>2. S!NoScanLeftOn'
  BY DEF S!NoScanLeftOn
<1>3. S!InProgram'
  BY <1>1 DEF S!InProgram, S!Told, Written
<1> QED BY <1>2, <1>3 DEF StatsInv

(* A call that writes nothing, between captures.                            *)
LEMMA QuietKept ==
  ASSUME StatsInv, v5 = S!Idle, v5' = v5, v1' = v1, v2' = v2, v10' = v10,
         v9' = v9 \/ v9' = << >>,
         S!TypeOK' /\ S!TablesKnown' /\ S!FilesClosed'
  PROVE  StatsInv'
<1>a. << >> \in Seq(Written)
  OBVIOUS
<1>1. v9' \in Seq(Written)
  BY <1>a, StatsTypes, Zenon
<1>2. \A i \in StatRadios : v1'[i] = "gone" => v2'[i] = "disable"
  BY StatsTypes
<1>3. \A i \in StatRadios : v2'[i] # "disable" => i \in v10'
  BY IdleIsOff
<1>4. v5' = S!Idle
  OBVIOUS
<1> QED BY <1>1, <1>2, <1>3, <1>4, IdleNext

(* The directory is that of the driver that was found.                      *)
LEMMA DebugfsInitKept ==
  ASSUME StatsInv, NEW i \in StatRadios, S!wifi_debugfs_init(i)
  PROVE  StatsInv'
<1> DEFINE d == S!wifi_get_driver_version(i)
<1>1. /\ v5 = S!Idle /\ v5' = v5 /\ v1' = v1 /\ v2' = v2 /\ v7' = v7 /\ v8' = v8
      /\ v9' = v9 /\ v10' = v10 /\ v11' = v11
      /\ v3' = IF d = "none" THEN v3 ELSE [v3 EXCEPT ![i] = d]
      /\ v4' = [v4 EXCEPT ![i] = IF S!HasRoot(i) THEN d ELSE ""]
      /\ v6' = IF S!HasRoot(i) THEN "0" ELSE "error"
  BY DEF S!wifi_debugfs_init, S!Begins, S!Quiet
<1>2. /\ d \in S!Drivers \cup {"none"}
      /\ S!HasRoot(i) => d \in S!Drivers /\ d # "none" /\ d = v1[i]
  BY StatsTypes DEF S!wifi_get_driver_version, S!HasRoot, S!Drivers
<1>3. d # "none" => d \in S!Drivers
  BY <1>2
<1> HIDE DEF d
<1>4. v3' \in [StatRadios -> S!Drivers]
  BY <1>1, <1>3, StatsTypes
<1>5. v4' \in [StatRadios -> S!Drivers \cup {""}]
  BY <1>1, <1>2, StatsTypes
<1>6. \A j \in StatRadios : /\ v4'[j] \in {"", v3'[j]}
                            /\ v4'[j] \in {"", v1[j]} \/ v1[j] = "gone"
  BY <1>1, <1>2, StatsTypes
<1>7. S!TypeOK' /\ S!TablesKnown' /\ S!FilesClosed'
  BY <1>1, <1>4, <1>5, <1>6, StatsTypes, StatsTypesNext
<1> QED BY <1>1, <1>7, QuietKept

LEMMA FwStatsKept ==
  ASSUME StatsInv, NEW i \in StatRadios, S!wifi_get_fw_stats(i)
  PROVE  StatsInv'
<1>1. /\ v5 = S!Idle /\ v5' = v5 /\ v1' = v1 /\ v2' = v2 /\ v7' = v7 /\ v8' = v8
      /\ v9' = v9 /\ v10' = v10 /\ v11' = v11 /\ v3' = v3 /\ v4' = v4
      /\ v6' \in {"0", "error"}
  BY DEF S!wifi_get_fw_stats, S!Begins, S!Quiet
<1>2. S!TypeOK' /\ S!TablesKnown' /\ S!FilesClosed'
  BY <1>1, StatsTypes, StatsTypesNext
<1> QED BY <1>1, <1>2, QuietKept

(* A file is left open only by a search.                                    *)
LEMMA SearchKept ==
  ASSUME StatsInv, NEW i \in StatRadios, S!wifi_debugfs_search(i)
  PROVE  StatsInv'
<1>1. /\ v5 = S!Idle /\ v5' = v5 /\ v1' = v1 /\ v2' = v2 /\ v8' = v8
      /\ v9' = v9 /\ v10' = v10 /\ v3' = v3 /\ v4' = v4
      /\ v6' \in {"error", "crash"}
      /\ v11' = v11 + 1 /\ (v7' = v7 \/ v7' = v7 + 1)
  BY DEF S!wifi_debugfs_search, S!Begins
<1>2. v7 \in Nat /\ v11 \in Nat /\ v7 <= v11
  BY StatsTypes
<1>3. v7' \in Nat /\ v11' \in Nat /\ v7' <= v11'
  BY <1>1, <1>2
<1>4. S!TypeOK' /\ S!TablesKnown' /\ S!FilesClosed'
  BY <1>1, <1>3, StatsTypes, StatsTypesNext
<1> QED BY <1>1, <1>4, QuietKept

(* A capture begins with the first step and no word written.                *)
LEMMA CaptureKept ==
  ASSUME StatsInv, NEW i \in StatRadios, S!wifi_capture_spectral_scan(i)
  PROVE  StatsInv'
<1>1. /\ v5 = S!Idle /\ v1' = v1 /\ v2' = v2 /\ v7' = v7 /\ v8' = v8
      /\ v10' = v10 /\ v11' = v11 /\ v3' = v3 /\ v4' = v4 /\ v9' = << >>
      /\ \/ v5' = S!Idle /\ v6' = "error"
         \/ /\ v5' = [fn |-> "capture", i |-> i, at |-> 1] /\ v6' = v6
            /\ S!Program(v3[i]) # << >>
  BY DEF S!wifi_capture_spectral_scan, S!Begins, S!Return
<1>2. CASE v5' = S!Idle /\ v6' = "error"
  <2>1. S!TypeOK' /\ S!TablesKnown' /\ S!FilesClosed'
    BY <1>1, <1>2, StatsTypes, StatsTypesNext
  <2> QED BY <1>1, <1>2, <2>1, QuietKept
<1>3. CASE /\ v5' = [fn |-> "capture", i |-> i, at |-> 1] /\ v6' = v6
           /\ S!Program(v3[i]) # << >>
  <2>1. v3[i] \in S!Drivers
    BY StatsTypes
  <2>2. Step(v3[i], 1) /\ S!Words(v3[i])[1] = << >>
    BY <1>3, <2>1, StepFirst
  <2>3. \E j \in StatRadios, k \in 1 .. 5 :
          v5' = [fn |-> "capture", i |-> j, at |-> k] /\ Step(v3'[j], k)
    BY <1>1, <1>3, <2>2
  <2>4. S!TypeOK' /\ S!TablesKnown' /\ S!FilesClosed'
    BY <1>1, <1>3, <2>3, StatsTypes, StatsTypesNext
  <2>5. v5'.i = i /\ v5'.at = 1
    BY <1>3
  <2>6. S!NoScanLeftOn'
    BY <1>1, IdleIsOff DEF S!NoScanLeftOn
  <2>7. S!Given(<< >>, << >>) /\ << >> \in Seq(Written)
    BY DEF S!Given
  <2>8. S!InProgram'
    <3>1. v9' \in Seq(Written)
      BY <1>1, <2>7, Zenon
    <3>2. \A j \in StatRadios : v1'[j] = "gone" => v2'[j] = "disable"
      BY <1>1, StatsTypes
    <3>3. ASSUME NEW j \in StatRadios, v5'.i = j
          PROVE  S!Given(v9', S!Words(v3'[j])[v5'.at])
      <4>1. S!Words(v3'[j])[v5'.at] = << >> /\ v9' = << >>
        BY <1>1, <2>2, <2>5, <3>3, Zenon
      <4> QED BY <2>7, <4>1, Zenon
    <3> QED BY <3>1, <3>2, <3>3, Zenon DEF S!InProgram, S!Told, Written
  <2> QED BY <2>4, <2>6, <2>8 DEF StatsInv
<1> QED BY <1>1, <1>2, <1>3

(* The radio and the step of a capture that runs.                           *)
LEMMA CaptureAt ==
  ASSUME StatsInv, v5.fn = "capture"
  PROVE  /\ v5.i \in StatRadios /\ v5.at \in 1 .. 5 /\ Step(v3[v5.i], v5.at)
         /\ v5 = [fn |-> "capture", i |-> v5.i, at |-> v5.at]
<1>1. v5 # S!Idle
  BY DEF S!Idle
<1>2. PICK i \in StatRadios, k \in 1 .. 5 :
        v5 = [fn |-> "capture", i |-> i, at |-> k] /\ Step(v3[i], k)
  BY <1>1, StatsTypes
<1>3. v5.i = i /\ v5.at = k
  BY <1>2
<1> QED BY <1>2, <1>3

(* Which scans a capture finds on, and what it has written.                 *)
LEMMA CaptureFinds ==
  ASSUME StatsInv, v5.fn = "capture"
  PROVE  /\ \A j \in StatRadios :
              v2[j] # "disable" /\ j \notin v10 =>
                /\ j = v5.i /\ v4[j] # "" /\ v1[j] # "gone"
                /\ v5.at \in 2 .. Len(S!Program(v3[j]))
         /\ v4[v5.i] # "" /\ v1[v5.i] # "gone" =>
              S!Given(v9, S!Words(v3[v5.i])[v5.at])
  BY CaptureAt DEF StatsInv, S!NoScanLeftOn, S!InProgram, S!Told

(* What is to be shown of a capture that goes on.                           *)
LEMMA CaptureNext ==
  ASSUME StatsInv, v5.fn = "capture", v5' = [v5 EXCEPT !.at = v5.at + 1],
         v5.at <= Len(S!Program(v3[v5.i])),
         v1' = v1, v3' = v3, v4' = v4, v6' = v6, v7' = v7, v11' = v11,
         v2' \in [StatRadios -> {"disable", "chanscan", "background"}],
         v8' \subseteq {"spectral_scan_ctl"}, v9' \in Seq(Written),
         v10' \subseteq StatRadios,
         \A j \in StatRadios :
           /\ v2'[j] # "disable" => \/ j \in v10'
                                   \/ /\ j = v5.i /\ v4[j] # ""
                                      /\ v5.at + 1 \in 2 .. Len(S!Program(v3[j]))
           /\ v1[j] = "gone" => v2'[j] = "disable",
         v4[v5.i] # "" /\ v1[v5.i] # "gone" =>
           S!Given(v9', S!Words(v3[v5.i])[v5.at + 1])
  PROVE  StatsInv'
<1>1. /\ v5.i \in StatRadios /\ v5.at \in 1 .. 5
      /\ v5 = [fn |-> "capture", i |-> v5.i, at |-> v5.at]
      /\ Step(v3[v5.i], v5.at)
  BY CaptureAt
<1>2. v5' = [fn |-> "capture", i |-> v5.i, at |-> v5.at + 1]
  BY <1>1
<1>3. Step(v3[v5.i], v5.at + 1)
  BY <1>1, StepOn
<1>4. v5.at + 1 \in 1 .. 5
  BY <1>3 DEF Step
<1>5. v5'.fn = "capture" /\ v5'.i = v5.i /\ v5'.at = v5.at + 1
  BY <1>2
<1>a. /\ v1' \in [StatRadios -> S!Drivers \cup {"gone"}]
      /\ v3' \in [StatRadios -> S!Drivers] /\ v4' \in [StatRadios -> S!Drivers \cup {""}]
      /\ v6' \in {"0", "error", "length", "crash"}
      /\ v7' \in Nat /\ v11' \in Nat /\ v7' <= v11'
      /\ \A i \in StatRadios : /\ v4'[i] \in {"", v3'[i]}
                               /\ v4'[i] \in {"", v1'[i]} \/ v1'[i] = "gone"
  BY StatsTypes, Zenon
<1>b. \E i \in StatRadios, k \in 1 .. 5 :
        v5' = [fn |-> "capture", i |-> i, at |-> k] /\ Step(v3'[i], k)
  BY <1>1, <1>2, <1>3, <1>4, Zenon
<1>6. S!TypeOK' /\ S!TablesKnown' /\ S!FilesClosed'
  BY <1>a, <1>b, StatsTypesNext, Zenon
<1>7. S!NoScanLeftOn'
  <2> SUFFICES ASSUME NEW j \in StatRadios, v2'[j] # "disable", j \notin v10'
               PROVE  /\ v5'.fn = "capture" /\ v5'.i = j /\ v4'[j] # ""
                      /\ v5'.at \in 2 .. Len(S!Program(v3'[j]))
    BY Zenon DEF S!NoScanLeftOn
  <2>1. j = v5.i /\ v4[j] # "" /\ v5.at + 1 \in 2 .. Len(S!Program(v3[j]))
    BY Zenon
  <2> QED BY <1>5, <2>1, Zenon
<1>8. S!InProgram'
  BY <1>5 DEF S!InProgram, S!Told, Written
<1> QED BY <1>6, <1>7, <1>8 DEF StatsInv

(* What is to be shown of a capture that ends: what is on is left on.       *)
LEMMA CaptureEnds ==
  ASSUME StatsInv, v5.fn = "capture", v5' = S!Idle, v6' \in {"error", "length"},
         v1' = v1, v2' = v2, v3' = v3, v4' = v4, v7' = v7, v8' = v8, v9' = v9,
         v11' = v11, v10' \subseteq StatRadios,
         \A j \in StatRadios : v2[j] # "disable" => j \in v10'
  PROVE  StatsInv'
<1>1. S!TypeOK' /\ S!TablesKnown' /\ S!FilesClosed'
  BY StatsTypes, StatsTypesNext
<1>2. /\ \A i \in StatRadios : v1'[i] = "gone" => v2'[i] = "disable"
      /\ v9' \in Seq(Written)
  BY StatsTypes
<1> QED BY <1>1, <1>2, IdleNext

(* A step of the capture.  Behind the first word the scan may be on, until  *)
(* "disable" is taken, refused or cannot be written.                        *)
LEMMA CaptureStepKept ==
  ASSUME StatsInv, S!CaptureStep
  PROVE  StatsInv'
<1> DEFINE i == v5.i
           v == v3[v5.i]
           w == S!Program(v3[v5.i])[v5.at]
<1>1. /\ v5.fn = "capture" /\ v5.at <= Len(S!Program(v))
      /\ \/ /\ w = "SCAN" /\ S!On /\ v2' = v2 /\ v8' = v8 /\ v9' = v9
            /\ v10' = v10
         \/ w # "SCAN" /\ S!On /\ S!wifi_debugfs_write(i, w)
         \/ w # "SCAN" /\ S!OpenFails /\ S!Return("error")
      /\ v1' = v1 /\ v3' = v3 /\ v4' = v4 /\ v7' = v7 /\ v11' = v11
  BY DEF S!CaptureStep
<1>2. /\ i \in StatRadios /\ Step(v, v5.at) /\ v \in {"ath9k", "ath10k"}
      /\ v1[i] \in S!Drivers \cup {"gone"} /\ v4[i] \in {"", v}
      /\ v4[i] \in {"", v1[i]} \/ v1[i] = "gone"
      /\ v5.at \in 1 .. 5
  BY <1>1, CaptureAt, StatsTypes DEF Step
<1>3. S!Readable(i, "spectral_scan_ctl") =>
        v4[i] = v1[i] /\ v4[i] # "" /\ v1[i] # "gone"
  BY DEF S!Readable, S!Has
<1>4. CASE w = "SCAN" /\ S!On /\ v2' = v2 /\ v8' = v8 /\ v9' = v9 /\ v10' = v10
  <2>1. v5' = [v5 EXCEPT !.at = v5.at + 1] /\ v6' = v6
    BY <1>4 DEF S!On
  <2>2. /\ v5.at + 1 \in 2 .. Len(S!Program(v))
        /\ S!Words(v)[v5.at + 1] = S!Words(v)[v5.at]
    BY <1>1, <1>2, <1>4, StepOn
  <2> QED BY <1>1, <1>4, <2>1, <2>2, StatsTypes, CaptureFinds, CaptureNext
<1>5. CASE w # "SCAN" /\ S!On /\ S!wifi_debugfs_write(i, w)
  <2>1. v5' = [v5 EXCEPT !.at = v5.at + 1] /\ v6' = v6
    BY <1>5 DEF S!On
  <2>2. /\ w \in {"chanscan", "background", "trigger", "disable"}
        /\ w # "disable" => v5.at + 1 \in 2 .. Len(S!Program(v))
        /\ S!Words(v)[v5.at + 1] = Append(S!Words(v)[v5.at], w)
    <3>1. Step(v, v5.at) /\ v5.at <= Len(S!Program(v)) /\ w # "SCAN"
      BY <1>1, <1>2, <1>5
    <3> QED BY <3>1, StepWrites
  <2>3. \A x \in {w, "refused"} :
          v4[i] # "" /\ v1[i] # "gone" =>
            /\ Append(v9, x) \in Seq(Written)
            /\ S!Given(Append(v9, x), S!Words(v)[v5.at + 1])
    <3> SUFFICES ASSUME NEW x \in {w, "refused"}, v4[i] # "", v1[i] # "gone"
                 PROVE  /\ Append(v9, x) \in Seq(Written)
                        /\ S!Given(Append(v9, x), S!Words(v)[v5.at + 1])
      OBVIOUS
    <3>1. S!Words(v)[v5.at] \in Seq(Written) /\ v9 \in Seq(Written)
      BY <1>2, StepWords, StatsTypes
    <3>2. S!Given(v9, S!Words(v)[v5.at])
      BY <1>1, CaptureFinds
    <3>3. w \in Written /\ x \in Written /\ (x = w \/ x = "refused")
      BY <2>2 DEF Written
    <3> HIDE DEF w, v
    <3> QED BY <2>2, <3>1, <3>2, <3>3, GivenAppend
  <2> HIDE DEF w
  <2>4. CASE v4[i] = "" /\ v8' = v8 \cup {"spectral_scan_ctl"} /\ v2' = v2
             /\ v9' = v9 /\ v10' = v10
    <3>1. \A j \in StatRadios :
            /\ v2'[j] # "disable" => j \in v10'
            /\ v1[j] = "gone" => v2'[j] = "disable"
      BY <1>1, <2>4, CaptureFinds, StatsTypes
    <3> QED BY <1>1, <2>1, <2>4, <3>1, StatsTypes, CaptureNext
  <2>5. CASE /\ S!Readable(i, "spectral_scan_ctl")
             /\ v2' = [v2 EXCEPT ![i] = IF w = "trigger" THEN v2[i] ELSE w]
             /\ v10' = IF w = "disable" THEN v10 \ {i} ELSE v10
             /\ v9' = Append(v9, w) /\ v8' = v8
    <3>1. v2' \in [StatRadios -> {"disable", "chanscan", "background"}]
      BY <2>5, <2>2, <1>2, StatsTypes
    <3>2. v2'[i] = (IF w = "trigger" THEN v2[i] ELSE w)
          /\ \A j \in StatRadios : j # i => v2'[j] = v2[j]
      BY <2>5, <1>2, StatsTypes
    <3>3. v8' \subseteq {"spectral_scan_ctl"} /\ v10' \subseteq StatRadios
      BY <2>5, StatsTypes
    <3>4. /\ v9' \in Seq(Written)
          /\ v4[v5.i] # "" /\ v1[v5.i] # "gone" =>
               S!Given(v9', S!Words(v3[v5.i])[v5.at + 1])
      BY <1>3, <2>3, <2>5
    <3>5. ASSUME NEW j \in StatRadios
          PROVE  /\ v2'[j] # "disable" => \/ j \in v10'
                                          \/ /\ j = v5.i /\ v4[j] # ""
                                             /\ v5.at + 1 \in 2 .. Len(S!Program(v3[j]))
                 /\ v1[j] = "gone" => v2'[j] = "disable"
      <4>1. CASE j = i
        BY <1>3, <2>2, <2>5, <3>2, <4>1, Zenon
      <4>2. CASE j # i
        <5>1. v2'[j] = v2[j] /\ (j \in v10 => j \in v10')
          BY <2>5, <3>2, <4>2
        <5> QED BY <1>1, <4>2, <5>1, CaptureFinds, StatsTypes
      <4> QED BY <4>1, <4>2
    <3> QED BY <1>1, <2>1, <3>1, <3>3, <3>4, <3>5, CaptureNext
  <2>6. CASE /\ S!Readable(i, "spectral_scan_ctl")
             /\ v10' = IF w = "disable" THEN v10 \cup {i} ELSE v10
             /\ v9' = Append(v9, "refused") /\ v2' = v2 /\ v8' = v8
    <3>1. v10' \subseteq StatRadios
      BY <1>2, <2>6, StatsTypes
    <3>2. /\ v9' \in Seq(Written)
          /\ v4[v5.i] # "" /\ v1[v5.i] # "gone" =>
               S!Given(v9', S!Words(v3[v5.i])[v5.at + 1])
      BY <1>3, <2>3, <2>6
    <3>3. ASSUME NEW j \in StatRadios
          PROVE  /\ v2'[j] # "disable" => \/ j \in v10'
                                          \/ /\ j = v5.i /\ v4[j] # ""
                                             /\ v5.at + 1 \in 2 .. Len(S!Program(v3[j]))
                 /\ v1[j] = "gone" => v2'[j] = "disable"
      <4>1. j \in v10 => j \in v10'
        BY <2>6
      <4>2. CASE w = "disable"
        BY <1>1, <2>6, <4>1, <4>2, CaptureFinds, StatsTypes
      <4>3. CASE w # "disable"
        BY <1>1, <2>2, <2>6, <4>1, <4>3, CaptureFinds, StatsTypes
      <4> QED BY <4>2, <4>3
    <3> QED BY <1>1, <2>1, <2>6, <3>1, <3>2, <3>3, StatsTypes, CaptureNext
  <2> QED BY <1>5, <2>4, <2>5, <2>6 DEF S!wifi_debugfs_write
<1>6. CASE w # "SCAN" /\ S!OpenFails /\ S!Return("error")
  <2>1. /\ v5' = S!Idle /\ v6' = "error" /\ v2' = v2 /\ v8' = v8 /\ v9' = v9
        /\ v10' = IF S!Writable(i, "spectral_scan_ctl") /\ v5.at > 1
                  THEN v10 \cup {i} ELSE v10
    BY <1>6 DEF S!OpenFails, S!Return
  <2>2. v10' \subseteq StatRadios
    BY <1>2, <2>1, StatsTypes
  <2>3. ~S!Writable(i, "spectral_scan_ctl") => v1[i] = "gone"
    BY <1>2 DEF S!Writable, S!Readable, S!Has
  <2>4. ASSUME NEW j \in StatRadios, v2[j] # "disable", j \notin v10
        PROVE  j \in v10'
    <3>1. j = i /\ v1[i] # "gone" /\ v5.at \in 2 .. Len(S!Program(v3[j]))
      BY <1>1, <2>4, CaptureFinds
    <3>a. v5.at \in 2 .. Len(S!Program(v3[j])) /\ v5.at \in 1 .. 5
      BY <1>2, <3>1, Zenon
    <3>2. v5.at > 1
      BY <3>a, SMT
    <3> QED BY <2>1, <2>3, <3>1, <3>2
  <2>5. \A j \in StatRadios : v2[j] # "disable" => j \in v10'
    BY <2>1, <2>4
  <2> QED BY <1>1, <2>1, <2>2, <2>5, CaptureEnds
<1> QED BY <1>1, <1>4, <1>5, <1>6

(* The end of a capture: all its words are written, and nothing is on that  *)
(* was not left on.                                                         *)
LEMMA CopyKept ==
  ASSUME StatsInv, S!Copy
  PROVE  StatsInv' /\ S!CaptureComplete
<1> DEFINE v == v3[v5.i]
<1>1. /\ v5.fn = "capture" /\ v5.at > Len(S!Program(v))
      /\ v5' = S!Idle /\ v6' = "length"
      /\ v1' = v1 /\ v2' = v2 /\ v3' = v3 /\ v4' = v4 /\ v7' = v7 /\ v8' = v8
      /\ v9' = v9 /\ v10' = v10 /\ v11' = v11
  BY DEF S!Copy, S!Return, S!Quiet
<1>2. /\ v5.i \in StatRadios /\ Step(v, v5.at) /\ v5.at \in 1 .. 5
      /\ v \in {"ath9k", "ath10k"} /\ v4[v5.i] \in {"", v}
      /\ v4[v5.i] \in {"", v1[v5.i]} \/ v1[v5.i] = "gone"
  BY <1>1, CaptureAt, StatsTypes DEF Step
<1>3. ~(v5.at <= Len(S!Program(v))) /\ v5.at \notin 2 .. Len(S!Program(v))
  <2>1. Len(S!Program(v)) = 3 \/ Len(S!Program(v)) = 4
    BY <1>2, Program9, Program10, Zenon
  <2>2. v5.at > Len(S!Program(v)) /\ v5.at \in 1 .. 5
    BY <1>1, <1>2, Zenon
  <2> HIDE DEF v
  <2> QED BY <2>1, <2>2, SMT
<1>4. /\ v = "ath9k" => S!Words(v)[v5.at] = <<"chanscan", "disable">>
      /\ v = "ath10k" => S!Words(v)[v5.at] = <<"background", "trigger", "disable">>
  BY <1>2, <1>3, StepLast
<1>5. \A j \in StatRadios : v2[j] # "disable" => j \in v10'
  BY <1>1, <1>3, CaptureFinds
<1>6. StatsInv'
  BY <1>1, <1>5, StatsTypes, CaptureEnds
<1>7. v4[v5.i] # "" /\ v1[v5.i] # "gone" =>
        v1[v5.i] = v /\ S!Given(v9, S!Words(v)[v5.at])
  BY <1>1, <1>2, CaptureFinds
<1>8. S!CaptureComplete
  <2> SUFFICES ASSUME v5.i \in StatRadios, v4[v5.i] # "", v1[v5.i] # "gone"
               PROVE  S!Given(v9, CASE v1[v5.i] = "ath9k"  -> <<"chanscan", "disable">>
                                    [] v1[v5.i] = "ath10k" ->
                                         <<"background", "trigger", "disable">>)
    BY DEF S!CaptureComplete
  <2>1. v1[v5.i] = v /\ S!Given(v9, S!Words(v)[v5.at])
    BY <1>7
  <2> HIDE DEF v
  <2>2. S!Words(v)[v5.at] = CASE v1[v5.i] = "ath9k"  -> <<"chanscan", "disable">>
                              [] v1[v5.i] = "ath10k" ->
                                   <<"background", "trigger", "disable">>
    BY <1>2, <1>4, <2>1
  <2> QED BY <2>1, <2>2
<1> QED BY <1>6, <1>8

(* A card takes its scan along.                                             *)
LEMMA UnplugKept ==
  ASSUME StatsInv, NEW i \in StatRadios, S!Unplug(i)
  PROVE  StatsInv'
<1>1. /\ v1' = [v1 EXCEPT ![i] = "gone"] /\ v2' = [v2 EXCEPT ![i] = "disable"]
      /\ v3' = v3 /\ v4' = v4 /\ v5' = v5 /\ v6' = v6 /\ v7' = v7 /\ v8' = v8
      /\ v9' = v9 /\ v10' = v10 \ {i} /\ v11' = v11
  BY DEF S!Unplug, S!halVars
<1>2. /\ v1' \in [StatRadios -> S!Drivers \cup {"gone"}]
      /\ v2' \in [StatRadios -> {"disable", "chanscan", "background"}]
      /\ v10' \subseteq StatRadios
  BY <1>1, StatsTypes
<1>3. /\ v1'[i] = "gone" /\ v2'[i] = "disable"
      /\ \A j \in StatRadios : j # i => v1'[j] = v1[j] /\ v2'[j] = v2[j]
  BY <1>1, StatsTypes
<1>a. /\ v3' \in [StatRadios -> S!Drivers] /\ v4' \in [StatRadios -> S!Drivers \cup {""}]
      /\ v6' \in {"0", "error", "length", "crash"} /\ v8' \subseteq {"spectral_scan_ctl"}
      /\ v7' \in Nat /\ v11' \in Nat /\ v7' <= v11'
      /\ \/ v5' = S!Idle
         \/ \E j \in StatRadios, k \in 1 .. 5 :
              v5' = [fn |-> "capture", i |-> j, at |-> k] /\ Step(v3'[j], k)
  BY <1>1, StatsTypes, Zenon
<1>b. ASSUME NEW j \in StatRadios
      PROVE  /\ v4'[j] \in {"", v3'[j]}
             /\ v4'[j] \in {"", v1'[j]} \/ v1'[j] = "gone"
  <2>1. /\ v4[j] \in {"", v3[j]}
        /\ v4[j] \in {"", v1[j]} \/ v1[j] = "gone"
    BY StatsTypes, Zenon
  <2> QED BY <1>1, <1>3, <2>1, Zenon
<1>4. S!TypeOK' /\ S!TablesKnown' /\ S!FilesClosed'
  BY <1>2, <1>a, <1>b, StatsTypesNext, Zenon
<1>5. S!InProgram /\ S!NoScanLeftOn
  BY DEF StatsInv
<1>6. S!InProgram'
  BY <1>1, <1>3, <1>5 DEF S!InProgram, S!Told
<1>7. S!NoScanLeftOn'
  BY <1>1, <1>3, <1>5 DEF S!NoScanLeftOn
<1> QED BY <1>4, <1>6, <1>7 DEF StatsInv

(* Only Copy ends a capture with the length of its command.                 *)
LEMMA StatsKept ==
  ASSUME StatsInv, S!Next
  PROVE  StatsInv' /\ S!CaptureComplete
<1>1. CASE S!Copy
  BY <1>1, CopyKept
<1>2. CASE S!CaptureStep
  <2>1. StatsInv'
    BY <1>2, CaptureStepKept
  <2>2. v5' = S!Idle => v6' = "error"
    <3>1. CASE S!On
      <4>1. v5.fn = "capture"
        BY <1>2 DEF S!CaptureStep
      <4>2. v5 = [fn |-> "capture", i |-> v5.i, at |-> v5.at]
        BY <4>1, CaptureAt
      <4>3. v5' = [fn |-> "capture", i |-> v5.i, at |-> v5.at + 1]
        BY <3>1, <4>2 DEF S!On
      <4> QED BY <4>3 DEF S!Idle
    <3>2. CASE S!Return("error")
      BY <3>2 DEF S!Return
    <3> QED BY <1>2, <3>1, <3>2 DEF S!CaptureStep
  <2> QED BY <2>1, <2>2 DEF S!CaptureComplete
<1>3. ASSUME NEW i \in StatRadios,
             \/ S!wifi_debugfs_init(i) \/ S!wifi_get_fw_stats(i)
             \/ S!wifi_debugfs_search(i) \/ S!wifi_capture_spectral_scan(i)
      PROVE  StatsInv' /\ S!CaptureComplete
  <2>1. StatsInv'
    BY <1>3, DebugfsInitKept, FwStatsKept, SearchKept, CaptureKept
  <2>2. v5 = S!Idle
    BY <1>3, Zenon DEF S!wifi_debugfs_init, S!wifi_get_fw_stats,
         S!wifi_debugfs_search, S!wifi_capture_spectral_scan, S!Begins
  <2>3. v5.fn # "capture"
    BY <2>2 DEF S!Idle
  <2> QED BY <2>1, <2>3 DEF S!CaptureComplete
<1>4. ASSUME NEW i \in StatRadios, S!Unplug(i)
      PROVE  StatsInv' /\ S!CaptureComplete
  <2>1. StatsInv'
    BY <1>4, UnplugKept
  <2>2. v5' = v5
    BY <1>4 DEF S!Unplug, S!halVars
  <2>3. v5' = S!Idle => v5.fn # "capture"
    BY <2>2 DEF S!Idle
  <2> QED BY <2>1, <2>3, Zenon DEF S!CaptureComplete
<1> QED BY <1>1, <1>2, <1>3, <1>4 DEF S!Next, S!wifi_hal_capture_spectral_scan

(* ScanSwitchedOff for every set of radios with their drivers and however   *)
(* many calls are made, writes refused and opens failed: between captures a *)
(* scan is on only where "disable" was refused or a file could not be       *)
(* opened behind the first word, and a capture that comes to its end has    *)
(* written its whole program in order for a driver that stays, though cards *)
(* go in the middle of it (wifi_capture_spectral_scan, wifi_debugfs_open).  *)
THEOREM ScanIsSwitchedOff == Spec => ScanSwitchedOff
<1> DEFINE I == part = "stats" => StatsInv
<1>1. Init => I
  <2> SUFFICES ASSUME Init, part = "stats" PROVE StatsInv
    OBVIOUS
  <2>1. S!Init
    BY DEF Init
  <2> QED BY <2>1, StatsInit
<1>2. I /\ [Next]_vars => I' /\ [part = "stats" => S!CaptureComplete]_vars
  <2> SUFFICES ASSUME I, [Next]_vars
               PROVE  I' /\ [part = "stats" => S!CaptureComplete]_vars
    OBVIOUS
  <2>1. CASE UNCHANGED vars
    <3>1. /\ v1' = v1 /\ v2' = v2 /\ v3' = v3 /\ v4' = v4 /\ v5' = v5 /\ v6' = v6
          /\ v7' = v7 /\ v8' = v8 /\ v9' = v9 /\ v10' = v10 /\ v11' = v11
          /\ part' = part
      BY <2>1 DEF vars
    <3>2. StatsInv => StatsInv'
      BY <3>1, Zenon DEF StatsInv, S!TypeOK, S!TablesKnown, S!NoScanLeftOn,
           S!InProgram, S!Told, S!FilesClosed
    <3> QED BY <2>1, <3>1, <3>2
  <2>2. CASE Next /\ part = "stats"
    <3>1. S!Next /\ part' = part
      BY <2>2 DEF Next
    <3> QED BY <2>2, <3>1, StatsKept
  <2>3. CASE Next /\ part # "stats"
    <3>1. part' = part
      BY <2>3 DEF Next
    <3> QED BY <2>3, <3>1
  <2> QED BY <2>1, <2>2, <2>3
<1>3. I => (part = "stats" => S!TypeOK /\ S!NoScanLeftOn /\ S!FilesClosed)
  BY DEF StatsInv
<1> QED BY <1>1, <1>2, <1>3, PTL DEF Spec, ScanSwitchedOff

-----------------------------------------------------------------------------
(***************************************************************************)
(* The daemon's attach and dettach (HalLifetime).                          *)
(***************************************************************************)
Values4 == {"null", "live", "gone", "junk"}

LEMMA HeapIs ==
  ASSUME NEW h \in D!Heaps
  PROVE  /\ h = [ptr |-> h.ptr, lost |-> h.lost, twice |-> h.twice]
         /\ h.ptr \in [D!Objects -> Values4] /\ h.lost \in [D!Objects -> Nat]
         /\ h.twice \subseteq D!Objects
  BY DEF D!Heaps, Values4

LEMMA HeapOf ==
  ASSUME NEW q \in [D!Objects -> Values4], NEW l \in [D!Objects -> Nat],
         NEW t \in SUBSET D!Objects
  PROVE  [ptr |-> q, lost |-> l, twice |-> t] \in D!Heaps
  BY DEF D!Heaps, Values4

(* What each operation of the heap does to the pointers, the losses and the *)
(* releases.                                                                *)
LEMMA TakeIs ==
  ASSUME NEW h \in D!Heaps, NEW k \in D!Objects
  PROVE  /\ D!Take(h, k) \in D!Heaps /\ D!Take(h, k).lost = h.lost
         /\ D!Take(h, k).twice = h.twice /\ D!Take(h, k).ptr[k] = "live"
         /\ \A j \in D!Objects : j # k => D!Take(h, k).ptr[j] = h.ptr[j]
<1> DEFINE q == [h.ptr EXCEPT ![k] = "live"]
<1>1. D!Take(h, k) = [ptr |-> q, lost |-> h.lost, twice |-> h.twice]
  BY HeapIs DEF D!Take
<1>2. /\ q \in [D!Objects -> Values4] /\ q[k] = "live"
      /\ \A j \in D!Objects : j # k => q[j] = h.ptr[j]
  BY HeapIs DEF Values4
<1> HIDE DEF q
<1>3. D!Take(h, k) \in D!Heaps
  BY <1>1, <1>2, HeapIs, HeapOf
<1> QED BY <1>1, <1>2, <1>3

LEMMA PutIs ==
  ASSUME NEW h \in D!Heaps, NEW k \in D!Objects
  PROVE  /\ D!Put(h, k) \in D!Heaps /\ D!Put(h, k).lost = h.lost
         /\ D!Put(h, k).twice =
              IF h.ptr[k] = "gone" THEN h.twice \cup {k} ELSE h.twice
         /\ D!Put(h, k).ptr[k] = IF h.ptr[k] = "live" THEN "gone" ELSE h.ptr[k]
         /\ \A j \in D!Objects : j # k => D!Put(h, k).ptr[j] = h.ptr[j]
<1>1. CASE h.ptr[k] = "live"
  <2> DEFINE q == [h.ptr EXCEPT ![k] = "gone"]
  <2>1. D!Put(h, k) = [ptr |-> q, lost |-> h.lost, twice |-> h.twice]
    BY <1>1, HeapIs DEF D!Put
  <2>2. /\ q \in [D!Objects -> Values4] /\ q[k] = "gone"
        /\ \A j \in D!Objects : j # k => q[j] = h.ptr[j]
    BY HeapIs DEF Values4
  <2> HIDE DEF q
  <2>3. D!Put(h, k) \in D!Heaps
    BY <2>1, <2>2, HeapIs, HeapOf
  <2> QED BY <1>1, <2>1, <2>2, <2>3
<1>2. CASE h.ptr[k] = "gone"
  <2> DEFINE t == h.twice \cup {k}
  <2>1. D!Put(h, k) = [ptr |-> h.ptr, lost |-> h.lost, twice |-> t]
    <3>1. D!Put(h, k) = [h EXCEPT !.twice = t]
      BY <1>2 DEF D!Put
    <3> HIDE DEF t
    <3> QED BY <3>1, HeapIs
  <2>2. t \in SUBSET D!Objects
    BY HeapIs
  <2>3. D!Put(h, k) \in D!Heaps
    BY <2>1, <2>2, HeapIs, HeapOf
  <2> QED BY <1>2, <2>1, <2>3
<1>3. CASE h.ptr[k] # "live" /\ h.ptr[k] # "gone"
  <2>1. D!Put(h, k) = h
    BY <1>3 DEF D!Put
  <2> QED BY <1>3, <2>1
<1> QED BY <1>1, <1>2, <1>3

(* What is not gone is put without harm.                                    *)
LEMMA PutOnce ==
  ASSUME NEW h \in D!Heaps, NEW k \in D!Objects, h.ptr[k] # "gone"
  PROVE  /\ D!Put(h, k) \in D!Heaps /\ D!Put(h, k).lost = h.lost
         /\ D!Put(h, k).twice = h.twice /\ D!Put(h, k).ptr[k] # "live"
         /\ h.ptr[k] = "null" => D!Put(h, k).ptr[k] = "null"
         /\ \A j \in D!Objects : j # k => D!Put(h, k).ptr[j] = h.ptr[j]
<1>1. D!Put(h, k).ptr[k] = IF h.ptr[k] = "live" THEN "gone" ELSE h.ptr[k]
  BY PutIs
<1>2. D!Put(h, k).ptr[k] # "live" /\ (h.ptr[k] = "null" => D!Put(h, k).ptr[k] = "null")
  BY <1>1
<1> QED BY <1>2, PutIs

LEMMA FillIs ==
  ASSUME NEW h \in D!Heaps, NEW O \in SUBSET D!Objects, NEW v \in Values4
  PROVE  /\ D!Fill(h, O, v) \in D!Heaps /\ D!Fill(h, O, v).lost = h.lost
         /\ D!Fill(h, O, v).twice = h.twice
         /\ \A j \in D!Objects :
              D!Fill(h, O, v).ptr[j] = IF j \in O THEN v ELSE h.ptr[j]
<1> DEFINE q == [j \in D!Objects |-> IF j \in O THEN v ELSE h.ptr[j]]
<1>1. D!Fill(h, O, v) = [ptr |-> q, lost |-> h.lost, twice |-> h.twice]
  BY HeapIs DEF D!Fill
<1>2. /\ q \in [D!Objects -> Values4]
      /\ \A j \in D!Objects : q[j] = IF j \in O THEN v ELSE h.ptr[j]
  BY HeapIs
<1> HIDE DEF q
<1>3. D!Fill(h, O, v) \in D!Heaps
  BY <1>1, <1>2, HeapIs, HeapOf
<1> QED BY <1>1, <1>2, <1>3

LEMMA DropIs ==
  ASSUME NEW h \in D!Heaps, NEW O \in SUBSET D!Objects
  PROVE  /\ D!Drop(h, O) \in D!Heaps /\ D!Drop(h, O).twice = h.twice
         /\ \A j \in D!Objects :
              /\ D!Drop(h, O).ptr[j] = IF j \in O THEN "null" ELSE h.ptr[j]
              /\ D!Drop(h, O).lost[j] = IF j \in O /\ h.ptr[j] = "live"
                                        THEN h.lost[j] + 1 ELSE h.lost[j]
<1> DEFINE l == [j \in D!Objects |-> IF j \in O /\ h.ptr[j] = "live"
                                     THEN h.lost[j] + 1 ELSE h.lost[j]]
           g == D!Fill(h, O, "null")
<1>1. "null" \in Values4
  BY DEF Values4
<1>2. /\ g \in D!Heaps /\ g.lost = h.lost /\ g.twice = h.twice
      /\ \A j \in D!Objects : g.ptr[j] = IF j \in O THEN "null" ELSE h.ptr[j]
  <2>1. /\ D!Fill(h, O, "null") \in D!Heaps /\ D!Fill(h, O, "null").lost = h.lost
        /\ D!Fill(h, O, "null").twice = h.twice
    BY <1>1, FillIs
  <2>2. \A j \in D!Objects :
          D!Fill(h, O, "null").ptr[j] = IF j \in O THEN "null" ELSE h.ptr[j]
    BY <1>1, FillIs
  <2> QED BY <2>1, <2>2
<1>3. D!Drop(h, O) = [g EXCEPT !.lost = l]
  BY DEF D!Drop
<1>4. /\ l \in [D!Objects -> Nat]
      /\ \A j \in D!Objects : l[j] = IF j \in O /\ h.ptr[j] = "live"
                                     THEN h.lost[j] + 1 ELSE h.lost[j]
  BY HeapIs
<1> HIDE DEF l, g
<1>5. D!Drop(h, O) = [ptr |-> g.ptr, lost |-> l, twice |-> g.twice]
  BY <1>2, <1>3, HeapIs
<1>6. D!Drop(h, O) \in D!Heaps
  BY <1>2, <1>4, <1>5, HeapIs, HeapOf
<1> QED BY <1>2, <1>4, <1>5, <1>6

LEMMA ObjectsAre ==
  /\ "ctx" \in D!Objects /\ "sc" \in D!Objects /\ "sock" \in D!Objects
  /\ "config0" \in D!Objects /\ "config1" \in D!Objects
  /\ "if_cb" \in D!Objects /\ "link_info_cb" \in D!Objects /\ "set_cb" \in D!Objects
  /\ D!InSoftc \in SUBSET D!Objects /\ D!InContext \in SUBSET D!Objects
  /\ D!Callbacks \in SUBSET D!Objects
  BY DEF D!Objects, D!InSoftc, D!InContext, D!Callbacks

LEMMA LostSame ==
  ASSUME NEW g \in D!Heaps, NEW h \in D!Heaps,
         \A j \in D!Objects : g.lost[j] = h.lost[j]
  PROVE  g.lost = h.lost
<1>1. g.lost \in [D!Objects -> Nat] /\ h.lost \in [D!Objects -> Nat]
  BY HeapIs
<1> QED BY <1>1

(* A softc is freed: what its pointers still name is lost.                  *)
LEMMA FreeSoftcIs ==
  ASSUME NEW h \in D!Heaps, h.ptr["sc"] = "live"
  PROVE  /\ D!FreeSoftc(h) \in D!Heaps /\ D!FreeSoftc(h).twice = h.twice
         /\ D!FreeSoftc(h).ptr["sc"] = "gone"
         /\ \A j \in D!InSoftc : D!FreeSoftc(h).ptr[j] = "null"
         /\ \A j \in {"ctx", "config0", "config1"} : D!FreeSoftc(h).ptr[j] = h.ptr[j]
         /\ \A j \in D!Objects :
              D!FreeSoftc(h).lost[j] = IF j \in D!InSoftc /\ h.ptr[j] = "live"
                                       THEN h.lost[j] + 1 ELSE h.lost[j]
<1> DEFINE g == D!Put(h, "sc")
<1>1. /\ g \in D!Heaps /\ g.lost = h.lost /\ g.twice = h.twice /\ g.ptr["sc"] = "gone"
      /\ \A j \in D!Objects : j # "sc" => g.ptr[j] = h.ptr[j]
  BY PutIs, ObjectsAre
<1>2. D!FreeSoftc(h) = D!Drop(g, D!InSoftc)
  BY DEF D!FreeSoftc
<1> HIDE DEF g
<1>3. /\ D!FreeSoftc(h) \in D!Heaps /\ D!FreeSoftc(h).twice = h.twice
      /\ \A j \in D!Objects :
              /\ D!FreeSoftc(h).ptr[j] = IF j \in D!InSoftc THEN "null" ELSE g.ptr[j]
              /\ D!FreeSoftc(h).lost[j] = IF j \in D!InSoftc /\ g.ptr[j] = "live"
                                          THEN g.lost[j] + 1 ELSE g.lost[j]
  BY <1>1, <1>2, DropIs, ObjectsAre
<1>4. /\ "sc" \notin D!InSoftc /\ "ctx" \notin D!InSoftc
      /\ "config0" \notin D!InSoftc /\ "config1" \notin D!InSoftc
  BY DEF D!InSoftc, D!Callbacks
<1>5. \A j \in D!Objects :
        D!FreeSoftc(h).lost[j] = IF j \in D!InSoftc /\ h.ptr[j] = "live"
                                 THEN h.lost[j] + 1 ELSE h.lost[j]
  BY <1>1, <1>3, <1>4
<1> QED BY <1>1, <1>3, <1>4, <1>5, ObjectsAre

(* A context is freed with its softc and configurations gone before.        *)
LEMMA FreeContextIs ==
  ASSUME NEW h \in D!Heaps, h.ptr["ctx"] = "live",
         \A j \in D!InContext : h.ptr[j] # "live"
  PROVE  /\ D!FreeContext(h) \in D!Heaps /\ D!FreeContext(h).twice = h.twice
         /\ D!FreeContext(h).lost = h.lost /\ D!FreeContext(h).ptr["ctx"] = "gone"
         /\ \A j \in D!InContext : D!FreeContext(h).ptr[j] = "null"
         /\ \A j \in D!InSoftc : D!FreeContext(h).ptr[j] = h.ptr[j]
<1> DEFINE g == D!Put(h, "ctx")
<1>1. /\ g \in D!Heaps /\ g.lost = h.lost /\ g.twice = h.twice /\ g.ptr["ctx"] = "gone"
      /\ \A j \in D!Objects : j # "ctx" => g.ptr[j] = h.ptr[j]
  BY PutIs, ObjectsAre
<1>2. D!FreeContext(h) = D!Drop(g, D!InContext)
  BY DEF D!FreeContext
<1> HIDE DEF g
<1>3. /\ D!FreeContext(h) \in D!Heaps /\ D!FreeContext(h).twice = h.twice
      /\ \A j \in D!Objects :
              /\ D!FreeContext(h).ptr[j] = IF j \in D!InContext THEN "null" ELSE g.ptr[j]
              /\ D!FreeContext(h).lost[j] = IF j \in D!InContext /\ g.ptr[j] = "live"
                                            THEN g.lost[j] + 1 ELSE g.lost[j]
  BY <1>1, <1>2, DropIs, ObjectsAre
<1>4. "ctx" \notin D!InContext /\ \A j \in D!InSoftc : j \notin D!InContext /\ j # "ctx"
  BY DEF D!InSoftc, D!InContext, D!Callbacks
<1>5. \A j \in D!Objects : D!FreeContext(h).lost[j] = h.lost[j]
  BY <1>1, <1>3, <1>4
<1>6. D!FreeContext(h).lost = h.lost
  BY <1>3, <1>5, LostSame
<1> QED BY <1>1, <1>3, <1>4, <1>6, ObjectsAre

(* Between two options: no object but the memory of an old context.         *)
Empty(h) == /\ h \in D!Heaps /\ h.twice = {} /\ h.ptr["ctx"] # "live"
            /\ \A k \in D!Objects \ {"ctx"} : h.ptr[k] = "null"

(* A context, and a context with a softc, with nothing in them.             *)
LEMMA ContextIs ==
  ASSUME NEW h, Empty(h), NEW v \in {"null", "junk"}
  PROVE  LET c == D!Fill(D!Take(h, "ctx"), D!InContext, v) IN
         /\ c \in D!Heaps /\ c.lost = h.lost /\ c.twice = {} /\ c.ptr["ctx"] = "live"
         /\ \A j \in D!InContext : c.ptr[j] = v
         /\ \A j \in D!InSoftc : c.ptr[j] = "null"
<1> DEFINE t == D!Take(h, "ctx")
           c == D!Fill(t, D!InContext, v)
<1>1. /\ t \in D!Heaps /\ t.lost = h.lost /\ t.twice = {} /\ t.ptr["ctx"] = "live"
      /\ \A j \in D!Objects : j # "ctx" => t.ptr[j] = "null"
  <2>1. h \in D!Heaps /\ h.twice = {}
    BY DEF Empty
  <2>2. \A j \in D!Objects : j # "ctx" => h.ptr[j] = "null"
    BY DEF Empty
  <2>3. /\ t \in D!Heaps /\ t.lost = h.lost /\ t.twice = {} /\ t.ptr["ctx"] = "live"
    BY <2>1, TakeIs, ObjectsAre
  <2>4. \A j \in D!Objects : j # "ctx" => t.ptr[j] = h.ptr[j]
    BY <2>1, TakeIs, ObjectsAre
  <2> QED BY <2>2, <2>3, <2>4
<1>2. v \in Values4
  BY DEF Values4
<1> HIDE DEF t
<1>3. /\ c \in D!Heaps /\ c.lost = h.lost /\ c.twice = {}
      /\ \A j \in D!Objects : c.ptr[j] = IF j \in D!InContext THEN v ELSE t.ptr[j]
  BY <1>1, <1>2, FillIs, ObjectsAre
<1>4. "ctx" \notin D!InContext /\ \A j \in D!InSoftc : j \notin D!InContext /\ j # "ctx"
  BY DEF D!InSoftc, D!InContext, D!Callbacks
<1> HIDE DEF c
<1>5. /\ c \in D!Heaps /\ c.lost = h.lost /\ c.twice = {} /\ c.ptr["ctx"] = "live"
      /\ \A j \in D!InContext : c.ptr[j] = v
      /\ \A j \in D!InSoftc : c.ptr[j] = "null"
  BY <1>1, <1>3, <1>4, ObjectsAre
<1> QED BY <1>5 DEF c, t

LEMMA SoftcIs ==
  ASSUME NEW c \in D!Heaps
  PROVE  LET s == D!NewSoftc(c) IN
         /\ s \in D!Heaps /\ s.lost = c.lost /\ s.twice = c.twice
         /\ s.ptr["sc"] = "live" /\ \A j \in D!InSoftc : s.ptr[j] = "null"
         /\ \A j \in {"ctx", "config0", "config1"} : s.ptr[j] = c.ptr[j]
<1> DEFINE t == D!Take(c, "sc")
           s == D!Fill(t, D!InSoftc, "null")
<1>1. /\ t \in D!Heaps /\ t.lost = c.lost /\ t.twice = c.twice /\ t.ptr["sc"] = "live"
      /\ \A j \in D!Objects : j # "sc" => t.ptr[j] = c.ptr[j]
  BY TakeIs, ObjectsAre
<1>2. "null" \in Values4
  BY DEF Values4
<1> HIDE DEF t
<1>3. s \in D!Heaps /\ s.lost = c.lost /\ s.twice = c.twice
  <2>1. /\ t \in D!Heaps /\ D!InSoftc \in SUBSET D!Objects
    BY <1>1, ObjectsAre
  <2>2. /\ D!Fill(t, D!InSoftc, "null") \in D!Heaps
        /\ D!Fill(t, D!InSoftc, "null").lost = t.lost
        /\ D!Fill(t, D!InSoftc, "null").twice = t.twice
    BY <1>2, <2>1, FillIs
  <2>3. s \in D!Heaps /\ s.lost = t.lost /\ s.twice = t.twice
    BY <2>2
  <2> QED BY <1>1, <2>3
<1>4. \A j \in D!Objects : s.ptr[j] = IF j \in D!InSoftc THEN "null" ELSE t.ptr[j]
  BY <1>1, <1>2, FillIs, ObjectsAre
<1>5. /\ "sc" \notin D!InSoftc /\ "ctx" \notin D!InSoftc
      /\ "config0" \notin D!InSoftc /\ "config1" \notin D!InSoftc
  BY DEF D!InSoftc, D!Callbacks
<1>6. D!NewSoftc(c) = s
  BY DEF D!NewSoftc, t
<1> HIDE DEF s
<1> QED BY <1>1, <1>3, <1>4, <1>5, <1>6, ObjectsAre

(* wifi_hal_nl80211_attach leaves a socket only when it succeeds.           *)
LEMMA NlAttachIs ==
  ASSUME NEW h \in D!Heaps, h.ptr["sock"] = "null", NEW no
  PROVE  LET g == D!wifi_hal_nl80211_attach(h, no) IN
         /\ g \in D!Heaps /\ g.lost = h.lost /\ g.twice = h.twice
         /\ D!nl80211_fails(no) => g.ptr["sock"] # "live"
         /\ ~D!nl80211_fails(no) => g.ptr["sock"] = "live"
         /\ \A j \in D!Objects : j # "sock" => g.ptr[j] = h.ptr[j]
<1> DEFINE g == D!wifi_hal_nl80211_attach(h, no)
           t == D!Take(h, "sock")
           u == D!Put(t, "sock")
<1>1. /\ t \in D!Heaps /\ t.lost = h.lost /\ t.twice = h.twice
      /\ t.ptr["sock"] = "live"
      /\ \A j \in D!Objects : j # "sock" => t.ptr[j] = h.ptr[j]
  BY TakeIs, ObjectsAre
<1>2. /\ u \in D!Heaps /\ u.lost = t.lost /\ u.twice = t.twice
      /\ u.ptr["sock"] = "gone"
      /\ \A j \in D!Objects : j # "sock" => u.ptr[j] = t.ptr[j]
  <2> HIDE DEF t
  <2> QED BY <1>1, PutIs, ObjectsAre
<1>3. CASE "sock" \in no
  <2>1. g = h /\ D!nl80211_fails(no)
    BY <1>3 DEF D!wifi_hal_nl80211_attach, D!nl80211_fails
  <2> QED BY <2>1
<1>4. CASE "sock" \notin no /\ no \cap {"genl_connect", "genl_ctrl_resolve"} # {}
  <2>1. g = u
    BY <1>4 DEF D!wifi_hal_nl80211_attach
  <2>2. D!nl80211_fails(no)
    BY <1>4 DEF D!nl80211_fails
  <2> HIDE DEF g, t, u
  <2>3. /\ g \in D!Heaps /\ g.lost = h.lost /\ g.twice = h.twice /\ g.ptr["sock"] # "live"
        /\ \A j \in D!Objects : j # "sock" => g.ptr[j] = h.ptr[j]
    BY <1>1, <1>2, <2>1
  <2> QED BY <2>2, <2>3 DEF g
<1>5. CASE "sock" \notin no /\ no \cap {"genl_connect", "genl_ctrl_resolve"} = {}
  <2>1. g = t
    BY <1>5 DEF D!wifi_hal_nl80211_attach
  <2>2. ~D!nl80211_fails(no)
    BY <1>5 DEF D!nl80211_fails
  <2> QED BY <1>1, <2>1, <2>2
<1> QED BY <1>3, <1>4, <1>5

(* The callbacks are all there, or none of them is: those that were         *)
(* allocated before the one that was not are put.                           *)
LEMMA RegisterIs ==
  ASSUME NEW h \in D!Heaps, h.twice = {}, NEW no,
         \A j \in D!Callbacks : h.ptr[j] = "null"
  PROVE  LET g == D!wifi_hal_register_nl_cb(h, no) IN
         /\ g \in D!Heaps /\ g.lost = h.lost /\ g.twice = {}
         /\ \A j \in D!Objects : j \notin D!Callbacks => g.ptr[j] = h.ptr[j]
         /\ D!Allocated(no) = D!Callbacks => \A j \in D!Callbacks : g.ptr[j] = "live"
         /\ D!Allocated(no) # D!Callbacks =>
              /\ \A j \in D!Callbacks : g.ptr[j] # "live"
              /\ g.ptr["set_cb"] = "null" /\ no \cap D!Callbacks # {}
<1> DEFINE f == D!Fill(h, D!Allocated(no), "live")
           a == D!Put(f, "set_cb")
           b == D!Put(a, "if_cb")
           c == D!Put(b, "link_info_cb")
<1>1. D!Allocated(no) \in SUBSET D!Callbacks
  BY DEF D!Allocated, D!Callbacks
<1>2. "live" \in Values4 /\ D!Allocated(no) \in SUBSET D!Objects
  BY <1>1, ObjectsAre DEF Values4
<1>3. /\ f \in D!Heaps /\ f.lost = h.lost /\ f.twice = {}
  <2>1. /\ D!Fill(h, D!Allocated(no), "live") \in D!Heaps
        /\ D!Fill(h, D!Allocated(no), "live").lost = h.lost
        /\ D!Fill(h, D!Allocated(no), "live").twice = h.twice
    BY <1>2, FillIs
  <2> QED BY <2>1
<1>4. \A j \in D!Objects : f.ptr[j] = IF j \in D!Allocated(no) THEN "live" ELSE h.ptr[j]
  BY <1>2, FillIs
<1>5. CASE D!Allocated(no) = D!Callbacks
  <2>1. D!wifi_hal_register_nl_cb(h, no) = f
    BY <1>5 DEF D!wifi_hal_register_nl_cb
  <2> HIDE DEF f
  <2> QED BY <1>3, <1>4, <1>5, <2>1, ObjectsAre
<1>6. CASE D!Allocated(no) # D!Callbacks
  <2>1. D!wifi_hal_register_nl_cb(h, no) = c
    BY <1>6 DEF D!wifi_hal_register_nl_cb
  <2>2. "set_cb" \notin D!Allocated(no) /\ no \cap D!Callbacks # {}
    BY <1>6 DEF D!Allocated, D!Callbacks
  <2>3. D!Callbacks = {"if_cb", "link_info_cb", "set_cb"}
    BY DEF D!Callbacks
  <2> HIDE DEF f
  <2>4. /\ f.ptr["set_cb"] = "null" /\ f.ptr["if_cb"] \in {"null", "live"}
        /\ f.ptr["link_info_cb"] \in {"null", "live"}
        /\ \A j \in D!Objects : j \notin D!Callbacks => f.ptr[j] = h.ptr[j]
    BY <1>1, <1>4, <2>2, <2>3, ObjectsAre
  <2>5. /\ a \in D!Heaps /\ a.lost = h.lost /\ a.twice = {} /\ a.ptr["set_cb"] = "null"
        /\ \A j \in D!Objects : j # "set_cb" => a.ptr[j] = f.ptr[j]
    <3>1. "set_cb" \in D!Objects /\ f.ptr["set_cb"] # "gone"
      BY <2>4, ObjectsAre
    <3> QED BY <1>3, <2>4, <3>1, PutOnce
  <2> HIDE DEF a
  <2>6. /\ b \in D!Heaps /\ b.lost = h.lost /\ b.twice = {} /\ b.ptr["if_cb"] # "live"
        /\ \A j \in D!Objects : j # "if_cb" => b.ptr[j] = a.ptr[j]
    <3>1. "if_cb" \in D!Objects /\ a.ptr["if_cb"] # "gone"
      BY <2>4, <2>5, ObjectsAre
    <3>2. /\ D!Put(a, "if_cb") \in D!Heaps /\ D!Put(a, "if_cb").lost = a.lost
          /\ D!Put(a, "if_cb").twice = a.twice /\ D!Put(a, "if_cb").ptr["if_cb"] # "live"
          /\ \A j \in D!Objects : j # "if_cb" => D!Put(a, "if_cb").ptr[j] = a.ptr[j]
      BY <2>5, <3>1, PutOnce
    <3> QED BY <2>5, <3>2
  <2> HIDE DEF b
  <2>7. /\ c \in D!Heaps /\ c.lost = h.lost /\ c.twice = {} /\ c.ptr["link_info_cb"] # "live"
        /\ \A j \in D!Objects : j # "link_info_cb" => c.ptr[j] = b.ptr[j]
    <3>1. "link_info_cb" \in D!Objects /\ b.ptr["link_info_cb"] # "gone"
      BY <2>4, <2>5, <2>6, ObjectsAre
    <3>2. /\ D!Put(b, "link_info_cb") \in D!Heaps
          /\ D!Put(b, "link_info_cb").lost = b.lost
          /\ D!Put(b, "link_info_cb").twice = b.twice
          /\ D!Put(b, "link_info_cb").ptr["link_info_cb"] # "live"
          /\ \A j \in D!Objects :
               j # "link_info_cb" => D!Put(b, "link_info_cb").ptr[j] = b.ptr[j]
      BY <2>6, <3>1, PutOnce
    <3> QED BY <2>6, <3>2
  <2> HIDE DEF c
  <2>8. c.ptr["set_cb"] = "null" /\ c.ptr["if_cb"] # "live"
    BY <2>5, <2>6, <2>7, ObjectsAre
  <2>9. \A j \in D!Callbacks : c.ptr[j] # "live"
    BY <2>3, <2>7, <2>8
  <2>10. \A j \in D!Objects : j \notin D!Callbacks => c.ptr[j] = h.ptr[j]
    BY <2>3, <2>4, <2>5, <2>6, <2>7
  <2> QED BY <1>6, <2>1, <2>2, <2>7, <2>8, <2>9, <2>10
<1> QED BY <1>5, <1>6

(* wifi_hal_nl80211_dettach puts the socket and two of the callbacks.       *)
LEMMA NlDettachIs ==
  ASSUME NEW h \in D!Heaps, h.twice = {}, h.ptr["sock"] = "live"
  PROVE  LET g == D!wifi_hal_nl80211_dettach(h)
             O == {"sock", "if_cb", "link_info_cb"} IN
         /\ g \in D!Heaps /\ g.lost = h.lost
         /\ \A j \in O : g.ptr[j] # "live"
         /\ \A j \in D!Objects : j \notin O => g.ptr[j] = h.ptr[j]
         /\ g.twice \subseteq {"if_cb", "link_info_cb"}
         /\ h.ptr["if_cb"] # "gone" /\ h.ptr["link_info_cb"] # "gone" => g.twice = {}
<1> DEFINE a == D!Put(h, "sock")
           b == D!Put(a, "if_cb")
           c == D!Put(b, "link_info_cb")
<1>1. D!wifi_hal_nl80211_dettach(h) = c
  BY DEF D!wifi_hal_nl80211_dettach
<1>2. /\ a \in D!Heaps /\ a.lost = h.lost /\ a.twice = {} /\ a.ptr["sock"] # "live"
      /\ \A j \in D!Objects : j # "sock" => a.ptr[j] = h.ptr[j]
  BY PutIs, ObjectsAre
<1> HIDE DEF a
<1>3. /\ b \in D!Heaps /\ b.lost = h.lost /\ b.ptr["if_cb"] # "live"
      /\ b.twice = IF a.ptr["if_cb"] = "gone" THEN {"if_cb"} ELSE {}
      /\ \A j \in D!Objects : j # "if_cb" => b.ptr[j] = a.ptr[j]
  <2>1. b.twice = IF a.ptr["if_cb"] = "gone" THEN a.twice \cup {"if_cb"} ELSE a.twice
    BY <1>2, PutIs, ObjectsAre
  <2>2. /\ b \in D!Heaps /\ b.lost = a.lost
        /\ b.ptr["if_cb"] = IF a.ptr["if_cb"] = "live" THEN "gone" ELSE a.ptr["if_cb"]
        /\ \A j \in D!Objects : j # "if_cb" => b.ptr[j] = a.ptr[j]
    BY <1>2, PutIs, ObjectsAre
  <2> HIDE DEF b
  <2>3. b.ptr["if_cb"] # "live"
    BY <2>2
  <2>4. b.twice = IF a.ptr["if_cb"] = "gone" THEN {"if_cb"} ELSE {}
    BY <1>2, <2>1
  <2> QED BY <1>2, <2>2, <2>3, <2>4
<1> HIDE DEF b
<1>4. /\ c \in D!Heaps /\ c.lost = h.lost /\ c.ptr["link_info_cb"] # "live"
      /\ c.twice = IF b.ptr["link_info_cb"] = "gone" THEN b.twice \cup {"link_info_cb"}
                   ELSE b.twice
      /\ \A j \in D!Objects : j # "link_info_cb" => c.ptr[j] = b.ptr[j]
  BY <1>3, PutIs, ObjectsAre
<1> HIDE DEF c
<1>5. a.ptr["if_cb"] = h.ptr["if_cb"] /\ b.ptr["link_info_cb"] = h.ptr["link_info_cb"]
  BY <1>2, <1>3, ObjectsAre
<1>6. c.twice \subseteq {"if_cb", "link_info_cb"}
  BY <1>3, <1>4
<1>7. h.ptr["if_cb"] # "gone" /\ h.ptr["link_info_cb"] # "gone" => c.twice = {}
  BY <1>3, <1>4, <1>5
<1>8. c.ptr["sock"] # "live" /\ c.ptr["if_cb"] # "live"
  BY <1>2, <1>3, <1>4, ObjectsAre
<1>9. \A j \in D!Objects : j \notin {"sock", "if_cb", "link_info_cb"} => c.ptr[j] = h.ptr[j]
  BY <1>2, <1>3, <1>4
<1> QED BY <1>1, <1>4, <1>6, <1>7, <1>8, <1>9

(* Nothing is held.                                                         *)
Nothing(h) == h \in D!Heaps /\ \A k \in D!Objects : h.ptr[k] # "live"

(* A softc and its context are freed with nothing in them.                  *)
LEMMA FreedIs ==
  ASSUME NEW h \in D!Heaps, h.ptr["ctx"] = "live", h.ptr["sc"] = "live",
         h.ptr["config0"] # "live", h.ptr["config1"] # "live",
         \A j \in D!InSoftc : h.ptr[j] # "live"
  PROVE  LET g == D!FreeContext(D!FreeSoftc(h)) IN
         Nothing(g) /\ g.lost = h.lost /\ g.twice = h.twice
<1> DEFINE s == D!FreeSoftc(h)
           g == D!FreeContext(s)
<1>1. /\ s \in D!Heaps /\ s.twice = h.twice /\ s.ptr["sc"] = "gone"
      /\ \A j \in D!InSoftc : s.ptr[j] = "null"
      /\ \A j \in {"ctx", "config0", "config1"} : s.ptr[j] = h.ptr[j]
      /\ \A j \in D!Objects : s.lost[j] = IF j \in D!InSoftc /\ h.ptr[j] = "live"
                                          THEN h.lost[j] + 1 ELSE h.lost[j]
  BY FreeSoftcIs
<1> HIDE DEF s
<1>2. \A j \in D!Objects : s.lost[j] = h.lost[j]
  BY <1>1
<1>3. s.lost = h.lost
  BY <1>1, <1>2, LostSame
<1>4. s.ptr["ctx"] = "live" /\ \A j \in D!InContext : s.ptr[j] # "live"
  BY <1>1 DEF D!InContext
<1>5. /\ D!FreeContext(s) \in D!Heaps /\ D!FreeContext(s).twice = s.twice
      /\ D!FreeContext(s).lost = s.lost /\ D!FreeContext(s).ptr["ctx"] = "gone"
      /\ \A j \in D!InContext : D!FreeContext(s).ptr[j] = "null"
      /\ \A j \in D!InSoftc : D!FreeContext(s).ptr[j] = s.ptr[j]
  BY <1>1, <1>4, FreeContextIs
<1>6. D!Objects = D!InSoftc \cup D!InContext \cup {"ctx"}
  BY DEF D!Objects
<1> HIDE DEF g
<1>7. /\ g \in D!Heaps /\ g.lost = h.lost /\ g.twice = h.twice
      /\ \A k \in D!Objects : g.ptr[k] # "live"
  BY <1>1, <1>3, <1>5, <1>6 DEF g
<1> QED BY <1>7 DEF Nothing, g, s

(* A Wi-Fi context whose netlink is open and whose callbacks are set.       *)
Full(h) == /\ h \in D!Heaps /\ h.twice = {}
           /\ h.ptr["ctx"] = "live" /\ h.ptr["sc"] = "live"
           /\ \A j \in D!InSoftc : h.ptr[j] = "live"

LEMMA WifiAttachIs ==
  ASSUME NEW h, Empty(h), NEW no
  PROVE  LET g == D!wifi_hal_attach(h, no) IN
         /\ g.lost = h.lost
         /\ \/ Full(g) /\ g.ptr["config0"] = "null" /\ g.ptr["config1"] = "null"
            \/ Nothing(g) /\ g.twice = {}
            \/ /\ Nothing(g) /\ g.twice \subseteq {"if_cb", "link_info_cb"}
               /\ no \cap D!Callbacks # {}
<1> DEFINE g == D!wifi_hal_attach(h, no)
           ctx == D!NewContext(h)
           so == D!NewSoftc(ctx)
           sc == D!wifi_hal_nl80211_attach(so, no)
           cb == D!wifi_hal_register_nl_cb(sc, no)
           de == D!wifi_hal_nl80211_dettach(cb)
           Same(x) == x \in D!Heaps /\ x.lost = h.lost
<1>1. /\ Same(ctx) /\ ctx.twice = {} /\ ctx.ptr["ctx"] = "live"
      /\ \A j \in D!InContext : ctx.ptr[j] = "null"
      /\ \A j \in D!InSoftc : ctx.ptr[j] = "null"
  BY ContextIs DEF D!NewContext
<1>2. ctx.ptr["sc"] = "null" /\ ctx.ptr["config0"] = "null" /\ ctx.ptr["config1"] = "null"
  BY <1>1 DEF D!InContext
<1>3. CASE "ctx" \in no
  <2>1. g = h
    BY <1>3 DEF D!wifi_hal_attach
  <2> HIDE DEF g
  <2>2. Nothing(g) /\ g.twice = {} /\ g.lost = h.lost
    <3>1. \A k \in D!Objects : h.ptr[k] # "live"
      <4>1. TAKE k \in D!Objects
      <4>2. CASE k = "ctx"
        BY <4>2 DEF Empty
      <4>3. CASE k # "ctx"
        BY <4>3 DEF Empty
      <4> QED BY <4>2, <4>3
    <3> QED BY <2>1, <3>1 DEF Nothing, Empty
  <2> QED BY <2>2 DEF g
<1>4. CASE "ctx" \notin no /\ "sc" \in no
  <2>1. g = D!FreeContext(ctx)
    BY <1>4 DEF D!wifi_hal_attach
  <2> HIDE DEF g, ctx
  <2>2. /\ D!FreeContext(ctx) \in D!Heaps /\ D!FreeContext(ctx).twice = ctx.twice
        /\ D!FreeContext(ctx).lost = ctx.lost /\ D!FreeContext(ctx).ptr["ctx"] = "gone"
        /\ \A j \in D!InContext : D!FreeContext(ctx).ptr[j] = "null"
        /\ \A j \in D!InSoftc : D!FreeContext(ctx).ptr[j] = ctx.ptr[j]
    BY <1>1, FreeContextIs
  <2>3. D!Objects = D!InSoftc \cup D!InContext \cup {"ctx"}
    BY DEF D!Objects
  <2>4. Nothing(g) /\ g.twice = {} /\ g.lost = h.lost
    BY <1>1, <2>1, <2>2, <2>3 DEF Nothing
  <2> QED BY <2>4 DEF g
<1>5. /\ Same(so) /\ so.twice = {} /\ so.ptr["sc"] = "live"
      /\ \A j \in D!InSoftc : so.ptr[j] = "null"
      /\ \A j \in {"ctx", "config0", "config1"} : so.ptr[j] = ctx.ptr[j]
  <2> HIDE DEF ctx
  <2> QED BY <1>1, SoftcIs
<1>6. /\ so.ptr["ctx"] = "live" /\ so.ptr["config0"] = "null"
      /\ so.ptr["config1"] = "null" /\ so.ptr["sock"] = "null"
  BY <1>1, <1>2, <1>5 DEF D!InSoftc
<1> HIDE DEF ctx
<1>7. /\ Same(sc) /\ sc.twice = {}
      /\ D!nl80211_fails(no) => sc.ptr["sock"] # "live"
      /\ ~D!nl80211_fails(no) => sc.ptr["sock"] = "live"
      /\ \A j \in D!Objects : j # "sock" => sc.ptr[j] = so.ptr[j]
  <2> HIDE DEF so
  <2> QED BY <1>5, <1>6, NlAttachIs
<1>8. /\ sc.ptr["ctx"] = "live" /\ sc.ptr["sc"] = "live" /\ sc.ptr["config0"] = "null"
      /\ sc.ptr["config1"] = "null" /\ \A j \in D!Callbacks : sc.ptr[j] = "null"
  <2>1. D!Callbacks \in SUBSET D!InSoftc /\ "sock" \notin D!Callbacks
    BY DEF D!InSoftc, D!Callbacks
  <2> HIDE DEF so, sc
  <2>2. /\ sc.ptr["ctx"] = "live" /\ sc.ptr["sc"] = "live"
        /\ sc.ptr["config0"] = "null" /\ sc.ptr["config1"] = "null"
    BY <1>5, <1>6, <1>7, ObjectsAre
  <2> QED BY <1>5, <1>7, <2>1, <2>2, ObjectsAre
<1>9. CASE "ctx" \notin no /\ "sc" \notin no /\ D!nl80211_fails(no)
  <2>1. g = D!FreeContext(D!FreeSoftc(sc))
    BY <1>9 DEF D!wifi_hal_attach, ctx
  <2>2. \A j \in D!InSoftc : sc.ptr[j] # "live"
    <3> HIDE DEF so, sc
    <3> QED BY <1>7, <1>8, <1>9 DEF D!InSoftc
  <2> HIDE DEF so, sc
  <2>3. LET e == D!FreeContext(D!FreeSoftc(sc)) IN
        Nothing(e) /\ e.lost = sc.lost /\ e.twice = sc.twice
    BY <1>7, <1>8, <2>2, FreedIs
  <2> HIDE DEF g
  <2>4. Nothing(g) /\ g.twice = {} /\ g.lost = h.lost
    BY <1>7, <2>1, <2>3
  <2> QED BY <2>4 DEF g
<1>10. CASE "ctx" \notin no /\ "sc" \notin no /\ ~D!nl80211_fails(no)
  <2> HIDE DEF so
  <2>1. /\ Same(cb) /\ cb.twice = {}
        /\ \A j \in D!Objects : j \notin D!Callbacks => cb.ptr[j] = sc.ptr[j]
        /\ D!Allocated(no) = D!Callbacks => \A j \in D!Callbacks : cb.ptr[j] = "live"
        /\ D!Allocated(no) # D!Callbacks =>
             /\ \A j \in D!Callbacks : cb.ptr[j] # "live"
             /\ cb.ptr["set_cb"] = "null" /\ no \cap D!Callbacks # {}
    <3> HIDE DEF sc
    <3> QED BY <1>7, <1>8, RegisterIs
  <2>2. /\ cb.ptr["ctx"] = "live" /\ cb.ptr["sc"] = "live" /\ cb.ptr["config0"] = "null"
        /\ cb.ptr["config1"] = "null" /\ cb.ptr["sock"] = "live"
    <3> HIDE DEF sc, cb
    <3>1. /\ "ctx" \notin D!Callbacks /\ "sc" \notin D!Callbacks /\ "config0" \notin D!Callbacks
          /\ "config1" \notin D!Callbacks /\ "sock" \notin D!Callbacks
      BY DEF D!Callbacks
    <3> QED BY <1>7, <1>8, <1>10, <2>1, <3>1, ObjectsAre
  <2>3. CASE D!Allocated(no) = D!Callbacks
    <3>1. g = cb
      BY <1>10, <2>3 DEF D!wifi_hal_attach, ctx, so
    <3> HIDE DEF sc, cb, g
    <3>2. \A j \in D!InSoftc : cb.ptr[j] = "live"
      BY <2>1, <2>2, <2>3 DEF D!InSoftc
    <3>3. Full(g) /\ g.lost = h.lost /\ g.ptr["config0"] = "null" /\ g.ptr["config1"] = "null"
      BY <2>1, <2>2, <3>1, <3>2 DEF Full
    <3> QED BY <3>3 DEF g
  <2>4. CASE D!Allocated(no) # D!Callbacks
    <3>1. g = D!FreeContext(D!FreeSoftc(de))
      BY <1>10, <2>4 DEF D!wifi_hal_attach, ctx, so
    <3> DEFINE O == {"sock", "if_cb", "link_info_cb"}
    <3>2. /\ Same(de) /\ \A j \in O : de.ptr[j] # "live"
          /\ \A j \in D!Objects : j \notin O => de.ptr[j] = cb.ptr[j]
          /\ de.twice \subseteq {"if_cb", "link_info_cb"}
      <4> HIDE DEF sc, cb
      <4> QED BY <2>1, <2>2, NlDettachIs
    <3> HIDE DEF sc, cb, de
    <3>3. /\ de.ptr["ctx"] = "live" /\ de.ptr["sc"] = "live" /\ de.ptr["config0"] # "live"
          /\ de.ptr["config1"] # "live" /\ de.ptr["set_cb"] = "null"
      BY <2>1, <2>2, <2>4, <3>2, ObjectsAre
    <3>4. \A j \in D!InSoftc : de.ptr[j] # "live"
      BY <3>2, <3>3 DEF D!InSoftc, D!Callbacks
    <3>5. LET e == D!FreeContext(D!FreeSoftc(de)) IN
          Nothing(e) /\ e.lost = de.lost /\ e.twice = de.twice
      BY <3>2, <3>3, <3>4, FreedIs
    <3> HIDE DEF g
    <3>6. /\ Nothing(g) /\ g.twice \subseteq {"if_cb", "link_info_cb"} /\ g.lost = h.lost
          /\ no \cap D!Callbacks # {}
      BY <2>1, <2>4, <3>1, <3>2, <3>5
    <3> QED BY <3>6 DEF g
  <2> QED BY <2>3, <2>4
<1> QED BY <1>3, <1>4, <1>9, <1>10

(* A modem's context has a softc, and configurations that were not written. *)
ModemContext(h) ==
  /\ h \in D!Heaps /\ h.twice = {} /\ h.ptr["ctx"] = "live" /\ h.ptr["sc"] = "live"
  /\ h.ptr["config1"] = "junk" /\ \A j \in D!InSoftc : h.ptr[j] = "null"

LEMMA ModemAttachIs ==
  ASSUME NEW h, Empty(h), NEW no
  PROVE  LET g == D!modem_hal_attach(h, no) IN
         /\ g.lost = h.lost /\ g.twice = {}
         /\ Nothing(g) \/ (ModemContext(g) /\ g.ptr["config0"] = "junk")
<1> DEFINE g == D!modem_hal_attach(h, no)
           ctx == D!Fill(D!Take(h, "ctx"), D!InContext, "junk")
           so == D!NewSoftc(ctx)
<1>1. /\ ctx \in D!Heaps /\ ctx.lost = h.lost /\ ctx.twice = {} /\ ctx.ptr["ctx"] = "live"
      /\ \A j \in D!InContext : ctx.ptr[j] = "junk"
      /\ \A j \in D!InSoftc : ctx.ptr[j] = "null"
  BY ContextIs
<1>2. CASE "ctx" \in no
  <2>1. g = h
    BY <1>2 DEF D!modem_hal_attach
  <2> HIDE DEF g
  <2>2. \A k \in D!Objects : h.ptr[k] # "live"
    <3>1. TAKE k \in D!Objects
    <3>2. CASE k = "ctx"
      BY <3>2 DEF Empty
    <3>3. CASE k # "ctx"
      BY <3>3 DEF Empty
    <3> QED BY <3>2, <3>3
  <2>3. Nothing(g) /\ g.lost = h.lost /\ g.twice = {}
    BY <2>1, <2>2 DEF Nothing, Empty
  <2> QED BY <2>3 DEF g
<1>3. CASE "ctx" \notin no /\ "sc" \in no
  <2>1. g = D!Put(ctx, "ctx")
    BY <1>3 DEF D!modem_hal_attach
  <2> HIDE DEF g, ctx
  <2>2. "ctx" \in D!Objects /\ ctx.ptr["ctx"] # "gone"
    BY <1>1, ObjectsAre
  <2>3. /\ D!Put(ctx, "ctx") \in D!Heaps /\ D!Put(ctx, "ctx").lost = ctx.lost
        /\ D!Put(ctx, "ctx").twice = ctx.twice /\ D!Put(ctx, "ctx").ptr["ctx"] # "live"
        /\ \A j \in D!Objects : j # "ctx" => D!Put(ctx, "ctx").ptr[j] = ctx.ptr[j]
    BY <1>1, <2>2, PutOnce
  <2>4. D!Objects = D!InSoftc \cup D!InContext \cup {"ctx"}
    BY DEF D!Objects
  <2>5. Nothing(g) /\ g.lost = h.lost /\ g.twice = {}
    BY <1>1, <2>1, <2>3, <2>4 DEF Nothing
  <2> QED BY <2>5 DEF g
<1>4. CASE "ctx" \notin no /\ "sc" \notin no
  <2>1. g = so
    BY <1>4 DEF D!modem_hal_attach
  <2>2. /\ ctx.ptr["config0"] = "junk" /\ ctx.ptr["config1"] = "junk"
    BY <1>1 DEF D!InContext
  <2>3. /\ so \in D!Heaps /\ so.lost = ctx.lost /\ so.twice = ctx.twice
        /\ so.ptr["sc"] = "live" /\ \A j \in D!InSoftc : so.ptr[j] = "null"
        /\ \A j \in {"ctx", "config0", "config1"} : so.ptr[j] = ctx.ptr[j]
    <3> HIDE DEF ctx
    <3> QED BY <1>1, SoftcIs
  <2> HIDE DEF g, so, ctx
  <2>4. /\ ModemContext(g) /\ g.ptr["config0"] = "junk" /\ g.lost = h.lost /\ g.twice = {}
    BY <1>1, <2>1, <2>2, <2>3 DEF ModemContext
  <2> QED BY <2>4 DEF g
<1> QED BY <1>2, <1>3, <1>4

(* A context is freed and nothing is left but, maybe, where it was.         *)
LEMMA EmptyIs ==
  ASSUME NEW h \in D!Heaps, h.ptr["ctx"] = "live", h.twice = {},
         \A j \in D!InContext : h.ptr[j] # "live",
         \A j \in D!InSoftc : h.ptr[j] = "null"
  PROVE  Empty(D!FreeContext(h)) /\ D!FreeContext(h).lost = h.lost
<1>1. /\ D!FreeContext(h) \in D!Heaps /\ D!FreeContext(h).twice = h.twice
      /\ D!FreeContext(h).lost = h.lost /\ D!FreeContext(h).ptr["ctx"] = "gone"
      /\ \A j \in D!InContext : D!FreeContext(h).ptr[j] = "null"
      /\ \A j \in D!InSoftc : D!FreeContext(h).ptr[j] = h.ptr[j]
  BY FreeContextIs
<1>2. D!Objects = D!InSoftc \cup D!InContext \cup {"ctx"}
  BY DEF D!Objects
<1> QED BY <1>1, <1>2 DEF Empty

(* What wifi_hal_dettach loses is the callback that was set.                *)
LEMMA WifiDettachIs ==
  ASSUME NEW h, Full(h), h.ptr["config0"] \in {"null", "live"},
         h.ptr["config1"] \in {"null", "live"}
  PROVE  LET g == D!wifi_hal_dettach(h) IN
         /\ Empty(g)
         /\ \A k \in D!Objects :
              g.lost[k] = IF k = "set_cb" THEN h.lost[k] + 1 ELSE h.lost[k]
<1> DEFINE de == D!wifi_hal_nl80211_dettach(h)
           sc == D!FreeSoftc(de)
           a == D!Put(sc, "config0")
           b == D!Put(a, "config1")
           g == D!wifi_hal_dettach(h)
           O == {"sock", "if_cb", "link_info_cb"}
<1>1. /\ h \in D!Heaps /\ h.twice = {} /\ h.ptr["ctx"] = "live" /\ h.ptr["sc"] = "live"
      /\ h.ptr["sock"] = "live" /\ h.ptr["if_cb"] = "live"
      /\ h.ptr["link_info_cb"] = "live" /\ h.ptr["set_cb"] = "live"
  BY DEF Full, D!InSoftc, D!Callbacks
<1>2. /\ de \in D!Heaps /\ de.lost = h.lost /\ de.twice = {}
      /\ \A j \in O : de.ptr[j] # "live"
      /\ \A j \in D!Objects : j \notin O => de.ptr[j] = h.ptr[j]
  <2>1. h.ptr["if_cb"] # "gone" /\ h.ptr["link_info_cb"] # "gone"
    BY <1>1
  <2> QED BY <1>1, <2>1, NlDettachIs
<1>3. g = D!FreeContext(b)
  BY DEF D!wifi_hal_dettach
<1> HIDE DEF de, g
<1>4. /\ de.ptr["ctx"] = "live" /\ de.ptr["sc"] = "live" /\ de.ptr["set_cb"] = "live"
      /\ de.ptr["config0"] = h.ptr["config0"] /\ de.ptr["config1"] = h.ptr["config1"]
  BY <1>1, <1>2, ObjectsAre
<1>5. /\ sc \in D!Heaps /\ sc.twice = {} /\ sc.ptr["sc"] = "gone"
      /\ \A j \in D!InSoftc : sc.ptr[j] = "null"
      /\ \A j \in {"ctx", "config0", "config1"} : sc.ptr[j] = de.ptr[j]
      /\ \A j \in D!Objects : sc.lost[j] = IF j \in D!InSoftc /\ de.ptr[j] = "live"
                                           THEN de.lost[j] + 1 ELSE de.lost[j]
  BY <1>2, <1>4, FreeSoftcIs
<1> HIDE DEF sc
<1>6. \A k \in D!Objects :
        sc.lost[k] = IF k = "set_cb" THEN h.lost[k] + 1 ELSE h.lost[k]
  <2>1. D!InSoftc = {"sock", "if_cb", "link_info_cb", "set_cb"}
    BY DEF D!InSoftc, D!Callbacks
  <2> QED BY <1>2, <1>4, <1>5, <2>1
<1>7. /\ a \in D!Heaps /\ a.lost = sc.lost /\ a.twice = {} /\ a.ptr["config0"] # "live"
      /\ \A j \in D!Objects : j # "config0" => a.ptr[j] = sc.ptr[j]
  <2>1. "config0" \in D!Objects /\ sc.ptr["config0"] # "gone"
    BY <1>4, <1>5, ObjectsAre
  <2>2. /\ D!Put(sc, "config0") \in D!Heaps /\ D!Put(sc, "config0").lost = sc.lost
        /\ D!Put(sc, "config0").twice = sc.twice
        /\ D!Put(sc, "config0").ptr["config0"] # "live"
        /\ \A j \in D!Objects : j # "config0" => D!Put(sc, "config0").ptr[j] = sc.ptr[j]
    BY <1>5, <2>1, PutOnce
  <2> QED BY <1>5, <2>2
<1> HIDE DEF a
<1>8. /\ b \in D!Heaps /\ b.lost = a.lost /\ b.twice = {} /\ b.ptr["config1"] # "live"
      /\ \A j \in D!Objects : j # "config1" => b.ptr[j] = a.ptr[j]
  <2>1. "config1" \in D!Objects /\ a.ptr["config1"] # "gone"
    BY <1>4, <1>5, <1>7, ObjectsAre
  <2>2. /\ D!Put(a, "config1") \in D!Heaps /\ D!Put(a, "config1").lost = a.lost
        /\ D!Put(a, "config1").twice = a.twice
        /\ D!Put(a, "config1").ptr["config1"] # "live"
        /\ \A j \in D!Objects : j # "config1" => D!Put(a, "config1").ptr[j] = a.ptr[j]
    BY <1>7, <2>1, PutOnce
  <2> QED BY <1>7, <2>2
<1> HIDE DEF b
<1>9. b.ptr["ctx"] = "live" /\ \A j \in D!InContext : b.ptr[j] # "live"
  <2>1. /\ b.ptr["ctx"] = "live" /\ b.ptr["sc"] = "gone" /\ b.ptr["config0"] # "live"
    BY <1>4, <1>5, <1>7, <1>8, ObjectsAre
  <2> QED BY <1>8, <2>1 DEF D!InContext
<1>10. \A j \in D!InSoftc : b.ptr[j] = "null"
  <2>1. \A j \in D!InSoftc : j \in D!Objects /\ j # "config0" /\ j # "config1"
    BY DEF D!InSoftc, D!Callbacks, D!Objects
  <2> QED BY <1>5, <1>7, <1>8, <2>1
<1>11. Empty(D!FreeContext(b)) /\ D!FreeContext(b).lost = b.lost
  BY <1>8, <1>9, <1>10, EmptyIs
<1>12. /\ Empty(g)
       /\ \A k \in D!Objects : g.lost[k] = IF k = "set_cb" THEN h.lost[k] + 1 ELSE h.lost[k]
  BY <1>3, <1>6, <1>7, <1>8, <1>11
<1> QED BY <1>12 DEF g

(* modem_hal_detach frees its configuration with a pointer or with junk.    *)
LEMMA ModemDetachIs ==
  ASSUME NEW h, ModemContext(h), h.ptr["config0"] \in {"live", "junk"}
  PROVE  LET g == D!modem_hal_detach(h) IN Empty(g) /\ g.lost = h.lost
<1> DEFINE a == D!Put(h, "config0")
           b == D!Put(a, "config1")
           c == D!Put(b, "sc")
           g == D!modem_hal_detach(h)
<1>1. /\ h \in D!Heaps /\ h.twice = {} /\ h.ptr["ctx"] = "live" /\ h.ptr["sc"] = "live"
      /\ h.ptr["config1"] = "junk" /\ \A j \in D!InSoftc : h.ptr[j] = "null"
  BY DEF ModemContext
<1>2. g = D!FreeContext(c)
  BY DEF D!modem_hal_detach
<1> HIDE DEF g
<1>3. /\ a \in D!Heaps /\ a.lost = h.lost /\ a.twice = {} /\ a.ptr["config0"] # "live"
      /\ \A j \in D!Objects : j # "config0" => a.ptr[j] = h.ptr[j]
  <2>1. "config0" \in D!Objects /\ h.ptr["config0"] # "gone"
    BY ObjectsAre
  <2> QED BY <1>1, <2>1, PutOnce
<1> HIDE DEF a
<1>4. /\ b \in D!Heaps /\ b.lost = a.lost /\ b.twice = {} /\ b.ptr["config1"] # "live"
      /\ \A j \in D!Objects : j # "config1" => b.ptr[j] = a.ptr[j]
  <2>1. "config1" \in D!Objects /\ a.ptr["config1"] # "gone"
    BY <1>1, <1>3, ObjectsAre
  <2>2. /\ D!Put(a, "config1") \in D!Heaps /\ D!Put(a, "config1").lost = a.lost
        /\ D!Put(a, "config1").twice = a.twice
        /\ D!Put(a, "config1").ptr["config1"] # "live"
        /\ \A j \in D!Objects : j # "config1" => D!Put(a, "config1").ptr[j] = a.ptr[j]
    BY <1>3, <2>1, PutOnce
  <2> QED BY <1>3, <2>2
<1> HIDE DEF b
<1>5. /\ c \in D!Heaps /\ c.lost = b.lost /\ c.twice = {} /\ c.ptr["sc"] # "live"
      /\ \A j \in D!Objects : j # "sc" => c.ptr[j] = b.ptr[j]
  <2>1. "sc" \in D!Objects /\ b.ptr["sc"] # "gone"
    BY <1>1, <1>3, <1>4, ObjectsAre
  <2>2. /\ D!Put(b, "sc") \in D!Heaps /\ D!Put(b, "sc").lost = b.lost
        /\ D!Put(b, "sc").twice = b.twice /\ D!Put(b, "sc").ptr["sc"] # "live"
        /\ \A j \in D!Objects : j # "sc" => D!Put(b, "sc").ptr[j] = b.ptr[j]
    BY <1>4, <2>1, PutOnce
  <2> QED BY <1>4, <2>2
<1> HIDE DEF c
<1>6. c.ptr["ctx"] = "live" /\ \A j \in D!InContext : c.ptr[j] # "live"
  <2>1. /\ c.ptr["ctx"] = "live" /\ c.ptr["config1"] # "live" /\ c.ptr["config0"] # "live"
    BY <1>1, <1>3, <1>4, <1>5, ObjectsAre
  <2> QED BY <1>5, <2>1 DEF D!InContext
<1>7. \A j \in D!InSoftc : c.ptr[j] = "null"
  <2>1. \A j \in D!InSoftc :
          j \in D!Objects /\ j # "config0" /\ j # "config1" /\ j # "sc"
    BY DEF D!InSoftc, D!Callbacks, D!Objects
  <2> QED BY <1>1, <1>3, <1>4, <1>5, <2>1
<1>8. Empty(D!FreeContext(c)) /\ D!FreeContext(c).lost = c.lost
  BY <1>5, <1>6, <1>7, EmptyIs
<1>9. Empty(g) /\ g.lost = h.lost
  BY <1>2, <1>3, <1>4, <1>5, <1>8
<1> QED BY <1>9 DEF g

-----------------------------------------------------------------------------
(* The Wi-Fi radios among the options that were dettached.                  *)
Wifis(l, n) == {m \in 1 .. n - 1 : l.opts[m] = "w"}

LEMMA WifisIs ==
  ASSUME NEW l, NEW n \in Nat \ {0}
  PROVE  /\ Cardinality(Wifis(l, n)) \in Nat
         /\ Cardinality(Wifis(l, n + 1)) =
              IF l.opts[n] = "w" THEN Cardinality(Wifis(l, n)) + 1
              ELSE Cardinality(Wifis(l, n))
<1>1. IsFiniteSet(1 .. n - 1)
  BY FS_Interval
<1>2. Wifis(l, n) \in SUBSET (1 .. n - 1)
  BY DEF Wifis
<1>3. IsFiniteSet(Wifis(l, n))
  BY <1>1, <1>2, FS_Subset
<1>4. n \notin Wifis(l, n)
  BY DEF Wifis
<1>5. Wifis(l, n + 1) = IF l.opts[n] = "w" THEN Wifis(l, n) \cup {n} ELSE Wifis(l, n)
  <2>1. \A m : m \in 1 .. (n + 1) - 1 <=> m \in 1 .. n - 1 \/ m = n
    OBVIOUS
  <2> QED BY <2>1 DEF Wifis
<1>6. Cardinality(Wifis(l, n) \cup {n}) = Cardinality(Wifis(l, n)) + 1
  BY <1>3, <1>4, FS_AddElement
<1> QED BY <1>3, <1>5, <1>6, FS_CardinalityType

HalInv == D!TypeOK /\ D!HeapKnown /\ D!OnlyCallbacksTwice /\ D!OnlySetCbLost

LEMMA SameCount == \A O : D!Cardinality(O) = Cardinality(O)
  BY DEF D!Cardinality, Cardinality

LEMMA LossesAre ==
  D!OnlySetCbLost <=>
    \A k \in D!Objects :
      v4.lost[k] <= IF k = "set_cb" THEN Cardinality(Wifis(v1, v2)) ELSE 0
  BY SameCount DEF D!OnlySetCbLost, Wifis

LEMMA LossesNext ==
  D!OnlySetCbLost' <=>
    \A k \in D!Objects :
      v4'.lost[k] <= IF k = "set_cb" THEN Cardinality(Wifis(v1', v2')) ELSE 0
  BY SameCount DEF D!OnlySetCbLost, Wifis

LEMMA HalTypes ==
  ASSUME HalInv
  PROVE  /\ v4 \in D!Heaps /\ v2 \in Nat \ {0} /\ v5 \in Nat /\ v6 \in Nat
         /\ v7 \subseteq Allocators
         /\ v3 \in {"getopt", "attached", "tested", "end", "crashed"}
  BY DEF HalInv, D!TypeOK, D!HeapKnown

(* Between two options nothing is held.                                     *)
LEMMA Between ==
  ASSUME HalInv, v3 = "getopt"
  PROVE  Empty(v4)
<1>1. v4 \in D!Heaps /\ v4.ptr["ctx"] # "live"
  BY DEF HalInv, D!HeapKnown, D!Attached
<1>2. \A k \in D!Objects \ {"ctx"} : v4.ptr[k] = "null"
  BY DEF HalInv, D!HeapKnown, D!Are
<1>3. v4.twice = {}
  BY DEF HalInv, D!OnlyCallbacksTwice
<1> QED BY <1>1, <1>2, <1>3 DEF Empty

(* What an attached radio holds.                                            *)
Holds(h, o) ==
  \/ o = "w" /\ Full(h) /\ {h.ptr["config0"], h.ptr["config1"]} \subseteq {"null", "live"}
  \/ o = "m" /\ ModemContext(h) /\ h.ptr["config0"] \in {"live", "junk"}

LEMMA WhileAttached ==
  ASSUME HalInv, v3 \in {"attached", "tested"}
  PROVE  /\ D!Opt \in {"w", "m"}
         /\ v3 = "tested" => D!Attached
         /\ D!Attached => Holds(v4, D!Opt)
<1>1. D!Opt \in {"w", "m"} /\ (v3 = "tested" => D!Attached)
  BY DEF HalInv, D!HeapKnown
<1>2. ASSUME D!Attached PROVE Holds(v4, D!Opt)
  <2>1. /\ v4 \in D!Heaps /\ v4.ptr["ctx"] = "live" /\ v4.ptr["sc"] = "live"
        /\ v4.twice = {}
    BY <1>2 DEF HalInv, D!HeapKnown, D!Are, D!Attached
  <2>2. CASE D!Opt = "w"
    <3>1. /\ \A j \in D!InSoftc : v4.ptr[j] = "live"
          /\ v4.ptr["config0"] \in {"null", "live"} /\ v4.ptr["config1"] \in {"null", "live"}
      BY <1>2, <2>2 DEF HalInv, D!HeapKnown, D!Are
    <3> QED BY <2>1, <2>2, <3>1 DEF Holds, Full
  <2>3. CASE D!Opt = "m"
    <3>1. /\ \A j \in D!InSoftc : v4.ptr[j] = "null" /\ v4.ptr["config1"] = "junk"
          /\ v4.ptr["config0"] \in {"live", "junk"}
      <4>1. /\ D!Are(D!InSoftc, {"null"}) /\ D!Are({"config1"}, {"junk"})
            /\ D!Are({"config0"}, {"live", "junk"})
        BY <1>2, <2>3 DEF HalInv, D!HeapKnown
      <4> QED BY <4>1 DEF D!Are
    <3>2. v4.ptr["config1"] = "junk" /\ \A j \in D!InSoftc : v4.ptr[j] = "null"
      <4>1. D!Are(D!InSoftc, {"null"}) /\ D!Are({"config1"}, {"junk"})
        BY <1>2, <2>3 DEF HalInv, D!HeapKnown
      <4> QED BY <4>1 DEF D!Are
    <3>3. v4.ptr["config0"] \in {"live", "junk"}
      <4>1. D!Are({"config0"}, {"live", "junk"})
        BY <1>2, <2>3 DEF HalInv, D!HeapKnown
      <4> QED BY <4>1 DEF D!Are
    <3> QED BY <2>1, <2>3, <3>2, <3>3 DEF Holds, ModemContext
  <2> QED BY <1>1, <2>2, <2>3
<1> QED BY <1>1, <1>2

(* What an attach or a test has to show.                                    *)
LEMMA HoldsNext ==
  ASSUME HalInv, v3' \in {"attached", "tested"}, D!Opt \in {"w", "m"},
         v1' = v1, v2' = v2, v5' \in Nat, v6' \in Nat, v7' \subseteq Allocators,
         v4'.lost = v4.lost,
         \/ Holds(v4', D!Opt)
         \/ v3' = "attached" /\ Nothing(v4') /\ v4'.twice = {}
         \/ /\ v3' = "attached" /\ Nothing(v4')
            /\ v4'.twice \subseteq {"if_cb", "link_info_cb"} /\ v7' \cap D!Callbacks # {}
  PROVE  HalInv'
<1>1. D!OnlySetCbLost'
  <2>1. D!OnlySetCbLost
    BY DEF HalInv
  <2> QED BY <2>1, LossesAre, LossesNext
<1>2. D!Opt' = D!Opt
  BY DEF D!Opt
<1>3. D!OnlyCallbacksTwice'
  BY DEF D!OnlyCallbacksTwice, Holds, Full, ModemContext
<1>4. v4' \in D!Heaps /\ v2' \in Nat \ {0}
  BY HalTypes DEF Holds, Full, ModemContext, Nothing
<1>5. /\ v4'.ptr \in [D!Objects -> {"null", "live", "gone", "junk"}]
      /\ v4'.lost \in [D!Objects -> Nat] /\ v4'.twice \subseteq D!Objects
  BY <1>4, HeapIs DEF Values4
<1>6. CASE Holds(v4', D!Opt)
  <2>1. v4'.ptr["ctx"] = "live" /\ v4'.ptr["sc"] = "live" /\ v4'.twice = {}
    BY <1>6 DEF Holds, Full, ModemContext
  <2>2. D!TypeOK'
    BY <1>5, <2>1 DEF D!TypeOK
  <2>3. D!Opt = "w" => /\ \A k \in D!InSoftc : v4'.ptr[k] \in {"live"}
                       /\ \A k \in {"config0", "config1"} : v4'.ptr[k] \in {"null", "live"}
    BY <1>6 DEF Holds, Full
  <2>4. D!Opt = "m" => /\ \A k \in D!InSoftc : v4'.ptr[k] \in {"null"}
                       /\ \A k \in {"config1"} : v4'.ptr[k] \in {"junk"}
                       /\ \A k \in {"config0"} : v4'.ptr[k] \in {"live", "junk"}
    BY <1>6 DEF Holds, ModemContext
  <2>5. D!HeapKnown'
    BY <1>2, <1>4, <2>1, <2>3, <2>4 DEF D!HeapKnown, D!Are, D!Attached
  <2> QED BY <1>1, <1>3, <2>2, <2>5 DEF HalInv
<1>7. CASE v3' = "attached" /\ Nothing(v4')
  <2>1. v4'.ptr["ctx"] # "live" /\ v4'.ptr["sc"] # "live"
    BY <1>7, ObjectsAre DEF Nothing
  <2>2. D!TypeOK'
    BY <1>5, <1>7, <2>1 DEF D!TypeOK
  <2>3. D!HeapKnown'
    BY <1>2, <1>4, <1>7, <2>1 DEF D!HeapKnown, D!Attached
  <2> QED BY <1>1, <1>3, <2>2, <2>3 DEF HalInv
<1> QED BY <1>6, <1>7

(* Between two options again.                                               *)
LEMMA EmptyNext ==
  ASSUME v3' = "getopt", Empty(v4'), v2' \in Nat \ {0}, v5' \in Nat, v6' \in Nat,
         v7' \subseteq Allocators, D!OnlySetCbLost'
  PROVE  HalInv'
<1>1. /\ v4' \in D!Heaps /\ v4'.twice = {} /\ v4'.ptr["ctx"] # "live"
      /\ \A k \in D!Objects \ {"ctx"} : v4'.ptr[k] = "null"
  BY DEF Empty
<1>2. /\ v4'.ptr \in [D!Objects -> {"null", "live", "gone", "junk"}]
      /\ v4'.lost \in [D!Objects -> Nat] /\ v4'.twice \subseteq D!Objects
  BY <1>1, HeapIs DEF Values4
<1>3. v4'.ptr["sc"] = "null"
  BY <1>1, ObjectsAre
<1>4. D!TypeOK'
  BY <1>1, <1>2, <1>3 DEF D!TypeOK
<1>5. D!HeapKnown'
  BY <1>1 DEF D!HeapKnown, D!Are, D!Attached
<1>6. D!OnlyCallbacksTwice'
  BY <1>1 DEF D!OnlyCallbacksTwice
<1> QED BY <1>4, <1>5, <1>6 DEF HalInv

(* The end, or a crash: the heap is left as it is.                          *)
LEMMA StopNext ==
  ASSUME HalInv, v1' = v1, v2' = v2, v4' = v4, v5' = v5, v6' = v6, v7' = v7,
         \/ v3' = "end" /\ v3 = "getopt"
         \/ v3' = "crashed" /\ v3 \in {"attached", "tested"}
  PROVE  HalInv'
<1>1. D!TypeOK'
  BY DEF HalInv, D!TypeOK
<1>2. D!HeapKnown'
  BY DEF HalInv, D!HeapKnown
<1>3. D!OnlyCallbacksTwice'
  BY DEF HalInv, D!OnlyCallbacksTwice
<1>4. D!OnlySetCbLost'
  <2>1. D!OnlySetCbLost
    BY DEF HalInv
  <2> QED BY <2>1, LossesAre, LossesNext
<1> QED BY <1>1, <1>2, <1>3, <1>4 DEF HalInv

LEMMA HalInit ==
  ASSUME D!Init
  PROVE  HalInv
<1>1. /\ v2 = 1 /\ v3 = "getopt" /\ v5 = 0 /\ v6 = 0 /\ v7 = {}
      /\ v4 = [ptr |-> [k \in D!Objects |-> "null"], lost |-> [k \in D!Objects |-> 0],
               twice |-> {}]
  BY DEF D!Init, D!All
<1>2. /\ v4.ptr = [k \in D!Objects |-> "null"] /\ v4.lost = [k \in D!Objects |-> 0]
      /\ v4.twice = {}
  BY <1>1
<1>3. v4 \in D!Heaps
  <2>1. /\ v4.ptr \in [D!Objects -> Values4] /\ v4.lost \in [D!Objects -> Nat]
        /\ v4.twice \in SUBSET D!Objects
    BY <1>2 DEF Values4
  <2> QED BY <1>1, <2>1 DEF D!Heaps, Values4
<1>4. v4.ptr["ctx"] = "null" /\ v4.ptr["sc"] = "null"
  BY <1>2, ObjectsAre
<1>5. D!TypeOK
  BY <1>1, <1>2, <1>3, <1>4, HeapIs DEF D!TypeOK, Values4
<1>6. D!HeapKnown
  BY <1>1, <1>2, <1>3, <1>4 DEF D!HeapKnown, D!Are, D!Attached
<1>7. D!OnlyCallbacksTwice
  BY <1>2 DEF D!OnlyCallbacksTwice
<1>8. D!OnlySetCbLost
  <2>1. Cardinality(Wifis(v1, v2)) \in Nat
    BY <1>1, WifisIs
  <2>2. \A k \in D!Objects : v4.lost[k] = 0
    BY <1>2
  <2> QED BY <2>1, <2>2, LossesAre
<1> QED BY <1>5, <1>6, <1>7, <1>8 DEF HalInv

(* An attach holds what dettach gives back, or nothing at all.              *)
LEMMA HalAttachKept ==
  ASSUME HalInv, NEW no \in {{}} \cup {{a} : a \in Allocators}, D!radio_hal_attach(no)
  PROVE  HalInv' /\ D!NoContextHoldsNothing
<1>1. /\ v3 = "getopt" /\ v7' = no /\ v1' = v1 /\ v6' = v6
  BY DEF D!radio_hal_attach
<1>2. no \subseteq Allocators
  OBVIOUS
<1>3. Empty(v4)
  BY <1>1, Between
<1>4. v5' \in Nat /\ v6' \in Nat /\ v7' \subseteq Allocators
  <2>1. v5' = v5 \/ v5' = v5 + 1
    BY DEF D!radio_hal_attach
  <2> QED BY <1>1, <1>2, <2>1, HalTypes
<1>5. CASE D!Opt = "w" /\ v3' = "attached" /\ v4' = D!wifi_hal_attach(v4, no) /\ v2' = v2
  <2>1. /\ v4'.lost = v4.lost
        /\ \/ Full(v4') /\ v4'.ptr["config0"] = "null" /\ v4'.ptr["config1"] = "null"
           \/ Nothing(v4') /\ v4'.twice = {}
           \/ /\ Nothing(v4') /\ v4'.twice \subseteq {"if_cb", "link_info_cb"}
              /\ no \cap D!Callbacks # {}
    BY <1>3, <1>5, WifiAttachIs
  <2>2. HalInv'
    <3>1. Full(v4') /\ v4'.ptr["config0"] = "null" /\ v4'.ptr["config1"] = "null"
            => Holds(v4', D!Opt)
      BY <1>5 DEF Holds
    <3> QED BY <1>1, <1>4, <1>5, <2>1, <3>1, HoldsNext
  <2>3. D!NoContextHoldsNothing
    BY <2>1 DEF D!NoContextHoldsNothing, D!Attached, Full, Nothing
  <2> QED BY <2>2, <2>3
<1>6. CASE D!Opt = "m" /\ v3' = "attached" /\ v4' = D!modem_hal_attach(v4, no) /\ v2' = v2
  <2>1. /\ v4'.lost = v4.lost /\ v4'.twice = {}
        /\ Nothing(v4') \/ (ModemContext(v4') /\ v4'.ptr["config0"] = "junk")
    BY <1>3, <1>6, ModemAttachIs
  <2>2. HalInv'
    <3>1. ModemContext(v4') /\ v4'.ptr["config0"] = "junk" => Holds(v4', D!Opt)
      BY <1>6 DEF Holds
    <3> QED BY <1>1, <1>4, <1>6, <2>1, <3>1, HoldsNext
  <2>3. D!NoContextHoldsNothing
    BY <2>1 DEF D!NoContextHoldsNothing, D!Attached, ModemContext, Nothing
  <2> QED BY <2>2, <2>3
<1>7. CASE D!Opt \in {"b", "z"} /\ v2' = v2 + 1 /\ v3' = v3 /\ v4' = v4 /\ v5' = v5
  <2>1. v2 \in Nat \ {0}
    BY HalTypes
  <2>2. Wifis(v1', v2') = Wifis(v1, v2 + 1)
    BY <1>1, <1>7
  <2>3. Cardinality(Wifis(v1', v2')) = Cardinality(Wifis(v1, v2))
    BY <1>7, <2>1, <2>2, WifisIs DEF D!Opt
  <2>4. D!OnlySetCbLost
    BY DEF HalInv
  <2>5. D!OnlySetCbLost'
    BY <1>7, <2>3, <2>4, LossesAre, LossesNext
  <2>6. HalInv'
    BY <1>1, <1>3, <1>4, <1>7, <2>1, <2>5, EmptyNext
  <2>7. D!NoContextHoldsNothing
    BY <1>1, <1>7 DEF D!NoContextHoldsNothing
  <2> QED BY <2>6, <2>7
<1> QED BY <1>5, <1>6, <1>7 DEF D!radio_hal_attach

(* A test gives the radio its configurations, or crashes.                   *)
LEMMA TestWifiKept ==
  ASSUME HalInv, D!TestWifi
  PROVE  HalInv'
<1>1. /\ v3 = "attached" /\ D!Opt = "w" /\ v1' = v1 /\ v2' = v2 /\ v5' = v5 /\ v6' = v6
      /\ v7' = v7
  BY DEF D!TestWifi
<1>2. CASE v3' = "crashed" /\ v4' = v4
  BY <1>1, <1>2, StopNext
<1>3. ASSUME NEW c0 \in {"live", "null"}, NEW c1 \in {"live", "null"}, D!Attached,
             v3' = "tested",
             v4' = [v4 EXCEPT !.ptr["config0"] = c0, !.ptr["config1"] = c1]
      PROVE  HalInv'
  <2>1. Full(v4)
    BY <1>1, <1>3, WhileAttached DEF Holds
  <2>2. v4 \in D!Heaps
    BY HalTypes
  <2> DEFINE q == [[v4.ptr EXCEPT !["config0"] = c0] EXCEPT !["config1"] = c1]
  <2>3. v4' = [ptr |-> q, lost |-> v4.lost, twice |-> v4.twice]
    <3> DEFINE r == [v4.ptr EXCEPT !["config0"] = c0]
               e == [v4 EXCEPT !.ptr["config0"] = c0]
    <3>1. e = [ptr |-> r, lost |-> v4.lost, twice |-> v4.twice]
      BY <2>2, HeapIs
    <3>2. v4' = [e EXCEPT !.ptr["config1"] = c1]
      BY <1>3
    <3>3. q = [r EXCEPT !["config1"] = c1]
      OBVIOUS
    <3> HIDE DEF e, q, r
    <3> QED BY <3>1, <3>2, <3>3
  <2>4. /\ q \in [D!Objects -> Values4] /\ q["config0"] = c0 /\ q["config1"] = c1
        /\ \A j \in D!Objects : j # "config0" /\ j # "config1" => q[j] = v4.ptr[j]
    <3>1. c0 \in Values4 /\ c1 \in Values4
      BY DEF Values4
    <3> QED BY <2>2, <3>1, HeapIs, ObjectsAre
  <2> HIDE DEF q
  <2>5. v4' \in D!Heaps
    BY <2>2, <2>3, <2>4, HeapIs, HeapOf
  <2>6. \A j \in D!InSoftc : j \in D!Objects /\ j # "config0" /\ j # "config1"
    BY DEF D!InSoftc, D!Callbacks, D!Objects
  <2>7. /\ v4'.lost = v4.lost /\ v4'.twice = {} /\ v4'.ptr["ctx"] = "live"
        /\ v4'.ptr["sc"] = "live" /\ v4'.ptr["config0"] = c0 /\ v4'.ptr["config1"] = c1
        /\ \A j \in D!InSoftc : v4'.ptr[j] = "live"
    BY <2>1, <2>3, <2>4, <2>6, ObjectsAre DEF Full
  <2>8. Full(v4')
    BY <2>5, <2>7 DEF Full
  <2>9. Holds(v4', D!Opt)
    BY <1>1, <2>7, <2>8 DEF Holds
  <2> QED BY <1>1, <1>3, <2>7, <2>9, HalTypes, HoldsNext
<1>4. \/ v3' = "crashed" /\ v4' = v4
      \/ \E c0, c1 \in {"live", "null"} :
           /\ D!Attached /\ v3' = "tested"
           /\ v4' = [v4 EXCEPT !.ptr["config0"] = c0, !.ptr["config1"] = c1]
  BY Zenon DEF D!TestWifi, D!Crash, D!Tested
<1> QED BY <1>2, <1>3, <1>4

LEMMA TestModemKept ==
  ASSUME HalInv, D!TestModem
  PROVE  HalInv'
<1>1. /\ v3 = "attached" /\ D!Opt = "m" /\ v1' = v1 /\ v2' = v2 /\ v5' = v5 /\ v7' = v7
  BY DEF D!TestModem
<1>2. CASE v3' = "crashed" /\ v4' = v4 /\ v6' = v6
  BY <1>1, <1>2, StopNext
<1>3. CASE D!Attached /\ v3' = "tested" /\ v4' = D!Take(v4, "config0") /\ v6' \in Nat
  <2>1. ModemContext(v4)
    BY <1>1, <1>3, WhileAttached DEF Holds
  <2>2. v4 \in D!Heaps
    BY HalTypes
  <2>3. /\ v4' \in D!Heaps /\ v4'.lost = v4.lost /\ v4'.twice = v4.twice
        /\ v4'.ptr["config0"] = "live"
        /\ \A j \in D!Objects : j # "config0" => v4'.ptr[j] = v4.ptr[j]
    BY <1>3, <2>2, TakeIs, ObjectsAre
  <2>4. \A j \in D!InSoftc : j \in D!Objects /\ j # "config0"
    BY DEF D!InSoftc, D!Callbacks, D!Objects
  <2>5. ModemContext(v4')
    BY <2>1, <2>3, <2>4, ObjectsAre DEF ModemContext
  <2>6. Holds(v4', D!Opt)
    BY <1>1, <2>3, <2>5 DEF Holds
  <2> QED BY <1>1, <1>3, <2>3, <2>6, HalTypes, HoldsNext
<1>4. \/ v3' = "crashed" /\ v4' = v4 /\ v6' = v6
      \/ D!Attached /\ v3' = "tested" /\ v4' = D!Take(v4, "config0") /\ v6' \in Nat
  <2>1. \A fd \in {0, 1} : v6 + fd \in Nat
    BY HalTypes
  <2> QED BY <2>1, HalTypes DEF D!TestModem, D!Crash, D!Tested
<1> QED BY <1>2, <1>3, <1>4

(* After dettach only the callback of a Wi-Fi radio is lost.                *)
LEMMA DettachKept ==
  ASSUME HalInv, D!radio_hal_dettach
  PROVE  HalInv'
<1>1. v3 = "tested" /\ v1' = v1 /\ v5' = v5 /\ v6' = v6 /\ v7' = v7
  BY DEF D!radio_hal_dettach
<1>2. Holds(v4, D!Opt) /\ D!Opt \in {"w", "m"}
  BY <1>1, WhileAttached
<1>3. CASE v3' = "crashed" /\ v2' = v2 /\ v4' = v4
  BY <1>1, <1>3, StopNext
<1>4. CASE /\ v3' = "getopt" /\ v2' = v2 + 1
           /\ v4' = IF D!Opt = "w" THEN D!wifi_hal_dettach(v4) ELSE D!modem_hal_detach(v4)
  <2>1. v2 \in Nat \ {0} /\ v2' \in Nat \ {0}
    BY <1>4, HalTypes
  <2>2. Cardinality(Wifis(v1, v2)) \in Nat
    BY <2>1, WifisIs
  <2>3. Cardinality(Wifis(v1', v2')) =
          IF D!Opt = "w" THEN Cardinality(Wifis(v1, v2)) + 1
          ELSE Cardinality(Wifis(v1, v2))
    <3>1. Wifis(v1', v2') = Wifis(v1, v2 + 1)
      BY <1>1, <1>4
    <3> QED BY <2>1, <3>1, WifisIs DEF D!Opt
  <2>4. \A k \in D!Objects :
          v4.lost[k] <= IF k = "set_cb" THEN Cardinality(Wifis(v1, v2)) ELSE 0
    <3>1. D!OnlySetCbLost
      BY DEF HalInv
    <3> QED BY <3>1, LossesAre
  <2>5. v4.lost \in [D!Objects -> Nat]
    BY HalTypes, HeapIs
  <2>6. CASE D!Opt = "w"
    <3>1. /\ Empty(v4')
          /\ \A k \in D!Objects :
               v4'.lost[k] = IF k = "set_cb" THEN v4.lost[k] + 1 ELSE v4.lost[k]
      <4>1. Full(v4) /\ v4.ptr["config0"] \in {"null", "live"}
            /\ v4.ptr["config1"] \in {"null", "live"}
        BY <1>2, <2>6 DEF Holds
      <4>2. v4' = D!wifi_hal_dettach(v4)
        BY <1>4, <2>6
      <4> QED BY <4>1, <4>2, WifiDettachIs
    <3>2. \A k \in D!Objects :
            v4'.lost[k] <= IF k = "set_cb" THEN Cardinality(Wifis(v1', v2')) ELSE 0
      BY <2>2, <2>3, <2>4, <2>5, <2>6, <3>1
    <3>3. D!OnlySetCbLost'
      BY <3>2, LossesNext
    <3> QED BY <1>1, <1>4, <2>1, <3>1, <3>3, HalTypes, EmptyNext
  <2>7. CASE D!Opt = "m"
    <3>1. Empty(v4') /\ v4'.lost = v4.lost
      <4>1. ModemContext(v4) /\ v4.ptr["config0"] \in {"live", "junk"}
        BY <1>2, <2>7 DEF Holds
      <4>2. v4' = D!modem_hal_detach(v4)
        BY <1>4, <2>7
      <4> QED BY <4>1, <4>2, ModemDetachIs
    <3>2. D!OnlySetCbLost'
      BY <2>3, <2>4, <2>7, <3>1, LossesNext
    <3> QED BY <1>1, <1>4, <2>1, <3>1, <3>2, HalTypes, EmptyNext
  <2> QED BY <1>2, <2>6, <2>7
<1> QED BY <1>3, <1>4 DEF D!radio_hal_dettach

(* The modems among the options before the n-th.                            *)
Modems(l, n) == {m \in 1 .. n - 1 : l.opts[m] = "m"}

LEMMA ModemsAre ==
  ASSUME NEW l, NEW n \in Nat \ {0}
  PROVE  /\ Cardinality(Modems(l, n)) \in Nat
         /\ Cardinality(Modems(l, n + 1)) =
              IF l.opts[n] = "m" THEN Cardinality(Modems(l, n)) + 1
              ELSE Cardinality(Modems(l, n))
<1>1. IsFiniteSet(1 .. n - 1)
  BY FS_Interval
<1>2. Modems(l, n) \in SUBSET (1 .. n - 1)
  BY DEF Modems
<1>3. IsFiniteSet(Modems(l, n))
  BY <1>1, <1>2, FS_Subset
<1>4. n \notin Modems(l, n)
  BY DEF Modems
<1>5. Modems(l, n + 1) = IF l.opts[n] = "m" THEN Modems(l, n) \cup {n} ELSE Modems(l, n)
  <2>1. \A m : m \in 1 .. (n + 1) - 1 <=> m \in 1 .. n - 1 \/ m = n
    OBVIOUS
  <2> QED BY <2>1 DEF Modems
<1>6. Cardinality(Modems(l, n) \cup {n}) = Cardinality(Modems(l, n)) + 1
  BY <1>3, <1>4, FS_AddElement
<1> QED BY <1>3, <1>5, <1>6, FS_CardinalityType

(* How many pipes and AT channels there may be, with c modems before this   *)
(* option.                                                                  *)
PipesMay(c) == c + (IF v3 \in {"attached", "tested", "crashed"} /\ D!Opt = "m" THEN 1 ELSE 0)
ReadersMay(c) ==
  IF D!Cmd = "rssi" THEN 0
  ELSE c + (IF v3 \in {"tested", "crashed"} /\ D!Opt = "m" THEN 1 ELSE 0)

LEMMA LeftIs ==
  /\ D!OnlyModemsLeft <=> /\ v5 <= PipesMay(Cardinality(Modems(v1, v2)))
                          /\ v6 <= ReadersMay(Cardinality(Modems(v1, v2)))
  /\ D!OnlyModemsLeft' <=> /\ v5' <= PipesMay(Cardinality(Modems(v1, v2)))'
                           /\ v6' <= ReadersMay(Cardinality(Modems(v1, v2)))'
  BY SameCount DEF D!OnlyModemsLeft, D!Modems, Modems, PipesMay, ReadersMay

(* Only an attach makes a pipe and only a test leaves a channel, each at    *)
(* most one, and dettach counts their modem among those before.             *)
LEMMA LeftKept ==
  ASSUME HalInv, D!OnlyModemsLeft, D!Next
  PROVE  D!OnlyModemsLeft'
<1> DEFINE c == Cardinality(Modems(v1, v2))
<1>1. v2 \in Nat \ {0} /\ v5 \in Nat /\ v6 \in Nat
  BY HalTypes
<1>2. c \in Nat /\ v5 <= PipesMay(c) /\ v6 <= ReadersMay(c)
  BY <1>1, ModemsAre, LeftIs
<1>3. v1' = v1
  BY Zenon DEF D!Next, D!radio_hal_attach, D!Help, D!End, D!TestWifi, D!TestModem,
       D!radio_hal_dettach
<1>4. D!Cmd' = D!Cmd
  BY <1>3 DEF D!Cmd
<1>5. v2' = v2 => Cardinality(Modems(v1, v2))' = c /\ D!Opt' = D!Opt
  BY <1>3 DEF Modems, D!Opt
<1>6. v2' = v2 + 1 =>
        Cardinality(Modems(v1, v2))' = IF D!Opt = "m" THEN c + 1 ELSE c
  <2>1. v2' = v2 + 1 => Modems(v1, v2)' = Modems(v1, v2 + 1)
    BY <1>3 DEF Modems
  <2> QED BY <1>1, <2>1, ModemsAre DEF D!Opt
<1> HIDE DEF c
<1>7. CASE /\ v2' = v2 /\ v6' = v6
           /\ v3' = "attached" /\ v3 = "getopt"
           /\ v5' = v5 \/ (v5' = v5 + 1 /\ D!Opt = "m")
  BY <1>1, <1>2, <1>4, <1>5, <1>7, LeftIs DEF PipesMay, ReadersMay
<1>8. CASE v2' = v2 + 1 /\ D!Opt # "m" /\ v5' = v5 /\ v6' = v6 /\ v3' = "getopt" /\ v3 = "getopt"
  BY <1>1, <1>2, <1>4, <1>6, <1>8, LeftIs DEF PipesMay, ReadersMay
<1>9. CASE v2' = v2 /\ v5' = v5 /\ v6' = v6 /\ v3' = "end" /\ v3 = "getopt"
  BY <1>1, <1>2, <1>4, <1>5, <1>9, LeftIs DEF PipesMay, ReadersMay
<1>10. CASE /\ v2' = v2 /\ v5' = v5 /\ v3 = "attached" /\ v3' \in {"tested", "crashed"}
            /\ v6' = v6 \/ (/\ v6' = v6 + 1 /\ D!Opt = "m" /\ v3' = "tested"
                            /\ D!Cmd # "rssi")
  BY <1>1, <1>2, <1>4, <1>5, <1>10, LeftIs DEF PipesMay, ReadersMay
<1>11. CASE /\ v5' = v5 /\ v6' = v6 /\ v3 = "tested"
            /\ (v2' = v2 + 1 /\ v3' = "getopt") \/ (v2' = v2 /\ v3' = "crashed")
  BY <1>1, <1>2, <1>4, <1>5, <1>6, <1>11, LeftIs DEF PipesMay, ReadersMay
<1>12. CASE \E no \in {{}} \cup {{a} : a \in Allocators} : D!radio_hal_attach(no)
  BY <1>7, <1>8, <1>12 DEF D!radio_hal_attach
<1>13. CASE D!Help \/ D!End
  BY <1>9, <1>13 DEF D!Help, D!End
<1>14. CASE D!TestWifi
  BY <1>10, <1>14 DEF D!TestWifi, D!Crash, D!Tested
<1>15. CASE D!TestModem
  <2>1. \A fd \in {0, 1} : v6 + fd = v6 \/ v6 + fd = v6 + 1
    BY <1>1
  <2> QED BY <1>1, <1>10, <1>15, <2>1 DEF D!TestModem, D!Crash, D!Tested
<1>16. CASE D!radio_hal_dettach
  BY <1>11, <1>16 DEF D!radio_hal_dettach
<1> QED BY <1>12, <1>13, <1>14, <1>15, <1>16 DEF D!Next

LEMMA HalKept ==
  ASSUME HalInv, D!Next
  PROVE  HalInv' /\ D!NoContextHoldsNothing
<1>1. ASSUME NEW no \in {{}} \cup {{a} : a \in Allocators}, D!radio_hal_attach(no)
      PROVE  HalInv' /\ D!NoContextHoldsNothing
  BY <1>1, HalAttachKept
<1>2. CASE D!Help \/ D!End
  <2>1. /\ v3 = "getopt" /\ v3' = "end" /\ v1' = v1 /\ v2' = v2 /\ v4' = v4 /\ v5' = v5
        /\ v6' = v6 /\ v7' = v7
    BY <1>2 DEF D!Help, D!End
  <2> QED BY <2>1, StopNext DEF D!NoContextHoldsNothing
<1>3. CASE D!TestWifi
  <2>1. v3' # "attached"
    BY <1>3, Zenon DEF D!TestWifi, D!Crash, D!Tested
  <2> QED BY <1>3, <2>1, TestWifiKept DEF D!NoContextHoldsNothing
<1>4. CASE D!TestModem
  <2>1. v3' # "attached"
    BY <1>4, Zenon DEF D!TestModem, D!Crash, D!Tested
  <2> QED BY <1>4, <2>1, TestModemKept DEF D!NoContextHoldsNothing
<1>5. CASE D!radio_hal_dettach
  <2>1. v3' # "attached"
    BY <1>5, Zenon DEF D!radio_hal_dettach
  <2> QED BY <1>5, <2>1, DettachKept DEF D!NoContextHoldsNothing
<1> QED BY <1>1, <1>2, <1>3, <1>4, <1>5 DEF D!Next

(* Whatever the options and whichever call of an attach fails: an attach    *)
(* that gives no context holds no memory, nothing is put twice but          *)
(* callbacks of a failed attach, the memory that is lost is set_cb, once    *)
(* for each Wi-Fi radio that was dettached, and what stays open is at most  *)
(* a pipe and an AT channel for each modem, no channel after the RSSI test. *)
THEOREM HalGivesAllBack == Spec => HalGivesBack
<1> DEFINE I == part = "daemon" => HalInv /\ D!OnlyModemsLeft
<1>1. Init => I
  <2> SUFFICES ASSUME Init, part = "daemon"
               PROVE  HalInv /\ D!OnlyModemsLeft
    OBVIOUS
  <2>1. D!Init
    BY DEF Init
  <2>2. v2 = 1 /\ v5 = 0 /\ v6 = 0
    BY <2>1 DEF D!Init
  <2>3. Cardinality(Modems(v1, v2)) \in Nat
    BY <2>2, ModemsAre
  <2>4. D!OnlyModemsLeft
    BY <2>2, <2>3, LeftIs DEF PipesMay, ReadersMay
  <2> QED BY <2>1, <2>4, HalInit
<1>2. I /\ [Next]_vars => I' /\ [part = "daemon" => D!NoContextHoldsNothing]_vars
  <2> SUFFICES ASSUME I, [Next]_vars
               PROVE  I' /\ [part = "daemon" => D!NoContextHoldsNothing]_vars
    OBVIOUS
  <2>1. CASE UNCHANGED vars
    <3>1. /\ v1' = v1 /\ v2' = v2 /\ v3' = v3 /\ v4' = v4 /\ v5' = v5 /\ v6' = v6
          /\ v7' = v7 /\ part' = part
      BY <2>1 DEF vars
    <3>2. HalInv => HalInv'
      BY <3>1, Zenon DEF HalInv, D!TypeOK, D!HeapKnown, D!Are, D!Attached, D!Opt,
           D!OnlyCallbacksTwice, D!OnlySetCbLost
    <3>3. D!Opt' = D!Opt /\ D!Cmd' = D!Cmd
      BY <3>1 DEF D!Opt, D!Cmd
    <3>4. Cardinality(Modems(v1, v2))' = Cardinality(Modems(v1, v2))
      BY <3>1 DEF Modems
    <3>5. D!OnlyModemsLeft => D!OnlyModemsLeft'
      BY <3>1, <3>3, <3>4, LeftIs DEF PipesMay, ReadersMay
    <3> QED BY <2>1, <3>1, <3>2, <3>5
  <2>2. CASE Next /\ part = "daemon"
    <3>1. D!Next /\ part' = part
      BY <2>2 DEF Next
    <3> QED BY <2>2, <3>1, HalKept, LeftKept
  <2>3. CASE Next /\ part # "daemon"
    <3>1. part' = part
      BY <2>3 DEF Next
    <3> QED BY <2>3, <3>1
  <2> QED BY <2>1, <2>2, <2>3
<1>3. I => (part = "daemon" => /\ D!TypeOK /\ D!OnlyCallbacksTwice
                              /\ D!OnlySetCbLost /\ D!OnlyModemsLeft)
  BY DEF HalInv
<1> QED BY <1>1, <1>2, <1>3, PTL DEF Spec, HalGivesBack

=============================================================================
