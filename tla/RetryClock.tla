----------------------------- MODULE RetryClock -----------------------------
(***************************************************************************)
(* The retry loop of wpa_ctrl_request with the clock of os_unix.c and the  *)
(* arithmetic of os.h (all in src/wifi/wpa_socket).  WpaCtrl lets the loop *)
(* give up at any time; this module is about when it does.                 *)
(*                                                                         *)
(* The clocks are external: CLOCK_BOOTTIME and CLOCK_MONOTONIC may be      *)
(* unknown to the kernel, CLOCK_REALTIME may be set, and a system that was *)
(* suspended has aged on all but CLOCK_MONOTONIC.                          *)
(***************************************************************************)
EXTENDS Integers, Sequences, TLC

CONSTANTS
  Uptimes,          \* [sec, usec] since boot when the call is made
  Delays,           \* microseconds by which a sleep is too long
  MaxWait           \* bound on the seconds the loop is followed

VARIABLES
  broken,           \* clocks the kernel does not know
  time,             \* what each clock shows
  clock_id,         \* static clock_id
  started_at,
  rpc,              \* "send", "busy", "sleep", "select", "send_err"
  refused,          \* history: send failed for another reason
  waited,           \* history: microseconds since the first EAGAIN
  odd               \* clocks that were set, or went on while suspended

vars == <<broken, time, clock_id, started_at, rpc, refused, waited, odd>>

SEC == 1000000
Clocks == {"BOOTTIME", "MONOTONIC", "REALTIME"}

(* Time t later by n microseconds.                                          *)
Later(t, n) == [sec |-> t.sec + (t.usec + n) \div SEC,
                usec |-> (t.usec + n) % SEC]

Zero == [sec |-> 0, usec |-> 0]

Init ==
  /\ broken \in {{}, {"BOOTTIME"}, {"BOOTTIME", "MONOTONIC"}}
  /\ \E up \in Uptimes :
       time = [BOOTTIME |-> up, MONOTONIC |-> up,
               REALTIME |-> Later(up, 900 * SEC)]
  /\ clock_id = "BOOTTIME" /\ started_at = Zero
  /\ rpc = "send" /\ refused = FALSE /\ waited = 0 /\ odd = {}

-----------------------------------------------------------------------------
(***************************************************************************)
(* os.h and os_unix.c.                                                     *)
(***************************************************************************)
(* Mutant: nothing is borrowed from the seconds.                            *)
os_reltime_sub_NoBorrow(a, b) ==
  LET usec == a.usec - b.usec
  IN  [sec |-> a.sec - b.sec, usec |-> IF usec < 0 THEN usec + SEC ELSE usec]

os_reltime_sub(a, b) ==
  LET usec == a.usec - b.usec
      sec == a.sec - b.sec
  IN  IF usec < 0 THEN [sec |-> sec - 1, usec |-> usec + SEC]
                  ELSE [sec |-> sec, usec |-> usec]

os_reltime_expired(now, ts, timeout_secs) ==
  LET age == os_reltime_sub(now, ts)
  IN  \/ age.sec > timeout_secs
      \/ age.sec = timeout_secs /\ age.usec > 0

NextClock == [BOOTTIME |-> "MONOTONIC", MONOTONIC |-> "REALTIME",
              REALTIME |-> "REALTIME"]

(* The clock that is used from now on; CLOCK_REALTIME never fails.          *)
Working ==
  LET next == NextClock[clock_id]
  IN  IF clock_id \notin broken THEN clock_id
      ELSE IF next \notin broken THEN next ELSE NextClock[next]

os_get_reltime(t) == clock_id' = Working /\ t' = time[Working]

(* sleep() may take longer than it was told; all clocks go on.              *)
os_sleep(sec) ==
  \E d \in Delays :
    /\ time' = [c \in Clocks |-> Later(time[c], sec * SEC + d)]
    /\ waited' = waited + sec * SEC + d

-----------------------------------------------------------------------------
(***************************************************************************)
(* wpa_ctrl_request: retry_send.                                           *)
(***************************************************************************)
Send ==
  /\ rpc = "send"
  /\ \/ rpc' = "select" /\ UNCHANGED refused
     \/ rpc' = "send_err" /\ refused' = TRUE
     \/ rpc' = "busy" /\ UNCHANGED refused
  /\ UNCHANGED <<broken, time, clock_id, started_at, waited, odd>>

(* EAGAIN.  The start is taken again as long as it is in the first second   *)
(* after boot, which looks like none.                                       *)
Busy ==
  /\ rpc = "busy"
  /\ \/ /\ started_at.sec = 0 /\ os_get_reltime(started_at)
        /\ waited' = IF started_at = Zero THEN 0 ELSE waited
        /\ rpc' = "sleep"
     \/ /\ started_at.sec # 0
        /\ clock_id' = Working
        /\ rpc' = IF os_reltime_expired(time[Working], started_at, 5)
                  THEN "send_err" ELSE "sleep"
        /\ UNCHANGED <<started_at, waited>>
  /\ UNCHANGED <<broken, time, refused, odd>>

Sleep ==
  /\ rpc = "sleep" /\ rpc' = "send" /\ waited < MaxWait * SEC /\ os_sleep(1)
  /\ UNCHANGED <<broken, clock_id, started_at, refused, odd>>

wpa_ctrl_request == Send \/ Busy \/ Sleep

(* The clock is set, or the system suspended, once (external).              *)
SetClock ==
  /\ odd = {} /\ odd' = {"REALTIME"} /\ rpc = "sleep"
  /\ \E n \in {-20, 20} :
       time' = [time EXCEPT !["REALTIME"] = Later(@, n * SEC)]
  /\ UNCHANGED <<broken, clock_id, started_at, rpc, refused, waited>>

Suspend ==
  /\ odd = {} /\ odd' = {"BOOTTIME", "REALTIME"} /\ rpc = "sleep"
  /\ time' = [c \in Clocks |-> IF c = "MONOTONIC" THEN time[c]
                               ELSE Later(time[c], 20 * SEC)]
  /\ UNCHANGED <<broken, clock_id, started_at, rpc, refused, waited>>

Next == wpa_ctrl_request \/ SetClock \/ Suspend

(* The statements of the loop are run; nothing is assumed of the clocks     *)
(* but that a second that was slept has passed on all of them.              *)
Spec == Init /\ [][Next]_vars /\ WF_vars(wpa_ctrl_request)

-----------------------------------------------------------------------------
(***************************************************************************)
(* Properties.                                                             *)
(***************************************************************************)
TypeOK ==
  /\ clock_id \in Clocks /\ broken \subseteq Clocks \ {"REALTIME"}
  /\ \A c \in Clocks : time[c].sec \in Int /\ time[c].usec \in 0 .. SEC - 1
  /\ rpc \in {"send", "busy", "sleep", "select", "send_err"}
  /\ waited \in Nat /\ refused \in BOOLEAN /\ odd \subseteq Clocks

GaveUp == rpc = "send_err" /\ ~refused

Longest == 1 * SEC + CHOOSE d \in Delays : \A e \in Delays : e <= d

(* A supplicant that is busy is given more than five seconds, "a few", and  *)
(* the caller waits for at most one sleep more, or two when the system had  *)
(* just booted: whatever the microseconds are, and whatever happens to a    *)
(* clock that the loop does not use.                                        *)
AFewSeconds ==
  GaveUp /\ clock_id \notin odd => waited > 5 * SEC /\ waited <= 5 * SEC + 2 * Longest

(* The loop uses CLOCK_REALTIME, which can be set, only if there is no      *)
(* other clock, and never compares the times of two clocks.                 *)
OneClock ==
  /\ started_at # Zero => clock_id' = clock_id
  /\ clock_id' = "REALTIME" => {"BOOTTIME", "MONOTONIC"} \subseteq broken

(* The strengthening that makes these inductive.  By the clock that is      *)
(* used, the age of started_at is what the caller has waited, less at most  *)
(* one sleep: the one before a start in the first second was taken again.   *)
(* A clock the kernel does not know is given up before a start is taken.    *)
Stamps == [sec : Int, usec : 0 .. SEC - 1]
Us(t) == t.sec * SEC + t.usec
Age == Us(time[clock_id]) - Us(started_at)

ClockSettled ==
  /\ time \in [Clocks -> Stamps] /\ started_at \in Stamps
  /\ clock_id = "MONOTONIC" => "BOOTTIME" \in broken
  /\ clock_id = "REALTIME" => {"BOOTTIME", "MONOTONIC"} \subseteq broken
  /\ clock_id \in broken => odd = {} /\ started_at = Zero /\ rpc # "sleep"

AgeIsWaited ==
  clock_id \notin odd =>
    /\ rpc = "sleep" =>
         IF started_at.sec = 0 THEN Age = 0 /\ waited = 0
         ELSE Age <= 5 * SEC /\ waited - Age \in 0 .. Longest
    /\ rpc \in {"send", "busy"} /\ started_at # Zero =>
         IF started_at.sec = 0 THEN Age = waited /\ waited \in SEC .. Longest
         ELSE Age <= 5 * SEC + Longest /\ waited - Age \in 0 .. Longest

Running == rpc \notin {"select", "send_err"}

=============================================================================
