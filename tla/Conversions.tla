---------------------------- MODULE Conversions ----------------------------
(***************************************************************************)
(* The conversions of the Wi-Fi HAL (src/wifi/wifi_hal_main.cpp) between   *)
(* channels and frequencies and from a hardware address to its text, and   *)
(* of the AT channel (src/modem/at/atchannel.c) from milliseconds to the   *)
(* times that pthread_cond_timedwait and nanosleep take.  A behaviour is   *)
(* one call.                                                               *)
(***************************************************************************)
EXTENDS Integers, Sequences

CONSTANTS
  Channels,         \* channel numbers that are switched to
  Macs,             \* hardware addresses
  Times,            \* [sec, usec] of gettimeofday
  Msecs             \* timeouts and pauses

VARIABLES
  fn, in,           \* the function and its arguments
  at,               \* "call", "loop", "done", "waits" or "failed"
  out,              \* what it has stored or returned
  i, l,             \* wifi_hal_mac_addr_n2a: the byte, and where it goes
  slept             \* history: milliseconds that were slept

vars == <<fn, in, at, out, i, l, slept>>

NONE == <<"none">>

Calls ==
  [fn : {"switch_channel"}, in : [number : Channels, ht : {"NO_HT"}]]
  \cup [fn : {"switch_channel"},
        in : [number : {0}, ht : {"HT20", "HT40+", "HT40-"}]]
  \cup [fn : {"frequency"},
        in : [number : Channels, band : {"2GHZ", "5GHZ", "60GHZ", "6GHZ"}]]
  \cup [fn : {"get_mac_addr"}, in : Macs \cup {NONE}]
  \cup [fn : {"timespec"}, in : [tv : Times, msec : Msecs]]
  \cup [fn : {"sleep"}, in : Msecs]

Init ==
  /\ \E c \in Calls : fn = c.fn /\ in = c.in
  /\ at = "call" /\ out = NONE /\ i = 0 /\ l = 0 /\ slept = 0

-----------------------------------------------------------------------------
(***************************************************************************)
(* Channels and frequencies.                                               *)
(***************************************************************************)
wifi_hal_channel_to_frequency(chan, band) ==
  CASE chan <= 0                             -> 0
    [] band = "2GHZ" /\ chan = 14            -> 2484
    [] band = "2GHZ" /\ chan \in 1 .. 13     -> 2407 + chan * 5
    [] band = "5GHZ" /\ chan \in 182 .. 196  -> 4000 + chan * 5
    [] band = "5GHZ" /\ chan \notin 182 .. 196 /\ chan > 0 -> 5000 + chan * 5
    [] band = "60GHZ" /\ chan \in 1 .. 4     -> 56160 + chan * 2160
    [] OTHER                                 -> 0

(* Division of C cuts towards zero.                                         *)
Quotient(a, b) == IF a < 0 THEN -((-a) \div b) ELSE a \div b

wifi_hal_frequency_to_channel(freq) ==
  IF freq = 2484 THEN 14
  ELSE IF freq < 2484 THEN Quotient(freq - 2407, 5)
  ELSE IF freq \in 4910 .. 4980 THEN Quotient(freq - 4000, 5)
  ELSE IF freq <= 45000 THEN Quotient(freq - 5000, 5)
  ELSE IF freq \in 58320 .. 64800 THEN Quotient(freq - 56160, 2160)
  ELSE 0

Band(chan) == IF chan <= 14 THEN "2GHZ" ELSE "5GHZ"

(* The text is read as a number and compared with the names of the HT       *)
(* modes, so that it is one or the other.  Nothing ever clears csa_cb_err:  *)
(* once the message is sent its answer is awaited for ever.  No message is  *)
(* sent when it cannot be allocated, or an attribute does not fit.          *)
wifi_hal_switch_channel ==
  /\ fn = "switch_channel" /\ at = "call"
  /\ \/ /\ at' = "waits"
        /\ out' = [freq |-> wifi_hal_channel_to_frequency(in.number,
                                                         Band(in.number)),
                   ht |-> in.ht]
     \/ at' = "failed" /\ UNCHANGED out
  /\ UNCHANGED <<fn, in, i, l, slept>>

(* A caller that knows the band.                                            *)
ToFrequency ==
  /\ fn = "frequency" /\ at = "call" /\ at' = "done"
  /\ out' = [freq |-> wifi_hal_channel_to_frequency(in.number, in.band)]
  /\ UNCHANGED <<fn, in, i, l, slept>>

-----------------------------------------------------------------------------
(***************************************************************************)
(* Hardware addresses.                                                     *)
(***************************************************************************)
ETH_ALEN == 6
RADIO_MACADDR_SIZE == 18
NUL == "NUL"

(* The ioctl fails for an interface that is gone, which is not looked at:   *)
(* the request was cleared before.                                          *)
get_mac_addr ==
  /\ fn = "get_mac_addr" /\ at = "call" /\ at' = "loop"
  /\ out' = [text |-> << >>, mac |-> IF in = NONE THEN [k \in 1 .. 6 |-> 0] ELSE in]
  /\ UNCHANGED <<fn, in, i, l, slept>>

Hex(b) == <<b \div 16, b % 16>>

(* snprintf at position p: what stood from p on is replaced and terminated. *)
snprintf(text, p, s) == SubSeq(text, 1, p) \o s \o <<NUL>>

wifi_hal_mac_addr_n2a ==
  /\ fn = "get_mac_addr" /\ at = "loop" /\ i < ETH_ALEN
  /\ out' = [out EXCEPT !.text =
       snprintf(@, l, IF i = 0 THEN Hex(out.mac[1]) ELSE <<":">> \o Hex(out.mac[i + 1]))]
  /\ l' = IF i = 0 THEN l + 2 ELSE l + 3
  /\ i' = i + 1
  /\ at' = IF i' = ETH_ALEN THEN "done" ELSE at
  /\ UNCHANGED <<fn, in, slept>>

-----------------------------------------------------------------------------
(***************************************************************************)
(* Times.                                                                  *)
(***************************************************************************)
NS_PER_S == 1000000000
US_PER_S == 1000000

Carry(nsec) == nsec >= NS_PER_S

setTimespecRelative ==
  /\ fn = "timespec" /\ at = "call" /\ at' = "done"
  /\ LET sec == in.tv.sec + in.msec \div 1000
         nsec == (in.tv.usec + (in.msec % 1000) * 1000) * 1000
     IN  out' = IF Carry(nsec) THEN [sec |-> sec + 1, nsec |-> nsec - NS_PER_S]
                ELSE [sec |-> sec, nsec |-> nsec]
  /\ UNCHANGED <<fn, in, i, l, slept>>

(* out is ts.                                                               *)
Timespec(msec) == [sec |-> msec \div 1000, nsec |-> (msec % 1000) * 1000000]
Msec(ts) == ts.sec * 1000 + ts.nsec \div 1000000

sleepMsec ==
  /\ fn = "sleep" /\ at = "call" /\ at' = "loop"
  /\ out' = Timespec(in) /\ UNCHANGED <<fn, in, i, l, slept>>

(* nanosleep stores what is left of ts after n milliseconds in ts.          *)
Remaining(ts, n) == Timespec(Msec(ts) - n)

(* A signal comes after part of the time, and the rest is slept.            *)
Interrupted ==
  /\ fn = "sleep" /\ at = "loop" /\ slept < 2 * in
  /\ \E n \in {0, Msec(out) \div 3, Msec(out) \div 2} :
       slept' = slept + n /\ out' = Remaining(out, n)
  /\ UNCHANGED <<fn, in, at, i, l>>

Awake ==
  /\ fn = "sleep" /\ at = "loop" /\ at' = "done"
  /\ slept' = slept + Msec(out)
  /\ UNCHANGED <<fn, in, out, i, l>>

Next == \/ wifi_hal_switch_channel \/ ToFrequency \/ get_mac_addr \/ wifi_hal_mac_addr_n2a
        \/ setTimespecRelative \/ sleepMsec \/ Interrupted \/ Awake

Spec == Init /\ [][Next]_vars

-----------------------------------------------------------------------------
(***************************************************************************)
(* Properties.                                                             *)
(***************************************************************************)
(* frequency_to_channel takes each frequency back to the channel that       *)
(* channel_to_frequency, or the message of wifi_hal_switch_channel, made it *)
(* of, in every branch of both; every channel can be switched to.           *)
ChannelRoundTrip ==
  /\ fn \in {"switch_channel", "frequency"} /\ at \in {"done", "waits"} /\ out.freq # 0 =>
       wifi_hal_frequency_to_channel(out.freq) = in.number
  /\ fn = "switch_channel" /\ at = "waits" => (out.freq = 0 <=> in.number = 0)

(* The text of a hardware address has its six bytes in order, and its       *)
(* terminator is the last byte of the field, in each step of the loop.      *)
MacWhole ==
  fn = "get_mac_addr" /\ at \in {"loop", "done"} =>
    /\ Len(out.text) <= RADIO_MACADDR_SIZE
    /\ at = "done" =>
         /\ Len(out.text) = RADIO_MACADDR_SIZE /\ out.text[18] = NUL
         /\ \A k \in 1 .. 6 :
              /\ 16 * out.text[3 * k - 2] + out.text[3 * k - 1] = out.mac[k]
              /\ k > 1 => out.text[3 * k - 3] = ":"

(* The time that a command waits until is its timeout after now, to the     *)
(* microsecond, and is one pthread_cond_timedwait accepts.                  *)
DeadlineExact ==
  fn = "timespec" /\ at = "done" =>
    /\ out.nsec \in 0 .. NS_PER_S - 1
    /\ (out.sec - in.tv.sec) * US_PER_S + out.nsec \div 1000 - in.tv.usec
         = in.msec * 1000

(* However often signals interrupt it, the pause after a handshake is as    *)
(* long as it was meant to be.                                              *)
SleptInFull == fn = "sleep" /\ at = "done" => slept = in

(* The strengthening: the calls are one of those above; the bytes that have *)
(* been converted stand in the text, which ends with its terminator; and    *)
(* what was slept and what is left of a pause make up the pause.            *)
CallKnown == \E c \in Calls : fn = c.fn /\ in = c.in

Written(k) ==
  /\ out.text[3 * k - 2] = out.mac[k] \div 16 /\ out.text[3 * k - 1] = out.mac[k] % 16
  /\ k > 1 => out.text[3 * k - 3] = ":"

MacSoFar ==
  fn = "get_mac_addr" =>
    /\ at = "call" => i = 0 /\ l = 0
    /\ at # "call" => /\ i \in 0 .. 6 /\ (at = "loop" <=> i < 6)
                      /\ l = IF i = 0 THEN 0 ELSE 3 * i - 1
                      /\ Len(out.text) = IF i = 0 THEN 0 ELSE l + 1
                      /\ out.mac \in [1 .. 6 -> Nat]
                      /\ i > 0 => out.text[l + 1] = NUL
                      /\ \A k \in 1 .. i : Written(k)

SleptSoFar ==
  fn = "sleep" =>
    /\ at = "call" => slept = 0
    /\ at = "loop" => Msec(out) \in Nat /\ slept \in Nat /\ slept + Msec(out) = in

=============================================================================
