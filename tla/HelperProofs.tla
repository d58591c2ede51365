---------------------------- MODULE HelperProofs ----------------------------
(***************************************************************************)
(* Theorems about the conversions and the functions of os_unix.c, which    *)
(* Support runs among its parts.                                           *)
(***************************************************************************)
EXTENDS Support, SequenceTheorems, FiniteSetTheorems, TLAPS

-----------------------------------------------------------------------------
(***************************************************************************)
(* The conversions (Conversions).                                          *)
(***************************************************************************)
(* Which arguments a call has.                                              *)
LEMMA ConvertArgs ==
  ASSUME C!CallKnown
  PROVE  /\ v1 \in {"switch_channel", "frequency", "get_mac_addr", "timespec", "sleep"}
         /\ v1 \in {"switch_channel", "frequency"} => v2.number \in Nat /\ v2.number <= LastChannel
         /\ v1 = "get_mac_addr" => v2 \in Macs \cup {C!NONE}
         /\ v1 = "timespec" => /\ v2.tv.sec \in Nat /\ v2.tv.usec \in Nat
                               /\ v2.tv.usec < C!US_PER_S /\ v2.msec \in Nat
         /\ v1 = "sleep" => v2 \in Nat
<1>1. PICK c \in C!Calls : v1 = c.fn /\ v2 = c.in
  BY SMT DEF C!CallKnown
<1>2. \A k \in Channels \cup {0} : k \in Nat /\ k <= LastChannel
  BY ConvertAssumption, SMT DEF ConvertAssumption, LastChannel
<1>3. /\ \A t \in Times : t.sec \in Nat /\ t.usec \in Nat /\ t.usec < C!US_PER_S
      /\ Msecs \subseteq Nat
  BY ConvertAssumption, SMT DEF ConvertAssumption
<1>4. CASE c \in [fn : {"switch_channel"}, in : [number : Channels, ht : {"NO_HT"}]]
  BY <1>1, <1>2, <1>4, SMT
<1>5. CASE c \in [fn : {"switch_channel"},
                  in : [number : {0}, ht : {"HT20", "HT40+", "HT40-"}]]
  BY <1>1, <1>2, <1>5, SMT
<1>6. CASE c \in [fn : {"frequency"},
                  in : [number : Channels, band : {"2GHZ", "5GHZ", "60GHZ", "6GHZ"}]]
  BY <1>1, <1>2, <1>6, SMT
<1>7. CASE c \in [fn : {"get_mac_addr"}, in : Macs \cup {C!NONE}]
  BY <1>1, <1>7, SMT
<1>8. CASE c \in [fn : {"timespec"}, in : [tv : Times, msec : Msecs]]
  <2>1. v1 = "timespec" /\ v2.tv \in Times /\ v2.msec \in Msecs
    BY <1>1, <1>8, SMT
  <2>2. /\ v2.tv.sec \in Nat /\ v2.tv.usec \in Nat /\ v2.tv.usec < C!US_PER_S
        /\ v2.msec \in Nat
    <3> DEFINE tv == v2.tv
               ms == v2.msec
    <3>1. tv \in Times /\ ms \in Msecs
      BY <2>1
    <3> HIDE DEF tv, ms
    <3>2. /\ tv.sec \in Nat /\ tv.usec \in Nat /\ tv.usec < C!US_PER_S
      BY <1>3, <3>1, SMT
    <3>3. ms \in Nat
      BY <1>3, <3>1, SMT
    <3> QED BY <3>2, <3>3, SMT DEF tv, ms
  <2>3. v1 # "switch_channel" /\ v1 # "frequency" /\ v1 # "get_mac_addr" /\ v1 # "sleep"
    BY <2>1
  <2> HIDE <1>1, <1>2, <1>3
  <2> QED BY <2>1, <2>2, <2>3, SMT
<1>9. CASE c \in [fn : {"sleep"}, in : Msecs]
  BY <1>1, <1>3, <1>9, SMT
<1> QED BY <1>4, <1>5, <1>6, <1>7, <1>8, <1>9, SMT DEF C!Calls

(* Each branch that makes a frequency is undone by one that takes it back.  *)
LEMMA RoundTrip ==
  ASSUME NEW c \in Nat, c <= LastChannel, NEW band,
         C!wifi_hal_channel_to_frequency(c, band) # 0
  PROVE  C!wifi_hal_frequency_to_channel(C!wifi_hal_channel_to_frequency(c, band)) = c
<1>1. CASE band = "2GHZ" /\ c = 14
  <2>1. C!wifi_hal_channel_to_frequency(c, band) = 2484
    BY <1>1, SMT DEF C!wifi_hal_channel_to_frequency
  <2> QED BY <1>1, <2>1, SMT DEF C!wifi_hal_frequency_to_channel
<1>2. CASE band = "2GHZ" /\ c \in 1 .. 13
  <2>1. C!wifi_hal_channel_to_frequency(c, band) = 2407 + c * 5
    BY <1>2, SMT DEF C!wifi_hal_channel_to_frequency
  <2>2. 2407 + c * 5 < 2484 /\ C!Quotient(2407 + c * 5 - 2407, 5) = c
    BY <1>2, SMT DEF C!Quotient
  <2> QED BY <2>1, <2>2, SMT DEF C!wifi_hal_frequency_to_channel
<1>3. CASE band = "5GHZ" /\ c \in 182 .. 196
  <2>1. C!wifi_hal_channel_to_frequency(c, band) = 4000 + c * 5
    BY <1>3, SMT DEF C!wifi_hal_channel_to_frequency
  <2> DEFINE f == 4000 + c * 5
  <2>2. f \in 4910 .. 4980 /\ f # 2484 /\ ~(f < 2484) /\ C!Quotient(f - 4000, 5) = c
    BY <1>3, SMT DEF C!Quotient
  <2> HIDE DEF f
  <2>3. C!wifi_hal_frequency_to_channel(f) = C!Quotient(f - 4000, 5)
    BY <2>2, SMT DEF C!wifi_hal_frequency_to_channel
  <2> QED BY <2>1, <2>2, <2>3, SMT DEF f
<1>4. CASE band = "5GHZ" /\ c \notin 182 .. 196 /\ c > 0
  <2>1. C!wifi_hal_channel_to_frequency(c, band) = 5000 + c * 5
    BY <1>4, SMT DEF C!wifi_hal_channel_to_frequency
  <2>2. 5000 + c * 5 > 4980 /\ 5000 + c * 5 <= 45000 /\ C!Quotient(5000 + c * 5 - 5000, 5) = c
    BY <1>4, SMT DEF C!Quotient, LastChannel
  <2> QED BY <2>1, <2>2, SMT DEF C!wifi_hal_frequency_to_channel
<1>5. CASE band = "60GHZ" /\ c \in 1 .. 4
  <2>1. C!wifi_hal_channel_to_frequency(c, band) = 56160 + c * 2160
    BY <1>5, SMT DEF C!wifi_hal_channel_to_frequency
  <2> DEFINE f == 56160 + c * 2160
  <2>2. /\ f \in 58320 .. 64800 /\ f # 2484 /\ ~(f < 2484) /\ f \notin 4910 .. 4980
        /\ ~(f <= 45000) /\ C!Quotient(f - 56160, 2160) = c
    BY <1>5, SMT DEF C!Quotient
  <2> HIDE DEF f
  <2>3. C!wifi_hal_frequency_to_channel(f) = C!Quotient(f - 56160, 2160)
    BY <2>2, SMT DEF C!wifi_hal_frequency_to_channel
  <2> QED BY <2>1, <2>2, <2>3, SMT DEF f
<1> QED BY <1>1, <1>2, <1>3, <1>4, <1>5, SMT DEF C!wifi_hal_channel_to_frequency

LEMMA Switchable ==
  ASSUME NEW c \in Nat, c <= LastChannel
  PROVE  C!wifi_hal_channel_to_frequency(c, C!Band(c)) = 0 <=> c = 0
<1>1. CASE c = 0
  BY <1>1, SMT DEF C!wifi_hal_channel_to_frequency
<1>2. CASE c \in 1 .. 13
  <2>1. C!wifi_hal_channel_to_frequency(c, "2GHZ") = 2407 + c * 5
    BY <1>2, SMT DEF C!wifi_hal_channel_to_frequency
  <2> QED BY <1>2, <2>1, SMT DEF C!Band
<1>3. CASE c = 14
  BY <1>3, SMT DEF C!Band, C!wifi_hal_channel_to_frequency
<1>4. CASE c \in 182 .. 196
  <2>1. C!wifi_hal_channel_to_frequency(c, "5GHZ") = 4000 + c * 5
    BY <1>4, SMT DEF C!wifi_hal_channel_to_frequency
  <2> QED BY <1>4, <2>1, SMT DEF C!Band
<1>5. CASE c > 14 /\ c \notin 182 .. 196
  <2>1. C!wifi_hal_channel_to_frequency(c, "5GHZ") = 5000 + c * 5
    BY <1>5, SMT DEF C!wifi_hal_channel_to_frequency
  <2> QED BY <1>5, <2>1, SMT DEF C!Band
<1> QED BY <1>1, <1>2, <1>3, <1>4, <1>5, SMT

(* A timeout in seconds and nanoseconds, as pthread_cond_timedwait takes it. *)
DeadlineOf(s, u, m) ==
  LET sec == s + m \div 1000
      nsec == (u + (m % 1000) * 1000) * 1000
  IN  IF C!Carry(nsec) THEN [sec |-> sec + 1, nsec |-> nsec - C!NS_PER_S]
      ELSE [sec |-> sec, nsec |-> nsec]

Exact(o, s, u, m) ==
  /\ o.nsec \in 0 .. C!NS_PER_S - 1
  /\ (o.sec - s) * C!US_PER_S + o.nsec \div 1000 - u = m * 1000

LEMMA Below == ASSUME NEW a \in Nat, NEW b \in Int, a < b PROVE a \in 0 .. b - 1
  OBVIOUS

LEMMA Deadline ==
  ASSUME NEW s \in Nat, NEW u \in Nat, u < C!US_PER_S, NEW m \in Nat
  PROVE  Exact(DeadlineOf(s, u, m), s, u, m)
<1> DEFINE sec == s + m \div 1000
           nsec == (u + (m % 1000) * 1000) * 1000
           o == DeadlineOf(s, u, m)
<1>1. PICK q \in Nat, r \in 0 .. 999 : m = 1000 * q + r /\ m \div 1000 = q /\ m % 1000 = r
  <2>1. m \div 1000 \in Nat /\ m % 1000 \in 0 .. 999
    BY SMT
  <2>2. m = 1000 * (m \div 1000) + (m % 1000)
    BY SMT
  <2> QED BY <2>1, <2>2, SMT
<1>2. /\ nsec >= C!NS_PER_S => o = [sec |-> sec + 1, nsec |-> nsec - C!NS_PER_S]
      /\ ~(nsec >= C!NS_PER_S) => o = [sec |-> sec, nsec |-> nsec]
  BY DEF DeadlineOf, C!Carry
<1>3. u + r * 1000 \in Nat /\ nsec = (u + r * 1000) * 1000 /\ sec = s + q
  BY <1>1, SMT
<1> HIDE DEF sec, nsec, o
<1>4. nsec \div 1000 = u + r * 1000
  BY <1>3, SMT
<1>5. (nsec - C!NS_PER_S) \div 1000 = u + r * 1000 - C!US_PER_S
  BY <1>3, SMT DEF C!NS_PER_S, C!US_PER_S
<1>6. u + r * 1000 <= 1998999
  BY <1>1, SMT DEF C!US_PER_S
<1>7. CASE nsec >= C!NS_PER_S
  <2>1. o.sec = sec + 1 /\ o.nsec = nsec - C!NS_PER_S
    BY <1>2, <1>7
  <2>2. nsec - C!NS_PER_S \in 0 .. C!NS_PER_S - 1
    <3>1. nsec - C!NS_PER_S \in Nat /\ nsec - C!NS_PER_S < C!NS_PER_S /\ C!NS_PER_S \in Int
      BY <1>3, <1>6, <1>7, SMT DEF C!NS_PER_S
    <3> QED BY <3>1, Below
  <2>3. (o.sec - s) * C!US_PER_S + o.nsec \div 1000 - u = m * 1000
    <3>1. o.nsec \div 1000 = u + r * 1000 - C!US_PER_S
      BY <1>5, <2>1
    <3>2. o.sec = s + q + 1
      BY <1>3, <2>1
    <3> QED BY <1>1, <3>1, <3>2, SMT DEF C!US_PER_S
  <2> QED BY <2>1, <2>2, <2>3 DEF Exact, o
<1>8. CASE ~(nsec >= C!NS_PER_S)
  <2>1. o.sec = sec /\ o.nsec = nsec
    BY <1>2, <1>8
  <2>2. nsec \in 0 .. C!NS_PER_S - 1
    <3>1. nsec \in Nat /\ nsec < C!NS_PER_S /\ C!NS_PER_S \in Int
      BY <1>3, <1>8, SMT DEF C!NS_PER_S
    <3> QED BY <3>1, Below
  <2>3. (sec - s) * C!US_PER_S + nsec \div 1000 - u = m * 1000
    BY <1>1, <1>3, <1>4, SMT DEF C!US_PER_S
  <2> QED BY <2>1, <2>2, <2>3 DEF Exact, o
<1> QED BY <1>7, <1>8, Zenon

LEMMA Pauses ==
  ASSUME NEW m \in Nat
  PROVE  C!Msec(C!Timespec(m)) = m
<1>1. PICK q \in Nat, r \in 0 .. 999 : m = 1000 * q + r /\ m \div 1000 = q /\ m % 1000 = r
  <2>1. m \div 1000 \in Nat /\ m % 1000 \in 0 .. 999
    BY SMT
  <2>2. m = 1000 * (m \div 1000) + (m % 1000)
    BY SMT
  <2> QED BY <2>1, <2>2, SMT
<1>2. C!Timespec(m) = [sec |-> q, nsec |-> r * 1000000]
  BY <1>1, SMT DEF C!Timespec
<1>3. (r * 1000000) \div 1000000 = r
  BY SMT
<1> QED BY <1>1, <1>2, <1>3, SMT DEF C!Msec

(* The letters of a hardware address.                                       *)
Letters == Nat \cup {":", C!NUL}

LEMMA PrintedAt ==
  ASSUME NEW text \in Seq(Letters), NEW p \in 0 .. Len(text), NEW s \in Seq(Letters)
  PROVE  LET r == C!snprintf(text, p, s) IN
         /\ r \in Seq(Letters) /\ Len(r) = p + Len(s) + 1 /\ r[p + Len(s) + 1] = C!NUL
         /\ \A k \in 1 .. p : r[k] = text[k]
         /\ \A k \in 1 .. Len(s) : r[p + k] = s[k]
<1> DEFINE a == SubSeq(text, 1, p)
           b == a \o s
           z == <<C!NUL>>
           r == b \o z
<1>1. C!snprintf(text, p, s) = r
  BY DEF C!snprintf
<1>2. a \in Seq(Letters) /\ Len(a) = p /\ \A k \in 1 .. p : a[k] = text[k]
  <2>1. \A k \in 1 .. p : text[k] \in Letters
    BY ElementOfSeq
  <2>2. /\ SubSeq(text, 1, p) \in Seq(Letters)
        /\ Len(SubSeq(text, 1, p)) = IF 1 <= p THEN p - 1 + 1 ELSE 0
        /\ \A k \in 1 .. p - 1 + 1 : SubSeq(text, 1, p)[k] = text[1 + k - 1]
    BY <2>1, SubSeqProperties
  <2> QED BY <2>2
<1>3. z \in Seq(Letters) /\ Len(z) = 1 /\ z[1] = C!NUL
  BY DEF Letters
<1> HIDE DEF a, z
<1>4. /\ b \in Seq(Letters) /\ Len(b) = p + Len(s)
      /\ \A k \in 1 .. p + Len(s) : b[k] = IF k <= p THEN a[k] ELSE s[k - p]
  BY <1>2, ConcatProperties
<1> HIDE DEF b
<1>5. /\ r \in Seq(Letters) /\ Len(r) = p + Len(s) + 1
      /\ \A k \in 1 .. p + Len(s) + 1 :
           r[k] = IF k <= p + Len(s) THEN b[k] ELSE z[k - (p + Len(s))]
  <2>1. /\ b \o z \in Seq(Letters) /\ Len(b \o z) = Len(b) + Len(z)
        /\ \A k \in 1 .. Len(b) + Len(z) :
             (b \o z)[k] = IF k <= Len(b) THEN b[k] ELSE z[k - Len(b)]
    BY <1>3, <1>4, ConcatProperties
  <2> QED BY <1>3, <1>4, <2>1
<1> HIDE DEF r
<1>6. Len(s) \in Nat /\ p \in Nat
  OBVIOUS
<1>7. r[p + Len(s) + 1] = C!NUL
  BY <1>3, <1>5, <1>6
<1>8. \A k \in 1 .. p : r[k] = text[k]
  BY <1>2, <1>4, <1>5, <1>6
<1>9. \A k \in 1 .. Len(s) : r[p + k] = s[k]
  <2>1. TAKE k \in 1 .. Len(s)
  <2>2. p + k \in 1 .. p + Len(s) /\ p + k \in 1 .. p + Len(s) + 1
    BY <1>6
  <2>3. r[p + k] = b[p + k]
    BY <1>5, <1>6, <2>2
  <2>4. b[p + k] = s[p + k - p]
    BY <1>4, <1>6, <2>2
  <2> QED BY <1>6, <2>3, <2>4
<1> QED BY <1>1, <1>5, <1>7, <1>8, <1>9

LEMMA HexIs ==
  ASSUME NEW b \in Nat
  PROVE  /\ C!Hex(b) \in Seq(Letters) /\ Len(C!Hex(b)) = 2
         /\ C!Hex(b)[1] = b \div 16 /\ C!Hex(b)[2] = b % 16
         /\ 16 * (b \div 16) + (b % 16) = b
<1>1. b \div 16 \in Nat /\ b % 16 \in Nat
  BY SMT
<1>2. 16 * (b \div 16) + (b % 16) = b
  BY SMT
<1> QED BY <1>1, <1>2 DEF C!Hex, Letters

LEMMA ColonHexIs ==
  ASSUME NEW b \in Nat
  PROVE  LET s == <<":">> \o C!Hex(b) IN
         /\ s \in Seq(Letters) /\ Len(s) = 3
         /\ s[1] = ":" /\ s[2] = b \div 16 /\ s[3] = b % 16
<1> DEFINE c == <<":">>
           x == C!Hex(b)
<1>1. c \in Seq(Letters) /\ Len(c) = 1 /\ c[1] = ":"
  BY DEF Letters
<1>2. x \in Seq(Letters) /\ Len(x) = 2 /\ x[1] = b \div 16 /\ x[2] = b % 16
  BY HexIs
<1> HIDE DEF c, x
<1>3. /\ c \o x \in Seq(Letters) /\ Len(c \o x) = 1 + 2
      /\ \A k \in 1 .. 1 + 2 : (c \o x)[k] = IF k <= 1 THEN c[k] ELSE x[k - 1]
  <2>1. /\ c \o x \in Seq(Letters) /\ Len(c \o x) = Len(c) + Len(x)
        /\ \A k \in 1 .. Len(c) + Len(x) :
             (c \o x)[k] = IF k <= Len(c) THEN c[k] ELSE x[k - Len(c)]
    BY <1>1, <1>2, ConcatProperties
  <2> QED BY <1>1, <1>2, <2>1
<1>4. (c \o x)[1] = c[1] /\ (c \o x)[2] = x[1] /\ (c \o x)[3] = x[2]
  BY <1>3
<1> QED BY <1>1, <1>2, <1>3, <1>4 DEF c, x

-----------------------------------------------------------------------------
(* The text has letters, and a pause is what it was asked to be.            *)
MacTyped == v1 = "get_mac_addr" /\ v3 # "call" =>
              v4 = [text |-> v4.text, mac |-> v4.mac] /\ v4.text \in Seq(Letters)

ConvertInv ==
  /\ v3 \in {"call", "loop", "done", "waits", "failed"} /\ C!CallKnown
  /\ C!ChannelRoundTrip /\ C!DeadlineExact /\ MacTyped /\ C!MacSoFar
  /\ C!SleptSoFar /\ C!SleptInFull

LEMMA ConvertInit ==
  ASSUME C!Init
  PROVE  ConvertInv
<1>1. v3 = "call" /\ v5 = 0 /\ v6 = 0 /\ v7 = 0 /\ C!CallKnown
  BY DEF C!Init, C!CallKnown
<1> QED BY <1>1, Zenon DEF ConvertInv, C!ChannelRoundTrip, C!DeadlineExact, MacTyped,
           C!MacSoFar, C!SleptSoFar, C!SleptInFull

(* A step of one function changes nothing for the others.                   *)
LEMMA CallNext ==
  ASSUME C!CallKnown, v1' = v1, v2' = v2
  PROVE  C!CallKnown'
  BY DEF C!CallKnown, C!Calls

LEMMA SwitchKept ==
  ASSUME ConvertInv, C!wifi_hal_switch_channel \/ C!ToFrequency
  PROVE  ConvertInv'
<1>1. /\ v1 \in {"switch_channel", "frequency"} /\ v1' = v1 /\ v2' = v2
      /\ v3' \in {"waits", "failed", "done"}
      /\ v1 = "switch_channel" => v3' # "done"
  BY DEF C!wifi_hal_switch_channel, C!ToFrequency
<1>2. C!CallKnown /\ C!CallKnown' /\ v2.number \in Nat /\ v2.number <= LastChannel
  <2>1. C!CallKnown
    BY DEF ConvertInv
  <2> QED BY <1>1, <2>1, CallNext, ConvertArgs, SMT
<1>3. ASSUME v3' \in {"done", "waits"}
      PROVE  /\ v1 = "switch_channel" =>
                  v4'.freq = C!wifi_hal_channel_to_frequency(v2.number, C!Band(v2.number))
             /\ v1 = "frequency" =>
                  v4'.freq = C!wifi_hal_channel_to_frequency(v2.number, v2.band)
  BY <1>1, <1>3, SMT DEF C!wifi_hal_switch_channel, C!ToFrequency
<1>4. C!ChannelRoundTrip'
  <2>1. ASSUME v3' \in {"done", "waits"}, v4'.freq # 0
        PROVE  C!wifi_hal_frequency_to_channel(v4'.freq) = v2.number
    <3>1. CASE v1 = "switch_channel"
      BY <1>2, <1>3, <2>1, <3>1, RoundTrip
    <3>2. CASE v1 = "frequency"
      BY <1>2, <1>3, <2>1, <3>2, RoundTrip
    <3> QED BY <1>1, <3>1, <3>2
  <2>2. ASSUME v1 = "switch_channel", v3' = "waits"
        PROVE  v4'.freq = 0 <=> v2.number = 0
    BY <1>2, <1>3, <2>2, Switchable
  <2> QED BY <1>1, <2>1, <2>2 DEF C!ChannelRoundTrip
<1>5. v1' # "timespec" /\ v1' # "get_mac_addr" /\ v1' # "sleep"
      /\ v3' \in {"call", "loop", "done", "waits", "failed"}
  BY <1>1
<1> QED BY <1>2, <1>4, <1>5, Zenon DEF ConvertInv, C!DeadlineExact, MacTyped,
           C!MacSoFar, C!SleptSoFar, C!SleptInFull

LEMMA TimespecKept ==
  ASSUME ConvertInv, C!setTimespecRelative
  PROVE  ConvertInv'
<1>1. v1 = "timespec" /\ v1' = v1 /\ v2' = v2 /\ v3' = "done"
  BY DEF C!setTimespecRelative
<1>2. /\ C!CallKnown' /\ v2.tv.sec \in Nat /\ v2.tv.usec \in Nat /\ v2.tv.usec < C!US_PER_S
      /\ v2.msec \in Nat
  <2>1. C!CallKnown
    BY DEF ConvertInv
  <2> QED BY <1>1, <2>1, CallNext, ConvertArgs, SMT
<1>3. v4' = DeadlineOf(v2.tv.sec, v2.tv.usec, v2.msec)
  BY Zenon DEF C!setTimespecRelative, DeadlineOf
<1>4. Exact(v4', v2'.tv.sec, v2'.tv.usec, v2'.msec)
  BY <1>1, <1>2, <1>3, Deadline, Zenon
<1>5. C!DeadlineExact'
  BY <1>4 DEF C!DeadlineExact, Exact
<1> QED BY <1>1, <1>2, <1>5, Zenon DEF ConvertInv, C!ChannelRoundTrip, MacTyped,
           C!MacSoFar, C!SleptSoFar, C!SleptInFull

(* The address is read: nothing is written yet.                             *)
LEMMA AddressRead ==
  ASSUME ConvertInv, C!get_mac_addr
  PROVE  ConvertInv'
<1>1. /\ v1 = "get_mac_addr" /\ v1' = v1 /\ v2' = v2 /\ v3 = "call" /\ v3' = "loop"
      /\ v5' = v5 /\ v6' = v6
      /\ v4' = [text |-> << >>, mac |-> IF v2 = C!NONE THEN [k \in 1 .. 6 |-> 0] ELSE v2]
  BY DEF C!get_mac_addr
<1>2. C!CallKnown' /\ (v2 = C!NONE \/ v2 \in [1 .. 6 -> Nat])
  <2>1. C!CallKnown
    BY DEF ConvertInv
  <2>2. C!CallKnown' /\ v2 \in Macs \cup {C!NONE}
    BY <1>1, <2>1, CallNext, ConvertArgs, SMT
  <2>3. Macs \subseteq [1 .. 6 -> Nat]
    BY ConvertAssumption, SMT DEF ConvertAssumption
  <2> QED BY <2>2, <2>3
<1>3. v4'.text = << >> /\ v4'.mac \in [1 .. 6 -> Nat] /\ v4' = [text |-> v4'.text, mac |-> v4'.mac]
  BY <1>1, <1>2
<1>4. v5' = 0 /\ v6' = 0
  BY <1>1 DEF ConvertInv, C!MacSoFar
<1>5. v4'.text \in Seq(Letters) /\ Len(v4'.text) = 0
  BY <1>3
<1>6. C!MacSoFar'
  BY <1>1, <1>3, <1>4, <1>5 DEF C!MacSoFar
<1> QED BY <1>1, <1>2, <1>3, <1>5, <1>6, Zenon DEF ConvertInv, C!ChannelRoundTrip,
           C!DeadlineExact, MacTyped, C!SleptSoFar, C!SleptInFull

(* A byte is written behind those that stand in the text, over the          *)
(* terminator.                                                              *)
LEMMA ByteWritten ==
  ASSUME ConvertInv, C!wifi_hal_mac_addr_n2a
  PROVE  ConvertInv'
<1> DEFINE text == v4.text
           b == v4.mac[v5 + 1]
           s == IF v5 = 0 THEN C!Hex(v4.mac[1]) ELSE <<":">> \o C!Hex(b)
           t == C!snprintf(text, v6, s)
<1>1. /\ v1 = "get_mac_addr" /\ v1' = v1 /\ v2' = v2 /\ v3 = "loop" /\ v5 < 6 /\ v5' = v5 + 1
      /\ v3' = (IF v5' = 6 THEN "done" ELSE v3)
      /\ v6' = (IF v5 = 0 THEN v6 + 2 ELSE v6 + 3)
      /\ v4' = [v4 EXCEPT !.text = t]
  BY DEF C!wifi_hal_mac_addr_n2a, C!ETH_ALEN
<1>2. /\ v4 = [text |-> v4.text, mac |-> v4.mac] /\ text \in Seq(Letters)
      /\ v5 \in 0 .. 6 /\ v6 = (IF v5 = 0 THEN 0 ELSE 3 * v5 - 1)
      /\ Len(text) = (IF v5 = 0 THEN 0 ELSE v6 + 1) /\ v4.mac \in [1 .. 6 -> Nat]
      /\ \A k \in 1 .. v5 : C!Written(k)
  <2>1. MacTyped /\ C!MacSoFar
    BY DEF ConvertInv
  <2> QED BY <1>1, <2>1 DEF MacTyped, C!MacSoFar
<1>3. v4'.text = t /\ v4'.mac = v4.mac /\ v4' = [text |-> v4'.text, mac |-> v4'.mac]
  <2> HIDE DEF t
  <2> QED BY <1>1, <1>2
<1>4. b \in Nat /\ (v5 = 0 => v4.mac[1] = b)
  BY <1>1, <1>2
<1>5. /\ s \in Seq(Letters) /\ Len(s) = (IF v5 = 0 THEN 2 ELSE 3)
      /\ v5 = 0 => s[1] = b \div 16 /\ s[2] = b % 16
      /\ v5 > 0 => s[1] = ":" /\ s[2] = b \div 16 /\ s[3] = b % 16
  <2>1. CASE v5 = 0
    <3>1. s = C!Hex(b)
      BY <1>4, <2>1
    <3> HIDE DEF b, s
    <3> QED BY <1>4, <2>1, <3>1, HexIs
  <2>2. CASE v5 # 0
    <3>1. s = <<":">> \o C!Hex(b)
      BY <2>2
    <3> HIDE DEF b, s
    <3> QED BY <1>2, <1>4, <2>2, <3>1, ColonHexIs
  <2> QED BY <2>1, <2>2
<1>6. v6 \in 0 .. Len(text)
  BY <1>2
<1> HIDE DEF s, b, text
<1>7. /\ t \in Seq(Letters) /\ Len(t) = v6 + Len(s) + 1 /\ t[v6 + Len(s) + 1] = C!NUL
      /\ \A k \in 1 .. v6 : t[k] = text[k]
      /\ \A k \in 1 .. Len(s) : t[v6 + k] = s[k]
  BY <1>2, <1>5, <1>6, PrintedAt
<1> HIDE DEF t
<1>8. /\ t[3 * (v5 + 1) - 2] = b \div 16 /\ t[3 * (v5 + 1) - 1] = b % 16
      /\ v5 + 1 > 1 => t[3 * (v5 + 1) - 3] = ":"
  <2>1. CASE v5 = 0
    <3>1. t[v6 + 1] = s[1] /\ t[v6 + 2] = s[2]
      BY <1>5, <1>7, <2>1
    <3>2. v6 + 1 = 3 * (v5 + 1) - 2 /\ v6 + 2 = 3 * (v5 + 1) - 1
      BY <1>2, <2>1
    <3> QED BY <1>5, <2>1, <3>1, <3>2
  <2>2. CASE v5 > 0
    <3>1. t[v6 + 1] = s[1] /\ t[v6 + 2] = s[2] /\ t[v6 + 3] = s[3]
      <4>1. Len(s) = 3
        BY <1>2, <1>5, <2>2
      <4>2. 1 \in 1 .. 3 /\ 2 \in 1 .. 3 /\ 3 \in 1 .. 3
        OBVIOUS
      <4> QED BY <1>7, <4>1, <4>2
    <3>2. /\ v6 + 1 = 3 * (v5 + 1) - 3 /\ v6 + 2 = 3 * (v5 + 1) - 2
          /\ v6 + 3 = 3 * (v5 + 1) - 1
      BY <1>2, <2>2
    <3> QED BY <1>5, <2>2, <3>1, <3>2
  <2> QED BY <1>2, <2>1, <2>2
<1>9. ASSUME NEW k \in 1 .. v5
      PROVE  /\ t[3 * k - 2] = text[3 * k - 2] /\ t[3 * k - 1] = text[3 * k - 1]
             /\ k > 1 => t[3 * k - 3] = text[3 * k - 3]
  <2>1. v5 \in 1 .. 6 /\ v6 = 3 * v5 - 1
    BY <1>2
  <2>2. 3 * k - 2 \in 1 .. v6 /\ 3 * k - 1 \in 1 .. v6 /\ (k > 1 => 3 * k - 3 \in 1 .. v6)
    BY <2>1
  <2> QED BY <1>7, <2>2
<1>10. \A k \in 1 .. v5' : C!Written(k)'
  <2>1. TAKE k \in 1 .. v5'
  <2>2. CASE k = v5 + 1
    <3>1. v4'.mac[k] = b
      BY <1>3, <2>2 DEF b
    <3> QED BY <1>3, <1>8, <2>2, <3>1 DEF C!Written
  <2>3. CASE k \in 1 .. v5
    <3>1. C!Written(k)
      BY <1>2, <2>3
    <3>2. /\ t[3 * k - 2] = text[3 * k - 2] /\ t[3 * k - 1] = text[3 * k - 1]
          /\ k > 1 => t[3 * k - 3] = text[3 * k - 3]
      BY <1>9, <2>3
    <3> QED BY <1>3, <3>1, <3>2 DEF C!Written, text
  <2> QED BY <1>1, <1>2, <2>1, <2>2, <2>3
<1>11. /\ v5' \in 1 .. 6 /\ (v3' = "loop" <=> v5' < 6) /\ v3' \in {"loop", "done"}
       /\ v6' = 3 * v5' - 1 /\ v6' + 1 = v6 + Len(s) + 1
  <2>1. v5 \in 0 .. 5 /\ v5' = v5 + 1
    BY <1>1, <1>2
  <2>2. /\ v5' \in 1 .. 6 /\ (v3' = "loop" <=> v5' < 6) /\ v3' \in {"loop", "done"}
    BY <1>1, <2>1
  <2>3. v6' = 3 * v5' - 1 /\ v6' + 1 = v6 + Len(s) + 1
    <3>1. CASE v5 = 0
      BY <1>1, <1>2, <1>5, <2>1, <3>1
    <3>2. CASE v5 # 0
      BY <1>1, <1>2, <1>5, <2>1, <3>2
    <3> QED BY <3>1, <3>2
  <2> QED BY <2>2, <2>3
<1>12. Len(v4'.text) = v6' + 1 /\ v4'.text[v6' + 1] = C!NUL
  BY <1>3, <1>7, <1>11
<1>13. C!MacSoFar'
  <2>1. v3' # "call" /\ v5' # 0 /\ v5' \in 0 .. 6
    BY <1>11
  <2> QED BY <1>2, <1>3, <1>10, <1>11, <1>12, <2>1 DEF C!MacSoFar
<1>14. C!CallKnown' /\ v4'.text \in Seq(Letters) /\ v1' = "get_mac_addr"
       /\ v3' \in {"call", "loop", "done", "waits", "failed"}
  BY <1>1, <1>3, <1>7, <1>11, CallNext DEF ConvertInv
<1> QED BY <1>3, <1>13, <1>14, Zenon DEF ConvertInv, C!ChannelRoundTrip,
           C!DeadlineExact, MacTyped, C!SleptSoFar, C!SleptInFull

(* The six bytes have been written.                                         *)
LEMMA MacIsWhole ==
  ASSUME ConvertInv
  PROVE  C!MacWhole
<1> SUFFICES ASSUME v1 = "get_mac_addr", v3 \in {"loop", "done"}
             PROVE  /\ Len(v4.text) <= 18
                    /\ v3 = "done" =>
                         /\ Len(v4.text) = 18 /\ v4.text[18] = C!NUL
                         /\ \A k \in 1 .. 6 :
                              /\ 16 * v4.text[3 * k - 2] + v4.text[3 * k - 1] = v4.mac[k]
                              /\ k > 1 => v4.text[3 * k - 3] = ":"
  BY DEF C!MacWhole, C!RADIO_MACADDR_SIZE
<1>1. /\ v5 \in 0 .. 6 /\ (v3 = "loop" <=> v5 < 6) /\ v6 = (IF v5 = 0 THEN 0 ELSE 3 * v5 - 1)
      /\ Len(v4.text) = (IF v5 = 0 THEN 0 ELSE v6 + 1) /\ v4.mac \in [1 .. 6 -> Nat]
      /\ v5 > 0 => v4.text[v6 + 1] = C!NUL
      /\ \A k \in 1 .. v5 : C!Written(k)
  BY DEF ConvertInv, C!MacSoFar
<1>2. Len(v4.text) <= 18
  BY <1>1
<1>3. ASSUME v3 = "done"
      PROVE  /\ Len(v4.text) = 18 /\ v4.text[18] = C!NUL
             /\ \A k \in 1 .. 6 :
                  /\ 16 * v4.text[3 * k - 2] + v4.text[3 * k - 1] = v4.mac[k]
                  /\ k > 1 => v4.text[3 * k - 3] = ":"
  <2>1. v5 = 6 /\ v6 = 17
    BY <1>1, <1>3
  <2>2. Len(v4.text) = 18 /\ v4.text[18] = C!NUL
    BY <1>1, <2>1
  <2>3. ASSUME NEW k \in 1 .. 6
        PROVE  /\ 16 * v4.text[3 * k - 2] + v4.text[3 * k - 1] = v4.mac[k]
               /\ k > 1 => v4.text[3 * k - 3] = ":"
    <3>1. C!Written(k) /\ v4.mac[k] \in Nat
      BY <1>1, <2>1
    <3>2. 16 * (v4.mac[k] \div 16) + (v4.mac[k] % 16) = v4.mac[k]
      BY <3>1, HexIs
    <3> QED BY <3>1, <3>2 DEF C!Written
  <2> QED BY <2>2, <2>3
<1> QED BY <1>2, <1>3

(* What was slept and what is left make up the pause.                       *)
Sleeps == C!sleepMsec \/ C!Interrupted \/ C!Awake

LEMMA PauseKept ==
  ASSUME ConvertInv, Sleeps
  PROVE  ConvertInv'
<1>1. /\ v1 = "sleep" /\ v1' = v1 /\ v2' = v2 /\ v3 \in {"call", "loop"}
      /\ v3' \in {"loop", "done"}
  BY DEF Sleeps, C!sleepMsec, C!Interrupted, C!Awake
<1>2. C!CallKnown' /\ v2 \in Nat /\ C!SleptSoFar
  <2>1. C!CallKnown /\ C!SleptSoFar
    BY DEF ConvertInv
  <2> QED BY <1>1, <2>1, CallNext, ConvertArgs, SMT
<1>3. C!SleptSoFar' /\ C!SleptInFull'
  <2>1. CASE C!sleepMsec
    <3>1. v3 = "call" /\ v3' = "loop" /\ v4' = C!Timespec(v2) /\ v7' = v7
      BY <2>1 DEF C!sleepMsec
    <3>2. v7 = 0
      BY <1>1, <1>2, <3>1 DEF C!SleptSoFar
    <3>3. C!Msec(v4)' = v2
      <4>1. C!Msec(v4)' = C!Msec(v4')
        BY DEF C!Msec
      <4> QED BY <1>2, <3>1, <4>1, Pauses
    <3> QED BY <1>1, <1>2, <3>1, <3>2, <3>3 DEF C!SleptSoFar, C!SleptInFull
  <2>2. CASE C!Interrupted
    <3>1. C!Msec(v4) \in Nat /\ v7 \in Nat /\ v7 + C!Msec(v4) = v2 /\ v3' = "loop"
      BY <1>1, <1>2, <2>2 DEF C!SleptSoFar, C!Interrupted
    <3>2. PICK n \in {0, C!Msec(v4) \div 3, C!Msec(v4) \div 2} :
            v7' = v7 + n /\ v4' = C!Timespec(C!Msec(v4) - n)
      BY <2>2 DEF C!Interrupted, C!Remaining
    <3> DEFINE m == C!Msec(v4)
    <3>3. m \in Nat /\ n \in {0, m \div 3, m \div 2}
      BY <3>1, <3>2
    <3> HIDE DEF m
    <3>4. n \in Nat /\ m - n \in Nat
      BY <3>3, SMT
    <3>5. C!Msec(v4)' = m - n
      <4>1. C!Msec(v4)' = C!Msec(v4')
        BY DEF C!Msec
      <4>2. v4' = C!Timespec(m - n)
        BY <3>2 DEF m
      <4> QED BY <3>4, <4>1, <4>2, Pauses
    <3>6. v7 \in Nat /\ v7 + m = v2 /\ v7' = v7 + n
      BY <3>1, <3>2 DEF m
    <3>7. v7' \in Nat /\ v7' + (m - n) = v2
      BY <3>3, <3>4, <3>6
    <3> QED BY <1>1, <3>1, <3>4, <3>5, <3>7 DEF C!SleptSoFar, C!SleptInFull
  <2>3. CASE C!Awake
    <3>1. v3' = "done" /\ v7' = v7 + C!Msec(v4) /\ v3 = "loop"
      BY <2>3 DEF C!Awake
    <3>2. v7' = v2
      BY <1>1, <1>2, <3>1 DEF C!SleptSoFar
    <3> QED BY <1>1, <3>1, <3>2 DEF C!SleptSoFar, C!SleptInFull
  <2> QED BY <2>1, <2>2, <2>3 DEF Sleeps
<1>4. v1' = "sleep" /\ v3' \in {"call", "loop", "done", "waits", "failed"}
  BY <1>1
<1> QED BY <1>2, <1>3, <1>4, Zenon DEF ConvertInv, C!ChannelRoundTrip,
           C!DeadlineExact, MacTyped, C!MacSoFar

LEMMA ConvertKept ==
  ASSUME ConvertInv, C!Next
  PROVE  ConvertInv'
<1>1. CASE C!wifi_hal_switch_channel \/ C!ToFrequency
  BY <1>1, SwitchKept
<1>2. CASE C!setTimespecRelative
  BY <1>2, TimespecKept
<1>3. CASE C!get_mac_addr
  BY <1>3, AddressRead
<1>4. CASE C!wifi_hal_mac_addr_n2a
  BY <1>4, ByteWritten
<1>5. CASE Sleeps
  BY <1>5, PauseKept
<1> QED BY <1>1, <1>2, <1>3, <1>4, <1>5 DEF C!Next, Sleeps

-----------------------------------------------------------------------------
(***************************************************************************)
(* The functions of os_unix.c (OsUnix).                                    *)
(***************************************************************************)
LEMMA UnixArgs ==
  ASSUME U!CallKnown
  PROVE  /\ v1 \in {"strlcpy", "rel2abs", "readfile", "random", "exec", "mktime"}
         /\ v1 = "strlcpy" => /\ \E Bytes : U!NUL \notin Bytes /\ v2.src \in Seq(Bytes)
                              /\ v2.siz \in Nat
         /\ v1 = "rel2abs" => v2.kind \in {"null", "abs", "rel"} /\ v2.cwd \in Nat
         /\ v1 = "mktime" => v2.x \in Int /\ v2.zone.std \in Int /\ v2.zone.dst \in Int
<1>1. PICK c \in U!Calls : v1 = c.fn /\ v2 = c.in
  BY DEF U!CallKnown
<1>2. CASE c \in [fn : {"strlcpy"}, in : [src : CopyTexts, siz : CopySizes]]
  <2>1. v1 = "strlcpy" /\ v2.src \in CopyTexts /\ v2.siz \in CopySizes
    BY <1>1, <1>2
  <2>2. v2.siz \in Nat
    BY <2>1, UnixAssumption DEF UnixAssumption
  <2>3. v2.src \in Seq({v2.src[k] : k \in DOMAIN v2.src} \ {U!NUL})
    BY <2>1, UnixAssumption DEF UnixAssumption
  <2>4. U!NUL \notin {v2.src[k] : k \in DOMAIN v2.src} \ {U!NUL}
    OBVIOUS
  <2>5. \E Bytes : U!NUL \notin Bytes /\ v2.src \in Seq(Bytes)
    <3> DEFINE Bytes == {v2.src[k] : k \in DOMAIN v2.src} \ {U!NUL}
    <3>1. U!NUL \notin Bytes /\ v2.src \in Seq(Bytes)
      BY <2>3, <2>4
    <3> HIDE DEF Bytes
    <3> QED BY <3>1
  <2> QED BY <2>1, <2>2, <2>5
<1>3. CASE c \in [fn : {"rel2abs"}, in : [kind : {"null", "abs", "rel"}, cwd : CwdLens,
                                          fails : {"none", "getcwd", "join"}]]
  <2>1. v1 = "rel2abs" /\ v2.kind \in {"null", "abs", "rel"} /\ v2.cwd \in CwdLens
    BY <1>1, <1>3
  <2>2. v2.cwd \in Nat
    BY <2>1, UnixAssumption DEF UnixAssumption
  <2> QED BY <2>1, <2>2
<1>4. CASE c \in [fn : {"readfile", "random"}, in : {<< >>}]
  BY <1>1, <1>4
<1>5. CASE c \in [fn : {"exec"}, in : Args]
  BY <1>1, <1>5
<1>6. CASE c \in [fn : {"mktime"}, in : [valid : BOOLEAN, x : Hours, zone : Zones]]
  <2>1. v1 = "mktime" /\ v2.x \in Hours /\ v2.zone \in Zones
    BY <1>1, <1>6
  <2>2. v2.x \in Int /\ v2.zone.std \in Int /\ v2.zone.dst \in Int
    BY <2>1, UnixAssumption DEF UnixAssumption
  <2> QED BY <2>1, <2>2
<1> QED BY <1>1, <1>2, <1>3, <1>4, <1>5, <1>6 DEF U!Calls

(* Local time shifts by the same offset there and back.                     *)
LEMMA UtcIs ==
  ASSUME NEW x \in Int, NEW z, z.std \in Int, z.dst \in Int
  PROVE  LET t == U!mktime([x |-> x, isdst |-> FALSE], z) IN t - U!tz_offset(t, z) = x
<1> DEFINE t == U!mktime([x |-> x, isdst |-> FALSE], z)
<1>1. t = x - z.std
  BY DEF U!mktime
<1> HIDE DEF t
<1>2. U!mktime(U!gmtime(t), z) = t - z.std
  BY <1>1 DEF U!mktime, U!gmtime
<1>3. U!mktime(U!localtime(t, z), z) = t
  <2>1. CASE t \in z.summer
    <3>1. U!localtime(t, z) = [x |-> t + z.std + z.dst, isdst |-> TRUE]
      BY <2>1 DEF U!localtime
    <3> QED BY <1>1, <3>1 DEF U!mktime
  <2>2. CASE t \notin z.summer
    <3>1. U!localtime(t, z) = [x |-> t + z.std + 0, isdst |-> FALSE]
      <4>1. (t \in z.summer) = FALSE
        BY <2>2
      <4> QED BY <4>1 DEF U!localtime
    <3> QED BY <1>1, <3>1 DEF U!mktime
  <2> QED BY <2>1, <2>2
<1>4. t - U!tz_offset(t, z) = x
  BY <1>1, <1>2, <1>3 DEF U!tz_offset
<1> QED BY <1>4 DEF t

UnixInv ==
  /\ v3 \in {"call", "copy", "rest", "getcwd", "join", "read", "split", "done", "failed"}
  /\ U!CallKnown /\ U!CopySoFar /\ U!PathSoFar /\ U!FileSoFar /\ U!HeldSoFar
  /\ v6 \in FileContents /\ U!CopyFits /\ U!PathsUpTo1023 /\ U!FileTogether
  /\ U!MktimeUtc /\ U!NothingHeld

LEMMA UnixInit ==
  ASSUME U!Init
  PROVE  UnixInv
<1>1. /\ v3 = "call" /\ v4 = << >> /\ v5 = 0 /\ v6 \in FileContents /\ v7 = FALSE /\ v8 = {}
      /\ U!CallKnown
  BY DEF U!Init, U!CallKnown
<1>2. U!CopyFits /\ U!CopySoFar
  <2>1. Len(v4) = 0
    BY <1>1
  <2>2. v1 = "strlcpy" => v2.siz \in Nat
    BY <1>1, UnixArgs
  <2> QED BY <1>1, <2>1, <2>2 DEF U!CopyFits, U!CopySoFar
<1>3. U!FileSoFar /\ U!HeldSoFar /\ U!NothingHeld
  BY <1>1 DEF U!FileSoFar, U!HeldSoFar, U!NothingHeld
<1> QED BY <1>1, <1>2, <1>3 DEF UnixInv, U!PathSoFar, U!PathsUpTo1023, U!FileTogether, U!MktimeUtc

LEMMA UnixCallNext ==
  ASSUME U!CallKnown, v1' = v1, v2' = v2
  PROVE  U!CallKnown'
  BY DEF U!CallKnown, U!Calls

(* os_mktime, os_get_random and os_exec in one step of their own.           *)
LEMMA MktimeKept ==
  ASSUME UnixInv, U!os_mktime
  PROVE  UnixInv'
<1>1. /\ v1 = "mktime" /\ v1' = v1 /\ v2' = v2 /\ v3 = "call" /\ v3' \in {"done", "failed"}
      /\ v6' = v6 /\ v7' = v7 /\ v8' = v8
      /\ v3' = "done" => LET t == U!mktime([x |-> v2.x, isdst |-> FALSE], v2.zone)
                         IN  v4' = <<t - U!tz_offset(t, v2.zone)>>
  BY DEF U!os_mktime, U!Call, U!Fail, U!Return, U!Local
<1>2. U!CallKnown' /\ v2.x \in Int /\ v2.zone.std \in Int /\ v2.zone.dst \in Int
  BY <1>1, UnixArgs, UnixCallNext DEF UnixInv
<1>3. v8' = {}
  BY <1>1 DEF UnixInv, U!HeldSoFar
<1>4. v3' = "done" => v4' = <<v2.x>>
  BY <1>1, <1>2, UtcIs
<1>5. v1' = "mktime" /\ v6' \in FileContents
  BY <1>1 DEF UnixInv
<1>6. U!MktimeUtc' /\ U!NothingHeld' /\ U!HeldSoFar'
  BY <1>1, <1>3, <1>4 DEF U!MktimeUtc, U!NothingHeld, U!HeldSoFar
<1> QED BY <1>1, <1>2, <1>5, <1>6 DEF UnixInv, U!CopySoFar, U!PathSoFar, U!FileSoFar,
           U!CopyFits, U!PathsUpTo1023, U!FileTogether

LEMMA RandomAndExecKept ==
  ASSUME UnixInv, U!os_get_random \/ U!os_exec \/ U!NextArg \/ U!Execv
  PROVE  UnixInv'
<1>1. /\ v1 \in {"random", "exec"} /\ v1' = v1 /\ v2' = v2 /\ v6' = v6
      /\ v3' \in {"done", "failed", "split"}
      /\ v3' \in {"done", "failed"} => v8' = {} \/ (v8' = v8 /\ v3 = "call")
      /\ v1 = "random" => v8' = v8
  <2>1. CASE U!os_get_random
    BY <2>1 DEF U!os_get_random, U!Call, U!Fail, U!Return, U!Local
  <2>2. CASE U!os_exec
    BY <2>2 DEF U!os_exec, U!Call, U!Fail, U!Local
  <2>3. CASE U!NextArg
    <3>1. v1 = "exec" /\ v3 = "split" /\ v3' = v3 /\ U!Local
      BY <2>3, Zenon DEF U!NextArg
    <3>2. v1' = v1 /\ v2' = v2 /\ v6' = v6 /\ v3' = "split"
      BY <3>1 DEF U!Local
    <3> QED BY <3>1, <3>2
  <2>4. CASE U!Execv
    <3>1. v1 = "exec" /\ v3' = "done" /\ v8' = {}
      BY <2>4, Zenon DEF U!Execv
    <3>2. v1' = v1 /\ v2' = v2 /\ v6' = v6
      <4>1. U!Local
        BY <2>4, Zenon DEF U!Execv
      <4> QED BY <4>1 DEF U!Local
    <3>3. v1 # "random" /\ v1 \in {"random", "exec"} /\ v3' \in {"done", "failed", "split"}
      BY <3>1
    <3> QED BY <3>1, <3>2, <3>3, Zenon
  <2> QED BY <2>1, <2>2, <2>3, <2>4
<1>2. U!CallKnown' /\ v6' \in FileContents
  BY <1>1, UnixCallNext DEF UnixInv
<1>3. U!NothingHeld' /\ U!HeldSoFar'
  BY <1>1 DEF UnixInv, U!NothingHeld, U!HeldSoFar
<1>4. v1' \in {"random", "exec"}
      /\ v3' \in {"call", "copy", "rest", "getcwd", "join", "read", "split", "done", "failed"}
  BY <1>1
<1> QED BY <1>2, <1>3, <1>4 DEF UnixInv, U!CopySoFar, U!PathSoFar, U!FileSoFar,
           U!CopyFits, U!PathsUpTo1023, U!FileTogether, U!MktimeUtc

(* os_rel2abs_path: the buffer has 1024 bytes when it is not doubled again. *)
LEMMA PathKept ==
  ASSUME UnixInv, U!Rel2AbsStart \/ U!Getcwd \/ U!JoinPath
  PROVE  UnixInv'
<1>1. v1 = "rel2abs" /\ v1' = v1 /\ v2' = v2 /\ v6' = v6
  BY DEF U!Rel2AbsStart, U!Getcwd, U!JoinPath, U!Call, U!Local
<1>2. /\ U!CallKnown' /\ v2.kind \in {"null", "abs", "rel"} /\ v2.cwd \in Nat
      /\ v6' \in FileContents
  BY <1>1, UnixArgs, UnixCallNext DEF UnixInv
<1>3. /\ v3 = "getcwd" => v5 \in {128, 256, 512, 1024}
      /\ v3 = "join" => v2.cwd < 1024 /\ v8 = {"buf"}
      /\ v3 = "call" => v8 = {}
  BY <1>1 DEF UnixInv, U!PathSoFar, U!HeldSoFar
<1>4. /\ v3' \in {"getcwd", "join", "done", "failed"}
      /\ v3' = "getcwd" => v5' \in {128, 256, 512, 1024}
      /\ v3' = "join" => v2.cwd < 1024 /\ v8' = {"buf"}
      /\ v3' = "failed" => v8' = {}
      /\ v3' = "done" => v8' \subseteq {"ret"}
      /\ v2.kind = "rel" /\ v2.fails = "none" =>
           /\ v3' = "failed" => v2.cwd > 1023
           /\ v3' = "done" => v2.cwd <= 1023
  <2>1. CASE U!Rel2AbsStart
    BY <1>3, <2>1 DEF U!Rel2AbsStart, U!Call, U!Fail, U!Return
  <2>2. CASE U!Getcwd /\ v2.fails = "getcwd"
    BY <2>2 DEF U!Getcwd, U!Fail
  <2>3. CASE U!Getcwd /\ v2.fails # "getcwd" /\ v2.cwd >= v5
    <3>1. /\ v3 = "getcwd" /\ v5' = 2 * v5
          /\ v5' > 2000 => v3' = "failed"
          /\ ~(v5' > 2000) => v3' = v3
          /\ v8' = (IF v3' = "join" THEN {"buf"} ELSE {})
      BY <1>2, <1>3, <2>3 DEF U!Getcwd, U!Doubled, U!TooLarge, U!Fail
    <3>2. CASE v5 = 1024
      BY <1>2, <2>3, <3>1, <3>2
    <3>3. CASE v5 # 1024
      <4>1. v5' \in {256, 512, 1024}
        BY <1>3, <3>1, <3>3
      <4>2. v3' = "getcwd"
        BY <3>1, <4>1
      <4> QED BY <4>1, <4>2
    <3> QED BY <3>2, <3>3
  <2>4. CASE U!Getcwd /\ v2.fails # "getcwd" /\ ~(v2.cwd >= v5)
    <3>1. v3 = "getcwd" /\ v3' = "join" /\ v8' = {"buf"}
      BY <2>4 DEF U!Getcwd
    <3>2. v2.cwd < 1024
      BY <1>2, <1>3, <2>4, <3>1
    <3> QED BY <3>1, <3>2
  <2>5. CASE U!JoinPath
    <3>1. /\ v3 = "join" /\ v3' \in {"done", "failed"}
          /\ v3' = "done" => v8' = (v8 \ {"buf"}) \cup {"ret"}
          /\ v3' = "failed" => v2.fails = "join" /\ v8' = v8 \ {"buf"}
      BY <2>5 DEF U!JoinPath, U!Return, U!Fail
    <3>2. v8 = {"buf"} /\ v2.cwd < 1024
      BY <1>3, <3>1
    <3> QED BY <1>2, <3>1, <3>2
  <2> QED BY <2>1, <2>2, <2>3, <2>4, <2>5
<1>5. /\ v1' = "rel2abs"
      /\ v3' \in {"call", "copy", "rest", "getcwd", "join", "read", "split", "done", "failed"}
  BY <1>1, <1>4
<1>6. U!PathSoFar' /\ U!PathsUpTo1023'
  BY <1>1, <1>4 DEF U!PathSoFar, U!PathsUpTo1023
<1>7. U!HeldSoFar' /\ U!NothingHeld'
  BY <1>1, <1>4 DEF U!HeldSoFar, U!NothingHeld
<1> QED BY <1>2, <1>5, <1>6, <1>7, Zenon DEF UnixInv, U!CopySoFar, U!FileSoFar,
           U!CopyFits, U!FileTogether, U!MktimeUtc

(* os_readfile: the length is that of the file, unless it was rewritten.    *)
LEMMA FileKept ==
  ASSUME UnixInv, U!SizeFile \/ U!ReadFile \/ U!Rewrite
  PROVE  UnixInv'
<1>1. v1 = "readfile" /\ v1' = v1 /\ v2' = v2 /\ v6 \in FileContents /\ v6' \in FileContents
  <2>1. v3 = "read" => v1 = "readfile"
    BY DEF UnixInv, U!HeldSoFar
  <2> QED BY <2>1 DEF UnixInv, U!SizeFile, U!ReadFile, U!Rewrite, U!Call, U!Local
<1>2. U!CallKnown'
  BY <1>1, UnixCallNext DEF UnixInv
<1>3. /\ v3 = "call" => ~v7 /\ v8 = {}
      /\ v3 = "read" => v5 \in Nat /\ (v7 \/ v5 = Len(v6))
  BY <1>1 DEF UnixInv, U!FileSoFar, U!HeldSoFar
<1> DEFINE Bytes == {v6[k] : k \in DOMAIN v6}
<1>4. v6 \in Seq(Bytes) /\ Len(v6) \in Nat
  <2>1. v6 \in Seq(Bytes)
    BY <1>1, UnixAssumption DEF UnixAssumption
  <2> QED BY <2>1
<1> HIDE DEF Bytes
<1>5. /\ v3' \in {"read", "done", "failed"}
      /\ v3' = "read" => v5' \in Nat /\ (v7' \/ v5' = Len(v6'))
      /\ v3' = "failed" => v8' = {}
      /\ v3' = "done" => v8' \subseteq {"buf"} /\ U!IsPrefix(v4', v6') /\ (v7' \/ v4' = v6')
  <2>1. CASE U!SizeFile
    BY <1>3, <1>4, <2>1 DEF U!SizeFile, U!Call, U!Fail, U!Local
  <2>2. CASE U!ReadFile
    <3>1. /\ v3 = "read" /\ v6' = v6 /\ v7' = v7
          /\ v5 <= Len(v6) => v3' = "done" /\ v4' = SubSeq(v6, 1, v5) /\ v8' = {"buf"}
          /\ ~(v5 <= Len(v6)) => v3' = "failed" /\ v8' = {}
      BY <2>2 DEF U!ReadFile, U!Return, U!Fail, U!Local
    <3>2. CASE v5 <= Len(v6)
      <4>1. v5 \in Nat /\ v4' = SubSeq(v6, 1, v5)
        BY <1>3, <3>1, <3>2
      <4>2. Len(v4') = v5
        <5>1. \A k \in 1 .. v5 : v6[k] \in Bytes
          BY <1>4, <3>2, <4>1, ElementOfSeq
        <5> QED BY <4>1, <5>1, SubSeqProperties
      <4>3. SubSeq(v4', 1, Len(v4')) = v4'
        <5>1. \A k \in 1 .. v5 : v6[k] \in Bytes
          BY <1>4, <3>2, <4>1, ElementOfSeq
        <5>2. v4' \in Seq(Bytes)
          BY <4>1, <5>1, SubSeqProperties
        <5> QED BY <5>2, SubSeqFull
      <4>4. U!IsPrefix(v4', v6')
        BY <3>1, <3>2, <4>1, <4>2, <4>3 DEF U!IsPrefix
      <4>5. v7' \/ v4' = v6'
        <5>1. CASE v5 = Len(v6)
          BY <1>4, <3>1, <4>1, <5>1, SubSeqFull
        <5> QED BY <1>3, <3>1, <5>1
      <4> QED BY <3>1, <3>2, <4>4, <4>5
    <3>3. CASE ~(v5 <= Len(v6))
      BY <3>1, <3>3
    <3> QED BY <3>2, <3>3
  <2>3. CASE U!Rewrite
    BY <1>3, <2>3 DEF U!Rewrite
  <2> QED BY <2>1, <2>2, <2>3
<1>6. /\ v1' = "readfile"
      /\ v3' \in {"call", "copy", "rest", "getcwd", "join", "read", "split", "done", "failed"}
  BY <1>1, <1>5
<1>7. U!FileSoFar' /\ U!FileTogether'
  BY <1>5, <1>6 DEF U!FileSoFar, U!FileTogether
<1>8. U!HeldSoFar' /\ U!NothingHeld'
  BY <1>5, <1>6 DEF U!HeldSoFar, U!NothingHeld
<1> QED BY <1>1, <1>2, <1>6, <1>7, <1>8 DEF UnixInv, U!CopySoFar, U!PathSoFar,
           U!CopyFits, U!PathsUpTo1023, U!MktimeUtc

LEMMA MinIs ==
  ASSUME NEW a \in Nat, NEW b \in Nat, a <= b
  PROVE  U!Min({a, b}) = a /\ U!Min({b, a}) = a
<1>1. ASSUME NEW x \in {a, b}, \A y \in {a, b} : x <= y
      PROVE  x = a
  BY <1>1
<1>2. \A y \in {a, b} : a <= y
  OBVIOUS
<1>3. U!Min({a, b}) = a
  BY <1>1, <1>2, Zenon DEF U!Min
<1>4. {a, b} = {b, a}
  OBVIOUS
<1> QED BY <1>3, <1>4

(* os_strlcpy: what has been copied is the beginning of the string.         *)
LEMMA StringKept ==
  ASSUME UnixInv, U!StrlcpyStart \/ U!CopyChar \/ U!ForceTerminator
  PROVE  UnixInv'
<1>1. v1 = "strlcpy" /\ v1' = v1 /\ v2' = v2 /\ v6' = v6 /\ v8' = v8
  BY DEF U!StrlcpyStart, U!CopyChar, U!ForceTerminator, U!Call, U!Local
<1>2. /\ U!CallKnown' /\ v2.siz \in Nat /\ v6' \in FileContents
      /\ \E Bytes : U!NUL \notin Bytes /\ v2.src \in Seq(Bytes)
  BY <1>1, UnixArgs, UnixCallNext DEF UnixInv
<1>3. PICK Bytes : U!NUL \notin Bytes /\ v2.src \in Seq(Bytes)
  BY <1>2
<1> DEFINE src == v2.src
           siz == v2.siz
<1>4. /\ v3 = "call" => v4 = << >>
      /\ v3 = "copy" => siz > 0 /\ v5 = siz - Len(v4) /\ v5 > 0
      /\ v3 = "rest" => (siz = 0 /\ v4 = << >>) \/ (siz > 0 /\ Len(v4) = siz - 1)
      /\ v3 \in {"copy", "rest"} => Len(v4) \in 0 .. Len(src) /\ v4 = SubSeq(src, 1, Len(v4))
      /\ Len(v4) <= siz /\ v8 = {}
  <2>1. U!CopySoFar /\ U!HeldSoFar /\ Len(v4) <= siz
    BY <1>1, Zenon DEF UnixInv, U!CopyFits
  <2>2. v8 = {}
    BY <1>1, <2>1 DEF U!HeldSoFar
  <2>3. /\ v3 = "call" => v4 = << >>
        /\ v3 = "copy" => siz > 0 /\ v5 = siz - Len(v4) /\ v5 > 0
        /\ v3 \in {"copy", "rest"} => Len(v4) \in 0 .. Len(src) /\ v4 = SubSeq(src, 1, Len(v4))
    BY <1>1, <2>1, Zenon DEF U!CopySoFar
  <2>4. v3 = "rest" => (siz = 0 /\ v4 = << >>) \/ (siz > 0 /\ Len(v4) = siz - 1)
    BY <1>1, <2>1, Zenon DEF U!CopySoFar
  <2> QED BY <2>1, <2>2, <2>3, <2>4, Zenon
<1>5. src \in Seq(Bytes) /\ siz \in Nat /\ Len(src) \in Nat
  <2>1. src \in Seq(Bytes) /\ siz \in Nat
    BY <1>2, <1>3
  <2> QED BY <2>1
<1> HIDE DEF src, siz
<1>6. ASSUME NEW k \in 0 .. Len(src)
      PROVE  /\ SubSeq(src, 1, k) \in Seq(Bytes) /\ Len(SubSeq(src, 1, k)) = k
             /\ \A c : /\ Len(Append(SubSeq(src, 1, k), c)) = k + 1
                       /\ Append(SubSeq(src, 1, k), c)[k + 1] = c
             /\ k < Len(src) => Append(SubSeq(src, 1, k), src[k + 1]) = SubSeq(src, 1, k + 1)
  <2>1. \A j \in 1 .. k + 1 : j <= Len(src) => src[j] \in Bytes
    BY <1>5, ElementOfSeq
  <2>2. /\ SubSeq(src, 1, k) \in Seq(Bytes) /\ Len(SubSeq(src, 1, k)) = k
        /\ \A j \in 1 .. k : SubSeq(src, 1, k)[j] = src[j]
    <3>1. \A j \in 1 .. k : src[j] \in Bytes
      BY <2>1, <1>5
    <3>2. k \in Int /\ (k - 1 + 1 = k)
      BY <1>5
    <3>3. /\ SubSeq(src, 1, k) \in Seq(Bytes)
          /\ Len(SubSeq(src, 1, k)) = IF 1 <= k THEN k - 1 + 1 ELSE 0
          /\ \A j \in 1 .. k - 1 + 1 : SubSeq(src, 1, k)[j] = src[1 + j - 1]
      BY <3>1, <3>2, SubSeqProperties
    <3> QED BY <1>5, <3>2, <3>3
  <2> DEFINE t == SubSeq(src, 1, k)
  <2>3. ASSUME NEW c
        PROVE  /\ Append(t, c) \in Seq(Bytes \cup {c}) /\ Len(Append(t, c)) = k + 1
               /\ Append(t, c)[k + 1] = c
               /\ \A j \in 1 .. k : Append(t, c)[j] = t[j]
    <3>1. t \in Seq(Bytes \cup {c}) /\ c \in Bytes \cup {c} /\ Len(t) = k
      <4>1. Bytes \subseteq Bytes \cup {c}
        OBVIOUS
      <4> QED BY <2>2, <4>1, SeqMonotonic
    <3> HIDE DEF t
    <3>2. /\ Append(t, c) \in Seq(Bytes \cup {c}) /\ Len(Append(t, c)) = Len(t) + 1
          /\ \A j \in 1 .. Len(t) : Append(t, c)[j] = t[j]
          /\ Append(t, c)[Len(t) + 1] = c
      BY <3>1, AppendProperties
    <3> QED BY <3>1, <3>2
  <2>4. ASSUME k < Len(src)
        PROVE  Append(t, src[k + 1]) = SubSeq(src, 1, k + 1)
    <3> DEFINE c == src[k + 1]
               a == Append(t, c)
               z == SubSeq(src, 1, k + 1)
    <3>1. c \in Bytes /\ k + 1 \in Int /\ \A j \in 1 .. k + 1 : src[j] \in Bytes
      BY <1>5, <2>1, <2>4
    <3>2. Bytes \cup {c} = Bytes
      BY <3>1
    <3>3. /\ a \in Seq(Bytes) /\ Len(a) = k + 1 /\ a[k + 1] = c
          /\ \A j \in 1 .. k : a[j] = t[j]
      BY <2>3, <3>2
    <3>4. /\ z \in Seq(Bytes)
          /\ Len(z) = IF 1 <= k + 1 THEN k + 1 - 1 + 1 ELSE 0
          /\ \A j \in 1 .. k + 1 - 1 + 1 : z[j] = src[1 + j - 1]
      BY <3>1, SubSeqProperties
    <3>5. Len(z) = k + 1 /\ \A j \in 1 .. k + 1 : z[j] = src[j]
      BY <3>4
    <3>6. \A j \in 1 .. Len(a) : a[j] = z[j]
      <4>1. TAKE j \in 1 .. Len(a)
      <4>2. CASE j = k + 1
        BY <3>3, <3>5, <4>2
      <4>3. CASE j \in 1 .. k
        <5>1. t[j] = src[j]
          BY <2>2, <4>3
        <5> QED BY <3>3, <3>5, <4>3, <5>1
      <4> QED BY <3>3, <4>1, <4>2, <4>3
    <3> HIDE DEF a, z
    <3>7. a = z
      BY <3>3, <3>4, <3>5, <3>6, SeqEqual
    <3> QED BY <3>7 DEF a, z
  <2> QED BY <2>2, <2>3, <2>4
<1>7. /\ v3' \in {"copy", "rest", "done"} /\ Len(v4') <= siz
      /\ v3' = "copy" => siz > 0 /\ v5' = siz - Len(v4') /\ v5' > 0
      /\ v3' = "rest" => (siz = 0 /\ v4' = << >>) \/ (siz > 0 /\ Len(v4') = siz - 1)
      /\ v3' \in {"copy", "rest"} =>
           Len(v4') \in 0 .. Len(src) /\ v4' = SubSeq(src, 1, Len(v4'))
      /\ v3' = "done" /\ siz > 0 =>
           v4' = Append(SubSeq(src, 1, U!Min({Len(src), siz - 1})), U!NUL)
  <2>1. CASE U!StrlcpyStart
    <3>1. /\ v3 = "call" /\ v4' = v4 /\ v5' = siz
          /\ v3' = IF siz > 0 THEN "copy" ELSE "rest"
      BY <2>1 DEF U!StrlcpyStart, U!Call, siz
    <3>2. v4' = << >> /\ Len(v4') = 0
      BY <1>4, <3>1
    <3>3. SubSeq(src, 1, 0) = << >>
      BY SubSeqEmpty
    <3>4. CASE siz > 0
      BY <1>5, <3>1, <3>2, <3>3, <3>4
    <3>5. CASE siz = 0
      <4>1. v4' = SubSeq(src, 1, Len(v4')) /\ Len(v4') \in 0 .. Len(src) /\ Len(v4') <= siz
        BY <1>5, <3>2, <3>3, <3>5
      <4>2. v3' = "rest"
        BY <3>1, <3>5
      <4> QED BY <3>2, <3>5, <4>1, <4>2
    <3>6. siz > 0 \/ siz = 0
      BY <1>5
    <3> QED BY <3>4, <3>5, <3>6, Zenon
  <2>2. CASE U!CopyChar
    <3> DEFINE k == Len(v4)
               c == IF k + 1 <= Len(src) THEN src[k + 1] ELSE U!NUL
    <3>1. /\ v3 = "copy" /\ v5' = v5 - 1
          /\ v5 - 1 # 0 => /\ v4' = Append(v4, c)
                           /\ v3' = IF U!Last(v4') = U!NUL THEN "done" ELSE v3
          /\ v5 - 1 = 0 => v3' = "rest" /\ v4' = v4
      BY <2>2 DEF U!CopyChar, U!Room, U!Src, src
    <3>2. /\ siz > 0 /\ v5 = siz - k /\ v5 > 0
          /\ k \in 0 .. Len(src) /\ v4 = SubSeq(src, 1, k)
      BY <1>4, <3>1
    <3>3. CASE v5 - 1 = 0
      BY <1>5, <3>1, <3>2, <3>3
    <3> HIDE DEF k
    <3>4. CASE v5 - 1 # 0 /\ k < Len(src)
      <4>1. c = src[k + 1] /\ v4' = Append(SubSeq(src, 1, k), src[k + 1])
        BY <1>5, <3>1, <3>2, <3>4
      <4>2. v4' = SubSeq(src, 1, k + 1) /\ Len(v4') = k + 1 /\ v4'[k + 1] = src[k + 1]
        BY <1>6, <3>2, <3>4, <4>1
      <4>3. src[k + 1] # U!NUL
        <5>1. src[k + 1] \in Bytes
          BY <1>5, <3>2, <3>4, ElementOfSeq
        <5> QED BY <1>3, <5>1
      <4>4. v3' = "copy"
        BY <3>1, <3>4, <4>2, <4>3 DEF U!Last
      <4> QED BY <1>5, <3>1, <3>2, <3>4, <4>2, <4>4
    <3>5. CASE v5 - 1 # 0 /\ k = Len(src)
      <4>1. c = U!NUL /\ v4' = Append(SubSeq(src, 1, k), U!NUL)
        BY <1>5, <3>1, <3>2, <3>5
      <4>2. Len(v4') = k + 1 /\ v4'[k + 1] = U!NUL
        BY <1>6, <3>2, <4>1
      <4>3. v3' = "done"
        BY <3>1, <3>5, <4>2 DEF U!Last
      <4>4. k <= siz - 1 /\ siz - 1 \in Nat /\ k \in Nat
        BY <1>5, <3>2, <3>5
      <4>5. U!Min({Len(src), siz - 1}) = k
        BY <3>5, <4>4, MinIs
      <4>6. v4' = Append(SubSeq(src, 1, U!Min({Len(src), siz - 1})), U!NUL)
        BY <4>1, <4>5
      <4>7. Len(v4') <= siz
        BY <1>5, <4>2, <4>4
      <4> QED BY <4>3, <4>6, <4>7
    <3>6. k < Len(src) \/ k = Len(src)
      BY <1>5, <3>2
    <3> QED BY <3>3, <3>4, <3>5, <3>6, Zenon
  <2>3. CASE U!ForceTerminator
    <3>1. /\ v3 = "rest" /\ v3' = "done"
          /\ v4' = IF siz # 0 THEN Append(v4, U!NUL) ELSE v4
      BY <2>3 DEF U!ForceTerminator, siz
    <3>2. CASE siz = 0
      BY <1>4, <3>1, <3>2
    <3>3. CASE siz # 0
      <4>1. siz > 0 /\ siz - 1 \in 0 .. Len(src) /\ v4 = SubSeq(src, 1, siz - 1)
        BY <1>4, <1>5, <3>1, <3>3
      <4>2. v4' = Append(SubSeq(src, 1, siz - 1), U!NUL) /\ Len(v4') = siz
        <5>1. v4' = Append(SubSeq(src, 1, siz - 1), U!NUL)
          BY <3>1, <3>3, <4>1
        <5>2. Len(Append(SubSeq(src, 1, siz - 1), U!NUL)) = siz - 1 + 1
          BY <1>6, <4>1
        <5> QED BY <1>5, <5>1, <5>2
      <4>3. U!Min({Len(src), siz - 1}) = siz - 1
        BY <1>5, <4>1, MinIs
      <4>4. v4' = Append(SubSeq(src, 1, U!Min({Len(src), siz - 1})), U!NUL)
        BY <4>2, <4>3
      <4>5. Len(v4') <= siz
        BY <1>5, <4>2
      <4> QED BY <3>1, <4>4, <4>5
    <3> QED BY <3>2, <3>3
  <2> QED BY <2>1, <2>2, <2>3
<1>8. /\ v1' = "strlcpy" /\ v2' = v2
      /\ v3' \in {"call", "copy", "rest", "getcwd", "join", "read", "split", "done", "failed"}
  BY <1>1, <1>7
<1>9. U!CopySoFar' /\ U!CopyFits'
  BY <1>7, <1>8 DEF U!CopySoFar, U!CopyFits, src, siz
<1>10. U!HeldSoFar' /\ U!NothingHeld'
  BY <1>1, <1>4, <1>7, <1>8 DEF U!HeldSoFar, U!NothingHeld
<1> QED BY <1>2, <1>8, <1>9, <1>10 DEF UnixInv, U!PathSoFar, U!FileSoFar,
           U!PathsUpTo1023, U!FileTogether, U!MktimeUtc

LEMMA UnixKept ==
  ASSUME UnixInv, U!Next
  PROVE  UnixInv'
<1>1. CASE U!StrlcpyStart \/ U!CopyChar \/ U!ForceTerminator
  BY <1>1, StringKept
<1>2. CASE U!Rel2AbsStart \/ U!Getcwd \/ U!JoinPath
  BY <1>2, PathKept
<1>3. CASE U!SizeFile \/ U!ReadFile \/ U!Rewrite
  BY <1>3, FileKept
<1>4. CASE U!os_get_random \/ U!os_exec \/ U!NextArg \/ U!Execv
  BY <1>4, RandomAndExecKept
<1>5. CASE U!os_mktime
  BY <1>5, MktimeKept
<1> QED BY <1>1, <1>2, <1>3, <1>4, <1>5 DEF U!Next

-----------------------------------------------------------------------------
(* HelpersRight: channels and their frequencies, the text of a hardware     *)
(* address, the deadline of a command and the pause after a handshake are   *)
(* right for every argument, and so are the copies, paths, files and times  *)
(* of os_unix.c, which holds nothing more than it returned.                 *)
THEOREM HelpersAreRight == Spec => []HelpersRight
<1> DEFINE I == (part = "convert" => ConvertInv) /\ (part = "unix" => UnixInv)
<1>1. Init => I
  <2> SUFFICES ASSUME Init PROVE I
    OBVIOUS
  <2>1. ASSUME part = "convert" PROVE ConvertInv
    <3>1. C!Init
      BY <2>1 DEF Init
    <3> QED BY <3>1, ConvertInit
  <2>2. ASSUME part = "unix" PROVE UnixInv
    <3>1. U!Init
      BY <2>2 DEF Init
    <3> QED BY <3>1, UnixInit
  <2> QED BY <2>1, <2>2
<1>2. I /\ [Next]_vars => I'
  <2> SUFFICES ASSUME I, [Next]_vars PROVE I'
    OBVIOUS
  <2>1. CASE UNCHANGED vars
    <3>1. /\ v1' = v1 /\ v2' = v2 /\ v3' = v3 /\ v4' = v4 /\ v5' = v5 /\ v6' = v6
          /\ v7' = v7 /\ v8' = v8 /\ part' = part
      BY <2>1 DEF vars
    <3>2. ConvertInv => ConvertInv'
      <4> SUFFICES ASSUME ConvertInv PROVE ConvertInv'
        OBVIOUS
      <4>1. C!CallKnown'
        BY <3>1, CallNext DEF ConvertInv
      <4>2. C!MacSoFar'
        BY <3>1, Zenon DEF ConvertInv, C!MacSoFar, C!Written
      <4>3. C!ChannelRoundTrip' /\ MacTyped'
        BY <3>1, Zenon DEF ConvertInv, C!ChannelRoundTrip, MacTyped
      <4>4. C!DeadlineExact'
        BY <3>1 DEF ConvertInv, C!DeadlineExact
      <4>5. C!SleptSoFar' /\ C!SleptInFull'
        <5>1. C!Msec(v4)' = C!Msec(v4)
          BY <3>1 DEF C!Msec
        <5> QED BY <3>1, <5>1, Zenon DEF ConvertInv, C!SleptSoFar, C!SleptInFull
      <4> QED BY <3>1, <4>1, <4>2, <4>3, <4>4, <4>5, Zenon DEF ConvertInv
    <3>3. UnixInv => UnixInv'
      <4> SUFFICES ASSUME UnixInv PROVE UnixInv'
        OBVIOUS
      <4>1. U!CallKnown'
        BY <3>1, UnixCallNext DEF UnixInv
      <4>2. U!PathSoFar' /\ U!PathsUpTo1023'
        BY <3>1 DEF UnixInv, U!PathSoFar, U!PathsUpTo1023
      <4> QED BY <3>1, <4>1, <4>2, Zenon DEF UnixInv, U!CopySoFar, U!FileSoFar,
                 U!HeldSoFar, U!CopyFits, U!FileTogether, U!MktimeUtc, U!NothingHeld
    <3> QED BY <3>1, <3>2, <3>3
  <2>2. CASE Next /\ part = "convert"
    <3>1. C!Next /\ part' = part
      BY <2>2 DEF Next
    <3> QED BY <2>2, <3>1, ConvertKept
  <2>3. CASE Next /\ part = "unix"
    <3>1. U!Next /\ part' = part
      BY <2>3 DEF Next
    <3> QED BY <2>3, <3>1, UnixKept
  <2>4. CASE Next /\ part \notin {"convert", "unix"}
    <3>1. part' = part
      BY <2>4 DEF Next
    <3> QED BY <2>4, <3>1
  <2> QED BY <2>1, <2>2, <2>3, <2>4
<1>3. I => HelpersRight
  <2> SUFFICES ASSUME I PROVE HelpersRight
    OBVIOUS
  <2>1. ASSUME part = "convert"
        PROVE  C!ChannelRoundTrip /\ C!MacWhole /\ C!DeadlineExact /\ C!SleptInFull
    <3>1. ConvertInv
      BY <2>1
    <3>2. C!MacWhole
      BY <3>1, MacIsWhole
    <3> QED BY <3>1, <3>2, Zenon DEF ConvertInv
  <2>2. ASSUME part = "unix"
        PROVE  /\ U!CopyFits /\ U!PathsUpTo1023 /\ U!FileTogether
               /\ U!MktimeUtc /\ U!NothingHeld
    <3>1. UnixInv
      BY <2>2
    <3> QED BY <3>1, Zenon DEF UnixInv
  <2> QED BY <2>1, <2>2, Zenon DEF HelpersRight
<1> QED BY <1>1, <1>2, <1>3, PTL DEF Spec

=============================================================================
