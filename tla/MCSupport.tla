----------------------------- MODULE MCSupport -----------------------------
(***************************************************************************)
(* An instance of Support for TLC.                                         *)
(***************************************************************************)
EXTENDS Support

LOCAL INSTANCE SequencesExt

Upto(S0, m) == UNION {[1 .. k -> S0] : k \in 0 .. m}

(* AtReadline: all short streams of bytes, streams of text and newlines up  *)
(* to almost two buffers, and streams of text, newlines and whole prompts.  *)
Words(m) ==
  {FlattenSeq(w) : w \in Upto({<<"text">>, <<"eol">>, <<">", " ">>}, m)}

MCStreams ==
  Upto({"text", "eol", ">", " "}, 6) \cup Upto({"text", "eol"}, 8) \cup Words(6)

(* RetryClock: calls in the first second after boot, and later.             *)
MCUptimes == [sec : {0, 3}, usec : {0, 500000, 999999}]

(* HalLifetime: a line with one option may have a function to test and      *)
(* arguments for it; arguments follow a function only.                      *)
Options == {"w", "m", "b", "z", "h", "?"}

OneOption == [opts : {<<o>> : o \in Options},
              cmd : {"none", "other", "connect", "rssi"}, given : BOOLEAN]
ManyOptions == [opts : UNION {[1 .. n -> {"w", "m", "b"}] : n \in 2 .. 3},
                cmd : {"other"}, given : BOOLEAN]

MCLines == {l \in OneOption \cup ManyOptions : l.given => l.cmd # "none"}

(* WifiStats.                                                               *)
MCMachines == [StatRadios -> {"ath9k", "ath10k", "ath11k", "brcm"}]

(* WpaBuf: nothing, one digit, all digits different, each width full and    *)
(* too wide.                                                                *)
MCValues == {0, 27, BYTE ^ 3 - 1, BYTE ^ 4 + 6, BYTE ^ 8 - 1}

(* Conversions.                                                             *)
MCChannels == 0 .. 200
MCMacs == [1 .. 6 -> {0, 255}] \cup {<<0, 17, 34, 51, 160, 10>>}
MCTimes == [sec : {0, 5}, usec : {0, 1, 500000, 999000, 999999}]

(* OsUnix.                                                                  *)
MCTexts == Upto({"a"}, 5)
MCContents == Upto({1, 2}, 2)
MCArgs == Upto({" ", "a", "b"}, 6)
MCZones == [std : {-5, 0, 3}, dst : {0, 1}, summer : {{}, 10 .. 20}]

(* OsFail: one name is the beginning of another.                            *)
Names == {<<"a">>, <<"a", "b">>, <<"b">>}
MCCallers == Upto(Names, 2) \cup [1 .. 3 -> {<<"a">>, <<"b">>}]

Marks == {"", "=", "?"}
Segments == [mark : Marks, name : {<<"a">>, <<"b">>}]
Three(m) == <<[mark |-> m[1], name |-> <<"b">>], [mark |-> m[2], name |-> <<"a">>],
              [mark |-> m[3], name |-> <<"b">>]>>
MCPatterns == [1 .. 1 -> Segments] \cup [1 .. 2 -> Segments]
              \cup {Three(m) : m \in Marks \X Marks \X Marks}

=============================================================================
