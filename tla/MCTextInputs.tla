---------------------------- MODULE MCTextInputs ----------------------------
(***************************************************************************)
(* An instance of TextInputs for TLC.                                      *)
(***************************************************************************)
EXTENDS TextInputs

(* Configuration files.                                                     *)
Keyword(name, len) == Scalar("key", name, len, TRUE)
Text(t, len) == Scalar(t, "", len, TRUE)

Ssid == Keyword("ssid", 4)
Enc == Keyword("enc", 3)
Distance == Keyword("distance", 8)
Long == Keyword("ssid", 16)             \* begins with ssid, but is dropped
Unknown == Keyword("", 5)

Home == Text("home", 4)
Empty == Text("", 0)
Fills == Text("fills", 32)
TooLong == Text("too long", 33)
Bad == Scalar("bad", "", 4, FALSE)
Metres == [Text("900", 3) EXCEPT !.num = 900]
Huge == [Text("huge", 30) EXCEPT !.over = TRUE]

Pairs ==
  {[key |-> Ssid, value |-> v] : v \in {Home, Empty, Fills, TooLong, Bad}}
  \cup {[key |-> Distance, value |-> v] : v \in {Metres, Huge, Home}}
  \cup {[key |-> k, value |-> Home] : k \in {Long, Unknown}}
  \cup {[key |-> Enc, value |-> v] : v \in {Text("SAE", 3), Text("WPA-PSK2", 8)}}

Tok(t) == [type |-> t, is |-> Zero]
Is(s) == [type |-> "SCALAR", is |-> s]

Mapping(ps) ==
  [there |-> TRUE, mapping |-> TRUE, pairs |-> ps,
   tokens |-> <<Tok("OTHER")>>
     \o FoldLeft(LAMBDA s, p : s \o <<Tok("KEY"), Is(p.key), Tok("VALUE"), Is(p.value)>>,
                 << >>, ps)
     \o <<Tok("STREAM_END")>>]

Tokens(ts) ==
  [there |-> TRUE, mapping |-> FALSE, pairs |-> << >>, tokens |-> ts]

(* A scalar without a key, a list of values, a key without a value, and a   *)
(* scanning error.                                                          *)
Bare == Tokens(<<Is(Home), Tok("STREAM_END")>>)
List == Tokens(<<Tok("KEY"), Is(Ssid), Tok("VALUE"), Tok("OTHER"), Is(Home),
                 Is(Fills), Tok("STREAM_END")>>)
NoValue == Tokens(<<Tok("KEY"), Is(Ssid), Tok("STREAM_END")>>)
Broken == Tokens(<<Tok("KEY"), Is(Ssid), Tok("ERROR")>>)
Missing == [Bare EXCEPT !.there = FALSE]

Odd == {Bare, List, NoValue, Broken, Missing}
Two == {Mapping(<<p, q>>) : p \in Pairs, q \in Pairs}
One == {Mapping(<<p>>) : p \in Pairs}

WifiList(fs) == [empty |-> FALSE, files |-> fs, radio |-> "wifi"]

Pin == [key |-> Keyword("pin", 3), value |-> Text("1234", 4)]
LongPin == [key |-> Keyword("pin", 3), value |-> Text("12345", 5)]
Serial == [key |-> Keyword("at_serial", 9), value |-> Text("tty", 12)]
ModemList(fs) == [WifiList(fs) EXCEPT !.radio = "modem"]

MCLists ==
  {WifiList(<<f>>) : f \in Two \cup Odd}
  \cup {WifiList(<<f, g>>) : f \in One \cup Odd, g \in One \cup Odd}
  \cup {WifiList(<<f, Mapping(<<[key |-> Ssid, value |-> Home]>>), g>>) :
          f \in One, g \in One \cup Odd}
  \cup {ModemList(<<Mapping(ps)>>) :
          ps \in {<<Pin>>, <<LongPin, Serial>>, <<Serial, Pin>>}}
  \cup {ModemList(<<Mapping(<<Serial>>), Mapping(<<Pin>>)>>)}
  \cup {[WifiList(<<Bare>>) EXCEPT !.radio = r] : r \in {"bt", "15.4"}}
  \cup {WifiList(<< >>), [WifiList(<< >>) EXCEPT !.empty = TRUE]}

(* Outputs around the sizes of a chunk and of the buffer.                   *)
MCOutputs ==
  {NoOutput} \cup
  {[lines |-> ls, newline |-> n] :
     ls \in {<<a>> : a \in 1 .. 10} \cup {<<a, b>> : a \in 1 .. 5, b \in 1 .. 5},
     n \in BOOLEAN}

(* Lines: quoted and plain strings, numbers.                                *)
Str(t, q) == [kind |-> "str", text |-> t, quoted |-> q]
Int10(t) == [kind |-> "int", text |-> t, quoted |-> FALSE]
Int16(t) == [kind |-> "hex", text |-> t, quoted |-> FALSE]

Bool(t) == [kind |-> "bool", text |-> t, quoted |-> FALSE]

Strings == {Str(<<"a">>, q) : q \in BOOLEAN}
  \cup {Str(<<"a", " ", "1">>, FALSE), Str(<<"a", ",", "1">>, TRUE),
        Str(<<" ", "a", ":">>, TRUE)}
Ints == {Int10(<<"3">>), Int10(<<"1", "0">>), Int10(<<"9", "9">>)}
Fields1 == {<<s>> : s \in Strings \cup {Bool(<<"0">>), Bool(<<"1">>)}}
Fields2 == {<<a, b>> : a \in Ints, b \in Ints \cup {Int16(<<"1", "f">>)}}
Fields3 == {<<s, a, b>> : s \in Strings, a \in Ints, b \in Ints}

MCReports ==
  {[fields |-> fs, wide |-> w] : fs \in Fields1 \cup Fields2 \cup Fields3,
                                 w \in BOOLEAN}

MCStrengths == {<<"0">>, <<"3", "1">>, <<"9", "9">>}

=============================================================================
