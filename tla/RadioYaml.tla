----------------------------- MODULE RadioYaml -----------------------------
(***************************************************************************)
(* radio_hal_yaml_config (src/common/radio_hal_yaml.cpp): each file of the *)
(* list configures the radio of its own index.  libyaml (external) turns a *)
(* file into tokens; a scalar after a KEY token is a key, any other scalar *)
(* is a value for the last key.                                            *)
(*                                                                         *)
(* A scalar is the record of what the code asks of it: the keyword it      *)
(* begins with, its length, whether it has forbidden characters, and the   *)
(* number strtol finds in it.                                              *)
(***************************************************************************)
EXTENDS Integers, SequencesExt

CONSTANTS
  WIFI_RADIO_MAX,       \* radios the HAL is built for
  Lists,                \* lists of files, with the type of their radio
  MaxRegcompFails       \* bound on the validations that find no memory

ASSUME RadioMaxAssumption ==
  WIFI_RADIO_MAX \in Nat \ {0} /\ MaxRegcompFails \in Nat

SIZE_MAX == 65535       \* size_t, narrowed: it wraps below 0
KEY_MAX == 16           \* sizeof(temp_key)

VARIABLES
  files,        \* files that are left; the first one is being read
  opened,       \* the current file, once it is opened
  tokens,       \* what the scanner has left of it
  key,          \* the last KEY or VALUE token was a KEY
  temp_key,     \* the last key
  index,
  conf,         \* conf_struct: for each radio, what each field holds
  radio,
  left_open,    \* files that were opened and not closed
  given,        \* the list the call was given
  unchecked,    \* history: forbidden values that passed the validation
  yret          \* what the call returns

yamlVars == <<files, opened, tokens, key, temp_key, index, conf, radio,
              left_open, given, unchecked, yret>>

-----------------------------------------------------------------------------
(***************************************************************************)
(* struct wifi_config and modem_config.                                    *)
(***************************************************************************)
Scalar(text, name, len, ok) ==
  [text |-> text, name |-> name, len |-> len, ok |-> ok, num |-> 0,
   over |-> FALSE]
Numeral(n) == [Scalar("", "", 0, TRUE) EXCEPT !.num = n]
Zero == Numeral(0)
Junk == Scalar("?", "", 0, TRUE)        \* what malloc left there

(* The character arrays in the order of memory; "pad" is zero.              *)
Layout ==
  [wifi |-> <<"key", "passphrase", "ssid", "enc", "ap_mac", "country",
              "frequency", "bw", "preamble", "pad", "mode", "type", "pad">>,
   modem |-> <<"apn", "pin", "at_serial">>]

Size ==
  [key |-> 64, passphrase |-> 64, ssid |-> 32, enc |-> 8, ap_mac |-> 18,
   country |-> 3, frequency |-> 6, bw |-> 4, preamble |-> 6, mode |-> 5,
   type |-> 5, apn |-> 20, pin |-> 5, at_serial |-> 20, pad |-> 1]

Numbers == {"api_version", "distance", "tx_power", "mesh_fwding"}
Texts(r) == CASE r = "wifi" -> ToSet(Layout.wifi) \ {"pad"}
              [] r = "modem" -> ToSet(Layout.modem)
              [] OTHER -> {}
Fields(r) == IF r = "wifi" THEN Texts(r) \cup Numbers \cup {"debug"} ELSE Texts(r)

(* RADIO_ONE_RADIO_SUPPORT is 1.                                            *)
RadioMax(r) == IF r = "wifi" THEN WIFI_RADIO_MAX ELSE 1

(* wifi_config is allocated with calloc, modem_config with malloc.          *)
Allocated(r) ==
  [i \in 0 .. RadioMax(r) - 1 |->
     [f \in Fields(r) |-> IF r = "modem" THEN Junk ELSE Zero]]

(* The texts a string is joined of: an empty one adds nothing.              *)
Joined(text) == IF text = "" THEN << >> ELSE <<text>>

(* What a reader finds from one of the arrays on: without its terminator    *)
(* the string goes on in the array behind it.                               *)
ReadFrom(c, r, place) ==
  LET names == Layout[r]
      Held(k) == IF names[k] = "pad" THEN Zero ELSE c[names[k]]
      From[k \in 1 .. Len(names) + 1] ==
        IF k > Len(names) THEN <<"?">>
        ELSE Joined(Held(k).text) \o
             (IF Held(k).len < Size[names[k]] THEN << >> ELSE From[k + 1])
  IN  From[place]

Place(r, f) == SelectInSeq(Layout[r], LAMBDA n : n = f)
Read(c, r, f) == ReadFrom(c, r, Place(r, f))

-----------------------------------------------------------------------------
(***************************************************************************)
(* Storing a value.                                                        *)
(***************************************************************************)
(* strlen(value) - 1 < size: the empty string wraps to the largest size_t.  *)
Fits(v, f) == (v.len - 1) % (SIZE_MAX + 1) < Size[f]

(* (int)strtol: a number that is out of range is LONG_MAX, which becomes    *)
(* -1; the error is only logged.                                            *)
ToInt(v) == IF v.over THEN -1 ELSE v.num

(* radio_hal_yaml_wifi_config, and the same for the modem.                  *)
StoredIn(c, f, v) ==
  CASE f \in Numbers -> [c EXCEPT ![f] = Numeral(ToInt(v))]
    [] f = "debug" -> [c EXCEPT ![f] = Numeral(IF v.text = "True" THEN 1 ELSE 0)]
    [] OTHER -> IF Fits(v, f) THEN [c EXCEPT ![f] = v] ELSE c

(* No keyword begins another one, so that at most one branch matches.       *)
Stored(f, v) ==
  IF index < RadioMax(radio) /\ f \in Fields(radio)
  THEN [conf EXCEPT ![index] = StoredIn(@, f, v)]
  ELSE conf

-----------------------------------------------------------------------------
(***************************************************************************)
(* The two loops of radio_hal_yaml_config.                                 *)
(***************************************************************************)
Return(r) == yret' = r
Reading == yret = "reading"

YamlIdle ==
  /\ files = << >> /\ radio = "none" /\ given = [empty |-> TRUE, files |-> << >>]
  /\ opened = FALSE /\ tokens = << >> /\ left_open = 0 /\ unchecked = 0
  /\ key = FALSE /\ temp_key = "" /\ index = 0
  /\ conf = Allocated("none") /\ yret = "-1"

YamlInit ==
  \E i \in Lists :
    /\ files = i.files /\ radio = i.radio /\ given = i
    /\ opened = FALSE /\ tokens = << >> /\ left_open = 0 /\ unchecked = 0
    /\ key = FALSE /\ temp_key = "" /\ index = 0
    /\ conf = Allocated(i.radio) /\ yret = "reading"

(* An empty list is refused, a list of blanks is accepted.                  *)
ListEnds ==
  /\ Reading /\ ~opened /\ files = << >>
  /\ Return(IF given.empty THEN "-1" ELSE "0")
  /\ UNCHANGED <<files, opened, tokens, key, temp_key, index, conf, radio,
                 left_open, given, unchecked>>

(* fopen and yaml_parser_initialize may fail.                               *)
OpenFile ==
  /\ Reading /\ ~opened /\ files # << >>
  /\ \/ /\ Head(files).there
        /\ opened' = TRUE /\ tokens' = Head(files).tokens
        /\ left_open' = left_open + 1
        /\ UNCHANGED yret
     \/ Return("-1") /\ UNCHANGED <<opened, tokens, left_open>>
  /\ UNCHANGED <<files, key, temp_key, index, conf, radio, given, unchecked>>

Scan(type) ==
  /\ Reading /\ opened /\ Head(tokens).type = type
  /\ UNCHANGED <<radio, given>>

KeyOrValue ==
  /\ \/ Scan("KEY") /\ key' = TRUE
     \/ Scan("VALUE") /\ key' = FALSE
     \/ Scan("OTHER") /\ UNCHANGED key
  /\ tokens' = Tail(tokens)
  /\ UNCHANGED <<files, opened, temp_key, index, conf, left_open, unchecked, yret>>

(* A key that does not fit is forgotten.                                    *)
KeyScalar ==
  /\ key /\ Scan("SCALAR")
  /\ temp_key' = IF Head(tokens).is.len < KEY_MAX
                 THEN Head(tokens).is.name ELSE ""
  /\ tokens' = Tail(tokens)
  /\ UNCHANGED <<files, opened, key, index, conf, left_open, unchecked, yret>>

(* radio_hal_yaml_input_validation returns 0 for a forbidden character and  *)
(* -1 for a clean value, but -1 too when regcomp or regexec finds no memory: *)
(* then the value passes unchecked.                                         *)
Unvalidated ==
  /\ ~Head(tokens).is.ok /\ unchecked < MaxRegcompFails
  /\ unchecked' = unchecked + 1

Store ==
  /\ conf' = Stored(temp_key, Head(tokens).is)
  /\ tokens' = Tail(tokens) /\ UNCHANGED yret

(* Mutant: the value is validated only for a radio there is.                *)
ValueScalar_Late ==
  /\ ~key /\ Scan("SCALAR")
  /\ \/ /\ Head(tokens).is.ok \/ index >= RadioMax(radio)
        /\ Store /\ UNCHANGED unchecked
     \/ Unvalidated /\ Store
     \/ /\ ~Head(tokens).is.ok /\ index < RadioMax(radio)
        /\ Return("-1") /\ UNCHANGED <<conf, tokens, unchecked>>
  /\ UNCHANGED <<files, opened, key, temp_key, index, left_open>>

(* A forbidden character that is found ends the call, with the file and the *)
(* parser open.                                                             *)
ValueScalar ==
  /\ ~key /\ Scan("SCALAR")
  /\ \/ Head(tokens).is.ok /\ Store /\ UNCHANGED unchecked
     \/ Unvalidated /\ Store
     \/ /\ ~Head(tokens).is.ok
        /\ Return("-1") /\ UNCHANGED <<conf, tokens, unchecked>>
  /\ UNCHANGED <<files, opened, key, temp_key, index, left_open>>

(* Mutant: the next name is not taken from the list.                        *)
FileEnds_Again ==
  /\ Scan("STREAM_END")
  /\ opened' = FALSE /\ tokens' = << >> /\ left_open' = left_open - 1
  /\ UNCHANGED <<files, index>>
  /\ UNCHANGED <<key, temp_key, conf, unchecked, yret>>

(* key and temp_key are kept for the next file.                             *)
FileEnds ==
  /\ Scan("STREAM_END")
  /\ opened' = FALSE /\ tokens' = << >> /\ left_open' = left_open - 1
  /\ files' = Tail(files) /\ index' = index + 1
  /\ UNCHANGED <<key, temp_key, conf, unchecked, yret>>

(* After a scanning error the scanner gives YAML_NO_TOKEN for ever, and the *)
(* result of yaml_parser_scan is not looked at.                             *)
Stuck == opened /\ Reading /\ Head(tokens).type = "ERROR"

YamlNext ==
  ListEnds \/ OpenFile \/ KeyOrValue \/ KeyScalar \/ ValueScalar \/ FileEnds

-----------------------------------------------------------------------------
(***************************************************************************)
(* Properties.                                                             *)
(***************************************************************************)
YamlTypeOK ==
  /\ key \in BOOLEAN /\ opened \in BOOLEAN /\ left_open \in 0 .. 1
  /\ unchecked \in 0 .. MaxRegcompFails
  /\ yret \in {"reading", "0", "-1"}
  /\ DOMAIN conf = 0 .. RadioMax(radio) - 1
  /\ \A i \in DOMAIN conf : DOMAIN conf[i] = Fields(radio)

Accepted == yret = "0" /\ ~given.empty
FileOf(i) == given.files[i + 1]
ValuesFor(i, f) ==
  LET ofField == SelectSeq(FileOf(i).pairs, LAMBDA p : p.key.name = f /\ p.key.len < KEY_MAX)
  IN  [k \in DOMAIN ofField |-> ofField[k].value]

(* A value that reaches its array: not the empty one, and one octet more    *)
(* than leaves room for the terminator.                                     *)
Fitting(i, f) ==
  SelectSeq(ValuesFor(i, f), LAMBDA v : v.len \in 1 .. Size[f])

(* What lies behind the array of a field.                                   *)
Behind(i, f) == ReadFrom(conf[i], radio, Place(radio, f) + 1)

(* A radio whose file is a plain mapping and was accepted reads, from each  *)
(* text of its configuration, the last fitting value of its own file, and   *)
(* nothing of another radio or another file; it goes on into the field      *)
(* behind exactly when that value fills its array to the last byte, whatever *)
(* was stored there before.  Without a fitting value it reads what the      *)
(* allocation left.  Numbers are those of the last value.                   *)
ConfigFaithful ==
  Accepted =>
    \A i \in DOMAIN conf : i < Len(given.files) /\ FileOf(i).mapping =>
      /\ \A f \in Texts(radio) :
           LET vs == Fitting(i, f)
           IN  Read(conf[i], radio, f) =
                 IF vs = << >> THEN Joined(IF radio = "modem" THEN "?" ELSE "")
                 ELSE <<Last(vs).text>> \o
                      (IF Last(vs).len < Size[f] THEN << >> ELSE Behind(i, f))
      /\ \A f \in Numbers \cap Fields(radio) :
           LET vs == ValuesFor(i, f)
           IN  vs # << >> => conf[i][f].num = ToInt(Last(vs))

(* The forbidden values in the list of files.                               *)
Forbidden ==
  {<<i, k>> \in UNION {{i} \X DOMAIN given.files[i].pairs : i \in DOMAIN given.files} :
     ~given.files[i].pairs[k].value.ok}

(* A list is accepted only if every file of it could be read to its end,    *)
(* and every forbidden character in it, even in a file beyond the last      *)
(* radio, went through a validation of its own that found no memory; a      *)
(* radio without a file keeps an untouched configuration, and no file stays *)
(* open.                                                                    *)
AcceptedIsClean ==
  Accepted =>
    /\ left_open = 0
    /\ Cardinality(Forbidden) = unchecked
    /\ \A i \in DOMAIN given.files :
         /\ given.files[i].there
         /\ \A t \in ToSet(given.files[i].tokens) : t.type # "ERROR"
    /\ \A i \in DOMAIN conf :
         i >= Len(given.files) => conf[i] = Allocated(radio)[i]

(* The call returns, unless a file has a scanning error.                    *)
ConfigEnds == Reading ~> (~Reading \/ Stuck)

=============================================================================
