---------------------------- MODULE ModemReports ----------------------------
(***************************************************************************)
(* What the modem HAL (src/modem/modem_hal_main.cpp) reads out of the      *)
(* lines a modem sends, with the tokenizer of AtTok: the readers of +CPIN, *)
(* +QPINC, +CGREG and +CTEC, each a sequence of at_tok calls, and          *)
(* modem_hal_get_rssi, which asks AT+CSQ and then AT+CIND.  No reader uses *)
(* at_tok_nextbool; one that would is added for it.                        *)
(*                                                                         *)
(* The modem (external) sends a line with its fields, whole or cut off at  *)
(* any character.                                                          *)
(***************************************************************************)
EXTENDS AtTok

CONSTANTS
  Reports,      \* [fields, wide]: fields of a line; are blanks behind commas?
  Strengths,    \* what AT+CSQ may report
  Junk32        \* what an uninitialised int may hold

VARIABLES
  report,       \* the fields the modem sent
  line, cur,
  asked,        \* calls of at_tok the reader has left
  got,          \* what the calls returned
  terr,         \* the reader's place, or what it returns
  csq,          \* modem_hal_get_rssi: the answer to AT+CSQ
  rssi, rret, rpc,
  final,        \* a response: success, what failed, and its final line
  cme           \* what at_get_cme_error returned, in a sequence

tokVars == <<report, line, cur, asked, got, terr>>
rssiVars == <<csq, rssi, rret, rpc>>
cmeVars == <<final, cme>>

-----------------------------------------------------------------------------
(***************************************************************************)
(* A line of a modem.                                                      *)
(***************************************************************************)
Shown(f) == IF f.quoted THEN <<Quote>> \o f.text \o <<Quote>> ELSE f.text
Line(r) ==
  LET gap == IF r.wide THEN <<" ">> ELSE << >>
      Part(k) == (IF k = 1 THEN << >> ELSE <<",">>) \o gap \o Shown(r.fields[k])
  IN  <<"+", ":">> \o FlattenSeq([k \in DOMAIN r.fields |-> Part(k)])

ValueOf(f) == CASE f.kind = "str" -> f.text
                [] f.kind \in {"int", "bool"} -> strtol(f.text, 10)
                [] f.kind = "hex" -> strtol(f.text, 16)

-----------------------------------------------------------------------------
(***************************************************************************)
(* The readers.                                                            *)
(***************************************************************************)
NoReport == [fields |-> << >>, wide |-> FALSE]
TokIdle ==
  /\ report = NoReport /\ line = << >> /\ cur = NULL /\ asked = << >>
  /\ got = << >> /\ terr = "0"
CmeIdle == final = [success |-> TRUE, sent |-> 0, line |-> << >>] /\ cme = <<0>>
RssiIdle == csq = << >> /\ rssi = 0 /\ rret = 0 /\ rpc = "idle"

TokInit ==
  \E r \in Reports :
    \E n \in 2 .. Len(Line(r)) :
      /\ report = r /\ line = SubSeq(Line(r), 1, n)
      /\ asked = [k \in DOMAIN r.fields |-> r.fields[k].kind]
      /\ cur = NULL /\ got = << >> /\ terr = "start"

(* A reader gives up when the line has no prefix.  parse_technology_response *)
(* also gives up when nothing follows it.                                   *)
StartReport ==
  /\ terr = "start"
  /\ LET s == at_tok_start(line)
     IN  /\ cur' = s.cur
         /\ terr' = IF \/ s.err < 0
                       \/ Last(asked) = "hex" /\ ~at_tok_hasmore(line, s.cur)
                    THEN "-1" ELSE "reading"
  /\ UNCHANGED <<report, line, asked, got>>

Call(kind) ==
  CASE kind = "str" -> at_tok_nextstr(line, cur)
    [] kind = "int" -> at_tok_nextint(line, cur)
    [] kind = "hex" -> at_tok_nexthexint(line, cur)
    [] kind = "bool" -> at_tok_nextbool(line, cur)

(* The next call; a reader ends with its first error.  Without a preferred  *)
(* technology parse_technology_response returns 1.                          *)
ReadField ==
  /\ terr = "reading" /\ asked # << >>
  /\ LET c == Call(Head(asked))
     IN  IF c.err < 0
         THEN /\ terr' = IF Head(asked) = "hex" THEN "1" ELSE "-1"
              /\ cur' = c.cur /\ UNCHANGED <<got, asked>>
         ELSE /\ got' = Append(got, [kind |-> Head(asked), is |-> c.out])
              /\ asked' = Tail(asked) /\ cur' = c.cur /\ UNCHANGED terr
  /\ UNCHANGED <<report, line>>

ReportEnds ==
  /\ terr = "reading" /\ asked = << >> /\ terr' = "0"
  /\ UNCHANGED <<report, line, cur, asked, got>>

TokNext == StartReport \/ ReadField \/ ReportEnds

-----------------------------------------------------------------------------
(***************************************************************************)
(* modem_hal_get_rssi.                                                     *)
(***************************************************************************)
(* rssi is not initialised.                                                 *)
RssiInit == csq = << >> /\ rssi \in Junk32 /\ rret = 0 /\ rpc = "csq"

Plain(t) == [kind |-> "int", text |-> t, quoted |-> FALSE]
Answer(fs) == Line([fields |-> fs, wide |-> TRUE])

Answers ==
  {Answer(<<Plain(s), Plain(<<"9", "9">>)>>) : s \in Strengths}
  \cup {Answer(<<Plain(s)>>) : s \in Strengths}
  \cup {Answer(<<Plain(<<"a">>), Plain(<<"1">>)>>), <<"+", ":">>}

(* A final error has no line, and no error either: the null pointer is read.*)
RssiCrash ==
  /\ rpc \in {"csq", "cind"} /\ rpc' = "crashed" /\ UNCHANGED <<csq, rssi, rret>>

QueryCsq ==
  /\ rpc = "csq" /\ UNCHANGED rret
  /\ \/ rpc' = "cind" /\ UNCHANGED <<csq, rssi>>
     \/ \E a \in Answers :
          LET first  == at_tok_nextint(a, at_tok_start(a).cur)
              second == at_tok_nextint(a, first.cur)
          IN  /\ csq' = a
              /\ rssi' = IF first.set THEN first.out ELSE rssi
              /\ rpc' = IF first.err < 0 \/ second.err < 0 \/ first.out = 99
                        THEN "cind" ELSE "convert"

(* The indicator is read, scaled and thrown away.                           *)
CindOk(a) ==
  LET first == at_tok_nextint(a, at_tok_start(a).cur)
      second == at_tok_nextint(a, first.cur)
  IN  first.err = 0 /\ second.err = 0 /\ UNCHANGED rssi

QueryCind ==
  /\ rpc = "cind" /\ UNCHANGED csq
  /\ \/ \E a \in Answers : CindOk(a) /\ rpc' = "convert" /\ UNCHANGED rret
     \/ rpc' = "done" /\ rret' = -1 /\ UNCHANGED rssi

Convert ==
  /\ rpc = "convert" /\ rpc' = "done"
  /\ rret' = -113 + rssi * 2
  /\ UNCHANGED <<csq, rssi>>

RssiNext == RssiCrash \/ QueryCsq \/ QueryCind \/ Convert

-----------------------------------------------------------------------------
(***************************************************************************)
(* at_get_cme_error (src/modem/at/atchannel.c), which                      *)
(* modem_hal_check_pin_status asks why AT+CPIN? failed.  "E" stands for    *)
(* "+CME ERROR".                                                           *)
(***************************************************************************)
CME_SUCCESS == 0
CME_ERROR_NON_CME == -1

CmeError(ds) == <<"E", ":", " ">> \o ds

(* A number, the words of a modem without AT+CMEE=1, and a plain ERROR.     *)
Finals ==
  {[success |-> FALSE, sent |-> strtol(ds, 10), line |-> CmeError(ds)] :
     ds \in {<<"0">>, <<"1", "0">>, <<"1", "3">>}}
  \cup {[success |-> FALSE, sent |-> CME_ERROR_NON_CME, line |-> l] :
          l \in {CmeError(<<"a", " ", "1">>), <<"a">>, <<"a", ":", "1">>, << >>}}
  \cup {[success |-> TRUE, sent |-> CME_SUCCESS, line |-> <<"a">>]}

CmeInit == final \in Finals /\ cme = << >>

at_get_cme_error(r) ==
  LET start == at_tok_start(r.line)
      n == at_tok_nextint(r.line, start.cur)
  IN  CASE r.success                                     -> CME_SUCCESS
        [] ~r.success /\ ~IsPrefix(<<"E", ":">>, r.line) -> CME_ERROR_NON_CME
        [] OTHER -> IF start.err < 0 \/ n.err < 0 THEN CME_ERROR_NON_CME
                    ELSE n.out

CmeNext == /\ cme = << >> /\ cme' = <<at_get_cme_error(final)>>
           /\ UNCHANGED final

-----------------------------------------------------------------------------
(***************************************************************************)
(* Properties.                                                             *)
(***************************************************************************)
ReportTypeOK ==
  /\ cur \in 0 .. Len(line) + 1
  /\ terr \in {"start", "reading", "0", "1", "-1"}
  /\ rssi \in Int /\ rret \in Int
  /\ rpc \in {"idle", "csq", "cind", "convert", "done", "crashed"}

(* The values a reader is given are those the modem sent, in order, with    *)
(* commas and blanks in quoted strings and with blanks behind commas; of a  *)
(* line that was cut off only the last value may be another one, and a line *)
(* that is whole is read without an error to its end.                       *)
FieldsRead ==
  LET sent == report.fields
      Is(k) == got[k].is = ValueOf(sent[k])
  IN  /\ \A k \in 1 .. Len(got) - 1 : Is(k)
      /\ line = Line(report) =>
           /\ \A k \in DOMAIN got : Is(k)
           /\ terr \notin {"1", "-1"}
           /\ terr = "reading" => (at_tok_hasmore(line, cur) <=> asked # << >>)

(* A signal strength that AT+CSQ reported is what modem_hal_get_rssi        *)
(* returns, in dBm, if it returns one at all, even when its answer lacks    *)
(* the bit error rate and AT+CIND is asked as well.                         *)
RssiReported ==
  rpc = "done" /\ csq # << >> =>
    LET n == at_tok_nextint(csq, at_tok_start(csq).cur)
    IN  n.err = 0 /\ n.out \in 0 .. 31 => rret \in {-113 + 2 * n.out, -1}

(* What at_get_cme_error returns is the number that the modem sent, if it   *)
(* sent one behind the prefix, and a failure that is not so numbered is     *)
(* neither a success nor a missing SIM card, whatever digits it contains.   *)
CmeTells == cme \in {<< >>, <<final.sent>>}

=============================================================================
