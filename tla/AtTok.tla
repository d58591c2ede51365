------------------------------- MODULE AtTok -------------------------------
(***************************************************************************)
(* The tokenizer of AT responses (src/modem/at/at_tok.c) as functions of   *)
(* the line and of the cursor *p_cur: a position in the line, Len(line) + 1*)
(* at its terminator, or NULL.  The terminators strsep writes are behind   *)
(* the cursor and are never read again, so the line does not change.       *)
(***************************************************************************)
EXTENDS Integers, SequencesExt

NULL == 0
Quote == "q"
Digits == [c \in {"0", "1", "3", "9", "f"} |->
             CASE c = "0" -> 0 [] c = "1" -> 1 [] c = "3" -> 3
               [] c = "9" -> 9 [] c = "f" -> 15]

(* The first position from p on that holds a character of cs, or the end.   *)
Find(line, p, cs) ==
  LET k == SelectInSubSeq(line, p, Len(line), LAMBDA c : c \in cs)
  IN  IF k = 0 THEN Len(line) + 1 ELSE k

AtEnd(line, p) == p > Len(line)

(* The prefix and its colon are skipped; without a colon this fails.        *)
at_tok_start(line) ==
  LET k == Find(line, 1, {":"})
  IN  IF AtEnd(line, k) THEN [err |-> -1, cur |-> NULL]
                        ELSE [err |-> 0, cur |-> k + 1]

skipWhiteSpace(line, p) ==
  IF p = NULL THEN NULL ELSE Find(line, p, ToSet(line) \ {" "})

(* Mutant: the comma after a quoted string stays.                           *)
skipNextComma_None(line, p) == p

skipNextComma(line, p) ==
  IF p = NULL THEN NULL
  ELSE LET k == Find(line, p, {","}) IN IF AtEnd(line, k) THEN k ELSE k + 1

(* The token up to the delimiter; the cursor is NULL when there is none.    *)
strsep(line, p, d) ==
  LET k == Find(line, p, {d})
  IN  [tok |-> SubSeq(line, p, k - 1),
       cur |-> IF AtEnd(line, k) THEN NULL ELSE k + 1]

nextTok(line, p) ==
  LET q == skipWhiteSpace(line, p)
      s == strsep(line, q + 1, Quote)
  IN  IF ~AtEnd(line, q) /\ line[q] = Quote
      THEN [s EXCEPT !.cur = skipNextComma(line, s.cur)]
      ELSE strsep(line, q, ",")

(* The digits that begin a token after white space; strtol stops behind     *)
(* them.  Signs and numbers beyond a long do not occur in these responses.  *)
Leading(tok, base) ==
  LET p == skipWhiteSpace(tok, 1)
      ds == {c \in DOMAIN Digits : Digits[c] < base}
  IN  SubSeq(tok, p, Find(tok, p, ToSet(tok) \ ds) - 1)
strtol(tok, base) == FoldLeft(LAMBDA n, c : base * n + Digits[c], 0, Leading(tok, base))

(* The number is stored before a token without digits is refused.           *)
at_tok_nextint_base(line, p, base) ==
  IF p = NULL THEN [err |-> -1, cur |-> NULL, set |-> FALSE, out |-> 0]
  ELSE LET t == nextTok(line, p)
       IN  [err |-> IF Leading(t.tok, base) = << >> THEN -1 ELSE 0,
            cur |-> t.cur, set |-> TRUE, out |-> strtol(t.tok, base)]

at_tok_nextint(line, p) == at_tok_nextint_base(line, p, 10)
at_tok_nexthexint(line, p) == at_tok_nextint_base(line, p, 16)

at_tok_nextbool(line, p) ==
  LET n == at_tok_nextint(line, p)
  IN  [n EXCEPT !.err = IF @ = 0 /\ n.out \in {0, 1} THEN 0 ELSE -1]

at_tok_nextstr(line, p) ==
  IF p = NULL THEN [err |-> -1, cur |-> NULL, out |-> << >>]
  ELSE LET t == nextTok(line, p) IN [err |-> 0, cur |-> t.cur, out |-> t.tok]

at_tok_hasmore(line, p) == p # NULL /\ ~AtEnd(line, p)

=============================================================================
