----------------------------- MODULE AtReadline -----------------------------
(***************************************************************************)
(* readline and findNextEOL of the AT channel (src/modem/at/atchannel.c)   *)
(* byte by byte: how the bytes of the modem, which read() delivers in any  *)
(* portions, become lines in s_ATBuffer.  AtChannel takes the lines for    *)
(* granted.                                                                *)
(*                                                                         *)
(* A byte is its position in the stream, so that a byte read twice, lost   *)
(* or moved shows; 0 is the terminator.  Pointers are offsets in the       *)
(* buffer.                                                                 *)
(***************************************************************************)
EXTENDS Integers, SequencesExt, FiniteSetsExt

CONSTANTS
  MAX_AT_RESPONSE,   \* the buffer has one byte more
  Streams            \* what the modem sends: sequences of kinds of bytes

VARIABLES
  stream, taken,     \* the bytes the modem sends; how many were read
  s_ATBuffer, s_ATBufferCur,
  p_read,            \* the end of the data, between two calls too
  p_eol,
  pc,                \* "enter", "loop", "got", "eof"
  lines,             \* history: what readline returned
  ditched            \* history: bytes of lines that exceeded the buffer

vars == <<stream, taken, s_ATBuffer, s_ATBufferCur, p_read, p_eol, pc, lines,
          ditched>>

NUL == 0
NULL == -1
Offsets == 0 .. MAX_AT_RESPONSE

Is(b, kind) == b # NUL /\ stream[b] = kind

(* The byte behind the buffer, which the cursor reaches behind a prompt     *)
(* that fills it, is padding.                                               *)
Byte(b, k) == IF k \in Offsets THEN b[k] ELSE NUL

Init ==
  /\ stream \in Streams /\ taken = 0
  /\ s_ATBuffer = [k \in Offsets |-> NUL] /\ s_ATBufferCur = 0
  /\ p_read = 0 /\ p_eol = NULL /\ pc = "enter"
  /\ lines = << >> /\ ditched = {}

-----------------------------------------------------------------------------
SkipNewlines(b, cur) == Min({k \in cur .. MAX_AT_RESPONSE : ~Is(b[k], "eol")})

findNextEOL(b, cur) ==
  LET e == Min({k \in cur .. MAX_AT_RESPONSE : b[k] = NUL \/ Is(b[k], "eol")})
  IN  IF Is(b[cur], ">") /\ Is(b[cur + 1], " ") /\ b[cur + 2] = NUL
      THEN cur + 2
      ELSE IF b[e] = NUL THEN NULL ELSE e

strlen(b, cur) == Min({k \in cur .. MAX_AT_RESPONSE : b[k] = NUL}) - cur

memmove(b, from, n) ==
  [k \in Offsets |-> IF k < n THEN b[from + k] ELSE b[k]]

(* The buffer is empty: it is cleared.  memset is given the size of the     *)
(* whole buffer at the cursor too, and clears as many bytes behind the      *)
(* buffer as the cursor is inside it; what lies there is not modelled.      *)
EnterEmpty ==
  /\ pc = "enter" /\ Byte(s_ATBuffer, s_ATBufferCur) = NUL
  /\ s_ATBuffer' = [k \in Offsets |-> NUL]
  /\ s_ATBufferCur' = 0 /\ p_read' = 0 /\ p_eol' = NULL /\ pc' = "loop"
  /\ UNCHANGED <<stream, taken, lines, ditched>>

(* Mutant: the partial line is moved and the cursor is not.                 *)
EnterFull_Cursor ==
  LET cur == SkipNewlines(s_ATBuffer, s_ATBufferCur)
      eol == findNextEOL(s_ATBuffer, cur)
      n == strlen(s_ATBuffer, cur)
  IN /\ pc = "enter" /\ Byte(s_ATBuffer, s_ATBufferCur) # NUL
     /\ p_eol' = eol
     /\ \/ /\ eol = NULL
           /\ s_ATBuffer' = memmove(s_ATBuffer, cur, n + 1)
           /\ p_read' = n /\ s_ATBufferCur' = cur /\ pc' = "loop"
        \/ /\ eol # NULL /\ s_ATBufferCur' = cur /\ pc' = "got"
           /\ UNCHANGED <<s_ATBuffer, p_read>>
     /\ UNCHANGED <<stream, taken, lines, ditched>>

(* Data of an earlier read is left: a whole line, or a part of one that is  *)
(* moved up.                                                                *)
EnterFull ==
  LET cur == SkipNewlines(s_ATBuffer, s_ATBufferCur)
      eol == findNextEOL(s_ATBuffer, cur)
      n == strlen(s_ATBuffer, cur)
  IN /\ pc = "enter" /\ Byte(s_ATBuffer, s_ATBufferCur) # NUL
     /\ p_eol' = eol
     /\ \/ /\ eol = NULL
           /\ s_ATBuffer' = memmove(s_ATBuffer, cur, n + 1)
           /\ p_read' = n /\ s_ATBufferCur' = 0 /\ pc' = "loop"
        \/ /\ eol # NULL /\ s_ATBufferCur' = cur /\ pc' = "got"
           /\ UNCHANGED <<s_ATBuffer, p_read>>
     /\ UNCHANGED <<stream, taken, lines, ditched>>

Exceeded == p_read = MAX_AT_RESPONSE

(* The buffer is full and has no line: it is ditched.                       *)
Ditch ==
  /\ pc = "loop" /\ Exceeded
  /\ s_ATBufferCur' = 0 /\ p_read' = 0
  /\ s_ATBuffer' = [s_ATBuffer EXCEPT ![0] = NUL]
  /\ ditched' = ditched \cup {s_ATBuffer[k] : k \in s_ATBufferCur .. p_read - 1}
  /\ UNCHANGED <<stream, taken, p_eol, pc, lines>>

(* read() delivers some of the bytes that fit.  An interrupted one is       *)
(* repeated.                                                                *)
Read ==
  /\ pc = "loop" /\ ~Exceeded
  /\ \E count \in 1 .. Min({MAX_AT_RESPONSE - p_read, Len(stream) - taken}) :
       LET b == [k \in Offsets |->
                   IF k \in p_read .. p_read + count - 1
                   THEN taken + 1 + k - p_read
                   ELSE IF k = p_read + count THEN NUL ELSE s_ATBuffer[k]]
           cur == SkipNewlines(b, s_ATBufferCur)
           eol == findNextEOL(b, cur)
       IN /\ s_ATBuffer' = b /\ taken' = taken + count
          /\ s_ATBufferCur' = cur /\ p_eol' = eol
          /\ p_read' = p_read + count
          /\ pc' = IF eol = NULL THEN "loop" ELSE "got"
  /\ UNCHANGED <<stream, lines, ditched>>

(* The end of the stream, or an error: readline returns NULL and the reader *)
(* thread ends.                                                             *)
ReadEof ==
  /\ pc = "loop" /\ ~Exceeded /\ taken = Len(stream) /\ pc' = "eof"
  /\ UNCHANGED <<stream, taken, s_ATBuffer, s_ATBufferCur, p_read, p_eol,
                 lines, ditched>>

(* The line from the cursor to p_eol is returned and readline called again. *)
GotLine ==
  /\ pc = "got" /\ pc' = "enter"
  /\ lines' = Append(lines, [k \in 1 .. p_eol - s_ATBufferCur |->
                               s_ATBuffer[s_ATBufferCur + k - 1]])
  /\ s_ATBuffer' = [s_ATBuffer EXCEPT ![p_eol] = NUL]
  /\ s_ATBufferCur' = p_eol + 1
  /\ UNCHANGED <<stream, taken, p_read, p_eol, ditched>>

readline == EnterEmpty \/ EnterFull \/ Ditch \/ Read \/ ReadEof \/ GotLine

Next == readline

Spec == Init /\ [][Next]_vars /\ WF_vars(readline)

-----------------------------------------------------------------------------
(***************************************************************************)
(* Properties.                                                             *)
(***************************************************************************)
TypeOK ==
  /\ taken \in 0 .. Len(stream)
  /\ s_ATBuffer \in [Offsets -> 0 .. Len(stream)]
  /\ s_ATBufferCur \in 0 .. MAX_AT_RESPONSE + 1
  /\ p_read \in Offsets /\ p_eol \in Offsets \cup {NULL}
  /\ pc \in {"enter", "loop", "got", "eof"}
  /\ ditched \subseteq 1 .. Len(stream)

IsEol(k) == stream[k] = "eol"
Texts == SelectSeq([k \in 1 .. taken |-> k], LAMBDA k : ~IsEol(k))
Prompt(line) == /\ Len(line) = 2
                /\ Is(line[1], ">") /\ Is(line[2], " ")

(* What the buffer still holds from the cursor on.                          *)
Unread ==
  LET rest == SubSeq([k \in 1 .. MAX_AT_RESPONSE + 1 |-> s_ATBuffer[k - 1]],
                     s_ATBufferCur + 1, MAX_AT_RESPONSE + 1)
      end == SelectInSeq(rest, LAMBDA c : c = NUL)
  IN  SelectSeq(SubSeq(rest, 1, end - 1), LAMBDA c : ~IsEol(c))

Returned(i) == FlattenSeq(SubSeq(lines, 1, i))

(* The bytes of s that came before the end of the first i lines: the stale  *)
(* bytes of a line or of the buffer, which were there before.               *)
Stale(s, i) ==
  SelectSeq(s, LAMBDA k : \E j \in DOMAIN Returned(i) : k <= Returned(i)[j])

(* The bytes of a line that were not read before.                           *)
New(i) ==
  SelectSeq(lines[i],
            LAMBDA k : \A j \in DOMAIN Returned(i - 1) : Returned(i - 1)[j] < k)

(* However read() cuts the stream into portions, no byte of a line is lost  *)
(* or moved, but for the lines that exceeded the buffer: what readline has  *)
(* returned and what the buffer holds are the bytes that came, in their     *)
(* order.  None is repeated either, but for one place: behind a prompt the  *)
(* cursor is one byte past the data, and what an earlier read left there    *)
(* becomes the beginning of the next line.                                  *)
NothingLost ==
  /\ ToSet(Returned(Len(lines)) \o Unread) \cup ditched = ToSet(Texts)
  /\ \A i \in DOMAIN lines :
       /\ IsPrefix(Stale(lines[i], i - 1), lines[i])
       /\ Stale(lines[i], i - 1) # << >> => Prompt(lines[i - 1])
  /\ IsPrefix(Stale(Unread, Len(lines)), Unread)
  /\ Stale(Unread, Len(lines)) # << >> => Prompt(Last(lines))

(* What readline returns is, behind its stale bytes, a line of the stream:  *)
(* it ends before a newline unless it is the prompt, begins behind one, or  *)
(* behind the prompt or what was ditched, and has none inside.              *)
LinesWhole ==
  \A i \in DOMAIN lines :
    LET new == New(i)
        first == Head(new)
        end == Max(ToSet(Returned(i)))
    IN /\ lines[i] # << >>
       /\ \A k \in DOMAIN lines[i] : ~IsEol(lines[i][k])
       /\ new # << >> =>
            /\ \A k \in DOMAIN new : new[k] = first + k - 1
            /\ \/ first = 1 \/ IsEol(first - 1) \/ first - 1 \in ditched
               \/ i > 1 /\ Prompt(lines[i - 1]) /\ Max(ToSet(Returned(i - 1))) = first - 1
       /\ Prompt(lines[i]) \/ (end < Len(stream) /\ IsEol(end + 1))

(* The buffer is ditched only when the modem has sent as many bytes as it   *)
(* holds, less the stale ones in it, without finishing a line.              *)
OnlyOverlong ==
  ditched' # ditched =>
    LET room == MAX_AT_RESPONSE - Len(Stale(Unread, Len(lines)))
    IN  /\ taken >= room
        /\ \A i, j \in taken - room + 1 .. taken :
             i < j /\ IsEol(j) => IsEol(i)

(* A complete line in the stream is returned whatever comes behind it: when *)
(* the stream ends, at most the bytes behind its last newline were not.     *)
AllReturned ==
  pc = "eof" =>
    \A k \in 1 .. Len(stream) :
      /\ ~IsEol(k) /\ \E j \in k .. Len(stream) : IsEol(j)
      => k \in ditched \/ \E i \in DOMAIN lines : k \in ToSet(lines[i])

Running == pc # "eof"

=============================================================================
