------------------------------- MODULE WpaBuf -------------------------------
(***************************************************************************)
(* The data buffer of wpabuf.h and the byte orders of common.h (both in    *)
(* src/wifi/wpa_socket).  A byte is a digit of base BYTE, so that a small  *)
(* base stands for 256.                                                    *)
(*                                                                         *)
(* External, in wpabuf.c, which is not part of the repository: wpabuf_put, *)
(* which makes room at the end of the data or aborts, and wpabuf_resize.   *)
(***************************************************************************)
EXTENDS Naturals, Sequences, SequencesExt

CONSTANTS
  BYTE,
  Values,           \* numbers that are written
  Sizes,            \* of buffers
  MaxPuts           \* bound on what is written to a buffer

VARIABLES
  size, buf,        \* used is Len(buf)
  flags,            \* WPABUF_FLAG_EXT_DATA
  aborted,
  wrote             \* history: [n, order, val] of each number or byte

vars == <<size, buf, flags, aborted, wrote>>

Used == Len(buf)

Init == /\ size \in Sizes /\ buf = << >> /\ flags = FALSE
        /\ aborted = FALSE /\ wrote = << >>

-----------------------------------------------------------------------------
(***************************************************************************)
(* common.h.  Each byte is what is left of the value after a shift, cut to *)
(* eight bits; the functions for 16, 24, 32 and 64 bits differ in n only.  *)
(***************************************************************************)
WPA_PUT_BE(val, n) == [k \in 1 .. n |-> (val \div BYTE ^ (n - k)) % BYTE]

WPA_PUT_LE(val, n) == [k \in 1 .. n |-> (val \div BYTE ^ (k - 1)) % BYTE]

WPA_GET_BE(a) == FoldLeft(LAMBDA v, b : v * BYTE + b, 0, a)
WPA_GET_LE(a) == FoldRight(LAMBDA b, v : v * BYTE + b, a, 0)

Get(order, a) == IF order = "le" THEN WPA_GET_LE(a) ELSE WPA_GET_BE(a)

-----------------------------------------------------------------------------
(***************************************************************************)
(* wpabuf.h.                                                               *)
(***************************************************************************)
wpabuf_tailroom == size - Used

wpabuf_put(bytes) ==
  /\ ~aborted /\ Len(wrote) < MaxPuts
  /\ IF Len(bytes) <= wpabuf_tailroom
     THEN buf' = buf \o bytes /\ UNCHANGED aborted
     ELSE aborted' = TRUE /\ UNCHANGED buf
  /\ UNCHANGED <<size, flags>>

Note(w) == wrote' = IF aborted' THEN wrote ELSE wrote \o w

Number(n, order, val) == [n |-> n, order |-> order, val |-> val]
Bytes(a) == [k \in DOMAIN a |-> Number(1, "be", a[k])]

(* wpabuf_put_u8, _be16, _be24, _be32, and eight bytes for WPA_PUT_BE64.    *)
wpabuf_put_be(n, val) ==
  wpabuf_put(WPA_PUT_BE(val, n)) /\ Note(<<Number(n, "be", val)>>)

(* wpabuf_put_le16 and _le32, and eight bytes for WPA_PUT_LE64.             *)
wpabuf_put_le(n, val) ==
  wpabuf_put(WPA_PUT_LE(val, n)) /\ Note(<<Number(n, "le", val)>>)

(* wpabuf_put_str, and wpabuf_put_buf with another buffer's data; without   *)
(* data nothing is done.                                                    *)
wpabuf_put_data(data) == wpabuf_put(data) /\ Note(Bytes(data))

(* The buffer becomes a full one around somebody else's data.               *)
wpabuf_set(data) ==
  /\ ~aborted /\ wrote # << >>
  /\ buf' = data /\ size' = Len(data) /\ flags' = TRUE /\ wrote' = Bytes(data)
  /\ UNCHANGED aborted

Data == {WPA_PUT_BE(27, 3), WPA_PUT_LE(27, 2)}

Next ==
  \/ \E v \in Values : \/ \E n \in {1, 2, 3, 4, 8} : wpabuf_put_be(n, v)
                       \/ \E n \in {2, 4, 8} : wpabuf_put_le(n, v)
  \/ \E d \in Data : wpabuf_put_data(d) \/ wpabuf_set(d)

Spec == Init /\ [][Next]_vars

-----------------------------------------------------------------------------
(***************************************************************************)
(* Properties.                                                             *)
(***************************************************************************)
(* Every variable has its type; the data fits, and fills a buffer that is   *)
(* somebody else's, so that nothing is ever put behind it.                  *)
TypeOK ==
  /\ buf \in Seq(0 .. BYTE - 1) /\ Used <= size
  /\ flags => Used = size

(* What was written is read back with the order and width it was written    *)
(* with, whatever stands before it and behind it; of a number that is wider *)
(* than its field the lower bytes are.                                      *)
ReadBack ==
  LET Start(k) == FoldLeft(LAMBDA s, w : s + w.n, 0, SubSeq(wrote, 1, k - 1))
  IN  /\ Start(Len(wrote) + 1) = Used
      /\ \A k \in DOMAIN wrote :
           Get(wrote[k].order, SubSeq(buf, Start(k) + 1, Start(k) + wrote[k].n))
             = wrote[k].val % BYTE ^ wrote[k].n

=============================================================================
