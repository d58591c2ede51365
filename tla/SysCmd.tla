------------------------------- MODULE SysCmd -------------------------------
(***************************************************************************)
(* run_sys_cmd of both HALs, which reads what a shell command prints into  *)
(* a buffer with fgets, and the part of modem_hal_serial_attach that looks *)
(* for the modem and its network interface with it.                        *)
(*                                                                         *)
(* The output (external) is a sequence of lines, each the number of its    *)
(* characters, the newline included; the last one may have none.           *)
(***************************************************************************)
EXTENDS Integers, SequencesExt

CONSTANTS
  CHUNK,        \* 128: most that one fgets is given, while there is room
  RespSizes,    \* sizes of the buffer
  NAME_SIZE,    \* 20: sc->modem and sc->wwan, which lies behind it
  Outputs       \* what the commands print

ASSUME ChunkAssumption ==
  CHUNK \in Nat \ {0} /\ RespSizes \subseteq Nat \ (0 .. 2)

ASSUME NameAssumption == NAME_SIZE \in Nat \ {0}

VARIABLES
  cmd,          \* the command that runs, or the end of serial_attach
  out,          \* [lines, newline]: what is left of its output
  printed,      \* all of its output
  resp_size, size,
  buf,          \* buf - resp_buf
  touched,      \* bytes of the buffer that were written
  modem, wwan,  \* lengths of the names that are read there
  overrun       \* bytes that were written behind the two arrays

cmdVars == <<cmd, out, printed, resp_size, size, buf, touched, modem, wwan,
             overrun>>

Commands == {"find_modem", "find_wwan", "raw_ip"}
AfterCommand == [find_modem |-> "find_wwan", find_wwan |-> "raw_ip",
                 raw_ip |-> "attached"]

Total(o) == FoldLeft(+, 0, o.lines)

(* popen starts the command (external).                                     *)
Start(c) ==
  /\ cmd' = c /\ buf' = 0 /\ touched' = {} /\ size' = resp_size
  /\ \E o \in Outputs : out' = o /\ printed' = o

NoOutput == [lines |-> << >>, newline |-> TRUE]

CmdIdle ==
  /\ cmd = "failed" /\ out = NoOutput /\ printed = NoOutput
  /\ resp_size = Min(RespSizes) /\ size = resp_size /\ buf = 0 /\ touched = {}
  /\ modem = 0 /\ wwan = 0 /\ overrun = 0

CmdInit ==
  /\ cmd = "find_modem" /\ buf = 0 /\ touched = {}
  /\ resp_size \in RespSizes /\ size = resp_size
  /\ \E o \in Outputs : out = o /\ printed = o
  /\ modem = 0 /\ wwan = 0 /\ overrun = 0

-----------------------------------------------------------------------------
(* Mutant: every fgets is given a whole chunk.                              *)
resp_buf_bytes_Chunk == CHUNK

resp_buf_bytes == IF size >= CHUNK THEN CHUNK ELSE size - 1

(* fgets keeps one of its n bytes for the terminator, stops behind a        *)
(* newline, and reads nothing at the end of the output or with n < 2.       *)
readbytes ==
  IF out.lines = << >> THEN 0
  ELSE Max({0, Min({resp_buf_bytes - 1, Head(out.lines)})})

RestOf(o, n) ==
  IF n = Head(o.lines) THEN [o EXCEPT !.lines = Tail(@)]
                       ELSE [o EXCEPT !.lines = <<Head(@) - n>> \o Tail(@)]

(* *buf = 0, and what fgets writes.                                         *)
Touched == buf .. buf + readbytes

ReadMore ==
  /\ cmd \in Commands /\ readbytes > 0
  /\ touched' = touched \cup Touched
  /\ size' = size - readbytes /\ buf' = buf + readbytes
  /\ out' = RestOf(out, readbytes)
  /\ UNCHANGED <<cmd, printed, resp_size, modem, wwan, overrun>>

-----------------------------------------------------------------------------
(* The last character is a newline: all was read and the output ends in     *)
(* one, or the buffer ended behind a line.                                  *)
EndsInNewline ==
  LET ends == {FoldLeft(+, 0, SubSeq(printed.lines, 1, k)) : k \in DOMAIN printed.lines}
  IN  buf \in ends /\ (buf = Total(printed) => printed.newline)

(* It fails on an empty response and on one that ends in another character. *)
replace_line_change == buf > 0 /\ EndsInNewline

Failed == cmd' = "failed" /\ UNCHANGED <<out, printed, size, buf, touched>>

(* strcpy of the response without its newline, n characters, into an array  *)
(* with "room" bytes up to the end of both: nothing bounds it.              *)
Copied(n, room) == overrun' = Max({overrun, n + 1 - room})

strcpyModem(n) ==
  /\ modem' = n /\ UNCHANGED wwan
  /\ Copied(n, 2 * NAME_SIZE)

(* A name that reached into sc->wwan is read on into the new name there.    *)
strcpyWwan(n) ==
  /\ wwan' = n
  /\ modem' = IF modem < NAME_SIZE THEN modem ELSE NAME_SIZE + n
  /\ Copied(n, NAME_SIZE)

(* pclose, and what the caller does with the response: the exit status of   *)
(* the command is not looked at.                                            *)
CommandEnds ==
  /\ cmd \in Commands /\ readbytes = 0
  /\ \/ /\ cmd \in {"find_modem", "find_wwan"} /\ replace_line_change
        /\ IF cmd = "find_modem" THEN strcpyModem(buf - 1) ELSE strcpyWwan(buf - 1)
        /\ Start(AfterCommand[cmd])
     \/ /\ cmd \in {"find_modem", "find_wwan"} /\ ~replace_line_change
        /\ Failed /\ UNCHANGED <<modem, wwan, overrun>>
     \/ /\ cmd = "raw_ip" /\ cmd' = "attached"
        /\ UNCHANGED <<out, printed, size, buf, touched, modem, wwan, overrun>>
  /\ UNCHANGED resp_size

(* popen fails.                                                             *)
PopenFails ==
  /\ cmd \in Commands /\ buf = 0 /\ touched = {}
  /\ Failed /\ UNCHANGED <<resp_size, modem, wwan, overrun>>

CmdNext == ReadMore \/ CommandEnds \/ PopenFails

-----------------------------------------------------------------------------
(***************************************************************************)
(* Properties.                                                             *)
(***************************************************************************)
CmdTypeOK ==
  /\ cmd \in Commands \cup {"attached", "failed"}
  /\ resp_size \in RespSizes /\ size \in 1 .. resp_size
  /\ buf = resp_size - size
  /\ modem \in Nat /\ wwan \in Nat /\ overrun \in Nat

(* No command's output is ever written past the end of the response buffer, *)
(* however the chunks and the lines fall together, and the output is only   *)
(* cut when it is longer than the buffer less two bytes.  Behind the arrays *)
(* for the names nothing is written as long as each name leaves room for    *)
(* its terminator.                                                          *)
OutputFits ==
  /\ Touched \cup touched \subseteq 0 .. resp_size - 1
  /\ cmd \in Commands /\ readbytes = 0 =>
       buf = Total(printed) \/ Total(printed) > resp_size - 2
  /\ overrun > 0 => modem >= NAME_SIZE \/ wwan >= NAME_SIZE

(* An answer of one line becomes a name only as a whole, without its        *)
(* newline: a line that was cut by the end of the buffer, or that the       *)
(* command did not finish, never does; and the modem's name stays what it   *)
(* was found to be, unless it is longer than its array.                     *)
NamesWhole ==
  [][/\ \A n \in {"find_modem", "find_wwan"} :
          cmd = n /\ cmd' = AfterCommand[n] /\ Len(printed.lines) = 1 =>
            /\ printed.newline
            /\ (IF n = "find_modem" THEN modem' ELSE wwan') = Total(printed) - 1
     /\ cmd # "find_modem" /\ modem < NAME_SIZE => modem' = modem
    ]_cmdVars

=============================================================================
