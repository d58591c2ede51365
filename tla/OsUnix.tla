------------------------------- MODULE OsUnix -------------------------------
(***************************************************************************)
(* Functions of src/wifi/wpa_socket/os_unix.c that loop, or take several   *)
(* steps that may fail: os_strlcpy, os_rel2abs_path, os_readfile, os_exec, *)
(* os_get_random and os_mktime.  A behaviour is one call.                  *)
(*                                                                         *)
(* External: memory, which may be short; the working directory, which may  *)
(* be removed; the file that is read, which others may rewrite meanwhile;  *)
(* and the zone of the machine.                                            *)
(***************************************************************************)
EXTENDS Integers, Sequences, SequencesExt, FiniteSetsExt

CONSTANTS
  Texts, Sizes,     \* strings to copy, and sizes of their destinations
  CwdLens,          \* lengths of working directories
  Contents,         \* of a file
  Args, MAX_ARG,    \* argument strings of a program
  Hours, Zones      \* [std, dst, summer]: offsets, and the hours of summer

VARIABLES
  fn, in,           \* the function and its arguments
  at,               \* where it is; "done" or "failed" when it has returned
  out,              \* what it returned, or has built
  n,                \* left, len, or the position in the arguments
  file, rewritten,  \* what the file holds; has it changed since it was sized?
  held              \* memory and streams the call has not released

vars == <<fn, in, at, out, n, file, rewritten, held>>

NUL == "NUL"

Calls ==
  [fn : {"strlcpy"}, in : [src : Texts, siz : Sizes]]
  \cup [fn : {"rel2abs"}, in : [kind : {"null", "abs", "rel"}, cwd : CwdLens,
                                fails : {"none", "getcwd", "join"}]]
  \cup [fn : {"readfile", "random"}, in : {<< >>}]
  \cup [fn : {"exec"}, in : Args]
  \cup [fn : {"mktime"}, in : [valid : BOOLEAN, x : Hours, zone : Zones]]

Init ==
  /\ \E c \in Calls : fn = c.fn /\ in = c.in
  /\ at = "call" /\ out = << >> /\ n = 0
  /\ file \in Contents /\ rewritten = FALSE /\ held = {}

Call(f) == fn = f /\ at = "call"
Local == UNCHANGED <<fn, in, file, rewritten>>
Return(r) == at' = "done" /\ out' = r
Fail == at' = "failed" /\ UNCHANGED out

-----------------------------------------------------------------------------
(***************************************************************************)
(* os_strlcpy.  n is left, and out what dest holds.                        *)
(***************************************************************************)
Src(k) == IF k <= Len(in.src) THEN in.src[k] ELSE NUL

StrlcpyStart ==
  /\ Call("strlcpy") /\ n' = in.siz
  /\ at' = IF in.siz > 0 THEN "copy" ELSE "rest"
  /\ UNCHANGED <<out, held>> /\ Local

Room == n - 1 # 0

CopyChar ==
  /\ fn = "strlcpy" /\ at = "copy" /\ n' = n - 1
  /\ IF Room THEN /\ out' = Append(out, Src(Len(out) + 1))
                  /\ at' = IF Last(out') = NUL THEN "done" ELSE at
     ELSE at' = "rest" /\ UNCHANGED out
  /\ UNCHANGED held /\ Local

(* Not enough room: the terminator is forced.                               *)
ForceTerminator ==
  /\ fn = "strlcpy" /\ at = "rest" /\ at' = "done"
  /\ out' = IF in.siz # 0 THEN Append(out, NUL) ELSE out
  /\ UNCHANGED <<n, held>> /\ Local

-----------------------------------------------------------------------------
(***************************************************************************)
(* os_rel2abs_path.  n is len; out the length of the path.                 *)
(***************************************************************************)
REL_LEN == 5

Rel2AbsStart ==
  /\ Call("rel2abs")
  /\ \/ in.kind = "null" /\ Fail /\ UNCHANGED <<n, held>>
     \/ /\ in.kind = "abs" /\ UNCHANGED n
        /\ \/ Return(<<REL_LEN>>) /\ held' = {"ret"}
           \/ Fail /\ UNCHANGED held
     \/ in.kind = "rel" /\ n' = 128 /\ at' = "getcwd" /\ UNCHANGED <<out, held>>
  /\ Local

Doubled(len) == 2 * len

TooLarge(len) == len > 2000

(* No memory, a directory that is gone, one that is too long for the        *)
(* buffer, which is doubled up to 2000 bytes, and one that fits.            *)
Getcwd ==
  /\ fn = "rel2abs" /\ at = "getcwd"
  /\ \/ in.fails = "getcwd" /\ Fail /\ UNCHANGED n
     \/ /\ in.fails # "getcwd" /\ in.cwd >= n /\ n' = Doubled(n)
        /\ IF TooLarge(n') THEN Fail ELSE UNCHANGED <<at, out>>
     \/ /\ in.fails # "getcwd" /\ in.cwd < n
        /\ at' = "join" /\ UNCHANGED <<n, out>>
  /\ held' = IF at' = "join" THEN {"buf"} ELSE {}
  /\ Local

JoinPath ==
  /\ fn = "rel2abs" /\ at = "join"
  /\ \/ /\ in.fails # "join"
        /\ Return(<<in.cwd + 1 + REL_LEN>>) /\ held' = (held \ {"buf"}) \cup {"ret"}
     \/ in.fails = "join" /\ Fail /\ held' = held \ {"buf"}
  /\ UNCHANGED n /\ Local

-----------------------------------------------------------------------------
(***************************************************************************)
(* os_readfile and os_get_random.                                          *)
(***************************************************************************)
(* The stream is opened and the file sized, or that fails.                  *)
SizeFile ==
  /\ Call("readfile")
  /\ \/ Fail /\ UNCHANGED <<n, held>>
     \/ at' = "read" /\ n' = Len(file) /\ held' = {"f", "buf"} /\ UNCHANGED out
  /\ Local

(* Mutant: what fread returns is not looked at, and the buffer is returned  *)
(* with what it happens to hold behind the data.                            *)
ReadFile_Short ==
  /\ fn = "readfile" /\ at = "read"
  /\ Return([k \in 1 .. n |-> IF k <= Len(file) THEN file[k] ELSE 0])
  /\ held' = {"buf"}
  /\ UNCHANGED n /\ Local

ReadFile ==
  /\ fn = "readfile" /\ at = "read"
  /\ IF n <= Len(file)
     THEN Return(SubSeq(file, 1, n)) /\ held' = {"buf"}
     ELSE Fail /\ held' = {}
  /\ UNCHANGED n /\ Local

os_get_random ==
  /\ Call("random") /\ (Return(<< >>) \/ Fail)
  /\ UNCHANGED <<n, held>> /\ Local

Rewrite ==
  /\ at = "read" /\ ~rewritten /\ rewritten' = TRUE
  /\ \E c \in Contents : file' = c
  /\ UNCHANGED <<fn, in, at, out, n, held>>

-----------------------------------------------------------------------------
(***************************************************************************)
(* os_exec, in the child.  n is pos; out has argv[1] and so on.            *)
(***************************************************************************)
From(p, cs) == SelectInSubSeq(in, p, Len(in), LAMBDA c : c \in cs)
Chars == ToSet(in)

(* fork may fail; the parent returns at once or waits for the child.        *)
os_exec ==
  /\ Call("exec")
  /\ \/ Fail /\ UNCHANGED <<n, held>>
     \/ at' = "split" /\ n' = 1 /\ held' = {"_program", "_arg"} /\ UNCHANGED out
  /\ Local

SkipBlanks(p) == From(p, Chars \ {" "})

NextArg ==
  /\ fn = "exec" /\ at = "split"
  /\ Len(out) + 1 < MAX_ARG /\ n \in DOMAIN in /\ SkipBlanks(n) # 0
  /\ LET p == SkipBlanks(n)
         e == From(p, {" "})
     IN  IF e = 0 THEN /\ out' = Append(out, SubSeq(in, p, Len(in)))
                       /\ n' = Len(in) + 1
         ELSE out' = Append(out, SubSeq(in, p, e - 1)) /\ n' = e + 1
  /\ UNCHANGED <<at, held>> /\ Local

(* execv replaces the child; when it fails the child exits, with 0.         *)
Execv ==
  /\ fn = "exec" /\ at = "split"
  /\ \/ Len(out) + 1 >= MAX_ARG \/ n \notin DOMAIN in \/ SkipBlanks(n) = 0
  /\ at' = "done" /\ held' = {} /\ UNCHANGED <<out, n>> /\ Local

-----------------------------------------------------------------------------
(***************************************************************************)
(* os_mktime.  x counts hours; fields are the x they show as UTC.          *)
(***************************************************************************)
(* mktime, localtime and gmtime of the library.                             *)
mktime(f, z) == f.x - z.std - (IF f.isdst THEN z.dst ELSE 0)
localtime(t, z) ==
  LET summer == t \in z.summer
  IN  [x |-> t + z.std + (IF summer THEN z.dst ELSE 0), isdst |-> summer]
gmtime(t) == [x |-> t, isdst |-> FALSE]

tz_offset(t, z) == mktime(gmtime(t), z) - mktime(localtime(t, z), z)

os_mktime ==
  /\ Call("mktime")
  /\ IF ~in.valid THEN Fail
     ELSE LET t_local == mktime([x |-> in.x, isdst |-> FALSE], in.zone)
          IN  Return(<<t_local - tz_offset(t_local, in.zone)>>)
  /\ UNCHANGED <<n, held>> /\ Local

Next ==
  \/ StrlcpyStart \/ CopyChar \/ ForceTerminator
  \/ Rel2AbsStart \/ Getcwd \/ JoinPath
  \/ SizeFile \/ ReadFile \/ os_get_random \/ Rewrite
  \/ os_exec \/ NextArg \/ Execv
  \/ os_mktime

Spec == Init /\ [][Next]_vars /\ WF_vars(Next)

-----------------------------------------------------------------------------
(***************************************************************************)
(* Properties.                                                             *)
(***************************************************************************)
(* A copy is terminated and is as much of the string as there is room for;  *)
(* nothing is written past the size, nor at all for a size of 0.            *)
CopyFits ==
  fn = "strlcpy" => /\ Len(out) <= in.siz
                    /\ at = "done" /\ in.siz > 0 =>
                         out = Append(SubSeq(in.src, 1,
                                 Min({Len(in.src), in.siz - 1})), NUL)

(* With memory a path in a directory of up to 1023 bytes is always made     *)
(* absolute, in however many tries, and one in a longer directory never,    *)
(* though there are such directories.                                       *)
PathsUpTo1023 ==
  fn = "rel2abs" /\ in.kind = "rel" /\ in.fails = "none" =>
    /\ at = "failed" => in.cwd > 1023
    /\ at = "done" => in.cwd <= 1023

(* A file that is returned was all in the file together when it was read,   *)
(* and is the whole file if nobody rewrote it meanwhile.                    *)
FileTogether ==
  fn = "readfile" /\ at = "done" =>
    IsPrefix(out, file) /\ (rewritten \/ out = file)

(* The arguments of a program are the words of the string, in order and     *)
(* without blanks; words that do not fit into argv are left out.            *)
Words ==
  LET Starts == {k \in DOMAIN in : in[k] # " " /\ (k = 1 \/ in[k - 1] = " ")}
      EndOf(k) == CHOOSE e \in k .. Len(in) :
                    /\ \A j \in k .. e : in[j] # " "
                    /\ e = Len(in) \/ in[e + 1] = " "
      Order == SetToSortSeq(Starts, <)
  IN  [j \in DOMAIN Order |-> SubSeq(in, Order[j], EndOf(Order[j]))]

ArgsAreWords ==
  fn = "exec" /\ at = "done" =>
    out = SubSeq(Words, 1, Min({Len(Words), MAX_ARG - 1}))

(* os_mktime gives seconds of UTC whatever the zone, in summer too.         *)
MktimeUtc == fn = "mktime" /\ at = "done" /\ in.valid => out = <<in.x>>

(* A call that has returned holds nothing but what it returned.             *)
NothingHeld ==
  /\ at = "failed" => held = {}
  /\ at = "done" => held \subseteq IF fn = "readfile" THEN {"buf"} ELSE {"ret"}

(* The strengthening: what has been copied is the beginning of the string,  *)
(* the buffer of getcwd has one of four sizes, the file is as long as it    *)
(* was when it was sized unless it was rewritten, and what a call holds on  *)
(* its way.                                                                 *)
CallKnown == \E c \in Calls : fn = c.fn /\ in = c.in

CopySoFar ==
  fn = "strlcpy" =>
    /\ at = "call" => out = << >>
    /\ at = "copy" => in.siz > 0 /\ n = in.siz - Len(out) /\ n > 0
    /\ at = "rest" => \/ in.siz = 0 /\ out = << >>
                      \/ in.siz > 0 /\ Len(out) = in.siz - 1
    /\ at \in {"copy", "rest"} =>
         Len(out) \in 0 .. Len(in.src) /\ out = SubSeq(in.src, 1, Len(out))

PathSoFar ==
  fn = "rel2abs" => /\ at = "getcwd" => n \in {128, 256, 512, 1024}
                    /\ at = "join" => in.cwd < 1024

FileSoFar ==
  fn = "readfile" => /\ at = "call" => ~rewritten
                     /\ at = "read" => n \in Nat /\ (rewritten \/ n = Len(file))

HeldSoFar ==
  /\ at = "call" \/ fn \in {"strlcpy", "random", "mktime"} => held = {}
  /\ at = "join" => fn = "rel2abs" /\ held = {"buf"}
  /\ at = "read" => fn = "readfile"

Running == at \notin {"done", "failed"}

=============================================================================
