------------------------------- MODULE OsFail -------------------------------
(***************************************************************************)
(* Failures on request, of builds with WPA_TRACE_BFD and                   *)
(* CONFIG_TESTING_OPTIONS: testing_fail_alloc and testing_test_fail of     *)
(* src/wifi/wpa_socket/os_unix.c.  A test arms a pattern and a number n;   *)
(* the n-th call whose backtrace matches the pattern fails.                *)
(*                                                                         *)
(* The two differ in the frames that they leave out, and have a pattern    *)
(* and a counter each; a behaviour uses one of them.  A frame is the name  *)
(* of a function, a sequence of letters; a pattern is the sequence of the  *)
(* segments between its semicolons, [mark, name], where mark is the '=' or *)
(* '?' in front, or "".                                                    *)
(*                                                                         *)
(* External: the test, and wpa_trace_calling_func, which leaves out the    *)
(* frame of a function that was inlined.                                   *)
(***************************************************************************)
EXTENDS Integers, Sequences, SequencesExt

CONSTANTS
  Callers,          \* the frames that may lie above an allocator
  Patterns,         \* wpa_trace_fail_func
  Counts,           \* wpa_trace_fail_after, as armed
  MaxCalls          \* bound on the calls that a behaviour makes

VARIABLES
  check,            \* "alloc" or "test"
  pattern, armed,   \* what the test has armed
  fail_after,       \* the counter
  func, i, pos,     \* the backtrace; the frame and the segment of the loop
  at,               \* "idle", "match", or how the call returned
  calls, matches    \* history: the calls, and those that matched since armed

vars == <<check, pattern, armed, fail_after, func, i, pos, at, calls, matches>>

Checks == {"alloc", "test"}

Init ==
  /\ check \in Checks /\ pattern \in Patterns /\ armed \in Counts
  /\ fail_after = armed /\ func = << >> /\ i = 1 /\ pos = 1 /\ at = "idle"
  /\ calls = 0 /\ matches = 0

-----------------------------------------------------------------------------
(***************************************************************************)
(* The frames that the check and the allocators put on the stack.          *)
(***************************************************************************)
(* What the check leaves out at the head of a backtrace, in this order.     *)
Left(c) ==
  IF c = "test" THEN <<"testing_test_fail">>
  ELSE <<"testing_fail_alloc", "os_malloc", "os_zalloc", "os_calloc",
         "os_realloc", "os_realloc_array", "os_strdup", "os_memdup">>

(* The frame where the search begins: each of those frames is stepped over  *)
(* if it comes next.                                                        *)
Begin(c, bt) ==
  FoldLeft(LAMBDA k, f : IF k <= Len(bt) /\ bt[k] = <<f>> THEN k + 1 ELSE k,
           1, Left(c))

(* How the functions of os_unix.c and os.h come to call the check: what is  *)
(* found on the stack.  os_calloc and os_realloc_array are inlined or not.  *)
Stacks(c) ==
  IF c = "test" THEN {<< >>, <<"testing_test_fail">>}
  ELSE {<<"testing_fail_alloc", "os_malloc">> \o s : s \in
          {<< >>, <<"os_zalloc">>, <<"os_zalloc", "os_calloc">>,
           <<"os_realloc">>, <<"os_realloc", "os_realloc_array">>,
           <<"os_strdup">>, <<"os_memdup">>}}
       \cup {<<"os_malloc">>}

Frames(s) == [k \in DOMAIN s |-> <<s[k]>>]

-----------------------------------------------------------------------------
Return(r) == at' = r /\ func' = << >> /\ i' = 1 /\ pos' = 1

(* A call of the check: nothing is looked at unless it is armed.            *)
Enter ==
  /\ at # "match" /\ calls < MaxCalls /\ calls' = calls + 1
  /\ \/ fail_after = 0 /\ Return("passed")
     \/ /\ fail_after > 0 /\ at' = "match"
        /\ \E s \in Stacks(check), c \in Callers : func' = Frames(s) \o c
        /\ i' = Begin(check, func') /\ pos' = 1
  /\ UNCHANGED <<check, pattern, armed, fail_after, matches>>

(* os_memcmp over the length of the segment.                                *)
Here(f) == IsPrefix(pattern[pos].name, f)
next == pos < Len(pattern)

Fires == fail_after = 1

(* The last segment has been found: the counter goes down.                  *)
Found ==
  /\ i <= Len(func) /\ Here(func[i]) /\ ~next
  /\ fail_after' = fail_after - 1 /\ matches' = matches + 1
  /\ Return(IF Fires THEN "failed" ELSE "passed")

(* A segment before it.                                                     *)
OneFound ==
  /\ i <= Len(func) /\ Here(func[i]) /\ next
  /\ pos' = pos + 1 /\ i' = i + 1
  /\ UNCHANGED <<at, func, fail_after, matches>>

(* Mutant: frames between are passed over for '=' as well.                  *)
Missed_Skip ==
  /\ i <= Len(func) /\ ~Here(func[i])
  /\ IF pattern[pos].mark = "?" /\ next
     THEN pos' = pos + 1 /\ UNCHANGED i ELSE i' = i + 1 /\ UNCHANGED pos
  /\ UNCHANGED <<at, func, fail_after, matches>>

(* An optional segment is dropped if there is another; else the frame is    *)
(* passed over, unless the segment must be found in this very frame.        *)
Missed ==
  /\ i <= Len(func) /\ ~Here(func[i])
  /\ CASE pattern[pos].mark = "?" /\ next ->
              pos' = pos + 1 /\ UNCHANGED <<at, func, i>>
       [] pattern[pos].mark = "=" -> Return("passed")
       [] OTHER -> i' = i + 1 /\ UNCHANGED <<at, func, pos>>
  /\ UNCHANGED <<fail_after, matches>>

NoFrames ==
  /\ i > Len(func) /\ Return("passed")
  /\ UNCHANGED <<fail_after, matches>>

(* testing_fail_alloc and testing_test_fail, which have the same loop.      *)
testing_fail ==
  /\ at = "match"
  /\ Found \/ OneFound \/ Missed \/ NoFrames
  /\ UNCHANGED <<check, pattern, armed, calls>>

(* The test arms another number (external).                                 *)
Arm ==
  /\ at # "match" /\ armed' \in Counts /\ fail_after' = armed' /\ matches' = 0
  /\ calls < MaxCalls /\ Return("idle")
  /\ UNCHANGED <<check, pattern, calls>>

Next == Enter \/ testing_fail \/ Arm

Spec == Init /\ [][Next]_vars /\ WF_vars(testing_fail)

-----------------------------------------------------------------------------
(***************************************************************************)
(* What a pattern means: each segment is found in a frame of its own, from *)
(* the callee to the callers; one with '=' in the frame right behind the   *)
(* one before; one with '?' may be left out, unless it is the last.        *)
(***************************************************************************)
Behind(e, s) ==
  LET before == {e[t] : t \in 1 .. s - 1} \cup {0}
  IN CHOOSE f \in before : \A g \in before : g <= f

Embeds(segs, bt) ==
  \E e \in [DOMAIN segs -> 0 .. Len(bt)] :
    \A s \in DOMAIN segs :
      \/ segs[s].mark = "?" /\ s < Len(segs) /\ e[s] = 0
      \/ /\ e[s] > Behind(e, s) /\ IsPrefix(segs[s].name, bt[e[s]])
         /\ segs[s].mark = "=" => e[s] = Behind(e, s) + 1

(* The frames of the program itself, without those of the allocators.       *)
Program ==
  SelectSeq(func, LAMBDA f : \A s \in Stacks(check) : f \notin Range(Frames(s)))

(* The first segments may be '=', and the others are plain.                 *)
Plain == \A s \in DOMAIN pattern :
           \/ pattern[s].mark = ""
           \/ pattern[s].mark = "=" /\ \A t \in 1 .. s : pattern[t].mark = "="

(***************************************************************************)
(* Properties.                                                             *)
(***************************************************************************)
(* Every variable has its type; the loop stays within the pattern, and at   *)
(* most one frame behind the backtrace.                                     *)
TypeOK ==
  /\ check \in Checks /\ pattern \in Patterns /\ armed \in Counts
  /\ at \in {"idle", "match", "passed", "failed"}
  /\ pos \in 1 .. Len(pattern) /\ i \in 1 .. Len(func) + 1
  /\ calls \in 0 .. MaxCalls /\ matches \in 0 .. armed

(* A call that is counted has a backtrace that the pattern describes,       *)
(* whatever marks it has.                                                   *)
MatchSound == matches' > matches => Embeds(pattern, Program)

(* The loop never goes back, yet it overlooks no call that the pattern      *)
(* describes while '=' only stands in front of it and there is no '?'; and  *)
(* whichever allocator was called, '=' means the function that called it.   *)
PlainComplete ==
  at = "match" /\ at' = "passed" /\ matches' = matches /\ Plain
    => ~Embeds(pattern, Program)

(* The call that fails is the last of as many matching calls as were armed, *)
(* and only that one fails.                                                 *)
FailsAtCount ==
  at' # at =>
    (at' = "failed" <=> at = "match" /\ matches' > matches /\ matches' = armed)

Running == at = "match"

=============================================================================
