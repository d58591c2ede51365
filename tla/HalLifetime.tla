---------------------------- MODULE HalLifetime ----------------------------
(***************************************************************************)
(* What radio_hal_daemon (src/common/radio_hal_main.cpp) takes and gives   *)
(* back when it attaches a radio for each of its options, tests it and     *)
(* dettaches it.  A context holds a softc and configurations, a softc of   *)
(* the Wi-Fi HAL a netlink socket and three callbacks.                     *)
(*                                                                         *)
(* heap.ptr says of each pointer whether it is null, names a live object   *)
(* or one that is gone, or was never written.  What happens between open   *)
(* and close is in RadioManager and ModemSystem.                           *)
(***************************************************************************)
EXTENDS Naturals, Sequences, FiniteSets

CONSTANTS
  Lines,            \* command lines: the options, and the tested function
  Allocators        \* calls that may find no memory or no netlink

VARIABLES
  line,             \* the command line: opts, cmd and whether args follow
  nth,              \* the option that is looked at
  at,               \* "getopt", "attached", "tested", "end" or "crashed"
  heap,             \* pointers, and the objects no pointer names any more
  pipes,            \* pipes of modem_hal_attach: nothing closes them
  readers,          \* open AT channels
  failed            \* history: the calls that failed in the last attach

vars == <<line, nth, at, heap, pipes, readers, failed>>

Callbacks == {"if_cb", "link_info_cb", "set_cb"}
InSoftc == Callbacks \cup {"sock"}
InContext == {"sc", "config0", "config1"}
Objects == InSoftc \cup InContext \cup {"ctx"}

All(S, v) == [k \in S |-> v]

Init ==
  /\ line \in Lines /\ nth = 1 /\ at = "getopt"
  /\ heap = [ptr |-> All(Objects, "null"), lost |-> All(Objects, 0),
             twice |-> {}]
  /\ pipes = 0 /\ readers = 0 /\ failed = {}

-----------------------------------------------------------------------------
(***************************************************************************)
(* The heap.  free and nl_cb_put do nothing with a null pointer.           *)
(***************************************************************************)
Take(h, k) == [h EXCEPT !.ptr[k] = "live"]

Put(h, k) ==
  CASE h.ptr[k] = "live" -> [h EXCEPT !.ptr[k] = "gone"]
    [] h.ptr[k] = "gone" -> [h EXCEPT !.twice = @ \cup {k}]
    [] OTHER             -> h

(* The pointers in S get the value v.                                       *)
Fill(h, S, v) ==
  [h EXCEPT !.ptr = [k \in Objects |-> IF k \in S THEN v ELSE h.ptr[k]]]

(* The pointers in S go with their memory, and what they name is lost.      *)
Drop(h, S) ==
  [Fill(h, S, "null") EXCEPT
     !.lost = [k \in Objects |-> IF k \in S /\ h.ptr[k] = "live"
                                 THEN h.lost[k] + 1 ELSE h.lost[k]]]

FreeSoftc(h) == Drop(Put(h, "sc"), InSoftc)
FreeContext(h) == Drop(Put(h, "ctx"), InContext)

(* calloc of a context and of a softc; malloc leaves the pointers unwritten. *)
NewContext(h) == Fill(Take(h, "ctx"), InContext, "null")
NewSoftc(h) == Fill(Take(h, "sc"), InSoftc, "null")

-----------------------------------------------------------------------------
(***************************************************************************)
(* wifi_hal_main.cpp.  Each function gives the heap it leaves; no is the   *)
(* set of calls that fail in this attach.                                  *)
(***************************************************************************)
(* The socket is freed when genl_connect or genl_ctrl_resolve fails.        *)
wifi_hal_nl80211_attach(h, no) ==
  IF "sock" \in no THEN h
  ELSE IF no \cap {"genl_connect", "genl_ctrl_resolve"} # {}
       THEN Put(Take(h, "sock"), "sock")
       ELSE Take(h, "sock")

nl80211_fails(no) == no \cap {"sock", "genl_connect", "genl_ctrl_resolve"} # {}

(* The callbacks are allocated in this order up to one that is not.         *)
Allocated(no) == IF "if_cb" \in no THEN {}
                 ELSE IF "link_info_cb" \in no THEN {"if_cb"}
                 ELSE IF "set_cb" \in no THEN {"if_cb", "link_info_cb"}
                 ELSE Callbacks

wifi_hal_register_nl_cb(h, no) ==
  LET got == Fill(h, Allocated(no), "live")
  IN  IF Allocated(no) = Callbacks THEN got
      ELSE Put(Put(Put(got, "set_cb"), "if_cb"), "link_info_cb")

wifi_hal_nl80211_dettach(h) == Put(Put(Put(h, "sock"), "if_cb"), "link_info_cb")

(* Mutant: the failure of netlink leaves by the label of the callbacks.     *)
wifi_hal_attach_Label(h, no) ==
  LET ctx == NewContext(h)
      sc == wifi_hal_nl80211_attach(NewSoftc(ctx), no)
      cb == wifi_hal_register_nl_cb(sc, no)
  IN  IF "ctx" \in no THEN h
      ELSE IF "sc" \in no THEN FreeContext(ctx)
      ELSE IF nl80211_fails(no)
           THEN FreeContext(FreeSoftc(wifi_hal_nl80211_dettach(sc)))
      ELSE IF Allocated(no) = Callbacks THEN cb
      ELSE FreeContext(FreeSoftc(wifi_hal_nl80211_dettach(cb)))

wifi_hal_attach(h, no) ==
  LET ctx == NewContext(h)
      sc == wifi_hal_nl80211_attach(NewSoftc(ctx), no)
      cb == wifi_hal_register_nl_cb(sc, no)
  IN  IF "ctx" \in no THEN h
      ELSE IF "sc" \in no THEN FreeContext(ctx)
      ELSE IF nl80211_fails(no) THEN FreeContext(FreeSoftc(sc))
      ELSE IF Allocated(no) = Callbacks THEN cb
      ELSE FreeContext(FreeSoftc(wifi_hal_nl80211_dettach(cb)))

wifi_hal_dettach(h) ==
  LET sc == FreeSoftc(wifi_hal_nl80211_dettach(h))
  IN  FreeContext(Put(Put(sc, "config0"), "config1"))

-----------------------------------------------------------------------------
(***************************************************************************)
(* modem_hal_main.cpp.                                                     *)
(***************************************************************************)
modem_hal_attach(h, no) ==
  LET ctx == Fill(Take(h, "ctx"), InContext, "junk")
  IN  IF "ctx" \in no THEN h
      ELSE IF "sc" \in no THEN Put(ctx, "ctx")
      ELSE NewSoftc(ctx)

(* The first configuration was set; the second never is.                    *)
modem_hal_detach(h) ==
  FreeContext(Put(Put(Put(h, "config0"), "config1"), "sc"))

-----------------------------------------------------------------------------
(***************************************************************************)
(* radio_hal_common.cpp and main().                                        *)
(***************************************************************************)
Opt == line.opts[nth]
Attached == heap.ptr["ctx"] = "live"

(* There is nothing to attach for the other radios, and main() goes on.     *)
radio_hal_attach(no) ==
  /\ at = "getopt" /\ nth <= Len(line.opts)
  /\ failed' = no
  /\ \/ /\ Opt = "w" /\ at' = "attached"
        /\ heap' = wifi_hal_attach(heap, no) /\ UNCHANGED <<nth, pipes>>
     \/ /\ Opt = "m" /\ at' = "attached"
        /\ heap' = modem_hal_attach(heap, no) /\ UNCHANGED nth
        /\ pipes' = IF no \cap {"ctx", "sc", "pipe"} = {} THEN pipes + 1
                    ELSE pipes
     \/ /\ Opt \in {"b", "z"} /\ nth' = nth + 1
        /\ UNCHANGED <<at, heap, pipes>>
  /\ UNCHANGED <<line, readers>>

Help ==
  /\ at = "getopt" /\ nth <= Len(line.opts) /\ Opt \in {"h", "?"}
  /\ at' = "end"
  /\ UNCHANGED <<line, nth, heap, pipes, readers, failed>>

End ==
  /\ at = "getopt" /\ nth > Len(line.opts) /\ at' = "end"
  /\ UNCHANGED <<line, nth, heap, pipes, readers, failed>>

(* argv[3]: the function that is tested follows the option only when there  *)
(* is one option, else another option does.                                 *)
Cmd == IF Len(line.opts) = 1 THEN line.cmd ELSE "other"

Tested(h) == at' = "tested" /\ heap' = h
Crash == at' = "crashed" /\ UNCHANGED heap

(* A null context is looked into, the arguments are copied to the first     *)
(* configuration and the command is compared without asking whether they    *)
(* are there.                                                               *)
TestWifi ==
  /\ at = "attached" /\ Opt = "w"
  /\ \/ ~Attached /\ Crash
     \/ \E c0, c1 \in {"live", "null"} :
          /\ Attached
          /\ IF Cmd = "none" \/ (c0 = "null" /\ (line.given \/ Cmd = "connect"))
             THEN Crash
             ELSE Tested([heap EXCEPT !.ptr["config0"] = c0,
                                      !.ptr["config1"] = c1])
  /\ UNCHANGED <<line, nth, pipes, readers, failed>>

(* With arguments the configuration is written over ctx->config, the array  *)
(* of pointers, and open follows what was a pointer; without them it opens  *)
(* what the memory holds, or prints the name of the device through a null   *)
(* pointer when there was no memory for the configuration.  Only the test   *)
(* of the RSSI closes the modem.                                            *)
TestModem ==
  /\ at = "attached" /\ Opt = "m"
  /\ \/ Crash /\ UNCHANGED readers
     \/ /\ Attached /\ ~line.given /\ Cmd # "none"
        /\ Tested(Take(heap, "config0"))
        /\ \E fd \in {0, 1} :
             readers' = IF Cmd = "rssi" THEN readers ELSE readers + fd
  /\ UNCHANGED <<line, nth, pipes, failed>>

(* free of a pointer that was never written crashes, unless it is null.     *)
radio_hal_dettach ==
  /\ at = "tested"
  /\ \/ /\ at' = "getopt" /\ nth' = nth + 1
        /\ heap' = IF Opt = "w" THEN wifi_hal_dettach(heap)
                   ELSE modem_hal_detach(heap)
     \/ /\ "junk" \in {heap.ptr["config0"], heap.ptr["config1"]}
        /\ at' = "crashed" /\ UNCHANGED <<nth, heap>>
  /\ UNCHANGED <<line, pipes, readers, failed>>

(* The first call that fails ends an attach, so there is at most one.       *)
Next ==
  \/ \E no \in {{}} \cup {{a} : a \in Allocators} : radio_hal_attach(no)
  \/ Help \/ End \/ TestWifi \/ TestModem \/ radio_hal_dettach

Spec == Init /\ [][Next]_vars

-----------------------------------------------------------------------------
(***************************************************************************)
(* Properties.                                                             *)
(***************************************************************************)
(* Every variable has its type, and what hangs on a pointer that is live    *)
(* is reached: the softc and the configurations are held by a live context  *)
(* and the socket and callbacks by a live softc.                            *)
TypeOK ==
  /\ at \in {"getopt", "attached", "tested", "end", "crashed"}
  /\ heap.ptr \in [Objects -> {"null", "live", "gone", "junk"}]
  /\ heap.lost \in [Objects -> Nat] /\ heap.twice \subseteq Objects
  /\ pipes \in Nat /\ readers \in Nat /\ failed \subseteq Allocators
  /\ at = "getopt" => heap.ptr["ctx"] # "live"
  /\ heap.ptr["sc"] = "live" => heap.ptr["ctx"] = "live"

(* An attach that gives no context holds nothing: each step that fails      *)
(* leads to the labels that give back what the steps before it took.        *)
NoContextHoldsNothing ==
  at' = "attached" /\ ~Attached' =>
    /\ \A k \in Objects : heap'.ptr[k] # "live"
    /\ heap'.lost = heap.lost

(* Nothing is released twice, except that when a callback could not be      *)
(* allocated the error path of wifi_hal_register_nl_cb and                  *)
(* wifi_hal_nl80211_dettach after it both put the callbacks there are.      *)
OnlyCallbacksTwice ==
  heap.twice # {} => /\ at \in {"attached", "crashed"}
                     /\ failed \cap Callbacks # {}
                     /\ heap.twice \subseteq {"if_cb", "link_info_cb"}

(* Between two options and at the end no memory is lost but one callback,   *)
(* set_cb, for each Wi-Fi radio that was dettached.                         *)
OnlySetCbLost ==
  \A k \in Objects :
    heap.lost[k] <= IF k = "set_cb"
                    THEN Cardinality({n \in 1 .. nth - 1 : line.opts[n] = "w"})
                    ELSE 0

(* The modems among the options up to this one, which counts in the places. *)
Modems(places) ==
  Cardinality({n \in 1 .. nth - 1 : line.opts[n] = "m"})
    + (IF at \in places /\ Opt = "m" THEN 1 ELSE 0)

(* Of the descriptors there stay open at most one pipe for each modem that  *)
(* was attached, which neither modem_hal_detach nor modem_hal_close closes, *)
(* and one AT channel with its reader thread for each that was tested: the  *)
(* daemon keeps the modem alive on purpose, but for the test of the RSSI,   *)
(* which leaves none.                                                       *)
OnlyModemsLeft ==
  /\ pipes <= Modems({"attached", "tested", "crashed"})
  /\ readers <= IF Cmd = "rssi" THEN 0 ELSE Modems({"tested", "crashed"})

(* The strengthening that makes these inductive: what each pointer is,      *)
(* after the attach of a radio of either kind, after its test, and between  *)
(* two options, where no object is left.                                    *)
Heaps == [ptr : [Objects -> {"null", "live", "gone", "junk"}],
          lost : [Objects -> Nat], twice : SUBSET Objects]

Are(S, values) == \A k \in S : heap.ptr[k] \in values

HeapKnown ==
  /\ heap \in Heaps /\ nth \in Nat \ {0}
  /\ at = "getopt" => Are(Objects \ {"ctx"}, {"null"}) /\ ~Attached
  /\ at \in {"attached", "tested"} => Opt \in {"w", "m"}
  /\ at = "tested" => Attached
  /\ at \in {"attached", "tested"} /\ Attached =>
       /\ Are({"sc"}, {"live"}) /\ heap.twice = {}
       /\ Opt = "w" => /\ Are(InSoftc, {"live"})
                       /\ Are({"config0", "config1"}, {"null", "live"})
       /\ Opt = "m" => /\ Are(InSoftc, {"null"}) /\ Are({"config1"}, {"junk"})
                       /\ Are({"config0"}, {"live", "junk"})

Running == at \notin {"end", "crashed"}

=============================================================================
