----------------------------- MODULE WifiConfig -----------------------------
(***************************************************************************)
(* How the Wi-Fi HAL configures a network (src/wifi/wifi_hal_main.cpp):    *)
(* wifi_hal_wpa_attach opens the connections of a radio, wifi_hal_create_ap, *)
(* wifi_hal_connect_ap, wifi_hal_join_mesh and wifi_hal_get_scan_results   *)
(* send commands over them, wifi_hal_wpa_dettach closes them.              *)
(*                                                                         *)
(* A function is a table of commands, each with what is done about its     *)
(* result.  The reply buffer and its length belong to the function: a      *)
(* reply shortens the length for all that follow.  The tx power and other  *)
(* settings made between two commands use neither (WifiRadios has them).   *)
(* wpa_supplicant is external: it keeps the networks, may refuse a         *)
(* command, be slow, or die.                                               *)
(***************************************************************************)
EXTENDS WpaCtrl

CONSTANTS
  Sessions,       \* who uses the radio, and the functions it calls
  MaxRefused      \* bound on the commands the supplicant refuses

VARIABLES
  caller,         \* radio_manager or radio_hal_daemon (the unit tests)
  pc,             \* where the HAL is
  todo,           \* functions to call, the current one first
  step,           \* the command of it that is next
  nw_id,          \* the id of the added network; -1 is not an id
  result,         \* what each finished function returned
  networks,       \* the supplicant's networks: what was set, and enabled
  refused,        \* commands refused so far
  gaveUp          \* history: some request timed out or failed

halVars == <<caller, pc, todo, step, nw_id, result, gaveUp>>
vars == <<ctrlVars, halVars, networks, refused>>

RESP_BUFFER_SIZE == 2048

-----------------------------------------------------------------------------
(***************************************************************************)
(* The functions.                                                          *)
(***************************************************************************)
Cmd(s, v, c) == [sock |-> s, verb |-> v, check |-> c]

(* Checks: "ret", "minus" return the result or -1 if it is negative; "ok"   *)
(* wants OK, too, and returns -1; "okret" returns the result, which may be  *)
(* 0; "buf" looks at the buffer only; "none" at nothing.                    *)

(* Mutant: the reply to setting the key is not looked at.                   *)
wifi_hal_connect_ap_AnyKey ==
  <<Cmd("ctrl", "REMOVE_NETWORK", "ret"), Cmd("ctrl", "ADD_NETWORK", "ret"),
    Cmd("ctrl", "ssid", "okret"), Cmd("ctrl", "psk", "none"),
    Cmd("ctrl", "ENABLE_NETWORK", "none")>>

wifi_hal_connect_ap ==
  <<Cmd("ctrl", "REMOVE_NETWORK", "ret"), Cmd("ctrl", "ADD_NETWORK", "ret"),
    Cmd("ctrl", "ssid", "okret"), Cmd("ctrl", "psk", "buf"),
    Cmd("ctrl", "ENABLE_NETWORK", "none")>>

(* Mutant: the result of setting the key is not looked at.                  *)
wifi_hal_create_ap_AnyKey ==
  <<Cmd("ctrl", "REMOVE_NETWORK", "ret"), Cmd("ctrl", "ADD_NETWORK", "ret"),
    Cmd("ctrl", "mode", "ok"), Cmd("ctrl", "ssid", "ok"),
    Cmd("ctrl", "frequency", "ok"), Cmd("ctrl", "key_mgmt", "ok"),
    Cmd("ctrl", "psk", "none"), Cmd("ctrl", "ENABLE_NETWORK", "ok")>>

wifi_hal_create_ap ==
  <<Cmd("ctrl", "REMOVE_NETWORK", "ret"), Cmd("ctrl", "ADD_NETWORK", "ret"),
    Cmd("ctrl", "mode", "ok"), Cmd("ctrl", "ssid", "ok"),
    Cmd("ctrl", "frequency", "ok"), Cmd("ctrl", "key_mgmt", "ok"),
    Cmd("ctrl", "psk", "ok"), Cmd("ctrl", "ENABLE_NETWORK", "ok")>>

(* Networks that cannot be removed are only warned of.                      *)
wifi_hal_join_mesh ==
  <<Cmd("mesh_ctrl", "wpa_mesh_attach", "minus"),
    Cmd("ctrl", "REMOVE_NETWORK", "none"),
    Cmd("mesh_ctrl", "ADD_NETWORK", "minus"),
    Cmd("mesh_ctrl", "mode", "ok"), Cmd("mesh_ctrl", "ssid", "ok"),
    Cmd("mesh_ctrl", "frequency", "ok"), Cmd("mesh_ctrl", "key_mgmt", "ok"),
    Cmd("mesh_ctrl", "psk", "ok"), Cmd("mesh_ctrl", "MESH_GROUP_ADD", "ok")>>

wifi_hal_trigger_scan == <<Cmd("ctrl", "SCAN", "none")>>

wifi_hal_get_scan_results == <<Cmd("ctrl", "SCAN_RESULTS", "none")>>

wifi_hal_ops ==
  [connect_ap |-> wifi_hal_connect_ap, create_ap |-> wifi_hal_create_ap,
   join_mesh |-> wifi_hal_join_mesh, trigger_scan |-> wifi_hal_trigger_scan,
   scan_results |-> wifi_hal_get_scan_results]

Params == {"mode", "ssid", "frequency", "key_mgmt", "psk"}
AllVerbs == Params \cup {"ATTACH", "REMOVE_NETWORK", "ADD_NETWORK",
                         "ENABLE_NETWORK", "MESH_GROUP_ADD", "SCAN",
                         "SCAN_RESULTS"}

(* What a function must have set for its network to be of use.              *)
Needs(f) == IF f = "connect_ap" THEN {"ssid", "psk"} ELSE Params

ASSUME SessionAssumption ==
  /\ Verbs = AllVerbs /\ MaxRefused \in Nat
  /\ \A s \in Sessions : s.calls \in Seq(DOMAIN wifi_hal_ops)

(* What the two programs do with these functions, and two of the theorems   *)
(* need: no user of a radio joins a mesh twice, and who creates an access   *)
(* point or joins a mesh calls nothing else (init_handler, the unit tests). *)
Makers == {"create_ap", "join_mesh"}

JoinsOnce ==
  \A s \in Sessions : \A i, j \in DOMAIN s.calls :
    s.calls[i] = "join_mesh" /\ s.calls[j] = "join_mesh" => i = j

ConfiguresOnce ==
  \A s \in Sessions : \A i \in DOMAIN s.calls :
    s.calls[i] \in Makers => Len(s.calls) = 1

Ended == {"exited", "crashed"}

(* Every variable has its type: the supplicant's queue, the buffer and its  *)
(* length stay in their bounds.                                             *)
TypeOK ==
  /\ WpaTypeOK
  /\ len < RESP_BUFFER_SIZE
  /\ pc \in {"ctrl", "monitor", "attach", "attaching", "next", "asking",
             "closeCtrl"} \cup Ended
  /\ nw_id \in -1 .. 1
  /\ DOMAIN networks \subseteq 0 .. 1

Stale == [set |-> Params, on |-> TRUE]

(* The supplicant that was there before may have a network.                 *)
Init ==
  /\ WpaInit
  /\ \E s \in Sessions : caller = s.caller /\ todo = s.calls
  /\ pc = "ctrl" /\ step = 1 /\ nw_id = -1
  /\ result = << >> /\ refused = 0 /\ gaveUp = FALSE
  /\ \E d \in {{}, {0}} : networks = [i \in d |-> Stale]

-----------------------------------------------------------------------------
(***************************************************************************)
(* wifi_hal_wpa_attach and wifi_hal_wpa_dettach.                           *)
(***************************************************************************)
(* Mutant: radio_manager goes on after a failed open.                       *)
OpenFailed_GoesOn == "next"

(* radio_manager returns from main(); the unit tests do not look.           *)
OpenFailed == IF caller = "manager" THEN "exited" ELSE "next"

OpenCtrl ==
  /\ pc = "ctrl"
  /\ wpa_ctrl_open2("ctrl")
  /\ pc' = IF handle'["ctrl"] = "open" THEN "monitor" ELSE OpenFailed
  /\ UNCHANGED <<call, ret, buf, len, alive, inq, caller, todo, step, nw_id,
                 result, gaveUp, networks, refused>>

(* If the monitor cannot be opened, the other connection is closed.         *)
OpenMonitor ==
  /\ pc = "monitor" /\ call.at = "idle"
  /\ wpa_ctrl_open2("monitor")
  /\ pc' = IF handle'["monitor"] = "open" THEN "attach" ELSE "closeCtrl"
  /\ UNCHANGED <<call, ret, buf, len, alive, inq, caller, todo, step, nw_id,
                 result, gaveUp, networks, refused>>

AttachMonitor ==
  /\ pc = "attach"
  /\ Request("monitor", "ATTACH", -1)
  /\ len' = 10 /\ buf' = Nothing
  /\ pc' = "attaching"
  /\ UNCHANGED <<sockVars, ret, taken, alive, inq, inbox, sent, caller, todo,
                 step, nw_id, result, gaveUp, networks, refused>>

wpa_ctrl_attach_helper == ret = 0 /\ len = 3 /\ buf.word = "OK"

Attached ==
  /\ pc = "attaching" /\ call.at = "done"
  /\ call' = NoCall
  /\ \/ /\ wpa_ctrl_attach_helper
        /\ pc' = "next"
        /\ UNCHANGED <<handle, files, inbox>>
     \/ /\ ~wpa_ctrl_attach_helper
        /\ wpa_ctrl_close({"monitor", "ctrl"})
        /\ pc' = OpenFailed
  /\ UNCHANGED <<local, counter, ret, buf, len, taken, alive, inq, sent,
                 caller, todo, step, nw_id, result, gaveUp, networks, refused>>

CloseCtrl ==
  /\ pc = "closeCtrl"
  /\ wpa_ctrl_close({"ctrl"})
  /\ pc' = OpenFailed
  /\ UNCHANGED <<local, counter, callVars, alive, inq, sent, caller, todo,
                 step, nw_id, result, gaveUp, networks, refused>>

(* A structure that was freed before is freed again.                        *)
wifi_hal_wpa_dettach ==
  /\ pc = "next" /\ todo = << >>
  /\ \/ /\ "freed" \in {handle[s] : s \in Sockets}
        /\ pc' = "crashed" /\ UNCHANGED <<handle, files, inbox>>
     \/ /\ "freed" \notin {handle[s] : s \in Sockets}
        /\ wpa_ctrl_close(Sockets)
        /\ pc' = "exited"
  /\ UNCHANGED <<local, counter, callVars, alive, inq, sent, caller, todo,
                 step, nw_id, result, gaveUp, networks, refused>>

-----------------------------------------------------------------------------
(***************************************************************************)
(* One command of a function.                                              *)
(***************************************************************************)
Steps == wifi_hal_ops[Head(todo)]
Now == Steps[step]

(* The buffer and its length are new in every function.                     *)
Fresh == IF step = 1 THEN [buf |-> Nothing, len |-> RESP_BUFFER_SIZE - 1]
         ELSE [buf |-> buf, len |-> len]

(* strncmp of the buffer and the first n characters of a word.              *)
StartsWith(w, n) == buf.word = w /\ buf.kept >= n

(* wifi_hal_send_wpa_command and wifi_hal_send_wpa_mesh_command, once the   *)
(* request has returned.                                                    *)
CommandResult ==
  IF ret = -2 THEN -2 ELSE IF ret < 0 \/ StartsWith("FAIL", 4) THEN -1 ELSE 0

(* What the function returns now, or "on".                                  *)
Verdict(check, r) ==
  CASE check = "ret"   -> IF r < 0 THEN r ELSE 1
    [] check = "minus" -> IF r < 0 THEN -1 ELSE 1
    [] check = "ok"    -> IF r # 0 \/ ~StartsWith("OK", 2) THEN -1 ELSE 1
    [] check = "okret" -> IF r # 0 \/ ~StartsWith("OK", 2) THEN r ELSE 1
    [] check = "buf"   -> IF ~StartsWith("OK", 2) THEN -1 ELSE 1
    [] check = "none"  -> 1

(* The function goes on, or returns: at the end of its table with 0.        *)
After(v) ==
  LET done == v <= 0 \/ step = Len(Steps)
      val  == IF v <= 0 THEN v ELSE 0
  IN /\ result' = IF done THEN Append(result, [fn |-> Head(todo), val |-> val])
                  ELSE result
     /\ todo' = IF done THEN Tail(todo) ELSE todo
     /\ step' = IF done THEN 1 ELSE step + 1

(* The check before the request: the monitor (not the connection that is    *)
(* used) or the mesh connection must not be null.                           *)
Refuses == handle[IF Now.sock = "ctrl" THEN "monitor" ELSE Now.sock] = "NULL"

Ask ==
  /\ pc = "next" /\ todo # << >> /\ Now.verb # "wpa_mesh_attach"
  /\ buf' = Fresh.buf /\ len' = Fresh.len
  /\ \/ /\ Refuses
        /\ After(Verdict(Now.check, -1))
        /\ UNCHANGED <<pc, call>>
     \/ /\ ~Refuses /\ handle[Now.sock] = "open"
        /\ Request(Now.sock, Now.verb, nw_id)
        /\ pc' = "asking"
        /\ UNCHANGED <<result, todo, step>>
     \/ /\ ~Refuses /\ handle[Now.sock] # "open"
        /\ pc' = "crashed"
        /\ UNCHANGED <<call, result, todo, step>>
  /\ UNCHANGED <<sockVars, ret, taken, alive, inq, inbox, sent, caller, nw_id,
                 gaveUp, networks, refused>>

(* The id is copied if it is short; what is not a number is no id.          *)
Answered ==
  /\ pc = "asking" /\ call.at = "done"
  /\ call' = NoCall /\ pc' = "next"
  /\ After(Verdict(Now.check, CommandResult))
  /\ nw_id' = IF Now.verb = "ADD_NETWORK" /\ CommandResult = 0
              THEN IF buf.word = "ID" THEN buf.id ELSE -1
              ELSE nw_id
  /\ gaveUp' = (gaveUp \/ ret < 0)
  /\ UNCHANGED <<sockVars, ret, buf, len, taken, alive, inq, inbox, sent,
                 caller, networks, refused>>

wifi_hal_wpa_mesh_attach ==
  /\ pc = "next" /\ todo # << >> /\ Now.verb = "wpa_mesh_attach"
  /\ wpa_ctrl_open2("mesh_ctrl")
  /\ buf' = Nothing /\ len' = RESP_BUFFER_SIZE - 1
  /\ After(Verdict(Now.check, IF handle'["mesh_ctrl"] = "open" THEN 0 ELSE -1))
  /\ UNCHANGED <<call, ret, alive, inq, caller, pc, nw_id, gaveUp, networks,
                 refused>>

-----------------------------------------------------------------------------
(***************************************************************************)
(* wpa_supplicant (external).                                              *)
(***************************************************************************)
(* A network gets an id no other has; the networks after a command.         *)
NewId == IF 0 \in DOMAIN networks THEN 1 ELSE 0

NetworksAfter(c) ==
  CASE c.verb = "REMOVE_NETWORK" -> << >>
    [] c.verb = "ADD_NETWORK" ->
         [i \in DOMAIN networks \cup {NewId} |->
            IF i = NewId THEN [set |-> {}, on |-> FALSE] ELSE networks[i]]
    [] c.verb \in Params ->
         [networks EXCEPT ![c.id].set = @ \cup {c.verb}]
    [] c.verb \in {"ENABLE_NETWORK", "MESH_GROUP_ADD"} ->
         [networks EXCEPT ![c.id].on = TRUE]
    [] OTHER -> networks

WordFor(c) ==
  CASE c.verb = "ADD_NETWORK" -> "ID"
    [] c.verb = "SCAN_RESULTS" -> "TABLE"
    [] OTHER -> "OK"

OnNetwork(c) == c.verb \in Params \cup {"ENABLE_NETWORK", "MESH_GROUP_ADD"}

(* The reply goes to the address the command came from, if its socket is    *)
(* still in use: a connection that was opened again has another one.  An    *)
(* event may come before the reply to ATTACH.                               *)
ReplyTo(c, w) ==
  LET m == [word |-> w, to |-> c.n, id |-> NewId]
      e == [word |-> "EVENT", to |-> 0, id |-> 0]
  IN IF handle[c.sock] # "open" \/ local[c.sock] # c.from
     THEN UNCHANGED inbox
     ELSE \E news \in {<<m>>, <<e, m>>} :
            /\ Len(news) = 2 => c.verb = "ATTACH"
            /\ inbox' = [inbox EXCEPT ![c.sock] = @ \o news]

Serve ==
  /\ alive /\ inq # << >> /\ inq' = Tail(inq)
  /\ LET c == Head(inq)
         unknown == OnNetwork(c) /\ c.id \notin DOMAIN networks
     IN \/ /\ ~unknown
           /\ networks' = NetworksAfter(c)
           /\ ReplyTo(c, WordFor(c))
           /\ UNCHANGED refused
        \/ /\ unknown
           /\ ReplyTo(c, "FAIL") /\ UNCHANGED <<networks, refused>>
        \/ /\ refused < MaxRefused /\ refused' = refused + 1
           /\ ReplyTo(c, "FAIL") /\ UNCHANGED networks
  /\ UNCHANGED <<sockVars, callVars, alive, sent, halVars>>

(* It dies with the commands it has not read.                               *)
Die ==
  /\ alive /\ alive' = FALSE /\ inq' = << >>
  /\ UNCHANGED <<sockVars, callVars, inbox, sent, halVars, networks, refused>>

-----------------------------------------------------------------------------
HalStep ==
  \/ OpenCtrl \/ OpenMonitor \/ AttachMonitor \/ Attached \/ CloseCtrl
  \/ Ask \/ Answered \/ wifi_hal_wpa_mesh_attach \/ wifi_hal_wpa_dettach
  \/ wpa_ctrl_request /\ UNCHANGED <<halVars, networks, refused>>

RequestFails == ReceiveFails /\ UNCHANGED <<halVars, networks, refused>>

Terminated == pc \in Ended /\ UNCHANGED vars

Next == HalStep \/ RequestFails \/ Serve \/ Die \/ Terminated

(* The HAL's thread keeps running, and time passes for select.  Nothing is  *)
(* assumed of the supplicant.                                               *)
Spec == Init /\ [][Next]_vars /\ WF_vars(HalStep)

-----------------------------------------------------------------------------
(***************************************************************************)
(* Properties.                                                             *)
(***************************************************************************)
Results == {result[i] : i \in DOMAIN result}
Complete(f) == \E i \in DOMAIN networks :
                 networks[i].on /\ Needs(f) \subseteq networks[i].set /\ i = nw_id

(* create_ap and join_mesh return 0 only if the supplicant accepted every   *)
(* parameter of the network they added and enabled it, whatever was refused, *)
(* late or cut short on the way; join_mesh even if a late reply to its      *)
(* REMOVE_NETWORK comes in between.                                         *)
SuccessIsComplete ==
  \A r \in Results : r.fn \in {"create_ap", "join_mesh"} /\ r.val = 0
                       => Complete(r.fn)

(* No half-configured network is ever enabled, whether the function that    *)
(* did it reported success or not; connect_ap may do it when the reply to   *)
(* setting the key does not come, for it then reads the reply before it.    *)
NoOpenNetwork ==
  gaveUp \/ \A i \in DOMAIN networks :
              networks[i].on => {"ssid", "psk"} \subseteq networks[i].set

(* radio_manager never uses a connection it has closed, although a failed   *)
(* wifi_hal_wpa_attach leaves its pointers behind.                          *)
NoUseAfterClose == caller = "manager" => pc # "crashed"

(* The connections are the service WpaService describes: a call that is     *)
(* given up never makes a later one lose its place in the order of replies, *)
(* no reply is taken twice, and no unsolicited message is taken for one.    *)
ConnectionsAreServices == Service!Spec

(* Every session ends: no request hangs the HAL, even if the supplicant     *)
(* dies or never answers.                                                   *)
SessionEnds == <>(pc \in Ended)

(* Connections are given back once and for all: what stays is in its        *)
(* bounds, nothing is used after it was closed, and no file outlives its    *)
(* connection.                                                              *)
ConnectionsReleased == TypeOK /\ NoUseAfterClose /\ FilesCleanedUp

=============================================================================
