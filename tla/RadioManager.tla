---------------------------- MODULE RadioManager ----------------------------
(***************************************************************************)
(* The programs: radio_manager (src/common/radio_mgmr.cpp), whose main()   *)
(* attaches, configures and opens a radio for each of its options, gives   *)
(* it a thread for its events and waits for the threads, and               *)
(* radio_hal_daemon (src/common/radio_hal_main.cpp), the unit tests, which *)
(* call one function of the HAL and close it.                              *)
(*                                                                         *)
(* The Wi-Fi HAL is that of WifiEvents.  The modem's event loop never ends *)
(* (ModemSystem has it); here opening the modem succeeds or fails.         *)
(***************************************************************************)
EXTENDS WifiEvents

CONSTANT Runs       \* programs, with their options and tested functions,
                    \* on machines with their interfaces, configurations and
                    \* a bound on the events of their supplicants

Programs == {"radio_manager", "radio_hal_daemon"}

(* The tests do not check the radio they are given: one that the arrays do  *)
(* not have is not modelled.                                                *)
ASSUME RunsAssumption ==
  \A r \in Runs :
    /\ r.dump \in Dumps /\ r.config \in Configs /\ r.events \in Nat
    /\ r.prog \in Programs /\ r.test.index \in Slots

VARIABLES
  prog,             \* radio_manager or radio_hal_daemon
  opts,             \* options that are left
  test,             \* the function that is tested, and its radio
  threads,          \* s_event_reader: threads that were started, in order
  code              \* "running", the exit code, or "crashed"

mainVars == <<prog, opts, test, threads, code>>
vars == <<wifiVars, mainVars>>

Running == code = "running" /\ at # "crashed"
HasThread == threads # << >> /\ \E k \in DOMAIN threads : threads[k] # "modem"
Free == at = "off" \/ HasThread     \* main() is not busy with the Wi-Fi HAL

(* Every variable has its type, and no array is used past its end: there    *)
(* are never more radios than the HAL is built for.                         *)
TypeOK ==
  /\ WifiTypeOK
  /\ prog \in Programs
  /\ ToSet(threads) \subseteq {"wifi", "modem", "none"}
  /\ code \in {"running", "0", "-1", "crashed"}

Init ==
  /\ \E r \in Runs : /\ WifiInit(r.dump, r.config, r.events)
                     /\ prog = r.prog /\ opts = r.opts /\ test = r.test
  /\ threads = << >> /\ code = "running"

Step(here, there) ==
  /\ Goto(here, there)
  /\ UNCHANGED <<nlVars, config, radio, plan, then, monitor, state, eNewEvent,
                 index, events, heard, talk, readable, prog, test>>

Exit(c) == code' = c /\ UNCHANGED <<wifiVars, prog, opts, test, threads>>

-----------------------------------------------------------------------------
(***************************************************************************)
(* main() of radio_manager.                                                *)
(***************************************************************************)
Option(o) == Running /\ Free /\ opts # << >> /\ Head(opts) = o

OptionWifi ==
  /\ Option("w") /\ opts' = Tail(opts)
  /\ Step("off", "attach")
  /\ UNCHANGED <<threads, code>>

(* The configuration files are read (RadioYaml).                            *)
ReadConfig ==
  /\ Running /\ prog = "radio_manager"
  /\ Step("attached", "open")
  /\ UNCHANGED <<opts, threads, code>>

(* No context, a file that is not accepted or a failed open end the         *)
(* program, with the radios that already run.                               *)
GiveUp ==
  /\ Running /\ prog = "radio_manager"
  /\ at \in {"nullptr", "attached", "failed"}
  /\ Exit("-1")

EVENT_THREAD_AMOUNT == 5

(* With the array full a radio goes without a thread, and that is only      *)
(* logged.                                                                  *)
Started(t) == IF Len(threads) < EVENT_THREAD_AMOUNT THEN Append(threads, t)
              ELSE threads

(* A thread, or none: pthread_create returns a positive error, which is not *)
(* noticed.                                                                 *)
CreateThread ==
  /\ Running /\ prog = "radio_manager"
  /\ \/ /\ Len(threads) < EVENT_THREAD_AMOUNT
        /\ Step("opened", "thread") /\ threads' = Started("wifi")
     \/ Step("opened", "lost") /\ threads' = Started("none")
  /\ UNCHANGED <<opts, code>>

OptionModem ==
  /\ Option("m")
  /\ \/ /\ \E t \in {"modem", "none"} : threads' = Started(t)
        /\ opts' = Tail(opts)
        /\ UNCHANGED <<wifiVars, prog, test, code>>
     \/ Exit("-1")

(* There is no such radio: the null context is written to.                  *)
OptionOther == (Option("b") \/ Option("z")) /\ Exit("crashed")

OptionHelp == (Option("h") \/ Option("?")) /\ Exit("0")

Ended(t) == t = "wifi" /\ at = "closed"     \* the modem's loop does not end

(* Mutant: the last thread is not joined.                                   *)
Joined_Short == \A k \in 1 .. Len(threads) - 1 : Ended(threads[k])

Joined == \A k \in DOMAIN threads : Ended(threads[k])

(* A thread that could not be started is joined through a null handle.      *)
Join ==
  /\ Running /\ prog = "radio_manager" /\ opts = << >> /\ Free
  /\ \/ "none" \in ToSet(threads) /\ Exit("crashed")
     \/ "none" \notin ToSet(threads) /\ Joined /\ Exit("0")

radio_manager ==
  \/ OptionWifi \/ ReadConfig \/ GiveUp \/ CreateThread
  \/ OptionModem \/ OptionOther \/ OptionHelp \/ Join

-----------------------------------------------------------------------------
(***************************************************************************)
(* test_radio_hal_api of radio_hal_daemon.                                 *)
(***************************************************************************)
InTest == Running /\ prog = "radio_hal_daemon"

(* No context is a null pointer; the result of open is not looked at.       *)
TestOpen ==
  /\ InTest
  /\ \/ Step("attached", "open")
     \/ Step("nullptr", "crashed")
     \/ Step("failed", "opened")
  /\ UNCHANGED <<opts, threads, code>>

(* The readings are preceded by a new dump.  The settings are those of      *)
(* create_ap and its like, which send nothing without a monitor.            *)
TestCall ==
  /\ InTest /\ at = "opened"
  /\ \/ /\ test.call = "radio_get_rssi" /\ at' = "reading"
        /\ wifi_hal_get_interface \/ UNCHANGED nlVars
        /\ UNCHANGED <<radio, plan, then>>
     \/ /\ test.call = "radio_create_ap" /\ monitor[test.index] = "open"
        /\ Configure(test.index, "close") /\ UNCHANGED nlVars
     \/ /\ \/ test.call = "radio_get_mac_address"
           \/ test.call = "radio_create_ap" /\ monitor[test.index] # "open"
        /\ at' = "close" /\ UNCHANGED <<nlVars, radio, plan, then>>
  /\ UNCHANGED <<config, monitor, state, eNewEvent, index, events, heard,
                 talk, readable, mainVars>>

wifi_hal_get_rssi ==
  /\ InTest /\ cb_err = 0
  /\ \/ /\ Goto("reading", "read")
        /\ wifi_hal_get_stainfo(test.index) \/ UNCHANGED nlVars
     \/ Goto("read", "close") /\ UNCHANGED nlVars
  /\ UNCHANGED <<config, radio, plan, then, monitor, state, eNewEvent, index,
                 events, heard, talk, readable, mainVars>>

(* radio_hal_dettach, and the end of main().                                *)
TestEnds == InTest /\ at = "closed" /\ Exit("0")

radio_hal_daemon == TestOpen \/ TestCall \/ wifi_hal_get_rssi \/ TestEnds

-----------------------------------------------------------------------------
WifiStep ==
  /\ Running
  /\ \/ wifi_hal_attach \/ wifi_hal_open \/ Receive \/ wifi_hal_wpa_attach
     \/ Set \/ SetDone \/ wifi_events \/ wifi_hal_close
  /\ UNCHANGED mainVars

Supplicants ==
  /\ Running /\ \E i \in Slots, e \in Spoken : Event(i, e)
  /\ UNCHANGED mainVars

Next == radio_manager \/ radio_hal_daemon \/ WifiStep \/ Supplicants

(* Both threads keep running; nothing is assumed of the supplicants.        *)
Spec ==
  /\ Init /\ [][Next]_vars
  /\ WF_vars(radio_manager \/ radio_hal_daemon) /\ WF_vars(WifiStep)

-----------------------------------------------------------------------------
(***************************************************************************)
(* Properties.                                                             *)
(***************************************************************************)
(* Each interface the kernel lists becomes a radio while there is room,     *)
(* unless its name begins the name of a radio ("wlan1" after "wlan10").     *)
NoneForgotten ==
  at \in {"thread", "init", "wait"} =>
    \A k \in DOMAIN interfaces :
      \/ \E i \in Radios : IsPrefix(interfaces[k].name, ifname[i])
      \/ radio_amount = WIFI_RADIO_MAX

(* main() of radio_manager returns 0 for itself, without asking for help,   *)
(* only when the thread of every radio it opened has closed it.             *)
ManagerJoins ==
  prog = "radio_manager" /\ code = "0" /\ opts = << >> =>
    /\ "modem" \notin ToSet(threads)
    /\ \A i \in Slots : monitor[i] # "open"

(* Starting always gets to an end: the loop waits for events, the program   *)
(* ends, or the kernel has refused a request, after which its thread waits  *)
(* for ever.                                                                *)
StartupEnds ==
  at = "attach" ~> \/ at \in {"wait", "lost"} \/ ~Running
                   \/ Hangs /\ (refused > 0 \/ ifindex[test.index] = -1)

(* With a monitor for every radio it is built for, the loop reads each      *)
(* event that any supplicant sends, unless a request hangs.                 *)
EventsRead ==
  \A i \in Slots :
    (HasThread /\ events[i] # << >>)
      ~> (events[i] = << >> \/ ~Running \/ Blind \/ Hangs \/ at = "closed")

(* The radios that the HAL works with are the interfaces of the kernel:     *)
(* none is made up, mixed up, listed twice or forgotten, and there are      *)
(* never more than the arrays hold.                                         *)
RadiosFound == TypeOK /\ TableSound /\ NoneForgotten

(* What is set and read for one radio never reaches or comes from another.  *)
RadiosApart == SettingsOwn /\ ReadingsOwn

(* The event loop comes up and goes on reading the events of all radios.    *)
EventLoopLives == StartupEnds /\ EventsRead

=============================================================================
