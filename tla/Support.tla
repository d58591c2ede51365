------------------------------ MODULE Support ------------------------------
(***************************************************************************)
(* The parts of the program that the AT channel, the modem HAL and the     *)
(* Wi-Fi HAL stand on, each in a module of its own, under one              *)
(* specification.  The parts share no state and none of them runs inside   *)
(* another: a behaviour is a run of one part.  So they take turns with the *)
(* same variables: v1, v2 and so on are the variables of the part that     *)
(* runs, in the order in which its module declares them.                   *)
(***************************************************************************)
EXTENDS Integers, Sequences

CONSTANTS
  MAX_AT_RESPONSE, Streams,                             \* AtReadline
  Uptimes, Delays, MaxWait,                             \* RetryClock
  Lines, Allocators,                                    \* HalLifetime
  StatRadios, Machines, AtRoot, MaxStatCalls,              \* WifiStats
  BYTE, Values, BufSizes, MaxPuts,                      \* WpaBuf
  Channels, Macs, Times, Msecs,                         \* Conversions
  CopyTexts, CopySizes, CwdLens, FileContents, Args, MAX_ARG, Hours, Zones, \* OsUnix
  Addr, NullAddr, AllocCallers, SIZE_MAX, HDR, AllocSizes, Numbers, MaxAllocs, \* OsAlloc
  Callers, Patterns, Counts, MaxChecks,                 \* OsFail
  radio_amount, MaxOpens                                \* SupplicantStart

ASSUME SupportAssumption ==
  /\ MAX_AT_RESPONSE \in Nat \ (0 .. 1)
  /\ \A s \in Streams : \A k \in DOMAIN s : s[k] \in {"text", "eol", ">", " "}
  /\ BYTE \in Nat \ (0 .. 1)
  /\ NullAddr \notin Addr /\ SIZE_MAX \in Nat /\ HDR \in 1 .. SIZE_MAX
  /\ AllocSizes \subseteq 0 .. SIZE_MAX /\ Numbers \subseteq 0 .. SIZE_MAX
  /\ Counts \subseteq Nat
  /\ radio_amount \in Nat \ {0} /\ MaxOpens \in Nat

(* There is a longest delay.                                                *)
ASSUME DelayAssumption ==
  Delays \subseteq Nat /\ \E d \in Delays : \A e \in Delays : e <= d

VARIABLES part, v1, v2, v3, v4, v5, v6, v7, v8, v9, v10, v11, v12

vars == <<part, v1, v2, v3, v4, v5, v6, v7, v8, v9, v10, v11, v12>>

-----------------------------------------------------------------------------
R == INSTANCE AtReadline WITH
       stream <- v1, taken <- v2, s_ATBuffer <- v3, s_ATBufferCur <- v4,
       p_read <- v5, p_eol <- v6, pc <- v7, lines <- v8, ditched <- v9

T == INSTANCE RetryClock WITH
       broken <- v1, time <- v2, clock_id <- v3, started_at <- v4, rpc <- v5,
       refused <- v6, waited <- v7, odd <- v8

(* The clocks show microseconds of a second.                                *)
ASSUME UptimeAssumption == Uptimes \subseteq T!Stamps

D == INSTANCE HalLifetime WITH
       line <- v1, nth <- v2, at <- v3, heap <- v4, pipes <- v5, readers <- v6,
       failed <- v7

S == INSTANCE WifiStats WITH
       driver <- v1, mode <- v2, drv_version <- v3, debugfs_root <- v4,
       call <- v5, ret <- v6, files <- v7, strays <- v8, log <- v9,
       left <- v10, searched <- v11, calls <- v12, Radios <- StatRadios,
       MaxCalls <- MaxStatCalls

(* A card that is there at first has one of the drivers.                    *)
ASSUME MachinesAssumption ==
  Machines \subseteq [StatRadios -> S!Drivers]

B == INSTANCE WpaBuf WITH
       size <- v1, buf <- v2, flags <- v3, aborted <- v4, wrote <- v5,
       Sizes <- BufSizes

C == INSTANCE Conversions WITH
       fn <- v1, in <- v2, at <- v3, out <- v4, i <- v5, l <- v6, slept <- v7

(* A channel has a number that its frequency still tells apart: behind the  *)
(* last one those of the 60 GHz band follow.                                *)
LastChannel == 8000

ASSUME ConvertAssumption ==
  /\ \A c \in Channels : c \in Nat /\ c <= LastChannel
  /\ Macs \subseteq [1 .. 6 -> Nat] /\ Msecs \subseteq Nat
  /\ \A t \in Times : t.sec \in Nat /\ t.usec \in Nat /\ t.usec < C!US_PER_S

U == INSTANCE OsUnix WITH
       fn <- v1, in <- v2, at <- v3, out <- v4, n <- v5, file <- v6,
       rewritten <- v7, held <- v8, Texts <- CopyTexts, Sizes <- CopySizes,
       Contents <- FileContents

(* Strings end at their terminator.                                         *)
ASSUME UnixAssumption ==
  /\ \A s \in CopyTexts : s \in Seq({s[k] : k \in DOMAIN s} \ {U!NUL})
  /\ \A s \in FileContents : s \in Seq({s[k] : k \in DOMAIN s})
  /\ CopySizes \subseteq Nat /\ CwdLens \subseteq Nat /\ Hours \subseteq Int
  /\ \A z \in Zones : z.std \in Int /\ z.dst \in Int

A == INSTANCE OsAlloc WITH
       heap <- v1, p <- v2, total <- v3, holds <- v4, want <- v5, last <- v6,
       asked <- v7, calls <- v8, Callers <- AllocCallers, Sizes <- AllocSizes,
       MaxCalls <- MaxAllocs, NULL <- NullAddr

F == INSTANCE OsFail WITH
       check <- v1, pattern <- v2, armed <- v3, fail_after <- v4, func <- v5,
       i <- v6, pos <- v7, at <- v8, calls <- v9, matches <- v10,
       MaxCalls <- MaxChecks

W == INSTANCE SupplicantStart WITH
       open <- v1, at <- v2, i <- v3, conf <- v4, sock <- v5, alive <- v6,
       conn <- v7, unseen <- v8

-----------------------------------------------------------------------------
(* The variables behind those of a part, which it leaves at 0.              *)
From6 == <<v6, v7, v8, v9, v10, v11, v12>>
From8 == <<v8, v9, v10, v11, v12>>
From9 == <<v9, v10, v11, v12>>
From10 == <<v10, v11, v12>>
From11 == <<v11, v12>>

Zero11 == v11 = 0 /\ v12 = 0
Zero9 == v9 = 0 /\ v10 = 0 /\ Zero11
Zero8 == v8 = 0 /\ Zero9

Init ==
  \/ part = "readline" /\ R!Init /\ v10 = 0 /\ Zero11
  \/ part = "retry" /\ T!Init /\ Zero9
  \/ part = "daemon" /\ D!Init /\ Zero8
  \/ part = "stats" /\ S!Init
  \/ part = "wpabuf" /\ B!Init /\ v6 = 0 /\ v7 = 0 /\ Zero8
  \/ part = "convert" /\ C!Init /\ Zero8
  \/ part = "unix" /\ U!Init /\ Zero9
  \/ part = "alloc" /\ A!Init /\ Zero9
  \/ part = "fail" /\ F!Init /\ Zero11
  \/ part = "supplicant" /\ W!Init /\ Zero9

Next ==
  \/ part = "readline" /\ R!Next /\ UNCHANGED <<part, From10>>
  \/ part = "retry" /\ T!Next /\ UNCHANGED <<part, From9>>
  \/ part = "daemon" /\ D!Next /\ UNCHANGED <<part, From8>>
  \/ part = "stats" /\ S!Next /\ UNCHANGED part
  \/ part = "wpabuf" /\ B!Next /\ UNCHANGED <<part, From6>>
  \/ part = "convert" /\ C!Next /\ UNCHANGED <<part, From8>>
  \/ part = "unix" /\ U!Next /\ UNCHANGED <<part, From9>>
  \/ part = "alloc" /\ A!Next /\ UNCHANGED <<part, From9>>
  \/ part = "fail" /\ F!Next /\ UNCHANGED <<part, From11>>
  \/ part = "supplicant" /\ W!Next /\ UNCHANGED <<part, From9>>

(* The statements of the function that runs; what the kernel, the clocks,   *)
(* the driver, the supplicants and the users do is not among them, nor is   *)
(* the next call of a function.                                             *)
Statement ==
  \/ part = "readline" /\ R!readline /\ UNCHANGED <<part, From10>>
  \/ part = "retry" /\ T!wpa_ctrl_request /\ UNCHANGED <<part, From9>>
  \/ part = "daemon" /\ D!Next /\ UNCHANGED <<part, From8>>
  \/ part = "stats" /\ S!wifi_hal_capture_spectral_scan /\ UNCHANGED part
  \/ part = "unix" /\ U!Next /\ UNCHANGED <<part, From9>>
  \/ part = "fail" /\ F!testing_fail /\ UNCHANGED <<part, From11>>
  \/ part = "supplicant" /\ W!wifi_hal_open /\ UNCHANGED <<part, From9>>

(* The code is sequential: the next statement of a running function is      *)
(* executed.  read(), the shell and sleep() return.                         *)
Spec == Init /\ [][Next]_vars /\ WF_vars(Statement)

-----------------------------------------------------------------------------
(***************************************************************************)
(* Properties.  Each part's module says what its own conjuncts mean.       *)
(***************************************************************************)
(* Where bytes are joined or cut none is lost, repeated or moved: readline   *)
(* of the AT channel makes whole lines of the modem's bytes however read()  *)
(* cuts them, and only a line that exceeds the buffer is ditched; numbers   *)
(* come out of a data buffer as they were put; and os_exec cuts its string  *)
(* into the words of it.                                                    *)
BytesComplete ==
  /\ [](part = "readline" => /\ R!TypeOK /\ R!NothingLost
                             /\ R!LinesWhole /\ R!AllReturned)
  /\ [][part = "readline" => R!OnlyOverlong]_vars
  /\ [](part = "wpabuf" => B!TypeOK /\ B!ReadBack)
  /\ [](part = "unix" => U!ArgsAreWords)

(* wpa_ctrl_request gives a busy supplicant "a few" seconds by one clock,   *)
(* whatever is done to the other clocks.                                    *)
RetriesTimed ==
  /\ [](part = "retry" => T!TypeOK /\ T!AFewSeconds)
  /\ [][part = "retry" => T!OneClock]_vars

(* In every order of options and whichever allocation fails the daemon      *)
(* gives back all the memory its attach takes, each thing once, but for one *)
(* callback that a dettach of a Wi-Fi radio forgets and the callbacks that  *)
(* the error path puts twice.  Of a modem there stay open the pipe of its   *)
(* attach and, unless it was tested for its RSSI, its AT channel.           *)
HalGivesBack ==
  /\ [](part = "daemon" => /\ D!TypeOK /\ D!OnlyCallbacksTwice
                           /\ D!OnlySetCbLost /\ D!OnlyModemsLeft)
  /\ [][part = "daemon" => D!NoContextHoldsNothing]_vars

(* A spectral capture that comes to its end has written the whole program   *)
(* for the right driver, no call but wifi_debugfs_search leaves a file      *)
(* open, and a scan stays on only when the driver refused "disable" or the  *)
(* file of "trigger" or "disable" could not be opened.                      *)
ScanSwitchedOff ==
  /\ [](part = "stats" => S!TypeOK /\ S!NoScanLeftOn /\ S!FilesClosed)
  /\ [][part = "stats" => S!CaptureComplete]_vars

(* Channels, addresses and times come through their conversions unchanged,  *)
(* and the functions of os_unix.c return what their callers rely on and     *)
(* hold nothing else, whichever step fails.                                 *)
HelpersRight ==
  /\ part = "convert" => /\ C!ChannelRoundTrip /\ C!MacWhole
                         /\ C!DeadlineExact /\ C!SleptInFull
  /\ part = "unix" => /\ U!CopyFits /\ U!PathsUpTo1023 /\ U!FileTogether
                      /\ U!MktimeUtc /\ U!NothingHeld

(* The list of the tracing allocator has the live blocks, which keep their  *)
(* contents, and a pointer that is used after it was freed stops the        *)
(* program then and there.                                                  *)
BlocksTraced ==
  /\ [](part = "alloc" => A!ListIsLive /\ A!Contents /\ A!ArrayRoom /\ A!LeakTotal)
  /\ [][part = "alloc" => A!StaleCaught]_vars

(* The call that testing_fail_alloc makes fail is the n-th one that the     *)
(* pattern describes, though its loop never goes back.                      *)
FailsOnRequest ==
  /\ [](part = "fail" => F!TypeOK)
  /\ [][part = "fail" => F!MatchSound /\ F!PlainComplete /\ F!FailsAtCount]_vars

(* wifi_hal_open ends with all its radios connected to supplicants that it  *)
(* started itself, over restarts of the process and of the supplicants.     *)
SupplicantOwn ==
  /\ [](part = "supplicant" => W!TypeOK /\ W!OwnSupplicant)
  /\ [][part = "supplicant" => W!AllAttached]_vars

(* Is a function running that has to return?                                *)
Running ==
  \/ part = "readline" /\ R!Running
  \/ part = "retry" /\ T!Running
  \/ part = "daemon" /\ D!Running
  \/ part = "stats" /\ S!Running
  \/ part = "unix" /\ U!Running
  \/ part = "fail" /\ F!Running
  \/ part = "supplicant" /\ W!Running

(* Every one of these functions returns: readline's stream is read to its   *)
(* end, the retry loop stops though the clock is set back, a capture stops  *)
(* though its card goes, an open stops though its commands fail, and the    *)
(* matcher stops whatever the pattern.                                      *)
EveryCallEnds == Running ~> ~Running

=============================================================================
