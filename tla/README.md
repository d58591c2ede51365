# A TLA+ verification of radio_hal

radio_hal gives applications one interface to the radios of a device: Wi-Fi
through nl80211 and wpa_supplicant, a cellular modem through AT commands on a
serial line. This directory holds TLA+ models of it, translated from the source,
the TLC configurations that check them on small instances, and proofs checked
by TLAPS. Paths below are relative to the repository.

## 1. Inventory

| Component | State it keeps | Operations | Talks to |
|---|---|---|---|
| AT channel, `src/modem/at/atchannel.c` | descriptor, pending command (`s_type`, `s_responsePrefix`, `s_smsPDU`, `sp_response`), mutex, condition, line buffer | `at_open`, `at_close`, `at_send_command*`, `at_handshake`, reader thread | the modem (serial line); the HAL by return values and by `s_unsolHandler` on the reader thread |
| AT tokenizer, `at_tok.c` | a cursor in a line | `at_tok_start`, `_nextint`, `_nextstr`, ... | used on answers |
| Modem connection, `modem_hal_main.cpp` | counters of one attempt; the SIM keeps the PIN tries | `modem_hal_connect` and its helpers | AT channel, `qmicli` |
| Modem HAL and event loop, `modem_hal_main.cpp` | `sc->state`, the pipe `modem_fds` | attach, open, close, `at_event_handler`, `modem_events`, `get_rssi` | AT channel both ways; the pipe between reader and event thread; the shell |
| wpa_supplicant socket, `wpa_ctrl.c` | sockets, their files in `/tmp` | open, close, request, recv, pending, attach | wpa_supplicant (datagrams) |
| Wi-Fi HAL: network configuration, `wifi_hal_main.cpp` | connections, reply buffer and its length | `wpa_attach`, `connect_ap`, `create_ap`, `join_mesh`, scanning | the socket |
| Wi-Fi HAL: netlink, `wifi_hal_main.cpp` | table of radios, netlink socket, callbacks and their flags | dumps, station readings, settings | the kernel |
| Wi-Fi HAL: event loop, `wifi_hal_main.cpp` | state and event of each radio | open, `wait_on_event`, handlers, close | supplicants (monitors), stdin, the shell |
| Wi-Fi statistics, `wifi_stats.cpp` | driver and debugfs directory of each radio | init, read, write, firmware statistics, spectral capture | files of the driver |
| YAML configuration, `radio_hal_yaml.cpp` | key being parsed, configurations | token loop, validation, field copy | libyaml |
| Radio manager and daemon, `radio_mgmr.cpp`, `radio_hal_main.cpp`, `radio_hal_common.cpp` | contexts, event threads | option loops, attach, open, event thread, tests, dettach | the HALs |
| OS support, `os_unix.c`, `os.h`, `common.h`, `wpabuf.h` | the list of allocations, clocks | allocation, clocks, files, paths, byte orders, buffers | the C library |
| Message queue, `radio_hal_msg.cpp` | System V queue | init, send, receive | not called by other files |
| RIL headers, `ril.h`, `ril_cdma_sms.h` | none | declarations only | nothing |

Hard behaviour, by component (PROJECT.json lists each hazard at its line):

- AT channel: two threads (reader, writer) and a third that closes; answers that
  are early, late, missing or look like unsolicited lines; a timeout that races
  the answer; a handshake that retries; a writer that takes another's command;
  lines that `read()` cuts anywhere.
- Modem connection: an endless retry loop over an external counter that must not
  reach zero; uninitialised and stale counts; exit codes that are dropped.
- Modem event loop: an unsolicited handler that runs with the command mutex held
  and writes to a pipe nobody reads before the connection is up.
- wpa socket and configuration: late replies that answer later commands, events
  between replies, a reply buffer that keeps the last answer, a length that
  shrinks, sequences of commands of which one fails, a supplicant that dies.
- netlink and events: names compared by prefix, answers that never come, a table
  with a fixed number of radios, several supplicants and one state machine.
- Programs: error paths that release twice or not at all, processes that are
  started again while the supplicants of the last one still run.
- Readers of text: quoted and cut-off fields, values that fill their array,
  scanning errors, output that is longer than its buffer.

What makes each part correct: a command gets its own answer and nothing else,
every unsolicited line is delivered once, every call returns, the pending
response has one owner; the last PIN try is never used and a usable SIM gets
connected; events pass the pipe in order and never block the reader; success of
a Wi-Fi function means that the whole network was set; settings, readings and
events belong to their radio; text becomes the values it stands for.

## 2. Modules

| Module | Models | Composed in |
|---|---|---|
| `AtChannel` | the whole of `atchannel.c`, by lines (proofs: `AtChannelProofs`, `AnswerProofs`) | `ModemSystem` |
| `ModemConnect` | `modem_hal_connect`, its helpers, `init_handler` (proofs: `ModemConnectProofs`) | |
| `ModemSystem` | `at_event_handler`, `modem_hal_open`, `modem_events`, the modem branch of `main()` (proofs: `ModemSystemProofs`) | extends `AtChannel` |
| `WpaService` | abstract: what a request over a control connection promises | refined by `WifiConfig` |
| `WpaCtrl` | `wpa_ctrl.c`: open, close, attach, detach, request | `WifiConfig` |
| `WifiConfig` | wpa_attach and dettach, connect_ap, create_ap, join_mesh, scanning; the supplicant (proofs: `WifiConfigProofs`) | extends `WpaCtrl` |
| `WifiNetlink` | the table of radios, station readings, settings, debugfs directories | `WifiEvents` |
| `WifiEvents` | attach, open, `wait_on_event`, the state machine and its handlers, one call of the interface, close, dettach; `wpa_ctrl_recv` and `_pending` | `RadioManager` |
| `RadioManager` | `main()` of radio_manager and of radio_hal_daemon (proofs: `RadioManagerProofs`) | extends `WifiEvents` |
| `RadioYaml` | `radio_hal_yaml.cpp` | `TextInputs` |
| `SysCmd` | `modem_hal_run_sys_cmd`, the search for the modem's names | `TextInputs` |
| `AtTok`, `ModemReports` | `at_tok.c`; reading a report, `modem_hal_get_rssi`, `at_get_cme_error` | `TextInputs` |
| `Support` | the parts below, one at a time (proofs: `SupportProofs`, `HelperProofs`) | |
| `AtReadline` | `readline` and `findNextEOL`, byte by byte | `Support` |
| `RetryClock` | the retry loop of `wpa_ctrl_request`, `os_get_reltime`, `os_sleep`, `os_reltime_*` | `Support` |
| `HalLifetime` | what attach, dettach and the daemon's tests take and give back | `Support` |
| `SupplicantStart` | `wifi_hal_start_wpa_dummy_config` and `wifi_hal_open` over restarts | `Support` |
| `WifiStats` | `wifi_stats.cpp` | `Support` |
| `Conversions` | channels, hardware addresses, deadlines, sleeps | `Support` |
| `WpaBuf`, `OsUnix`, `OsAlloc`, `OsFail` | `wpabuf.h` and byte orders; the functions of `os_unix.c` with loops or several failing steps; the tracing allocator; failures on request | `Support` |

`MC...` modules give the constants of an instance. `OsAlloc` and `OsFail` follow
the text under `#ifdef WPA_TRACE` (and `WPA_TRACE_BFD`, `CONFIG_TESTING_OPTIONS`),
which no build of the repository defines and whose headers it does not have; of the functions in `OsUnix`,
`os_readfile` is called by nothing. They are there because the HAL's supplicant
socket comes with them, and no hazard of the program is in them.

### AtChannel

The file-scope variables keep their names. `mutex` is the holder of
`s_commandmutex`; `pc[t]` is where thread `t` is. A call goes through

    idle - lock - send - arm - loop - wait - relock - loop - unlock - idle

`send` is the entry of `at_send_command_full_nolock` (the test of `sp_response`
and `writeline`), `arm` the publication of the response, `loop` the test of the
wait loop. The mutex is held from `send` to `unlock` except in `wait`, `relock`
and `timedout`. `GiveUp` is the ETIMEDOUT path; `Returned` is the loop of
`at_handshake` around the call. The reader goes through `readline`, `read`,
`process`; `processLine` is one of four actions, each the whole branch. `close`
in another thread does not end a `read` that has been entered.

A line is what the code tells apart in it: kind and prefix. `ans`, `n`, `id`,
`history` and `unsol` are history: they let the properties say whose answer a
line is and in what order lines came. The byte buffer is the sequence of
complete lines in it. The modem is external: it answers commands in order, with
any lines of the command's shape and any final response, and sends unsolicited
lines at any time. `pthread_cond_wait` may wake without a signal.

A null dereference is the place `crashed`. It is reachable only with two command
threads (run `AtTwoWriters`), because the second one's error path clears
`sp_response`; the theorem `SoleCommanderOwnsResponse` shows it is not with one.

### ModemConnect

One action per AT command or group of commands of `modem_hal_connect`. A command
comes back with a failure (`Fault`: a write error, a final error, a closed
channel), is answered with a final error where the code does not look
(`CgregErrors`), succeeds, or never comes back: the commands have no timeout
(`atchannel.c:786`, 799 and 868 pass 0), so when the command or its answer is lost
the thread stays in `pthread_cond_wait`, the place `waiting` (`Lost`; a qmicli that
never ends is the same). Both kinds together happen at most `MaxFaults` times. `left` is the SIM's own
count of PIN tries. `get_numretries` returns any value when the answer has no
line for PIN1 (`"none"` in `QpincReplies`), since the variable it returns is
uninitialised then. A PIN may reach the SIM although its answer is lost, and then
`modem_hal_connect` does not return either. qmicli
may fail without the HAL noticing, since `modem_hal_run_sys_cmd` fails only when
`popen` does.

### ModemSystem

Extends `AtChannel` with the HAL's stage, the pipe and the messages read.
`ChannelStep(A)` is a step of the channel together with the call of
`at_event_handler` it makes: one message for each call, dropped when the pipe is
full. The event thread reads the pipe only in `MODEM_IF_UP_STATE`. AT+CGREG?
stands for the commands of `modem_hal_connect`, which are alike to the channel
and the pipe.

### WpaCtrl, WifiConfig and WpaService

`WpaCtrl` has the three connections of a radio (control, monitor, mesh) with
their sockets and files, and one `wpa_ctrl_request` at a time: send (the retry
loop may give up at any time; `RetryClock` says when), select, receive, skip an
unsolicited message, time out. A reply is its first word and length and, as
history, the number of the command it answers. A command carries the address it
was sent from: the supplicant's reply to an address that is gone, or that belongs
to another socket by now, is dropped. A HAL function in `WifiConfig` is
a table of commands, each with the test the code makes of its result, over one
reply buffer whose length each reply shortens. The supplicant is external: it
keeps the networks, refuses, is slow or dies.

`ConnectionsAreServices` is the refinement `WpaService`: `busy` maps to the
connection whose command has been sent and not answered, `taken` and `sent` to
themselves. `WpaService` is honest about the weakness of the protocol: a reply
that is taken belongs to the oldest command without one, which after a timeout
is not the command that was just sent.

### WifiNetlink, WifiEvents, RadioManager

A request is sent and then awaited until a handler clears its flag; the kernel
has answered when the send returns. The value of a setting is the number of the
radio whose configuration it came from, so that a mixed-up radio shows; an
interface name is a sequence of characters because the table compares prefixes.
`WifiEvents` has one thread of the HAL with the place `at`; supplicants send
events only while it waits (`at = "wait"`): an event that comes earlier stays in
its socket until then, so nothing is lost by it. `RadioManager` starts the
programs on several machines (what the kernel lists) and with several lines of
options.

### TextInputs and Support

Both put parts that share no state under one specification: a behaviour is one
call, or one run, of one part. `TextInputs` keeps the variables of its readers
apart. `Support` lets its ten parts use the same variables in turn (`v1` is the
first variable of whichever module runs, and so on), since two of them never run
in one behaviour; the properties of a part are those its own module states.

Data is abstract where no property is about it: a scalar of a YAML file is its
keyword, length, number and whether it has a forbidden character; a line of
command output is its length; a stream of bytes is text, newlines, `>` and blanks
in any order; a backtrace is a sequence of names of which one is
the beginning of another. Bytes keep their identity in `AtReadline` (their
position in the stream) and in `OsAlloc` (who stored them).

`RadioYaml` keeps the order of the arrays in memory (`Layout`): what a field is read
as (`Read`) is the text up to the first terminator, which lies in a field behind it
when a value fills its array. The validation answers -1 for a clean value, but
also when `regcomp` or `regexec` finds no memory (`Unvalidated`, at most
`MaxRegcompFails` times): the caller takes either for valid. `SysCmd` has the response
buffer, whose bounds the code keeps, and the two names of `NAME_SIZE` bytes that
`strcpy` copies it to without a test: `modem` and `wwan` are the lengths copied,
`overrun` the bytes written behind both.

`AtReadline` keeps the bytes that earlier reads left behind the data. Behind a
prompt the cursor is one byte past the data (`atchannel.c:412`), and when `memmove`
has moved a partial line up (lines 364-366) its old copy is what it points to. The
streams of the instance have prompts behind text, behind a ditched line and behind
one another. Nothing calls `at_send_command_sms`, so that prompts come only from a
modem that prints one by itself.

`HalLifetime` has, beside the heap, the pipe that `modem_hal_attach` makes and the AT
channel with its reader that the daemon's test opens, and a `malloc` of the modem's
configuration that fails there, after which the test may read through a null
pointer (`crashed`).

A capture of `WifiStats` is its program of words with the scan of the supplicant among
them. At each word the file may not open, which ends the capture at once, or the
driver may refuse the word, which nobody sees; neither is bounded. `left` is the
set of radios whose scan such a step left on.

## 3. Runs

| Run | Checks | Bounds | States |
|---|---|---|---|
| `AtAnswers` | `AnswerFaithful`, `UrcDelivered`, `PduOnce` | 1 thread, the 5 kinds of call (SMS included), 2 commands, 2 lines or prompts per answer, 1 unsolicited text or SMS notification | 2263781 |
| `AtClose` | `TypeOK`, `ResponseOwned`, `NoEmptySuccess`, `CallsReturn` | 2 threads (one only closes), handshake of 2 tries, 1 timeout, hang-up, 1 unsolicited final response | 234620 |
| `AtTwoWriters` | `MutexExclusive`, `NoDoubleOwner` | 2 command threads, 3 commands; a crash stops the system | 49951 |
| `SimConnects` | `UpMeansConnected`, `NeverLocksSim`, `AttemptEnds`, `ConnectsEventually` | 3 tries, 10 registration queries as in the code, 4 faults, final errors; a crash or a lost answer stops the system | 3938 |
| `SysEvents` | `EventsInOrder`, `NoDeviceNoModem`, `HandlerNeverBlocks`, `EventsHandled` | pipe of 2 messages, 5 commands, 1 line per answer, 1 SMS notification, 1 timeout, 1 handshake try, a device that may be missing | 194347 |
| `WifiConfig` | `SuccessIsComplete`, `NoOpenNetwork`, `ConnectionsReleased`, `ConnectionsAreServices`, `SessionEnds` | sessions of radio_manager and of the unit tests, a socket of 1 datagram, 2 refused commands, stale files | 12953 |
| `WifiRadios` | `RadiosFound`, `RadiosApart`, `OwnEvents`, `ManagerJoins`, `EventLoopLives` | `WIFI_RADIO_MAX` 2, dumps of up to 3 interfaces whose names are prefixes of each other, 1 failing setting; programs end | 222458 |
| `TextInputs` | `ConfigSound`, `ReportsSound`, `OutputSound`, `ConfigEnds` | files of 2 keys, lists of 3 files, broken files, values that fill their array, 1 validation without memory; chunks of 4 bytes for 128, buffers of 3 to 9 and names of 3 for 20; lines of 3 fields, whole and cut; calls end | 67448 |
| `Support` | `BytesComplete`, `RetriesTimed`, `HalGivesBack`, `ScanSwitchedOff`, `HelpersRight`, `BlocksTraced`, `FailsOnRequest`, `SupplicantOwn`, `EveryCallEnds` | see below; calls end | 519679 |

Why the bounds are enough. Two commands are enough for one answer to be taken for
another's; two lines for their order to matter; one unsolicited message because
the properties relate one such message to one command; five commands are the way
from the handshake to `MODEM_IF_UP_STATE`; three lines can reach the handler on
that way, more than the pipe's two. `HANDSHAKE_RETRY_COUNT` is 2 instead of 8,
because the tries are alike, and 1 in `SysEvents`, because `AtClose` and `AtDrain`
cover retries. A queue of one datagram is full after one command, so EAGAIN
happens; two refused commands are one more than any function looks at in a row.
Two radios are what the HAL is built for (`WIFI_RADIO_MAX`), and the third
interface of a dump finds the table full. In `Support`: a line buffer of 5 bytes,
all streams of up to 6, those of text and newlines up to 8, and up to 6 texts,
newlines and whole prompts in a row, so that lines end before, at and behind the place where it is
full, are ditched and are moved up, with and without prompts; boot times around the first second, with and without a fraction, and
two lengths of a sleep; every command line of the daemon of up to three options
with one failing allocation; two radios with every pair of drivers and three calls, with
any words refused and any files not opened; buffers that are empty, full and in between; all channels
to 200; 2 addresses for 2 callers, so that a freed address can be handed out
again and a resize can move, 4 calls, because use of a stale pointer to a block
that was handed out again needs four, and sizes that wrap; patterns of up to 3
segments with every mark over backtraces of up to 3 frames; 2 radios and 3 opens.

What the properties of the second half say, beyond their comments:

- `SuccessIsComplete`: create_ap and join_mesh, when they report success, have
  enabled a network on which all they need was set, even after timeouts.
  `NoOpenNetwork`: as long as no request was given up, no enabled network lacks
  its name or the key it should have.
- `ConnectionsReleased`: no freed connection is used and no socket file is left,
  unless the unit tests go on after a failed open.
- `RadiosFound`: the table has each interface once and none of another, except
  for the names the prefix comparison takes for known; `RadiosApart`: settings
  and readings are those of the radio; `OwnEvents`: an event changes the state of
  its own radio.
- `EventLoopLives`: starting ends unless the kernel refuses a setting, and events
  that were sent are read as long as the loop runs.
- `HalGivesBack`, `BlocksTraced`: exactly which resources are not given back, and
  after which failure. Of the modem's descriptors at most one pipe for each modem
  attached stays open, which neither `modem_hal_detach` nor `modem_hal_close` closes,
  and one AT channel for each modem tested, but for the test of the RSSI, which
  leaves none.
- `ScanSwitchedOff`: in every state, whatever was refused or could not be opened
  before: a scan is on outside a capture of its radio only when the driver refused
  the `disable`, or the file of the `trigger` or of the `disable` could not be opened;
  nothing switches it off then before the next capture.
- `ConfigSound`: each field is read as the last fitting value of its own file, and
  goes on into the field behind it exactly when that value fills its array; a list
  with forbidden values is accepted only when each of them met a validation that
  found no memory.
- `BytesComplete`: no byte of the stream is lost but for ditched lines, and none is
  returned twice but for a stale byte behind a prompt.
- `ConnectsEventually`: what leaves the event thread in `MODEM_INIT_STATE` for good,
  where the network is reached some day, is a lost answer or the crash on a final
  ERROR without a line, and nothing else.

Runs that end in a violation show where the code differs from what it says:

| Run | What it says | What it does |
|---|---|---|
| `AtDrain` | comment in `at_handshake`: unmatched OKs are drained as unsolicited | the pause holds the mutex the reader needs; the OK answers the next command |
| `SimLastTry` | comment in `modem_hal_connect`: the last retry is not used | an answer without an SC line returns an uninitialised count |
| `MeshFwding` | `wifi_example_0.yaml`: `mesh_fwding: 1` enables 802.11s routing | `init_stage_2_handler` passes the address of the array of configurations; any value is sent |


`AtDrain` and `SimLastTry` meet: an OK left over from the handshake is exactly an
answer to AT+QPINC? without lines, if it comes that late.

### Fairness

`FairSpec` (AtChannel) gives each thread strong fairness inside a call and the
reader strong fairness, because the mutex is free again and again and pthreads
does not pass a waiter over forever; the modem ends each answer (weak fairness).
Nothing is assumed of timeouts, spurious wake-ups, unsolicited lines or
hang-ups. `AtClose` sets `OnReaderClosedSet`: the HAL itself never registers that
callback, and then `CallsReturn` does not hold after a hang-up: the command waits
forever. `FairSpec` (ModemConnect) lets the event thread run,
which does not bring back an answer that was lost; `ConnectsEventually` assumes `NetworkReached`: a network asked again and again
registers the modem some day. `SystemFairSpec` is the fairness of the channel and
of the HAL's own thread. The other specifications only assume that the next
statement of the running code is executed (weak fairness of `HalStep`,
`WifiStep`, the programs, `YamlStep`, `Statement`); nothing is assumed of
supplicants, kernel, driver, clocks and users, and `select` times out.

## 4. Proofs

For every number of threads, set of requests and bound (from
`ConstantsAssumption` and `NullAssumption`):

- `TypeCorrect`: `TypeOK` is inductive by itself.
- `MutexCorrect`: `MutexExclusive`, inductive given the types.
- `SuccessHasFinal`: `NoEmptySuccess`: a call takes the response with a final
  response or with the channel closed, and the second is an error.
- `SoleCommanderOwnsResponse`: `ResponseOwned`, if there is one command thread. It
  needs `CallersKnown` (only command threads are inside a call, and nobody is
  before `at_open`, which resets `sp_response`) and `MutexExclusive`.
- `ResponsesHaveOneOwner`: `NoDoubleOwner` for any number of command threads. It
  needs `FreshIds`: a response is made for the last command written, so every
  older response has a smaller number.

For every SIM, number of tries and number of faults (from `BoundsAssumption`):

- `SimIsNeverLocked`: `NeverLocksSim`, if every answer to AT+QPINC? has a line for
  PIN1. It needs `CountIsFresh`: when the PIN is sent the SIM still asks for it
  and has at least as many tries as were read, and a SIM without tries asks for
  the PUK.
- `UpIsConnected`: `UpMeansConnected`, with `PastPin`: the steps after the PIN are
  taken with a ready SIM.

For every number of threads and lines, every size of the reads and every
interleaving (the same assumptions):

- `UnsolicitedAreDelivered`: `UrcDelivered`. It speaks of where a
  line is between the modem and the handler, so the invariant `Flow` says that for
  every place: the modem numbers its lines and sends the two lines of an SMS
  notification together (`HistoryKnown`); `s_ATBuffer` and the serial line hold
  exactly the rest of what was sent (`InputKnown`); the line in the reader's hand
  is the last it took, and `line1` is kept until its partner is there (`ReaderAt`);
  the handler has had all earlier lines nobody could claim, in order
  (`Delivered`); and type and prefix that processLine compares with are those of a
  call that was made (`PendingKnown`, without which a stale prefix could claim a
  line).

With one command thread, as in the program (the hypothesis is that any two members
of `Commanders` are equal), and again for every number of other threads, lines,
reads, timeouts and interleavings (`AnswerProofs`):

- `AnswersAreOwn`: `AnswerFaithful`; `SmsSentOnce`: `PduOnce`. Both properties speak
  of the time before a handshake was given up or a final response came unsolicited
  (`InStep`); `AtDrain` shows what happens after. The invariant `Answers` keeps
  commands and answers in step: whatever is still on its way, to the modem or from
  it, belongs to the last command, and that one waits (`Together`); what has been
  written is numbered in order (`WrittenInOrder`); after the final response
  nothing of the answer is still to come (`AnswersEnd`);
  the pending request and what it was called with are those of the waiting thread
  (`RequestKnown`); the lines collected are what the request claims of the lines
  processed so far (`Collected`), and stay so in the caller's hands
  (`HandedOut`); and a PDU that is still armed has not been sent (`PduKnown`). `UnsolicitedAreDelivered`'s
  `Flow` and the invariants of ownership are used for all of it: a line of the
  answer is a line of the modem's history, and nobody but the waiting thread can
  take the response.

For every capacity of the pipe and number of tries (with `SystemAssumption`: the
HAL's thread is the one that commands):

- `NoModemWithoutDevice`: `NoDeviceNoModem`. It needs `DeviceInv`: without a device
  nothing is ever pending, so the handshake goes only from the lock over failing
  writes to a return with an error.
- `EventsKeepOrder`: `EventsInOrder`, from `Flow`: each call of the handler brings
  a line that is newer than all before, and an SMS notification is one call.

For every set of sessions, size of the supplicant's queue and number of refused
commands (from `WpaAssumption` and `SessionAssumption`):

- `ConnectionsImplementService`: every step of `WifiConfig` is a step of
  `WpaService` or leaves it alone. The refinement needs `RepliesInOrder`: what is
  queued at the supplicant and in a socket of a connection are, in order, the
  replies to its last commands, and a reply to an earlier owner of the address
  cannot be among them.
- `ConnectionsAreReleased`: `ConnectionsReleased`, if no session joins a mesh twice
  (`JoinsOnce`). It needs `Places`: at each place of the program, which handles
  are open.
- `NoHalfConfiguredNetwork`: `NoOpenNetwork`. The invariant `Course` ties the step a
  function has reached to what the supplicant has done: as long as nothing was
  given up, the command under way is the only one not answered, and each setting
  passed over is set in the network that was added.
- `SuccessMeansComplete`: `SuccessIsComplete`, for sessions in which a function
  that makes a network is called alone (`ConfiguresOnce`). After a timeout on the
  way join_mesh can still succeed, so `Course` alone is not enough: `Finished` says
  what a function that returned 0 has done, and `Lone` that nobody undoes it.

`JoinsOnce` and `ConfiguresOnce` are what `init_handler` and the unit tests do; TLC
evaluates both on the sessions of the run `WifiConfig`.

For every `WIFI_RADIO_MAX`, dump, configuration and line of options (from
`NetlinkAssumption` and `RunsAssumption`: in a dump, nonempty names are distinct,
as the kernel guarantees; the unit tests are asked about an index that the arrays
have):

- `RadiosAreFound`, `RadiosAreApart`, `EventsAreOwn`, `ManagerWaits`: `RadiosFound`,
  `RadiosApart`, `OwnEvents` and `ManagerJoins`, all from one invariant `Inv`. Its
  parts beyond the properties: what the netlink socket holds is the answer to the
  request that is awaited (`QueueKnown`); the table is filled from the front, by
  interfaces already seen, and each interface seen has found a place or a reason
  for none (`TableKnown`, `NothingLost`); a setting is sent with the phy of the
  radio it is for (`SettingsKnown`); which monitors are open, and which events were
  heard, at each state of the machine (`MonitorsKnown`, `StatesKnown`,
  `EventsKnown`).

For every line of options, clock, card, string and number of radios
(`SupportProofs` and `HelperProofs`; each theorem is about one part and says nothing of the others):

- `OwnSupplicantsOnly`: `SupplicantOwn`. A socket file that `wifi_hal_open` finds
  may be one that a supplicant of an earlier start left, which is why it removes
  files first: `SocketsFresh` says that for the radios the loop has passed the file
  is gone or was made by a supplicant of this open, unless a command was not run.
- `RetriesAreTimed`: `RetriesTimed`, if the clocks show microseconds of a second and
  there is a longest delay (`UptimeAssumption`, `DelayAssumption`). `ClockSettled`
  says which clock is chosen and that a clock the kernel does not know is given up
  before a start is taken; `AgeIsWaited` that, unless the clock was set, the age of
  the start is what was waited, less at most one sleep: the one before a start in
  the first second was taken again.
- `ScanIsSwitchedOff`: `ScanSwitchedOff`, if each card has one of the drivers the
  HAL knows or none (`MachinesAssumption`), over any number of refused words and files
  that do not open. `InProgram` says which words of its program a capture has
  written at each step of it, taken or refused, `TablesKnown` which of the HAL's
  tables go with the driver that is there.
- `HalGivesAllBack`: `HalGivesBack`. `HeapKnown` says what each pointer is after
  the attach of a radio of either kind, after its test, and between two options,
  where no object is left; `OnlyModemsLeft` counts the pipes and AT channels against
  the modems among the options. This proof found a fault in the model:
  three operators were CASEs whose guards overlap, so that their value was any of
  two, though TLC always took the one meant. They are IF-chains now.
- `HelpersAreRight`: `HelpersRight`. Channels go up to `LastChannel`, behind which the
  frequencies of the 5 GHz band run into those of the 60 GHz band and a channel
  would not come back (`ConvertAssumption`); strings end at their terminator
  (`UnixAssumption`). `MacSoFar` says which bytes of an address stand in the
  text after each step of the loop, `SleptSoFar` that slept and remaining time make
  up the pause, `CopySoFar`, `PathSoFar`, `FileSoFar` and `HeldSoFar` what a function of
  `os_unix.c` has done and holds on its way.

The modules with theorems use no recursive operator. All parts of the inductive
invariants were checked with TLC on the instances of section 3 as well.

Only model-checked:

- liveness (`CallsReturn`, `AttemptEnds`, `ConnectsEventually`,
  `HandlerNeverBlocks`, `EventsHandled`, `SessionEnds`, `EventLoopLives`,
  `ConfigEnds`, `EveryCallEnds`), which this prover cannot do under fairness;
- what compares data that was built step by step with a reference that folds,
  filters or sorts all of it, which needs induction over the data:
  `ConfigSound`, `ReportsSound`, `OutputSound` (readers of text), `BytesComplete`
  (lines of a stream, digits of a number, words of a string), `BlocksTraced`
  (removals from a list, sums of sizes), `FailsOnRequest` (matches of a pattern).

## 5. Observations

Met while modelling; the models have them, no run is about them.

- AT channel: `s_writeMutex` is never taken, so two writers free each other's
  response (`AtTwoWriters` reaches the crash). After a prompt `s_ATBufferCur` is
  one past `p_read`, contrary to the comment at `atchannel.c:412` that
  it never is, and a byte that an earlier read left there begins the next line
  (`AB\r>` and then a blank, with a buffer of 4); and the `memset` at line 344 clears past the buffer's end.
- Modem: the exit status of a command is dropped, so a failed qmicli counts as
  connected. A final ERROR leaves no line, which is read all the same.
  `modem_hal_get_rssi` returns 85 dBm for 99, discards what AT+CIND says and
  doubles an unset value when AT+CSQ fails; `+CME ERROR: 0` is taken for success.
  Names from the shell are copied to 20 bytes without a test. No command but those
  of the handshake has a timeout, so that one lost answer stops the modem.
- wpa connections: a second `wifi_hal_join_mesh` on a radio would write over
  `ctx->mesh_ctrl` without closing it (`wifi_hal_main.cpp:791`) and leave its socket
  and file behind. No program calls it twice; the proof of `ConnectionsAreReleased`
  needs that as an assumption.
- Configuration: a value that fills its array has no terminator, so that a
  32-character ssid, which `radio_hal_yaml.h:10` allows, and a 5-character pin run into the next field; a
  validation that finds no memory passes for a clean value; the empty
  value is refused because its length wraps; a number out of range becomes -1;
  the modem's configuration is not cleared, so that a missing pin is whatever the
  heap holds and may cost a try; a forbidden value leaks file and parser; a
  scanning error is never noticed, but no file in which it occurs is accepted.
- wpa socket: after a timeout every call gets the reply of its predecessor
  (`wpa_ctrl.h:477`); `wifi_hal_connect_ap` returns 0 when setting the ssid is
  refused; `wifi_hal_get_scan_results` copies an unset buffer when it fails.
- netlink: a refused setting hangs the caller, for no handler clears the flag;
  `wifi_hal_switch_channel` never returns; a wireless device without a name is
  read through a null pointer; a failed ioctl gives the address 00:00:00:00:00:00.
- Events: with one card and `WIFI_RADIO_MAX` 2 the loop spins; a positive error
  of `pthread_create` is not noticed. Supplicants pile up over restarts, since
  nothing stops them.
- Resources: the pipe of a modem is never closed; `set_cb` is never released; when a callback cannot be allocated the
  others are put twice. radio_hal_daemon with an option but no function to test
  compares a null pointer, though its help gives such a line; its modem test
  writes the configuration over `ctx->config`.
- Statistics: a capture that cannot open the file of its `trigger` or `disable`, or
  whose `disable` is refused, leaves the scan on; the daemon never initialises the debugfs directory, so that files
  are looked for, and made, in the root directory; `wifi_debugfs_search` takes a
  file it could open for an error and reads one it could not; a capture that
  succeeds is reported as -1; the RSSI is printed as an unsigned byte.
- OS support: a directory longer than 1023 bytes cannot be made absolute;
  `os_malloc` adds its header without a test, so that a size that passed the test
  of `os_calloc` may still wrap; the pattern matcher does not go back, so that `=`
  behind a plain or optional segment may overlook a call that it describes.
- `radio_hal_msg_send` passes the address of its own parameter to `msgsnd`
  (`radio_hal_msg.cpp:36`), so that nothing that was given is sent. Nothing calls
  it, and the queue is not modelled.

## 6. Not modelled, and the plan

Left out: the RIL headers (declarations of functions that are not in the
repository); the message queue (called by nothing); `wifi_hal_tx_frame` and the
frame helpers (called by nothing); the rest of `os_unix.c`, `os.h` and
`common.h` (wrappers of one call, macros, ANDROID variants), and the UDP,
named-pipe and ANDROID variants of `wpa_ctrl.c`, which the build does not use; a
second `-w` on one command line of radio_manager; a sleep that a signal cuts short;
texts that are printed.

Next:

1. An abstract AT service (a queue of requests, each with its own answer) and its
   refinement by `AtChannel`; `Answers` has the facts it needs.
2. `ListIsLive` of `OsAlloc` and `NothingLost` of `AtReadline`, with their folds
   replaced by history variables.
