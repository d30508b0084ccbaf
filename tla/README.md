# TLA+ models of the RT-Thread RuiChing SDK

The repository is the SDK of the RuiChing RK3562 board: board packages and
examples, drivers, and the components that run on RT-Thread. Most of its 1.4
million lines are third-party libraries; the kernel itself is not in it (the
SDK calls it through a table of functions, `rt-thread/src/kpi.c`). What the
repository owns is a number of small, concurrent programs: network services,
device frameworks with interrupt handlers, examples of several threads.

Five of them are modelled:

* **TFTP** (`net_apps/tftp/`), client, server, transport and file backend, complete;
* the **MQTT client** (`net_apps/pahomqtt/`, pipe mode), worker and application threads;
* the **telnet server** (`net_apps/telent/`), which lends the shell a console;
* the **FTP server** (`net_apps/agile_ftp/`), listener, sessions and commands;
* the **CANopen alarms on a hardware timer**: the alarm table of CanFestival and
  its port (`industrial_bus/CanFestival/`), the timer framework
  (`drivers/hwtimer/`) and the RK3562 driver (`platform/drivers/hwtimer/`).

## 1. Inventory

### TFTP

| part | state | operations |
|---|---|---|
| file backend `tftp_port.c` | open files, their offsets | open, read(pos), write(pos), close; the msh command |
| transport `tftp_xfer.c` | per xfer: socket, peer (`sender`), block counter (16 bit) | send request, data, ACK, error; wait for an ACK; read data; receive a request on a new socket |
| client `tftp_client.c` | one xfer, retries left, size so far, `err` | `tftp_client_push`, `tftp_client_pull` |
| server `tftp_server.c` | table of sessions, one xfer and one file each; retries left; chunk sent last | accept a request, handle data, timeout of all sessions, stop |

Client and server are loops around `select` with a timeout of 5 s and share
nothing but datagrams. Every request gets a new session on a new socket. Hard
here: both ends have a timer, so each may repeat what the other has already
answered; a repeated request makes a second session for the same file; late
datagrams of one call reach another; every call into files, heap and sockets
may fail on its own. What makes it correct: a file is stored in order, without
gaps, never damaged by a second session; what is acknowledged is stored; a call
never returns more than is stored, and one that leaves by its last block has copied
the whole file; calls return; slots become free.

### MQTT client

| part | state | operations |
|---|---|---|
| worker thread `paho_mqtt_thread` | where it waits; the handler to subscribe next | connect, wait for CONNACK, subscribe every handler, loop (packet, ping, pipe), disconnect, delay, exit |
| application threads | the call each is in | publish, subscribe, unsubscribe, stop |
| shared, without a lock | `isconnected`, `messageHandlers`, `pub_sem`, the pipe, `buf`, the socket | |

Hard here: everything is shared and nothing is locked; the worker reconnects at
any time; one read takes several items out of the pipe; the socket is read by
whoever waits for an answer. What makes it correct: one published message at a
time, none lost on the way to the worker; handlers and the broker's session
agree when the worker is online; the worker always comes back online; every call
returns.

### Telnet server

| part | state | operations |
|---|---|---|
| server thread `telnet_thread` | `client_fd`, `recv_buf`, protocol state, saved echo mode | accept, greet, drain the transmit ring, receive and decode, close |
| `te_send` thread | the piece in its `tx_buffer` | drain the transmit ring when notified |
| console device | transmit and receive ring, one mutex each, two semaphores | `telnet_read`, `telnet_write`, called by the shell |

Hard here: two threads drain one ring and send without the mutex; the
connection may be closed, and the next one accepted, while a piece is in hand;
telnet sequences may be cut by `recv` anywhere; a notice more or less leaves the
shell waiting; rings overflow. What makes it correct: a byte goes out once; the
shell reads what the stream means; every option is answered; nobody waits for
ever; the shell gets its console and its echo mode back.

### FTP server

| part | state | operations |
|---|---|---|
| listener `ftp_entry` | socket, `force_restart` | open, accept, restart itself and its sessions |
| sessions `ftp_client_entry`, a thread each, in a list | login, directory, offset, data connection, timeout | the commands of `session_cmds`, transfers, timeout, forced end |
| shared | file descriptors, the tick, the limit of sessions | |

Hard here: descriptors are few and reused at once; a command fails half way; the
tick wraps; a restart meets a session anywhere; one session removes the directory
another works in. What makes it correct: descriptors have one owner; the limit
holds; sessions end when they should, not before; what one client is told (offset,
directory, login) is what its later commands act on.

### CANopen alarms and hardware timer

| part | state | operations |
|---|---|---|
| alarm table `timer.c` | rows, end of the table, sleep time | `SetAlarm`, `DelAlarm`, `TimeDispatch` |
| port `timer_rtthread.c` | semaphore, time of the last dispatch | timer thread, `setTimer`, `getElapsedTime`, the device's callback |
| framework `hwtimer.c` | `cycles`, `reload`, `overflow`, mode | init, read, write, the interrupt |
| driver and counter | registers, the mask of the interrupt | start, stop, the handler |

Hard here: the handler runs on any of four CPUs, between any two register
accesses of a thread that sets the timer; disabling the local interrupts holds
nothing back; callbacks set and delete alarms while the dispatch runs over the
table; no time counts from the end of a timeout to the next; a read may give the
count of a period that is over. What makes it correct: an alarm that waits always has a
wakeup; the dispatch sees every alarm; alarms go off on time.

### Not modelled

| component | what it keeps | what is hard | what should hold |
|---|---|---|---|
| MQTT client, UDP mode | as in pipe mode, a loopback socket for the pipe | datagrams are not merged, but may be dropped | as in pipe mode |
| web server | sessions and phases in one select loop | partial requests, aborted sessions | every session is closed once |
| rest of CANopen (vendored CanFestival) | NMT state, heartbeat consumers, SDO lines | CAN reception against alarms | no PDO outside Operational |
| EtherCAT example | run and direction flags | shell against cyclic thread | no motion after a stop |
| IPC and AMP examples | kernel objects | demonstrations only | |
| web client, OTA loader, iperf, rt_perf, device frameworks | little | sequential | |
| C library glue, kernel table | none | | |
| lwIP, open62541, mbedTLS, Modbus, LVGL, OpenCV, ncnn, SQLite, cJSON, Lua, MicroPython | | third-party code, left aside | |

PROJECT.json lists them with their files, and the hazards of each at its line.

## 2. Modules

| module | models |
|---|---|
| `TftpPort` | files as functions from positions to chunks; reads and writes by position; which calls may fail |
| `TftpXfer` | packets, the network, the transport's comparisons of block numbers |
| `TftpClient` | `tftp_client_push` and `tftp_client_pull` |
| `TftpServer` | the server's table and handlers |
| `Tftp` | client, server and network together; properties; inductive invariant |
| `FileCopy` | the abstract specification: files are copied front to back, and no call returns more chunks than its copy holds |
| `MCTftp` | values for TLC |
| `Tftp_proofs`, `TftpSafety_proofs`, `TftpOrder_proofs` | types; the invariant, resends and the implementation of `FileCopy`; copies with any backend and any fault |
| `MqttLink` | TCP connection and broker (not code of the repository, modelled as it is used) |
| `MqttPipe` | the worker and the application threads |
| `Mqtt` | fairness and properties |
| `MCMqtt` | values for TLC |
| `Mqtt_proofs` | one message at a time, types, table and broker |
| `TelnetStream` | what one byte does in `process_rx`; the meaning of a whole stream (`Parse`), which no code has |
| `Telnet` | server thread, `te_send`, shell, rings; properties |
| `MCTelnet` | streams for TLC, and `process_rx` against `Parse` on every short stream |
| `Telnet_proofs` | types, bytes go out once, the reader is woken, the echo mode, text and options as the streams mean them; `process_rx` alone on every stream |
| `FtpSession` | the commands, each as the set of its outcomes |
| `Ftp` | listener, sessions, clients, descriptors and tick; properties |
| `MCFtp` | values for TLC |
| `Ftp_proofs`, `FtpPromise_proofs` | types, descriptors, limit, directory, login; resumed files, timeouts |
| `HwTimer` | framework, driver and counter of a one-shot timer, and its interrupt handler |
| `CanTimer` | alarm table, port and timer thread on top of it; properties |
| `CanTimer_proofs` | types, end of the table, wakeups, alarms on time |

`Tftp` composes `TftpServer` and `TftpClient`, which extend `TftpXfer` and that
`TftpPort`; `CanTimer` extends `HwTimer` and composes its steps with its own;
`Telnet` and `Ftp` extend the pure part of their component.

### How TFTP is modelled

A chunk is a pair (file, position); a file has `FullBlocks` chunks of the block
size and perhaps a shorter last one; `Empty` is a read of nothing. Positions
and sizes are counted in blocks. A step of the client or of the server is all
it does from one return of `select` to the next call of it: the two threads
share nothing, so nothing can happen in between that matters. A datagram stays
in `net` until it is received, and may stay after that (repetition); a datagram
nobody ever receives is lost. `Lose` removes one for good: needed where the
timers wait for the network (`Prompt`).

`tftp_client_*`: `cpc` says which select waits (`"request"` for the first
answer, `"data"` afterwards). `ClientStart` sends the request, `ClientTimeout`
repeats what is unanswered or gives up, the `Pull...` and `Push...` actions are
what a datagram causes, one for each exit. The retry count is the code's
`max_retry`, the exits are in `outcome` (the code's `break`s and returns). What
the caller sees of them is only `Told`: the size returned, and `client->err`. A call
that gave up on its last timeout returns the size so far with `TFTP_OK`
(`tftp_client.c:205`), so that a copy without its end is told like a whole one. `FileCopy` therefore
promises only what holds in every exit: the size told is in the copy, front to back, and
who knows the length can tell by it. `CompleteIsWhole` and `PushedIsWhole` speak of
the exit by the last block (`outcome`), which is not a value the caller gets.

`tftp_server.c`: `ServerRequest` is `tftp_server_request_handle` with the
first send of `tftp_server_transf_handle(EVENT_CONNECT)`; `ReadAcked`,
`ReadBadAck`, `WriteStored`, `WriteFails`, `WriteBadData` are EVENT_DATA;
`ServerTimeout` is EVENT_TIMEOUT for every session in one step, as the loop
over the table does it. The retry loops of the two send functions are inlined:
`f` is how many attempts failed, and `Destroyed(f)` is the code's own test.
`RequestRefused` answers from the new socket, which is then closed.

The file backend is a set of weak functions. `Positional` and `NullOnFailure`
say how it behaves: `FALSE` is the backend in the repository (it ignores the
position; a failed open is -1, not NULL), `TRUE` the one its callers are written
for. Runs and theorems say which one they are about.

### How MQTT is modelled

The worker's program counter names the wait it is in; a step goes from one
wait to the next. A step of an application goes up to the next point where a
switch of threads changes what follows: after the semaphore, between the test
of `isconnected` and the write to the pipe, between sending a SUBSCRIBE or an
UNSUBSCRIBE and writing the table. The pipe is a sequence of items and a read
takes them all, as `read` with a buffer at least as long as the pipe does.
A packet an application cannot build or cannot send marks the client disconnected
(`MarksOffline`), also on a healthy connection: a topic too long for the buffer, a
send that times out. The worker reads `isconnected` only on its way online, so it stays
in its loop, online, while publish and stop refuse: no property says otherwise, as
no document does, and what holds is that every call returns (`CallsReturn`).
What follows the first message is lost, and a DISCONNECT with something behind
it is read as a message header: an undefined length, after which the model lets
the worker crash or disconnect. A topic may begin with the name of another
(`Longer`), which the code's `rt_strncmp` does not tell apart: an unsubscription
sends its UNSUBSCRIBE and then clears the first handler whose name begins with its
topic. If that is another one, its own stays in the table while the broker no longer
sends for it, until the worker connects again. The history variable `crossed`
names the topics this has happened to, and `OnlineSubscribed` exempts them: no
document says which of two such handlers a call means. It takes three topics, so
that a slot in front of the shorter name becomes free for the longer one, and five
calls (subscribe t3 and t1, unsubscribe t3, subscribe t2, unsubscribe t1), more
than the run `mqtt` has.

### How the telnet server is modelled

A byte of a client is named by what it is for the protocol; a byte in the
transmit ring is its place in the `log` of all that was ever put there, so
that sent twice, lost and reordered can be told apart. `Take`, `Advance` and
`Send` are the three parts of a round of `send_to_client`: copying out under the
mutex, moving the read index under the mutex, sending without it. Both threads
may be in it. The server thread's program counter `spc` goes through accept,
greeting, banner, receive, one byte of the buffer after the other, and the three
parts of `client_close` the shell can tell apart. The receive ring's mutex is
held over single calls only, so those are steps. `read_notice` and `send_notice`
are counters. The NUL behind a CR is changed in the buffer, as `process_rx` does
it; behind the last byte of the buffer it cannot be.

### How the FTP server is modelled

A handler of `ftp_session_cmd.c` is the set of its outcomes: the session and the
open descriptors afterwards, the reply, and whether it returned `RT_EOK`. RETR
and STOR open their transfer in an outcome; its pieces and its end are steps of
the session's thread (`Retrieve`, `Receive`, ...), as are the wait for a
command, the command, and the test of the timeout. Descriptors are numbers and
the lowest free one is taken, as the system does, so that a number closed twice
belongs to somebody else by then. The file system (`tree`) has the root, a directory and
the file that is served; MKD, RMD and DELE of any session make and remove the two.
A working directory is the root, the directory, there or not, or the empty path that CDUP
leaves at the root. A command is one step: a removal by another session between the
`opendir` and the reply of a CWD is not told apart from one right after it. A file that is
being read is read to its end, also when it is removed meanwhile, and STOR writes
another file than the one served. Time passes when every thread waits; a select that waits then ends, which
is its timeout of a second. Clients wait for an answer before the next command, and send
it once the session is in its select.

### How alarms and timer are modelled

`setTimer` is five steps: the two register accesses of `rk_stop`, the
computation of `cycles`, the two of `rk_start`. The interrupt handler is up to six,
and any of them may fall between any two of a thread, since the handler may run
on another CPU. Time is counted in ticks of the counter, and a handler that has
begun ends within a tick. `SetAlarm`, `DelAlarm` and each callback are calls of
the holder of the mutex: another thread's, or the timer thread's between two
triggered rows. A `TIMEVAL` is an `unsigned long`, which has 64 bits on this CPU
(`applicfg.h:43`), while `TIMEVAL_MAX`, the longest sleep, is `0xFFFFFFFF`: sums wrap at `Width`, far
from it. While the handler is not over, a read of the counter gives what the handler
found when it began (`Count`, `drv_hwtimer.c:150`), also when a thread on another CPU
has started the timer meanwhile: the count is `Stale`. Time also passes while
the counter stands (`Stands`): from the end of a timeout to the `setTimer` of the
dispatch, which may wait for the mutex, and before the first timeout. The history variables
say what an alarm still has to wait (`remain`), for how much of it the counter stood still
(`lost`), and whether the counter still shows all it has counted since the last
dispatch: it does not when a SetAlarm has restarted it, or when a period of a longer
timeout is over.

## 3. Runs

| run | instance | shows |
|---|---|---|
| `faults` | one transfer of 2 full blocks and a short one, 2 slots, 2 retries, repetition; every noticed fault; any number of failed sends; server stopped and restarted | stored prefixes, whole copies, nothing acknowledged too early, resends are resends; the inductive invariant; `FileCopy` is implemented: what a call returns is in its copy |
| `unseen` | the repository's own backend (ignores positions, a failed open is -1), failed opens and reads nobody notices, 2 full blocks and a short one, 2 retries, no repetition by the network | a pulled file may lack chunks, but has them in order and keeps them; a push that leaves by its last acknowledgement is whole |
| `live` | fair; repetition; one loss | calls return, slots become free |
| `prompt` | fair; three transfers of exactly 3 full blocks, prompt network | every call completes: no timer, retry or empty last block gets in the way |
| `mqtt` | two applications, 3 calls, 2 topics and handlers, a pipe of 2 items, one fault (a refusal, a break, a packet not built or not sent), one foreign message | one message at a time; table and broker agree; worker comes back; every call returns, also from a full pipe |
| `telnet` | two clients: one asks for the echo, the next doubles an IAC or sends CR NUL; rings of 2 and 4 bytes, pieces of 3, `recv` of 1 or 2 | bytes once; text and options as sent; notices; echo and console given back; all is sent. `ParsesEveryStream`: all streams of up to 4 bytes over all 12 kinds of byte, cut anywhere |
| `ftp_sessions` | two clients, one session, 5 descriptors, a tick of 3 values | descriptors, limit, timeouts across the wrap, forced restart |
| `ftp_files` | one client with USER and PASS of every kind, CWD, CDUP, MKD, RMD, DELE, PORT, REST, RETR and STOR; one session after the other; no forced restart | resumed files are whole; a confirmed directory can be opened until it is removed; storing, making and removing need the login |
| `can_alarms` | 2 rows, alarms of 1 or 2 ticks, periodic or not, a counter of 2, sleeps of up to 4 ticks, two alarms set, one tick of standing still for each | no alarm forgotten, none without a wakeup, none early or late while the counter is trusted but for the time it stood still, each goes off |

Three runs show what the code does against what its comments say (the findings
in PROJECT.json): `sequential_backend` (after a timeout the server of the
repository sends the *next* chunk under the old block number), `mqtt_retained`
(a retained message makes the worker reconnect for ever), `can_alarms_late` (the
elapsed time is counted from the last `setTimer`, the table from the last
dispatch: an alarm that restarts the timer makes others late).

Seen while modelling, in the models, and checked by no run: a TFTP block sent at
the very last attempt destroys its session while one that could not be sent at
all does not (`tftp_server.c:176`); an MQTT stop written right behind a message is
read with it and lost (`paho_mqtt_pipe.c:1134`); an MQTT publish that finds the
client offline keeps the semaphore (`:929`); an MQTT subscription whose packet cannot be
built or sent marks a healthy connection disconnected (`:1297`, `:1305`); an unsubscription may clear the handler of
a longer name (`:1351`, see above); a failed `setsockopt` of a new FTP
session closes the console's descriptor (`ftp_session.c:272`); `tftp_client_err` is `TFTP_OK` after a
transfer that timed out (`tftp_client.c:205`); no time counts for the alarms from the interrupt
to the next `setTimer` (`timer.c:170`); REST says "350 Send
RETR or STOR", and STOR forgets the offset (`ftp_session_cmd.c:685`).

Every property of a passing run has a mutant: an operator next to the original
that is wrong in a plausible way, with which TLC finds the property violated.

### Bounds, and why they are enough

* Files of one to three blocks have every case of a block: first, middle, last
  full, short, empty. `BlockMod` is 8 instead of 65536, above every block
  number used; wrapping is excluded by `OrderlySetting` and in the plan.
* Two retries: one that goes on, one that gives up. The code's
  `TFTP_MAX_RETRY` is 3 on both ends.
* `MaxSocks` bounds the sockets the server ever creates: two sessions for the
  same file exist together, which is what a repeated request makes. A server that only
  reads (`IsWrite`) is in no run: it refuses more requests; the theorems cover it.
* MQTT: one fault is one reconnect, or one packet not built or not sent, which every property
  is about (`MaxFaults` bounds them all); the bounded calls cover each pair of calls of
  two applications and one more, and fill the pipe. Liveness
  needs faults and foreign messages to end: that is what `GoesOnline` states.
* Telnet: two connections have everything one leaves to the next; the rings are
  so small that they overflow, and a piece is smaller than the ring, so that
  both threads hold one at a time. RxDecoded and OptionsAnswered say nothing
  once a ring was full (`full`), for then bytes are dropped.
* FTP: one session in the list and a second client that knocks reach the limit;
  the descriptors run out in the middle of transfers. `TickMod` 3 and `Timeout` 1
  make the tick wrap between any two commands; a file of 1 or 2 pieces has a
  middle to break off in. `Size` also ends a STOR whose client would keep sending for
  ever; a forced restart waits for as long as it lasts. `ftp_files` has no forced
  restart (`NoRestart`), which `ftp_sessions` has; the theorems have both.
* Alarms: two rows have an end of the table to lower and raise. `MaxSets` bounds
  the alarms ever set (2, and 3 for the violation), `MaxNotices` the notices that wait
  while time passes (2: one more than a dispatch takes). The counter's period is
  as long as the longest alarm plus an elapsed tick or shorter, so that timeouts
  of several periods occur. `TIMEVAL_MAX` 4 is the longest alarm twice,
  and `Width` 16 is beyond any sum. `MaxLost` bounds the ticks an alarm waits while the
  counter stands, and those noted after its time: with one, an alarm is late by the
  lost time or by another.

### Fairness

TFTP: both threads run; a select that can return does, with a datagram or with
its timeout. The network owes nothing. Nobody need make a call or stop the
server. MQTT: the worker runs, a call that has begun goes on, and the broker
answers what it has received; connections need not break and calls need not be
made. Weak fairness is enough everywhere: a wait, once over, stays over until
the thread acts. `Prompt` is not fairness but timing: timers of 5 s fire only
when nothing deliverable is in flight. In MQTT the delay before a reconnect (5 s)
is taken to outlast the few instructions between sending a SUBSCRIBE and
writing the table.

Telnet: the threads run; no client need send, and none need go, so the server
may sit in `recv` for ever. Mutexes are FIFO or of priorities, hence strong fairness for
what waits for one. FTP: the threads run and time goes on (`[]<><<Tick>>_vars`):
a thread never spins for ever without waiting. Alarms: the interrupt is taken,
the counter counts, the timer thread runs and gets the mutex in the end (strong
fairness: it is a mutex with priorities); no other thread need call. Nothing says that
the handler's end comes before the timer thread's read of the counter: it might, for ever,
read a stale count when it wakes and a fresh one when it dispatches, and take time back each time
(`Backward`). `GoesOff` excepts an alarm to which this happens.

Deadlock is not checked in TFTP, MQTT, telnet and FTP, which come to rest when all calls
are done or all clients gone. It is checked in the alarms.

## 4. Theorems

For every value of the constants that the named assumptions allow:

* `TypeCorrect`: the types, for every backend and every fault.
* `Invariance`: `SoundSetting => (Spec => []IInv)`, and from it `PrefixAlways`,
  `CompleteAlways`, `AckedAlways`.
* `ResendsAlways`: `SoundSetting => (Spec => []ResendsSameChunk)`; `sequential_backend` shows
  that the repository's own backend, which `SoundSetting` excludes from pulls, breaks it.
* `PromiseKept`: `SoundSetting => (Spec => KeepsPromise)`: `Tftp` implements `FileCopy`, in which
  a call tells a size and an error: the copy grows front to back, and the size told is never
  more than it holds, in whatever way the call ends and whatever `client->err` is then.
* With every backend, the repository's own included, and every fault, from
  `OrderlySetting` alone: `OrderInvariance`: `OrderlySetting => (Spec => []OrderInv)`, and from
  it `InOrderAlways` (a copy has chunks of its source only, in order, none twice),
  `PushesWhole` (a push that leaves by its last acknowledgement is whole), `StoredAnyBackend` (no step
  shortens or rewrites a copy) and, for a backend that honours positions,
  `PrefixWithFaults` (copies are prefixes, also when opens and reads fail unseen).
* MQTT: `TypeCorrect`; `OneAlways`: while publishing blocks, one message at a time
  is in the pipe or on its way there; `SubscribedAlways`: `OneSubscriber => (Spec =>
  []OnlineSubscribed)`. For any number of applications, topics, handlers, calls and
  faults.
* Telnet: `TypeCorrect`; `BytesOnce`: every byte put into the transmit ring is in
  one place, once; `ReaderWoken`: no byte waits without a notice; `EchoAlways`: the
  shell's echo mode comes back; `TextAlways`: the shell gets the text of the streams
  (`RxDecoded`); `AnswersAlways`: each option is answered once, in order
  (`OptionsAnswered`). For every size of the rings and the buffers, all streams and
  every way `recv` cuts them. `EveryStreamParsed`: `process_rx`, run byte by byte on any
  stream cut in two anywhere but between a CR and its NUL, stores the text and gives the
  answers that `Parse` reads in the whole; `StreamsParsed` is the run's property
  `ParsesEveryStream`.
* Alarms: `TypeCorrect`; `AllInScan`: no alarm behind the end of the table;
  `AlarmsWake`: no alarm without a wakeup; `OnTheCountAlways`: while the counter is trusted,
  an alarm goes off neither early nor late, but for the ticks during which the counter
  stood still since it was set. For every table, counter and width of TIMEVAL beyond
  the longest sleep. The counter is not trusted any more when a tick falls into a
  call (`slow`), or an alarm is set while the counter hides what has passed or by a stale
  count (`astray`).
* FTP: `TypeCorrect`; `DescriptorsKept`: one owner for each descriptor; `LimitKept`:
  the limit of sessions (for finitely many clients); `DirectoryKept`: a confirmed
  directory can be opened until some session removes it; `LoginNeeded`: only a client that
  gave the administrator's name and password stores, makes or removes; `ResumeExact`: a file
  resumed after a break is whole when the server says so; `TimeoutKept`: `TimeoutFits =>
  (Spec => EndsInTime)`. For any number of clients, sessions, descriptors and pieces.

`OrderlySetting` asks for one call per client object, new destination files,
and files without so many blocks that their numbers repeat. `SoundSetting` asks in
addition that, if files are pulled, the server has the backend it expects, without
failing reads. Without it a pull may lose chunks, and `PrefixStored` and
`CompleteIsWhole` are false of it: what is left is `InOrder`. Pushes need none of
this: a server that only stores meets no read.

`OneSubscriber` says that at most one application subscribes and unsubscribes. Two that
do so at the same time may find the same free slot (`paho_mqtt_pipe.c:1288`), so the
property is not true of them; the run has one as well. `TimeoutFits` asks for a timeout of
at most half the range of the tick, and a range of 3 at least: the code tests
`rt_tick_get() - tick_timeout < RT_TICK_MAX / 2` (`ftp_session.c:326`), its timeout is 3 s
(`:26`), and the tick has 32 bits.

*Why the invariant is what it is.* `PrefixStored` is not inductive: a block in
flight is stored if its number fits, so the invariant must say that a block
with number b *is* chunk b (`DataOK`); that follows from the session that sent
it, so sessions must be at the chunk their counter says (`SessionOK`), and the
client's counter at its size (`CallInv`). A block is sent after an ACK: an ACK
of b must mean that b chunks are stored (`AckOK`, `Holds`), which also makes the
end of a push mean a whole copy. Numbers from 1 on repeat in every transfer, so
a packet must not cross from one transfer to another: `Between` and `Belongs`
tie every session socket to one transfer for good. `Holds` can only grow, which
is why a second session may write the same file: it writes what is there. The
proof has a lemma for each of these parts, one step for each action, and one
lemma for what every packet a step adds must satisfy. `ResendsSameChunk` needs one thing
more (`OneReader`): all data a session socket ever sent went to the same client. That
is not in `Belongs`, since a socket that is closed belongs to nobody while its
datagrams are still in the network.

*With any backend.* A server that reads on instead of again sends another chunk in each
resend, or none, so a block is no longer the chunk of its number and `IInv` is lost.
What holds (`OrderInv`) is a matter of who sent what. A block with number b carries chunk b
or a later one (`FromReader`), so a pull that has stored fewer than b blocks could
only be put out of order by a block that carries a chunk too far back. It takes blocks from one
session only, once it has the first; other sessions of the same file, made by a
repeated request, were never acknowledged and can only have sent a first block
(`PullMail`, `PullSession`). Its own session is at most one block ahead of it, and has read
past everything it ever sent (`ReadSoFar`): what the next block will carry comes from
where the session reads now, behind all that is stored (`Reached`). A push never
mixes with a pull (`Pushed`): its packets, its sessions and its copy are chunk by
chunk what `IInv` says of them, with no condition on the backend, since a
server that stores reads nothing. The proof goes by frames: `OrderClient` and
`OrderServer` say what a step of one side must show, and each action shows it.

`OneMessageAtATime` is inductive with the types: the semaphore, the calls
between taking it and writing, and the messages in the pipe share one token.

`OnlineSubscribed` is about the moment the worker is online; the invariant (`SubInv`)
follows a handler from the connection on. While the worker goes through the table,
every handler in front of its slot is subscribed, or its SUBSCRIBE is behind every
UNSUBSCRIBE of the same topic on the way to the broker (`Kept`), and the others are still
to come (`ToCome`). An application between its packet and the table (`store`, `clear`)
holds a slot nobody else writes, which is where `OneSubscriber` is needed, and no topic is in the
table twice (`Distinct`).

`TxOnce` needs to know where a byte can be between the two halves of a round of
`send_to_client`: whoever is at `advance` holds the mutex, and what is in its hand
is still the front of the ring (`Telnet_proofs`). The ring's places increase from
front to back, so that a front taken away has nothing in common with the rest.
`EchoRestored` holds because the mode put by is the shell's own from the greeting to the
close, whatever the options do to the one in force (`EchoInv`).

`Wakes` needs an account of every pair of places of the handler and of
`setTimer`: which register the one has written and the other has yet to write.
The case that decides is a handler that stops the timer between the load and
the enable; the invariant says that it then still has its notice to give, or
that an earlier one is there. `InScan` needs the row that `SetAlarm` has chosen
and not yet stored to be within the table as well (`draft`).

`OnTheCount` needs to know how long the counter still counts until the timer thread is
told (`ToGo`): the rest of the period and the periods to come, what a step of `setTimer`
is about to load, or nothing once the handler has counted the last one. What has passed
since the last dispatch is the sleep time less that (`Passed`), also when the counter does
not show it. The invariant (`CountInv`) says that each alarm waits for its value less
what has passed, the ticks lost while the counter stood included, that the sleep time is at most any value in the table, and that
each timeout makes one notice: setTimer then never meets a handler on its way, which could
take a period from the new timeout.

`DescriptorsOwned` needs a session at a transfer, and no other, to have a file,
its descriptors to differ from each other (`Apart`), and a session that has not
begun to own only its connection, as its data connection is still the 0 of
`rt_memset`. Each command is shown to leave what it found but for what it names
(`Good`), and each step of a session to exchange only what it owns. For the
directory and the login, each command is one of five kinds (`CommandEffect`), only MKD,
RMD and DELE of a session that is not anonymous make or remove anything (`OnlyChanges`), and
every other step leaves login, state, directory and tree alone (`Calm`). What a command
leaves of the other sessions' directories is `StillOpen`; that only a
session of the administrator is at a STOR is part of the invariant.

`RxDecoded` compares the shell's bytes with `Parse`, which reads whole streams and looks
ahead, while `process_rx` goes byte by byte and `recv` may stop anywhere. The invariant
(`TextInv`) says of every continuation `y` that what came and `y` mean what the shell
already has and then what the bytes ahead mean: the buffer and `y`, behind the bytes that
led to the state of the protocol (`Ahead`). So a step only has to take the meaning of
one byte off (`ReadByte`), and a piece that comes is one of the continuations. A NUL
right behind a piece that ended in CR is excepted (`Joins`), as in the property; for the
answers it makes no difference (`ReadAnswers`, `AnswersInv`). `Parse` and `OptionsOf`
are recursive functions: that each has a solution, its types, and that what a stream
means from a place on is what it is from there on (`MeaningShift`), are inductions over
numbers, for which `Induction` follows from the library's theorem on least elements of
well-founded relations.

`ResumeIsExact` needs (`ResumeInv`) that what a client has is the start of the file, that the
offset it asked for is within the file, and that its session has this offset until a
transfer takes it: each command keeps the two together or resets both
(`CommandPlaced`). `EndsInTime` needs that the deadline of a session is as far ahead of the
tick as the session may still be silent (`TimeInv`); the rest is arithmetic of
remainders, in lemmas of its own (`NoTimeLeft`, `TickOn`).

`ParsesEveryStream` tries short streams against `Parse` with no rings and no threads
around; `EveryStreamParsed` says the same of streams of any length. It rests on
`ReadByte` and `ReadAnswers` too, by induction over the number of bytes read.

Only model-checked: everything about liveness (`ClientReturns`, `SlotsAreFreed`,
`PromptCompletes`, `GoesOnline`, `CallsReturn`, `AllSent`, `ReaderFreed`, `ForcedEnds`,
`GoesOff`), which needs fairness and ENABLED, and the violations.

## 5. Not modelled

TFTP: names, modes and options of requests (a request names its file by
number); the text of errors; the length field of packets; the last moments of
`tftp_server_destroy`; the race of the shell with the server's global pointer; a
failing `tftp_xfer_create`. MQTT: packet identifiers, the packet buffer the
threads share, keep-alive arithmetic, TLS, lengths, `paho_mqtt_control` (the
mode of publishing is a constant), callbacks that call the interface, a refused
subscription. Telnet: writes from an interrupt, the POSIX entry for `poll`, the
allocations at the start, the order of pieces on the wire. FTP: the text of
commands and replies, relative paths but `..`, commands sent ahead, two clients
with the same file, `ftp_set_port`, `ftp_set_max_session_num`. Alarms: a full table has no step, a callback is
some calls of `SetAlarm` and `DelAlarm`, seconds and their floating point are left
out, and so is the mutex that gives up; the timer's periodic mode, open, close
and control. The most important of these are hazards in PROJECT.json.

The share of the repository's lines the models stand for is small and will
remain so: nine tenths of them are libraries of others (SQLite, open62541,
LVGL with its fonts, lwIP, mbedTLS), and most of the rest are register
definitions, tables and examples that run through once.

## 6. Plan

1. MQTT: the shared packet buffer; several subscribers, and `SubscribedAlways`
   for them; keep-alive; the UDP mode as a second implementation of one
   abstract publisher.
2. TFTP: several clients (a busy one starves the timeout of all sessions), the
   life of the server object, block numbers that wrap, requests that meet a full table.
3. Telnet: writes from an interrupt.
4. FTP: two sessions with one file.
5. Web server sessions; CANopen node states, heartbeat and SDO transfers.
