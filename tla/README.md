# A TLA+ verification of lab-netstack

lab-netstack is a user-level TCP/IP stack for Linux. A program's socket calls are wrapped
by the linker (`src/posix/posix_socket.cpp`) and end in `ProtocolStack`. One thread of the
stack runs an epoll loop that receives frames and fires alarms. The repository is a
course's skeleton: some function bodies are left to be written ("LAB: insert your code
here"). Where a body is missing, the models use the weakest behaviour the code around it,
its comments and its tests ask for, and mark it external.

Paths below are relative to the repository; `PROJECT.json` prefixes them with `src/`.

## The parts of the system

| Part | State | Operations | Talks to |
|---|---|---|---|
| `RingBuffer` | `begin_`, `end_`, memory | write, read, read_offset, consume | SendBuffer, SocketSession |
| `SendBuffer` | ring, SYN and FIN state, `bytes_in_flight_`, alarm, control block | sendSYN, sendData, sendFIN, acknowledge, transmit, retransmit | IPLayer, Alarm |
| `EpollServer`, `Alarm` | multimap of alarms, `now_`, deadlines, iterators | runEventLoop, set, update, cancel, fire | every owner of an alarm |
| `ProtocolStack`, `SocketStruct` | descriptors, structs, `garbage_`, mutex, condition variables | socket, bind, listen, connect, accept, write, close | dispatchers, sessions |
| `SegmentDispatcher`, `ListenDispatcher` | vectors of raw pointers | lookup, add, onReceivePacket | ProtocolStack, SocketSession |
| `SocketSession` | TCP state, callback | open, close, segment handlers | SendBuffer, SocketStruct |
| `Segment`, `Checksum`, reader and writer | bytes | write, parse, sum | everything that sends |
| `ResetDispatcher` | none | onReceivePacket | IPLayer |
| `IPLayer`, `RoutingTable`, `Device` | routing entries with timers, peer addresses | decodeFrame, onReceive, updateTable, keepAlive, probes | EpollServer, neighbours |
| mperf controller (`3rd/mperf`) | `chldPID`, four locks, alarm; a process per test | configure, terminate, signal handlers, test loops | processes, by signals and sockets |
| mperf UDP tester | `connfd`, `serverInfo`, two threads, counters | initConnection, do_send, do_receive, the echo loop | each other, by datagrams |

mperf is the bandwidth tester the stack is measured with. It is a system of its own: a
controller process forks a server for each test and talks to it by signals, and two more
programs send datagrams and echo them.

The hard behaviours are: sequence numbers and `size_t` counters that wrap; segments and
acknowledgments that are lost, repeated and reordered while a timer retransmits; callbacks
of alarms that change the alarm map under the loop's iterator; a clock that is read before
a wait and used after it; user threads, the loop thread and a condition variable; raw
pointers in the dispatchers to objects that `_close` destroys; routes whose timers race
with the probes that keep them alive; signals that are late, merged or sent by the wrong
process, and processes that end between a test and a `kill`; two threads that close and
open the same descriptor.

## The modules

**`RingBuffer`** is the class as operators over a record. `size_t` differences go through
`SizeSub`, which wraps. `write` has the three branches of the code, among them the one that
copies bytes and does not move `end_`. **`RingBufferUse`** runs every sequence of calls on
one ring; the bytes are the positions of the stream, so an answer can be compared with what
it should be, and `gone` counts the bytes that `write` reported and did not keep.
**`ByteQueue`** is what a ring promises, a bounded queue of bytes; `IsQueue` says that
`RingBufferUse` implements it.

**`SendBuffer`** extends `RingBuffer`. There is one action per operation of
`send_buffer.cpp`. `transmit()` is a loop, entered through `pc` and walked one iteration
a step; no other operation runs until it is left, as in the code. `net` is the set of all
segments handed to the IP layer. `PeerReceive` takes any of them, any number of times and
in any order, so losing, repeating and reordering need no actions of their own. `PeerAck`
delivers any acknowledgment the peer can have sent so far. Two `DCHECK`s are demands on the
callers and guards here: no data after a FIN (`send_buffer.cpp:31`), and no acknowledgment
older than `unack` (:84). The callers that would have to see to it are unwritten bodies of
`SocketSession`.

**`EpollServer`** has the loop, the multimap and the alarms. Map nodes have names, and an
iterator is a name, so a dead iterator can be told from a live one. `TimeOf` is
`updateNow()`, which adds milliseconds to microseconds. Time passes inside `epoll_wait`
only. User calls may arm alarms while the loop thread waits, as the API does.
**`AlarmClock`** is what an event loop promises its users: it looks at the time at least
once a second, and an alarm fires when the loop sees that its time has come. `KeepsPromise`
says that `EpollServer` implements it.

**`Routing`** extends `AlarmClock`, so its timers do what the event loop was shown to
promise and no more. It has one node and its neighbours, which run the same program: frames
as `Device::decodeFrame` takes them, packets as `IPLayer::onReceive` lets them through,
distance vectors as `RoutingTable::updateTable` learns from them, and the timer of each
entry with `keepAlive` and `revokeRoute`. A probe may be lost, and a neighbour may stop and
start again. `missed`, `heard` and `inherited` are history.

**`ProtocolStack`** has the socket calls, in two steps each (the `ownFD` test and the
locked body), the waits on the condition variable with spurious wake-ups, and the event loop
with the two dispatchers. Objects are never renamed, so a use of a destroyed one is seen
and recorded in `reports`; the behaviour ends there. `SessionEvent`, `Sent` and
`AcceptPending` stand for the unwritten bodies. **`MCProtocolStack`** gives addresses.

**`TcpSegment`** writes, sums, parses and answers one segment byte by byte, at full width,
and the network may change one of its bytes. Its loops (`Checksum`, and the sum of RFC 1071
it is compared with, `ByteSum`) are recursive functions. The build is the repository's Debug
build (`README.md:46`): two calls that the code needs are arguments of a `DCHECK`, the read of
`window_` (`segment.cpp:57`) and the copy of an address (`checksum.cpp:38`), and glog's
`DCHECK` does not evaluate its argument in a Release build. **`MCTcpSegment`** gives the two
hosts.

**`MPerf`** has the controller (`server.c`), the servers it forks (`worker.c`, `sndrcv.c`)
and the clients (`client.c`). `pc` follows the controller through `doConfigure`,
`doTerminate` and `rTerminate`, one step for each stretch that a handler may fall between;
`fork()` and the store of its result are two steps. Handlers are actions: a handler blocks
the other signals, so it is one step. `pending` holds signals that have not arrived; a
second one of the same kind merges with the first. A server goes from "starting" through
"configuring", "opening", "ready", "accepting" and "testing" to "zombie" and "reaped", or
through "refusing" and "exiting" if it cannot be configured; the field `at` tells whether it
has looked at the locks, is about to make its system call, or is blocked in it. The
controller's reads are modelled the same way: `call` tells whether it is outside `read()`,
blocked in it, or has been interrupted. A message is two reads, its length ("receive") and
its text ("body"), under the one alarm of `rReceiveMessage`; a SIGALRM or another signal
between two calls of `read()` interrupts nothing. Writes to a client are short and fit the
socket's buffer, so they do not block. `message` is the memory the processes share: a
client's arguments, or the complaint ("text") that a server writes over them, after which
`sscanf` leaves the type of the test as it was on the stack. `rKill` uses `chldPID` as the
handlers left it; `kill(-1, ...)` reaches every server, and fails only if there is none to
reach. `stale`, `early`, `told` and `killedAll` are history.

**`UdpTester`** has `mperf-udpsender` with its main, sending and receiving threads, and
`mperf-udpreceiver`. A socket is a number; `table` maps descriptors to sockets, and a new
socket takes the lowest free descriptor. A `recvfrom()` that blocks keeps its socket
when the other thread closes the descriptor. The steps of `initConnection()` interleave,
because the lock around it (`doingInit`) is set and never tested. `netdial()` is two steps,
`socket()` and `connect()`: the descriptor may be closed in between by the other thread, or
be its new socket by then, and a failed `connect()` closes whatever has the number. The
receiver has no other client. `failed`, `overlap` and `wire` are history.

Operators whose comment says "variant for mutation" are not used by the models. Each is a
plausible mistake in the operator after it, and shows that a property depends on it.

## The runs

Runs that pass:

| Run | Bounds | What it shows |
|---|---|---|
| `ring` | ring of 4, 9 bytes written | Until a write loses bytes, the ring holds the stream (`StoredIsStream`) and implements the queue (`IsQueue`). Two turns of the ring, so every branch runs at every offset. |
| `send` | ring of 3, segments of 2, window of 3, 4 bytes, 16 sequence numbers from 13 on; fair | No `DCHECK` fails but for the two demands on callers, segments carry the stream, bytes are kept until received, the FIN is last and nothing follows it; every accepted byte arrives and a close completes. The sequence numbers wrap inside the stream, and the window is not a multiple of the segment. |
| `alarms` | probe and 1 alarm, 3 nodes, second of 6 ticks, millisecond of 2, 20 ticks | The map and the alarms agree under callbacks that change it, an alarm is not too early (`NeverTooEarly`), and the loop keeps the promise of `AlarmClock`. Two alarms allow one to fire while the other is moved; three seconds let the clock jump at the end of a second twice. |
| `stack` | 2 threads, 2 sockets, 2 sessions, 1 peer | Ownership of sessions, closing, the condition variable. Two threads are enough for a waiter and another caller. |
| `stack_addresses` | 1 thread, 2 peers, backlog 1 or 2 | The queue respects its backlog and repeated SYNs make no second session. |
| `segment` | words at 0, 1 and 65535, payloads to 3 bytes, one byte changed to 0, 1 or 255, 0 to 10 words of options | What is written is parsed back, also behind options, the checksum is RFC 1071's, and a changed byte shows. The words and bytes are those at which carries and the two zeros of one's complement turn over. |
| `routing` | 1 neighbour, 2 destinations, second of 3 ticks, 9 seconds, the code's intervals of 3 and 6 seconds | Every usable route has a timer and a known peer, dies with its neighbour and lives while it is heard. Nine seconds let a route be learnt, kept alive, revoked and learnt again. |
| `mperf` | 2 process ids, 1 client that comes again, 2 requests; fair | What a reported success means, that every server but the current one was told to stop, that `chldPID` is not a dead process, that the controller comes back to `accept` unless it is left in a read whose alarm is used up, and that it collects every server. Two requests are enough for a server of the past beside a new one. |
| `udp` | 2 attempts, `-n` 1 or none, 2 datagrams, 5 sockets, 2 failures, 1 repeat; fair | Echoes are not counted out of nothing, the sender stops at its count, the connection is whole after every overlap of re-initialisations, no socket is left behind without one, and the sender finishes. Two failures put both threads into `initConnection()` at once. |

`CHECK_DEADLOCK FALSE` is used where a bound ends the behaviour (the bytes to write, the
clock, the objects to create, the requests, the datagrams); the system itself does not stop.

The runs below check what a comment, an assertion or a test says and the code does not do.
Each has an entry under "findings" in `PROJECT.json` with the quotation.

| Run | What the code does |
|---|---|
| `ring_reported` | `write` reports bytes it does not keep, when `end_` is past the memory |
| `stack_accept` | a connection made before `accept` is not accepted |
| `mperf_kill` | a server that ends after the test `chldPID > 0` makes the controller call `kill(-1, SIGINT)` |

The models also contain these behaviours. They have no run of their own; where a passing
property is named, it bounds what they can do.

- `bytes_in_flight_` exceeds `kMaxBytesInFlight` by part of a segment, and wraps when the
  FIN is acknowledged (`send_buffer.h:84` says it stays within the window). `WindowStored`
  and `SilentAfterFin` say what holds instead.
- A byte lost by the ring shifts the rest of the stream (`send_buffer.h:17`: "FIFO").
  `SegmentsCarryStream` holds until then.
- Deadlines are compared with, and computed from, a time read before the wait
  (`epoll_server.cpp:54`, `epoll_alarm_factory.cpp:12`). `AlarmClock` and
  `NeverTooEarly` give the resulting error.
- One lost probe may kill a route whose next probe arrives (`routing_table.cpp:152`): the
  entry lives two probe intervals, and the second probe may be a second late.
  `KeptWhileHeard` says that it takes a lost probe.
- A route that moves to another device within a second of a vector of the old one keeps
  the old deadline, because `keepAlive` moves it by whole seconds only; it may then be
  revoked although its new neighbour is heard. `inherited` marks this one exception. It
  needs two devices, and the theorem covers it.
- A closed session stays in `established_` and is found before a new session between the
  same addresses.
- Any segment opens a session on a listening socket; without a SYN it stays in LISTEN and
  keeps its place in the queue.
- Nothing leaves `garbage_`, so `canClose()` stays false after every session is CLOSED.
- Descriptors of `dup` are not closed; when it fails a second time `DCHECK(!ownFD(fd))`
  finds -1 in the set.
- A segment for a closed listening socket reaches the destroyed `SocketStruct`, whose
  address stays in `vector_` (`protocol_stack.cpp:290`; the comment at :306 sends such a
  segment to the reset dispatcher).
- The reset dispatcher builds a response and writes the segment it received
  (`reset_dispatcher.cpp:34`).
- A server of mperf that dies before `backupFork` stored its id stays in `chldPID`, and
  every later request fails with `RET_EKILL`; `DeadChildKnown` says this is the only way.
- The late SIGUSR1 of an earlier server counts as the answer of the new one;
  `SuccessMeansServer` says this is the only false success.
- A SIGALRM that comes between two calls of `read()` in `rRecvBytes` or `rReceiveMessage`
  (`util.c:131-145`, :174-190) is used up and interrupts nothing. If the client then sends
  nothing and stays connected, the controller waits for it for ever, and no next request is
  served, although `3rd/mperf/README.md:202` says "Whatever happens, the controller will be in a
  valid state when next test request arrives". `ControllerReturns` says that this is the only
  way it does not come back.
- A server that cannot be configured writes its complaint over the shared arguments
  (`worker.c:82`). The next server, if it starts on them, reads a text that has no type in it.
- With `-k` two servers may still run for a moment: SIGTERM is not waited for.
- A client of mperf overwrites the controller's result and dials even after a failure, and
  may dial before the port is open.
- `mperf-udpsender` passes `-n` and does not stop when the `sendto()` of its last packet
  fails, as `continue` skips the test (`udpsender.c:249`, :264); `StopsAtCount` says this is
  the only way. Echoes are counted and not identified, so a repeated one counts twice.
- Two overlapping calls of `initConnection()` leak a socket, a `recvfrom()` that blocks
  stays on the socket it had, and the first call closes standard input, because `connfd`
  starts at 0. A server given by name fails `inet_aton`, leaks a socket an attempt and ends
  the program.
- An alarm works on a session in the middle of a user's call, without the mutex.

`gone = 0` in the conditions of the ring, and `lost = 0` in those of the sender, separate the
flaw of `ring_reported` from everything else: the properties say what holds until it strikes.

### Fairness

`SendBuffer!Fairness`: the loop thread runs a due alarm and finishes a handler it began
(weak fairness). The IP layer does not refuse for ever, and the latest acknowledgment, sent
again and again, arrives (strong fairness). A segment that `net` has stays there and is
received at some time (weak fairness of `PeerReceive`): the segment that is lost for good is
one that the IP layer refused. Without these no sender can promise anything. `ProtocolStack!FairSpec`: a thread that can take the lock
again and again takes it. Nothing is assumed of the application or of spurious wake-ups.
`MPerf!Fairness`: the controller's process runs, signals sent to it arrive and its alarm
expires (weak fairness); nothing is assumed of servers and clients, which may hang, and so
nothing of what a `read()` returns.
`UdpTester!Fairness`: each thread of the sender runs and its alarm expires (weak fairness),
and a socket that is writable again and again is written (strong fairness). Nothing is
assumed of the network and the receiver, so `Finishes` starts from all echoes counted, or
from `-t`, which does not wait for them.

## The proofs

All theorems hold for every value of the constants that satisfies the named assumptions;
TLC evaluates these on the instances above. Each inductive invariant was a run of TLC
before it was proved.

**`RingBufferProofs`** (`RingAssumption`: the memory is not empty and
four times its size fits `size_t`). The invariant adds to `EndsInOrder` that stored bytes
increase, that all are below `reported`, and that while nothing is lost the i-th stored
byte is `taken + i`. The order of bytes alone is not inductive: a write has to know that
the bytes it adds are larger. The lemmas say what `Copy`, `Advance` and `write` do to the
i-th stored byte, with and without a wrap; `SendBufferProofs` extends this module for them,
and its statements do not mention the variables of `RingBufferUse`. Theorems: `RingInvariant`, `RingTypes`,
`RingEnds`, `RingOrder`, `RingFifo`, `RingReads`, and the refinement `RingIsQueue`, in
which each call maps to a push, a pop or a look, and a write that loses bytes to a push of
nothing.

**`SendBufferProofs`** (`SendAssumption`: the window, a segment and the stream are shorter
than the sequence space). The invariant turns sequence numbers into distances from the
initial one (`SeqAddOffset`, `SeqSubOffset`), after which wrapping is gone. It relates
`unack` to the bytes that left the ring, `next` to the bytes accepted, `bytes_in_flight`
to the bytes stored, and every segment on the wire to the stream. One lemma per action
keeps it. The case that needs care is the acknowledged FIN: it makes `bytes_in_flight_`
wrap, and the invariant shows that the wrapped value is above the window and stays there,
so that the sender is silent and its timer is not set again. Theorems: `SendInvariant`,
`SendChecks`, `SendStream`, `SendKeeps`, `SendWindow`, `SendFinish`, `SendSilent`.

**`EpollServerProofs`** (`EpollAssumption`: delays are whole seconds, and a second has at
least as many milliseconds as a millisecond has ticks; the code has 1000 of each). The
invariant adds to `TokensMatch` and `FiredEntryLives` that the probe alarm is set, or is
the one firing and has not returned. From this the map is never empty at the top of the
loop. The second part adds the times: `now_` differs from the clock by the rounding when
it is read, the clock moves at most a second past it, and each deadline differs from the
time the alarm was meant for by the rounding alone. From these every step of the loop is a
step of `AlarmClock` or leaves its variables alone. Theorems: `EpollInvariant`,
`EpollTokens`, `EpollMap`, `EpollFires`, `EpollTimes`, `EpollPromise`, `EpollEarly`.

**`RoutingProofs`** (`RoutingAssumption`; `IntervalsAssumption`: the probe interval is at
least 3 seconds and a route lives at least 3 seconds longer, as 3 and 6 in the code). For
each device that a route goes over, the invariant says when its next probe is due at the
latest, and that the deadline of the route is later than that by more than the loop may
sleep. That a route is kept is not inductive without it: the deadline comes from a time
seen up to a second ago, and `keepAlive` may leave it a second short. Theorems:
`RoutingInvariant`, `RoutingTimers`, `RoutingPeers`, `RoutingDies`, `RoutingKeeps`.

**`ProtocolStackProofs`** (`StackAssumption`), for any number of threads, sockets, sessions
and addresses. The invariant has three parts. `Objects` says who owns, who calls back and
who dispatches to which session: each descriptor has a socket of its own (`Sockets`), what a
socket owns follows from its type (`Owns`), a session has one owner or is in `garbage_`
(`Partition`), a live socket is called back by its own session only (`Callbacks`), the
dispatchers know every session under its addresses (`Dispatch`), and no two sessions that
wait to be accepted have the same ones (`PairsDiffer`). `OneThread` says that no two threads work on one socket, which rests on
descriptors that are not given out twice. `Busy` says what a thread inside a call may rely
on when it gets the lock back. `NoLostWakeup` alone is not inductive: a message for a
waiting socket has to come from the session whose callback it is, and that takes `Objects`.
Theorems: `StackInvariant`, `StackTypes`, `StackOwned`, `StackReports`, `StackBacklog`,
`StackClosedOnce`, `StackWakeups`, `StackErrors`, `StackPending`.

**`MPerfProofs`** (`MPerfAssumption`: process ids are positive), for any number of
processes, clients and requests. The invariant follows the controller through one request.
From `kill()` to the store of the new id, every server that lives was told to stop (`Told`).
Between the locks and the answer, if nothing was left over, the only process there is the
new one, and a SIGUSR1 that is under way or was handled is its own (`Lone`). That nothing
left over also means no late signal needs `Owed`: a SIGUSR1 under way is that of a process
not yet collected. `kill(-1, ...)` tells every server; a `kill()` of one process tells the
only one that may live untold, because `chldPID` is the last child or none (`Known`). Theorems: `MPerfInvariant`, `MPerfTypes`, `MPerfSuccess`, `MPerfTold`,
`MPerfChild`.

**`UdpTesterProofs`** (`UdpAssumption`), for any number of packets, attempts, sockets,
failures and repeats. The argument is about descriptors. `connfd` may hold the number of a
closed descriptor, and the other thread may be given that number by `netdial()` just
before this one closes it. What saves both is that a new socket takes the lowest free
number. The invariant says that a descriptor in a thread's hands is open, or that all
below it are open and the other thread is about to dial (`Held`), in which case it gets this very number; that a
descriptor that is held twice, or is also `connfd` while no thread is about to store -1
there, has no free one below it (`HeldTwice`, `HeldOld`); and that `connfd` is open or a thread will store one that is (`Stored`). For
the counts, an echo under way is one of the datagrams sent (`Numbered`), and the loop is
past packet `-n` only if its `sendto()` failed (`Passed`). Theorems: `UdpInvariant`,
`UdpTypes`, `UdpEchoes`, `UdpStops`, `UdpRestored`, `UdpOneSocket`, `UdpListens`.

**`TcpSegmentProofs`** (`SegmentAssumption`: ports, halves of numbers and of addresses are
words, flags and payload are bytes, and a full segment is no longer than 65535 bytes), for
every segment with a payload up to `kMaxSegmentSize` and every byte that may change. It is
about loops over bytes, so it needs induction over data. The library's induction theorems
take an operator and cannot be used; `Induction` states the principle for a set of numbers,
and is proved from the theorem that a non-empty set of numbers has a least one. With it
`SumExists` and `TotalExists` show that the functions the two loops define exist, and
`ChecksumIs` and `ByteSumIs` give the values of a loop from those of the step before.

- `SumsAgree`: after any number of pairs, the folded sum and the sum of the bytes differ by
  a multiple of 65535, and the folded sum is a word. The induction is over pairs, because
  the loop adds the odd byte first and `ByteSum` adds it last.
- `SegmentSumIs` adds the pseudo header in the order of the code, and `ChecksumPut` the
  complement of the sum, in the two bytes that were zero. So the sum of RFC 1071 over what
  `writeSegmentTo` wrote is a multiple of 65535 (`WireIs`).
- `OneByteChanged`: a changed byte changes `ByteSum` by what it is worth and no more. That
  is less than 65535 and not zero, so the new sum is no multiple (`ChangeShows`).
- `HeaderIs` follows the header through its eight writes, with the offsets that `parse`
  reads at, and `BytesAre` shows that the payload is never refused for lack of space.
  `ParsesAs` then says which bytes determine what `parse` returns, and `OptionsParse` that a
  header with up to ten words of options has them.

The inductive invariant says that the wire carries what was written, or that with one byte
changed, and that a reply was made before any change. Theorems: `WireCarriesSegment`,
`WrittenIsParsedBack`, `ChecksumDecides`.

Only model-checked: the liveness properties (`StreamDelivered`, `CloseCompletes`,
`ControllerReturns`, `ZombiesReaped`, `Finishes`), as the provers do not handle fairness.
Every safety property of a passing run is also a theorem.

Proved and not in a run of their own, because a property of a run implies them or they
are steps towards one: `EndsInOrder`, `StoredInOrder` and `ReadsAreFifo` of the ring,
`WindowStored` and `TimerUntilFin` of the sender, `FiredEntryLives` and `FiresSetAlarms` of
the alarms, and the type invariants of `RingBufferUse`, `SendBuffer`, `EpollServer` and
`Routing`.

## What is left out

- Bodies that do not exist: `_read`, `SocketSession::send` and `receive`, the handlers of
  segments other than LISTEN's, `lookup`, `createDistVec`, `sendFrame`. They are external or
  absent. The rule of `addEntry` is that of RFC 1058, which its comment quotes.
- The Release build, in which `DCHECK` arguments are not evaluated; segments shorter than
  their header, for which `len - offset` wraps (`segment.cpp:60`); reads past the end.
- Distance vectors of 51 entries, whose length does not fit its `uint8_t`.
- Data races inside library containers (`alarm_map_`, `fd_set_`) and on the
  double-checked instance pointer: they have no defined outcome.
- Two threads on the same descriptor, which callers have to avoid.
- Reuse of process ids; `-n 0` of the UDP sender, which never stops (`UdpAssumption`).
- The byte counts and times that mperf reports, `RandGenerator`, formatting, logging,
  command lines, ioctl and pcap calls, test doubles.
