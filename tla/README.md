# Verification of vehicle-controller

The controller is one process, with one thread, on the computer of a small
vehicle. It listens for CARMA clients on TCP port 1337, talks to the main board
of the vehicle over one serial line and to an accelerometer over another, and
takes an `exit` from the operator's terminal. This directory holds TLA+ modules
translated from its source (paths below are relative to `src/src/` of the
repository checkout), TLC configurations that check them on small instances, and
proofs that TLAPS checks.

    tlc -workers 2 -config EventLoopLinux.cfg MCEventLoop     one run
    tlapm EventLoopProofs.tla                                 one proof module

`PROJECT.json` lists the components, the runs, for each property a mutant of the
model that breaks it, the source lines of every definition, the findings, the
hazards and the theorems.

## 1. Inventory

### Components

| component | code | state | operations |
|---|---|---|---|
| event loop | `gptk/event_loop.cpp` | `files`, `gracious_stop`, the event queue | `register_file`, `unregister_file`, `run`, `stop`, `post_event`, `process_event` |
| files | `gptk/ufile.cpp` | `fd`, event mask | `close`, `set_fd`, `defer_delete`, `bytes_available`, `data_available` |
| event pipe | `gptk/unixpipe.cpp` | two endpoints | construction, deletion of an endpoint |
| server | `server.cpp` | listening socket | `data_available`, `accept` |
| clients | `client.cpp` | `client::clients`, one protocol object each | constructor, destructor, `data_available`, the two broadcasts |
| CARMA protocol | `protocols/carma.cpp` | `response`, sent with each broadcast | `start_reading` and a reader per opcode, replies, events |
| main board | `mainboard.cpp` | `read_buffer`, `my_addr`, `host_addr`, `motors_buffer` | `data_available`, `process_packet`, `process_hello`, `set_throttle`, `set_digital_outputs`, `calibrate` |
| accelerometer | `meas.cpp` | `buffer`, `buflen`, `bufpos`, `axis` | `data_available`, `push_data`, `pop_data`, `tidy_buffer`, `measured` |
| terminal | `main.cpp` | none | `parse`: `exit`, else ignore |
| start and exit | `main.cpp` | the global pointers | construction in order, deletion in reverse |
| configuration file | `gptk/config_file.cpp` | a file that is never opened | none is implemented |
| buffered file, sounds, build | `gptk/file.cpp`, `carma.cpp` `play`, `Makefile` | | not used, another program, build rules |

### Interactions

Everything happens on one thread. `run()` calls `select()`, and then the
`data_available()` of each file in `files` whose bit is set. Those handlers call
one another directly:

- `server` makes `client` objects, which register themselves in two places,
  `event_loop::files` and `client::clients`;
- `client` gives its bytes to `carma`, which writes to the board (`sync`), forks
  a player (`report`) and writes its answer back to the socket;
- `mainboard` and `meas` broadcast what they read to each element of
  `client::clients`, by blocking writes;
- a client that left posts `EV_DEFER_DELETE`, so that it is deleted from the
  queue's own place at the head of `files` and not under `run()`'s iterator;
- `stop()` sets a flag and posts an event that no handler reads.

### What is hard

Nothing here is preemptive, yet the code is concurrent in four ways. Readiness
is computed once for a pass in which handlers close, reuse and add descriptors,
files and heap addresses. Two registries of raw pointers must agree although
they are changed in different places. Streams arrive cut anywhere and are put
together by hand-written buffers. And the one thread writes to blocking
descriptors whose other ends may be slow, gone, or waiting themselves.

| component | what makes it correct |
|---|---|
| event loop | it never follows a pointer to a deleted file; every ready file is served; a deferred delete happens once, and to the object that asked; `stop()` ends it |
| clients and server | the two registries hold the same live objects; every open connection has one owner; a healthy client is never cut off; every request is served |
| main board | a packet is processed once, whole and in order; the lowest address wins and stays; readings are the last sent; both motor pairs follow one request |
| accelerometer | the buffer is neither overrun nor underrun; each reading is found wherever the stream is cut; the clients' value stays within the threshold of the measured one |
| CARMA sessions | however TCP joins its bytes, each request is served once, whole and in order, and answered; a client is cut off only for what it sent; the wheels follow the last sync request served |
| exit | each file is deleted once, clients that left long ago included; nothing is used once it is deleted (it is: finding 5) |

The hazards, each at its line and with the properties that would catch it, are
in `PROJECT.json`; so are those no property covers, with the reason.

## 2. The modules

| module | what it is | what it holds |
|---|---|---|
| `EventLoop` | loop, queue, server, clients, replies, broadcasts, peers | state machine, safety, liveness, refinement |
| `ClientRegistry` | what the controller promises of its client objects | abstract specification |
| `EventLoopProofs` | `EventLoop`'s invariants, an action property, its refinement, for all constants | proofs |
| `Mainboard` | serial stream, bus address, readings, motor commands | state machine, safety, refinement |
| `CommandBus` | what the bus promises to whoever drives: whole orders, in order | abstract specification |
| `MainboardProofs` | types, motor commands and the refinement of `CommandBus`, whatever the board sends, for all constants | proofs |
| `MainboardStreamProofs` | what becomes of the board's packets while the link holds, for all constants | proofs |
| `Meas` | the accelerometer's buffer and parser | state machine, safety |
| `MeasProofs` | bounds of that buffer, the stream in it and what clients learn, for all constants | proofs |
| `Carma` | sessions: requests as bytes over TCP, readers, answers | actions, safety |
| `Teardown` | what `main()` deletes once `run()` returns | actions, safety |
| `Vehicle` | `Carma`, `CommandBus` and `Teardown` composed, with the operator's terminal | state machine, safety |
| `VehicleProofs` | that the units agree once the bus is quiet, for all constants | proofs |
| `SessionProofs` | requests, answers, disconnects and orders of all clients, for all constants | proofs |
| `TeardownProofs` | what exit deletes, for any number of clients | proofs |
| `StreamLemmas` | induction on numbers; what concatenations of packets, requests and readings are made of | lemmas |
| `MCEventLoop`, `MCMainboard`, `MCMeas`, `MCVehicle` | small sets for the configurations | |

`EventLoop` implements `ClientRegistry`, `Mainboard` implements `CommandBus`, and
`Vehicle` is built upon `CommandBus` and not upon packets.

### EventLoop

One variable for each thing the code keeps: `files`, `clients` (the two lists),
`heap` (which client objects exist), `fd` (of each), `queue` (events in the
pipe), `gracious_stop`. `ready` is `read_fds` after `select()`, `it` is the
iterator of `run()`'s second inner loop, and `pc` is where the thread stands.
`conn` is the kernel's side of each client descriptor: the state of the
connection, the requests received and not read (`rx`), and the answers sent and
not read by the peer (`tx`). `condemned` is a history variable, the objects that
called `defer_delete()`.

An action is the code between two points where something else can happen: a
system call that depends on another party. So `ClientGone` is the whole of
`client::data_available` for a peer that left, down to the post; but a request
that is answered is `Request` and then `Reply`, and a broadcast is one
`BroadcastTo` for each client, since each of these writes may wait, fail or kill
the process. Between them the peers may do anything; no other handler runs.
An object is an address, and an address is used again once freed; a connection
is a descriptor, and `accept()` takes the lowest free one.

Three constants stand for the platform:

- `DuplexPipe`. `post_event` writes to `first()`, the read end of `pipe()`
  (`gptk/unixpipe.cpp:44`), and reads from `second()`. Where pipes are
  one-way, and on Linux they are, the write fails with EBADF and the error is
  not looked at. The sources need Linux (`endian.h`, `/dev/ttyS*`), so `FALSE`
  is the program as it runs, and `TRUE` is what the protocol of deferred deletes
  was written for. Both are checked, and the proofs are for both.
- `CleanSize`. `FIONREAD` stores an `int` into an uninitialised `size_t`
  (`gptk/ufile.cpp:76`). Where `size_t` is wider, its upper half is what the
  stack held: `FALSE` lets every such test go either way.
- `AliasFd`. `FD_ISSET(-1, ..)` has no defined meaning; compiled, it reads one
  bit of the set, which is that of another file. The model lets it be any
  descriptor; 8, a client's, is the most harmful.

What a request is made of does not matter here. Its kind decides which path the
handler takes: `sync` needs no answer, `calibrate` and `keepalive` are
answered, `report` is answered and its failure closes the client, `bad` is any
packet that is refused.

`ClientRegistry` forgets `files`, `queue`, `it`, `pc` and the requests, and keeps
the live objects, each one's connection and who asked to be freed. `Registry` is
the refinement mapping: `live` is `heap`, `line` is `fd`, `leaving` is
`condemned`. So it says that no interleaving of posting, reading and reusing
frees an object that has a connection, that did not ask, or twice.

### Mainboard

`wire` holds the bytes the board has sent, `read_buffer` those read and not yet
processed. A packet keeps both bytes of its length, because a read may end
between them, and one byte for each other field; so its header has 6 bytes, not
13. `DataAvailable(k)` is one call in which `k` bytes had arrived: the test for
the disconnect byte, the append, and at most one packet processed, by `Consume`.
A sync request is three actions, one for each `bus_write`, as each may wait for
room on the line. `bus_write` ignores what `write()` returns: while the link is
lost a write may fail (`Failed`), and what is on the line may go nowhere
(`LineDrains`). A write that takes only a part of a packet counts as one that
fails. `missed` is a history variable, the units whose last packet was
lost so, and `before` the request before the last one, which a unit follows until
its packet of the last one is written. `Junk` is what lies behind the end of a
heap block: no check compares a packet's length with the size of the header, so
after a packet is cut short a field may be read there.

A reading is that of a pair of motors, and `motors_buffer` holds both pairs.
`response` is what a client that has heard every broadcast has of them.
`sizeof(ev)` in `carma::motor_sensors_event` is that of a pointer, 8 bytes, which
is one `motor_data`, the first: the other three motors', and all of it before the
first event, are what the heap held (`Unset`). `MotorsTold` says just that: the
one motor a client does hear of is up to date, and the others are never written.

`CommandBus` is the same traffic seen by the units (two drivers and the outputs):
for each one a queue of its parts of the orders given. `Bus` maps the packets on
the line, and those of the present request still to be written, to these queues;
`SetThrottleFront` is then `Issue`, `BoardTakes` is `Follow`, the two later writes
are stutters. The abstract units get their parts in step (`Turn`): no write may
be lost, swapped or sent to the wrong unit. That holds until the link is lost for
the first time (`lost`, a history variable); what is left then is
`CommandsFollowed`.

`unread`, `offered` and `reported` are history variables, and record what the
board sent. They are kept only in instances where the link is never lost
(`Unplugs = FALSE`): after a loss the code does not say where a packet begins.
`connected` is written and never read, and is left out; so is the CRC.

### Meas

A character is a triple: its kind, the value it belongs to and its place in that
value, so that a reading put together from two is seen to be wrong. `Read(k)` is
`data_available` up to its loop, with the push that fails as a whole when there
is no room; `Skip`, `Parse` and `EndLoop` are one turn of the loop each. Only
the accelerometer's documentation, which the repository has not, says how long
its readings are; the parser's `while(buflen >= 9)` fits `X=+0.123` and a
newline, which is what `Digits = 5` stands for. The line may be opened in the
middle of a reading.

`axis`, which no constructor sets, starts with any of `Garbage`. A reading within
the threshold of that value is never broadcast, and a broadcast for one axis
sends the other as it is, measured or not (`GyroEvent`). `gyro` is the part of a
client's `carma::response` that a broadcast sets: empty while none has, when the
client is sent what the heap held. A client that joins (`ClientJoins`) begins
with an empty one. So `GyroTracks` speaks of values a client was told, not of
`axis`.

### Carma

`coming` and `rx` are the bytes of each connection, before and after they arrive;
`Deliver` is a segment of any length. A request is an opcode with two bytes or
one behind it, where the code's structures have 14, 12 and 2; the shortest
request is still the one that fits into a piece of another. A reader takes the
size of its structure, or closes the connection if less has arrived: so a request
cut in two by TCP costs its client the connection, and `CutForCause` states
exactly when a client is cut off. `InvalidSize` and the readers are the branches
of `start_reading`, chosen by the opcode that `peek` sees. `answers` is what the
client has yet to read. `unserved`, `expected` and `wanted` are history
variables.

A report is answered or refused at will, since `/home/leon/..` exists or not;
its thresholds are not implemented. A calibration always succeeds, and a request
that calibrates drives as well (there is no `else` in `carma.cpp:115`).

### Teardown

`files` is the list as `run()` leaves it, `todo` the objects whose `delete` comes
next, `freed` how often each was deleted. A `delete` of a file takes it from
`files` and flushes the loop, that is, it writes to `first()`
through `event_queue`. `dangling` collects what is used when it is already
deleted. From then on anything is allowed by the language; the model lets the
process end there or go on as if the memory were still there, which is what a
build does most often, so that `ExitComplete` is a statement about every
continuation in which it does not crash.

### Vehicle

One state machine from `main()` to its return. `Sync(c)` is `carma::read_sync` in
one step: the session loses the request and gains the answer (`ReadSync`), the
bus gains an order (`Issue`), and waits with the only thread while the line has
no room. `Stop` and `Hang` are the two outcomes of `parse()` that matter, for
lines of characters: the word a line begins with ends the program if it is any
prefix of `exit`, the empty word included, and hangs it if anything but letters
and digits follows another word. A line that ends behind its word is ignored.
What is behind `stop()` in the same pass of the loop is served before `Stop`
here. The bus and its units go on when the process has ended, crashed or hangs.

The composition takes from `EventLoop` what is proved of it: handlers do not
interleave, and an object keeps its connection until it gives it up. It leaves
out what costs states and is checked there: writes to clients that wait or fail,
broadcasts, the reuse of addresses and descriptors. On Linux objects of clients
that left are never deleted (finding 1), so that each client here connects once
and is deleted at exit, if not by the loop's destructor then by nobody
(`ExitComplete`).

## 3. The runs

| run | configuration | distinct states | what it shows |
|---|---|---|---|
| `linux` | `EventLoopLinux` | 1.8 million | `FdOwnership`, `NoFalseDisconnect`: the program as built on Linux keeps its descriptors right and cuts no healthy client off |
| `duplex` | `EventLoopDuplex` | 92 000 | `TypeOK`, `RegistriesAgree`, `FdOwnership`, `IteratorValid`, `PendingDeletesSafe`, `RegistryImplemented`, `DeferredDeletesHappen`, `StopHonoured`: if events arrive, deletes happen, free nothing `run()` stands on, are neither repeated nor misdirected, also when `accept()` fails, and `stop()` ends the loop |
| `live` | `EventLoopLive` | 51 000 | `RequestsServed`: every request is served if the peers read |
| `stream` | `MainboardStream` | 550 000 | `StreamIntact`, `AddressSettled`, `MotorsSettled`, `MotorsTold`, `AddressKept`: however the stream is cut |
| `commands` | `MainboardCommands` | 1.3 million | `TypeOK`, `CommandsFollowed`: through losses of the link with packets on it, failing writes and a full line; `BusImplemented`: until the first loss, three blocking writes are one order |
| `meas` | `MeasStream` | 490 000 | `TypeOK`, `StreamIntact`, `GyroTracks`, `NothingDropped` |
| `vehicle` | `VehicleRun` | 1.9 million | `RequestsIntact`, `AnswersExpected`, `CutForCause`: requests joined and cut, with several answers outstanding; `Converged`, `Driven`, `ExitComplete`: from the sockets to the wheels and to the end of the process |
| `orphans` | `EventLoopOrphans` | violation | `DeferredDeletesHappen` |
| `sigpipe` | `EventLoopSigpipe` | violation | `WriteFailureSurvived` |
| `unplug` | `MainboardUnplug` | violation | `DisconnectRecognised` |
| `meas_stall` | `MeasStall` | violation | `NoUnderrun` |
| `exit` | `VehicleExit` | violation | `PipePointersLive` |

### Bounds, and why they are enough

*EventLoop.* Two client objects are enough for a stale bit, pointer or event of
one to hit the other, and for an address to be freed and used again. `linux` has
two descriptors, `duplex` one, so that `accept()` fails with EMFILE while a
connection waits. `AliasFd` is a client's descriptor in both. One outstanding
request and one buffered answer for each connection are enough for each handler
to find none, one, or a full buffer. `duplex` has two broadcasts in a row, as one
read of the accelerometer can make. On Linux clients that left are never
deleted, so a behaviour of `linux` has at most two clients in all, which is what
`PeerConnect` bounds; `duplex` has any number, one after the other.
`linux` has two kinds of request, `sync`, which needs no answer, and `report`,
which is refused as `bad` is or answered as `keepalive` and `calibrate` are;
`duplex` has the same two.

`IteratorValid` and `RegistriesAgree` are only checked in `duplex`: on Linux no
object is ever freed, and there they could not fail.

*Mainboard.* `stream` has at most 20 bytes in flight, two readings or three other
packets, and every way to cut them into reads; two hosts, two addresses, two
readings that differ in both motors and share a value, and both drivers.
`commands` has room for one offer or five NUL bytes of lost links, an output
line of two packets so that the first or the second `bus_write` waits, and two
sync requests with the extreme values of an `int8_t`. Any number of losses, each
of any part of the line, may come between the writes. A reading does not fit
there; readings are what `stream` is about.

*Meas.* Up to 27 characters, three readings, wait on the line and up to 24 are
taken by one read, so the buffer of 32 is filled to its last place (8 left from
the read before). Of the three values 5, 15 and -15 the threshold tells only the
last two apart, so some readings are broadcast, some are swallowed, and small
steps may add up to a large one. Each axis starts as 0, near all of them, so that
the first readings are swallowed, or as 300, near none.

*Vehicle.* Five bytes on their way or in the socket are a sync or report request
and a keepalive, in either order, joined in one segment or cut at any place.
Client `k1` sends each kind of request and one the protocol does not have, and
drives in two ways; `k2` drives in one of them, so that their orders can be told
apart and not. Up to two answers, of three kinds, are outstanding, so that their
order can be wrong. Two units may each have two orders under way, so that one
unit may be ahead of the other, and `Sync` meets a line with room and one
without. The lines are the whole word, a
part of it, another word, an empty line, and a word cut off by the end of the
read.

### Fairness

`FairSpec` has weak fairness on `Loop`, the one thread: it is scheduled as long
as it can go on. It does not choose which handler runs, the code does, by the
order of `files`. The only other assumption is about the peers, and is needed:
each one reads what it was sent, or its kernel resets the connection. Without
it a blocking `write()` never returns, and one silent client stops the vehicle;
that is a hazard of the code and the model has it. A process that exits, hangs or
is killed owes nothing, which `Halted` says. `linux`, `live`, `duplex`, `stream`,
`vehicle` and the violations do not check for deadlock, since the process may
end, or the environment's bounds end its input; `commands` and `meas` check it.

### Findings

1. **Deferred deletes never happen on Linux** (`orphans`). Each client that
   leaves stays in both lists, without a descriptor, and is broadcast to, until
   the process ends. This has a good side: `linux` holds with orphans in
   the lists.
2. **One reset connection kills the server** (`sigpipe`). The second write to it
   raises SIGPIPE, which is neither ignored nor caught, while `carma.cpp` treats
   a failed write as the error of one client.
3. **The disconnect byte is missed** (`unplug`) when it is read with, or after,
   other bytes.
4. **A stall makes the accelerometer's parser underrun** (`meas_stall`). A chunk
   that does not fit is thrown away, two readings are joined, `pop_data` takes a
   tenth of nine characters, and `tidy_buffer` copies `(size_t)-1` bytes. The
   stall need not be long: more than 24 characters between two reads, which is
   three readings, while the thread waits in a blocking write.
5. **Every exit writes through freed pointers** (`exit`). `unixpipe.h:52` warns
   that `first()` and `second()` do not outlive the pipe. `~event_loop` deletes
   the queue without resetting `event_queue`; the destructor of the second end
   unregisters, flushes and writes to the first, which is gone; each file still
   registered does the same, and at last the queue is deleted again
   (`gptk/event_loop.cpp:84`). No client need ever have connected. `ExitComplete`
   shows that this is all: nothing else is deleted twice or forgotten.

## 4. The proofs

TLC's answer holds for two clients. The theorems hold for all values of the
constants that satisfy the assumptions named in the modules: any number of
clients, descriptors, requests and broadcasts, any `AliasFd`, both kinds of pipe
and of `size_t`.

**EventLoopProofs** proves `Spec => []Inv` (`Invariant`) and from it
`TypeCorrect`, `RegistriesCorrect`, `IteratorCorrect`, `PendingDeletesCorrect`,
`FdOwnershipCorrect` and `NoFalseDisconnectCorrect`. None of these properties is
inductive alone. `Inv` adds four parts, checked by TLC before they were proved:

- `QueueInv`. That no delete is posted twice is not seen from the queue. It
  holds because a delete that is pending in the middle of a pass was posted in it,
  by an object the iterator has passed (`QueueBehind`), or was there
  when `select()` was called, and then the queue, at the head of `files`, is read
  before any client has its turn. So no object with a pending delete is still to
  be dispatched.
- `ReadyOwned` and `ReadyFresh`. That a stale bit cuts no healthy client off
  rests on where the server stands in `files`. A descriptor closed in a pass is
  closed by a handler the iterator has passed, or by the queue before the
  server's turn. A client that `accept()` makes after that may get a
  descriptor whose bit is set only if its owner was deleted by the queue in this
  pass, and such an owner had closed its descriptor before. So until the server
  ran each client's bit has its owner (`ReadyOwned`), and what a bit says of the
  clients ahead of the iterator is still true (`ReadyFresh`).
- `IteratorInv`: while events are read the iterator stands on the queue's
  endpoint, which is never deleted; and while an answer is written, on the
  client it is for.
- `TypeInv`: a broadcast has a reading left to send, which keeps the counter
  in its type.

`RegistryCorrect` proves `Spec => RegistryImplemented` from `Inv`: each of
`EventLoop`'s steps is a step of `ClientRegistry` under the mapping, or changes
none of its variables. `PendingDeletesSafe` gives `Free` its guard, `FdOwnership`
gives `Join` a descriptor nobody has.

The proof has a lemma for what each action does to the lists (`Place`,
`Without`, `Append`), and then one for each conjunct, action by action.

**StreamLemmas** is what the proofs about streams share. The library's induction
theorems take an operator as a parameter, which the provers here cannot
instantiate; but that a well-founded relation has a minimal element in each
non-empty set (`WFMin`) speaks of sets only, and gives `Least` and `Induction`:
a set that holds 0 and with each number the next holds all of `Nat`. Every
further induction is over the length of a sequence, as membership in a set. From
it come the facts about `FlattenSeq`, which the community modules define by a
recursive function: what its first and its last element contribute
(`FlattenTail`, `FlattenAppend`), its type and its elements; and that of two
concatenations that are equal, a front that reaches as far as the first piece
begins with it, and the rest is the rest (`FrontTaken`). That last lemma is what
a parser's correctness amounts to. `NoneIn` and `LastIn` say of a queue that it
holds nothing of a kind, or what is the last of that kind.

**MainboardProofs** proves `TypeCorrect` and `CommandsCorrect` for any packets the
board sends, any way reads cut them, any loss of the link with any of the packets
on it, any failed write, any `Junk` and any room on the line. The second is
`CommandsFollowed`, wherever the controller stops: it speaks of each unit by the
last packet written for it, which between two writes of a request is for some
units that of the request before (`Asked`). Its inductive invariant `CommandsInv`
does not wait for the line to be empty: for each unit whose last packet was not
lost, the last packet on the line for it says what it was asked, or none is left
and the unit does it (`Told`). A write makes this true of its unit and leaves the
others' packets alone (`Written`); the board, or a line that drains, takes the
first packet, and if that is a unit's last the unit does it, or has missed it.
`TypeCorrect` needs that a packet is never longer than the buffer it is taken
from; that it may be shorter than a header harms no type (`Processed`).

`BusCorrect` is `Spec => BusImplemented` for the same constants: every step before
the link is first lost is one of the bus or a stutter. It cannot say more, as a
packet that is lost is lost to one unit only, and then no sequence of whole orders
explains what the units do. The write for
the front pair maps to `Issue`, the other two and the answer to a HELLO to
stutters: `Pending(u)` is the packets for `u` on the line (`Commands`) and then
the one to come (`Coming`), and a write moves a command from the second to the
first (`PendingStays`). A packet the board takes maps to `Follow`, and for this
the unit must be the one whose turn it is. That is no consequence of what is
pending; it follows from the order of the packets on the line. The invariant is
`TurnInv`: until the link is lost, cut the line anywhere, count for each unit the commands behind the cut
and the one to come, and the packet behind the cut is for the unit whose turn
these numbers say it is. A write adds as many commands to every unit's count
behind every cut, and is itself in turn (`AppendTurn`); taking a packet leaves
fewer cuts (`TailTurn`).

**MainboardStreamProofs** is about a link that is never lost (`LinkHolds`:
`Unplugs = FALSE`, which is where its history variables are kept): after a loss the code does not say where a packet
begins, and finding 3 shows what comes of it. `StreamInv` says
that buffer and wire are the packets not processed (`StreamIntact`) and that each
is one the board sends; so each says its own length, which is how `Consume` finds
its end, and none begins with NUL, so that none of its pieces is a disconnect
byte when the buffer is empty. `Received` is that lemma: a read leaves the
packets as they are, or takes exactly the first. `StreamCorrect` and
`AddressKeptCorrect` follow. The other three have an invariant each that does
not wait for the stream to be processed: `AddressInv` (the address is at most
each offer that is not still on its way, and one of those made), `MotorsInv` (the
last reading of each driver is held, or is the last of its kind on its way) and
`ToldInv` (a client knows the first motor of the front pair as it is held, from
the first event on, and nothing of the other three). They settle when nothing is on its way.

**MeasProofs** proves `TypeCorrect` (the buffer is never overrun, whatever
arrives), `LeftoverCorrect` (fewer than 9 characters are left between two reads)
and, assuming `MaxChunk + 8 <= 32`, `NothingDroppedCorrect`: chunks of at most 24
characters are never thrown away. Under `Fits`, which adds that a reading has at
most 9 characters (`Digits <= 5`), `StreamCorrect` is `StreamIntact`,
`UnderrunExcluded` shows that `pop_data` is never asked for more than was pushed,
and `GyroCorrect` is `GyroTracks`: what a client was told is what `axis` held
since (`HeldInv`), and the last value sent for an axis is on its way or `axis` is
near it (`NearInv`), where a value not sent yet is none. Both parts of `Fits` are needed: finding 4 is
what happens without the first; without the second the loop, which begins a
reading when 9 characters are there, may find less than all of it. (A reading
shorter than 9 is read correctly too, but may wait for the next one.) So the
parser is right for readings of up to 9 characters and chunks of up to 24, and the
theorems say which half of that each property needs. `unread` begins with what
is left of a reading when the line is opened; it counts as noise, one character
at a time, so that the loop's turns are `TakesNoise` and `TakesReading`.

**VehicleProofs** proves `ConvergedCorrect`, `Converged` for any units, orders,
clients and parts under way. The inductive `BusInv` says that the last part under
way to each unit, or what the unit does if there is none, is its part of `last`; a
unit that takes the first part leaves the last one where it was (`EndOfTail`).
That each step of the composition is one of the bus or a stutter (`BusSteps`) is
mostly how `Vehicle` is put together; what it adds is that a served request asks
for one of `Orders`, since what a reader leaves behind is still bytes
(`BytesCorrect`). That the three writes of the code amount to one order is
`BusCorrect`, and is not shown again here.

**SessionProofs** proves what `Vehicle`'s clients can rely on, for any number of
them and any requests. `SessionInv` is `RequestsIntact`, of closed connections
too, with the requests of their types (`Sizes`: a known opcode tells the size).
A reader that takes the size of its structure takes the first request and
nothing of the next. `AnswersInv` is `AnswersExpected` with the answers yet to
come for the requests not yet served (`Owed`), and gives `AnswersCorrect`.
`CutForCauseCorrect` is the action property: a connection that holds whole
requests (`Whole`) is closed by its reader only if the first of them is to
blame. `DrivenCorrect` is the longest way, from a socket to the wheels. `DriveInv`
says that the last request to drive among those a client has outstanding, if
any, asks for what it wants, and that once the driver has none the last order
given is what it wants; with `Converged` all units do it.

**TeardownProofs** proves `ExitCorrect`, for any clients that came, stay or left,
and all lines the operator types. `ExitInv` relates the three lists: nothing
that is registered or to be deleted was deleted before, nothing is to be deleted
twice, and what was not deleted when the loop starts on what is left is still
registered. For the queue and its ends only a count is kept, as they *are*
deleted twice (finding 5).

The assumptions are those the modules name and TLC evaluates in every run: an
address, an opcode or a reading is a byte, a sync request's fields have the width
of their types, the sets of devices are the code's. None bounds the number of
clients, messages or orders.

Only model-checked are the liveness properties (`RequestsServed`,
`DeferredDeletesHappen`, `StopHonoured`), which need ENABLED for their fairness.
Every other property that a passing run checks is a theorem. What stays assumed
of the operators is their definition in the modules: `SubSeq`, `Append` and the
like are the library's, with its theorems about them. Two helpers of the model
that select from a list, `Pending` and `Without`, are written with `FlattenSeq`,
so that these lemmas apply to them.

## 5. What is not modelled

- `calibrate()` beyond its result. It takes the maximum for a minimum and may
  divide by 0, in floats, into `motor_multiplier`, which nothing reads: its use
  is commented out in `set_throttle`.
- The socket set-up of the server, the command line, a `pipe()` or `open()` that
  fails at start.
- That a vehicle stops when its driver is gone. It does not: no path calls
  `halt()`, which is not implemented, and the timeout of `select()` that should
  is a `#warning`. `Vehicle` has this behaviour and no property forbids it.
- `select()` failing, whose result `run()` does not look at
  (`gptk/event_loop.cpp:147`): it would run a pass on whatever `read_fds` holds.
  Every descriptor it is given is open, and the program installs no signal
  handler for it to be interrupted by.
- A short `write()`. On the board's line it counts as a lost packet; on a socket
  it is not modelled, as a blocking one takes all or fails.
- A controller that loses power or is killed while the vehicle drives, except
  that `CommandsFollowed` speaks of every state it may leave the units in.
- Events of other devices than the two drivers, which the code would take for the
  front pair's readings.
- The bus's speed (`fast` is ignored by `set_throttle`), sounds, reports' contents.
- What descriptor 1, which `stdin_ep` watches, is open on.
- A terminal or serial line that hangs up; a read of 0 bytes from the board.
- `config_file` (not implemented), `file` (not used), `play` (another program).
- EV_FLUSH and EV_STOP, which `process_event` ignores; the event mask, which is
  the same for every file that is read; logging.
- That `tidy_buffer` copies between overlapping places by `memcpy`. The model
  takes it for `memmove`; the language promises nothing.

## 6. Plan

Done, in this order: `EventLoop`, its proofs, `Mainboard`, `Meas`, its proofs;
`ClientRegistry` and that `EventLoop` implements it; `CommandBus` and that
`Mainboard` implements it; `Carma`, `Teardown`, their composition `Vehicle`, its
proofs; proofs of `Mainboard`'s types and of `CommandsFollowed`; `StreamLemmas`,
and with them every other safety property the runs check, and the refinement of
`CommandBus`. Left, in this order:

1. That `Mainboard`'s bus is the one `Vehicle` is built upon is checked and proved
   of each side. A theorem for both would instantiate the one in the other.
2. `Vehicle` with the two serial lines: how long the thread may wait for the bus
   before more than 24 characters are on the accelerometer's line (finding 4 with
   its cause).
3. The server's start, and a descriptor that cannot be opened.
