------------------------------ MODULE EventLoop ------------------------------
(***************************************************************************)
(* The single-threaded heart of vehicle-controller: event_loop::run and    *)
(* the files it dispatches (gptk/event_loop.cpp, gptk/ufile.cpp), the      *)
(* event queue built on a pipe (gptk/unixpipe.cpp), the listening server   *)
(* (server.cpp), the life of a client object (client.cpp) and the writes   *)
(* the CARMA protocol makes to it (protocols/carma.cpp), together with the *)
(* environment of the process: TCP peers, the two serial devices and the   *)
(* operator's terminal.                                                    *)
(*                                                                         *)
(* A file is a client object (an address in Objs, reused once it is freed) *)
(* or one of the seven files main() creates, named by the negative         *)
(* handles below.  A connection is named by its file descriptor.  The      *)
(* contents of packets are left to other modules: here a request is only   *)
(* what makes the handler take another path.                               *)
(***************************************************************************)
EXTENDS Integers, FiniteSets, SequencesExt

CONSTANTS
    Objs,         \* heap addresses a client object may have
    MaxFd,        \* bound: client descriptors are 8..MaxFd (EMFILE beyond)
    AliasFd,      \* the bit FD_ISSET(-1, set) reads: 63 on x86-64, 31 on i386
    DuplexPipe,   \* TRUE where both ends of pipe() can be read and written
    CleanSize,    \* TRUE where int and size_t have the same width (ILP32)
    Backlog,      \* bound: connections waiting in the listen queue
    RxMax,        \* bound: requests a peer may have outstanding
    SndBuf,       \* bound: replies the socket buffers hold before write blocks
    Burst,        \* bound: broadcasts caused by one read of the meas device
    Requests,     \* kinds of request the peers send
    Devices       \* those of mainboard, meas and stdin that produce input

ClientFds == 8..MaxFd

\* The files of main(), in the order of their registration, and their fds.
\* config_file::open is not implemented: its fd stays -1.
First     == -1
Second    == -2
Server    == -3
Mainboard == -4
Config    == -5
Meas      == -6
Stdin     == -7
Fixed == <<First, Second, Server, Mainboard, Config, Meas, Stdin>>
FixedFd(f) == CASE f = First     -> 3
                [] f = Second    -> 4
                [] f = Server    -> 5
                [] f = Mainboard -> 6
                [] f = Config    -> -1
                [] f = Meas      -> 7
                [] f = Stdin     -> 1

FixedFiles == -7..-1
Begin == 0                             \* the iterator before files.begin()

ASSUME ObjsAssumption   == Objs \cap (-7..0) = {}
ASSUME BoundsAssumption == /\ MaxFd \in Nat /\ AliasFd \in Nat
                           /\ Backlog \in Nat /\ RxMax \in Nat
                           /\ SndBuf \in Nat /\ Burst \in Nat
ASSUME BuildAssumption  == DuplexPipe \in BOOLEAN /\ CleanSize \in BOOLEAN
ASSUME DevicesAssumption == Devices \subseteq {Mainboard, Meas, Stdin}
ASSUME RequestsAssumption ==
    Requests \subseteq {"sync", "calibrate", "keepalive", "report", "bad"}

VARIABLES
    files,          \* event_loop::files
    clients,        \* client::clients
    heap,           \* client objects allocated and not yet freed
    fd,             \* ufile::fd of each client object
    conn,           \* the kernel's side of each client descriptor
    backlog,        \* connections waiting to be accepted
    input,          \* devices that have unread bytes
    queue,          \* EV_DEFER_DELETE events in the pipe (FLUSH and STOP,
                    \* which process_event ignores, are left out)
    condemned,      \* objects that called defer_delete and still exist
    gracious_stop,  \* event_loop::gracious_stop
    pc,             \* where the only thread is
    ready,          \* read_fds as select() left it
    it,             \* the file the iterator of run() stands on
    bleft, bnext    \* broadcasts left, and the client the current one is at

registry == <<files, clients, heap>>
bcast    == <<bleft, bnext>>
vars == <<files, clients, heap, fd, conn, backlog, input, queue, condemned,
          gracious_stop, pc, ready, it, bleft, bnext>>

-----------------------------------------------------------------------------
\* "est": open both ways; "fin": the peer has closed its sending side;
\* "reset": a RST arrived on an open connection and no write has seen it;
\* "broken": a write raises SIGPIPE, which nothing in the program ignores.
SockStates == {"free", "est", "fin", "reset", "broken"}
Free   == [state |-> "free", rx |-> <<>>, tx |-> 0]
Opened == [state |-> "est",  rx |-> <<>>, tx |-> 0]
Conns  == [state : SockStates, rx : Seq(Requests), tx : 0..SndBuf]

FdOf(f) == IF f \in FixedFiles THEN FixedFd(f) ELSE fd[f]

\* The bit FD_ISSET tests for a file: the second loop of run() does not
\* check for -1.
Bit(f) == IF FdOf(f) = -1 THEN AliasFd ELSE FdOf(f)

\* Level-triggered readiness.  Neither end of a one-way pipe is ever ready:
\* first, the read end, is the one written to (EBADF), so nothing arrives,
\* and second, the write end, is not readable.
Readable(n) ==
    \/ n = FixedFd(Second) /\ DuplexPipe /\ queue # <<>>
    \/ n = FixedFd(Server) /\ backlog > 0
    \/ n = FixedFd(Mainboard) /\ Mainboard \in input
    \/ n = FixedFd(Meas) /\ Meas \in input
    \/ n = FixedFd(Stdin) /\ Stdin \in input
    \/ n \in ClientFds /\ (conn[n].rx # <<>>
                             \/ conn[n].state \in {"fin", "reset", "broken"})

\* std::list::remove
Without(s, x) == IF \E i \in DOMAIN s : s[i] = x
                 THEN RemoveAt(s, CHOOSE i \in DOMAIN s : s[i] = x)
                 ELSE s

Place(f) == IF f = Begin THEN 0 ELSE CHOOSE i \in DOMAIN files : files[i] = f

\* f is the next file of the pass whose data_available() is called.
Due(f) == /\ pc = "pass"
          /\ Bit(f) \in ready
          /\ Place(f) > Place(it)
          /\ \A g \in ToSet(files) :
                Bit(g) \in ready /\ Place(g) > Place(it) => Place(f) <= Place(g)

\* Mutant: an event posted while another one waits is lost.
PostedWhenEmpty(q, c) == IF q = <<>> THEN <<c>> ELSE q

\* evl_event_queue::post_event writes to first(), the read end of the pipe.
Posted(q, c) == IF DuplexPipe THEN Append(q, c) ELSE q

Init == /\ files = Fixed /\ clients = <<>> /\ heap = {}
        /\ fd = [c \in Objs |-> -1]
        /\ conn = [n \in ClientFds |-> Free]
        /\ backlog = 0 /\ input = {}
        /\ queue = <<>> /\ condemned = {} /\ gracious_stop = FALSE
        /\ pc = "select" /\ ready = {} /\ it = Begin
        /\ bleft = 0 /\ bnext = 1

-----------------------------------------------------------------------------
(* event_loop::run *)

\* Mutant: run() relies on the event that stop() posts, which has no handler.
SelectIgnoresStop ==
    /\ pc = "select"
    /\ ready' = {n \in {FdOf(f) : f \in ToSet(files)} : n > -1 /\ Readable(n)}
    /\ ready' # {}
    /\ it' = Begin /\ pc' = "pass"
    /\ UNCHANGED <<registry, fd, conn, backlog, input, queue, condemned,
                   gracious_stop, bcast>>

\* One turn of the outer loop up to the second inner loop.  A timeout, and a
\* select() that leaves its timeout untouched, change nothing here; select()
\* does not fail (it has valid descriptors, and no signal has a handler).
Select ==
    /\ pc = "select" /\ ~gracious_stop
    /\ ready' = {n \in {FdOf(f) : f \in ToSet(files)} : n > -1 /\ Readable(n)}
    /\ ready' # {}
    /\ it' = Begin /\ pc' = "pass"
    /\ UNCHANGED <<registry, fd, conn, backlog, input, queue, condemned,
                   gracious_stop, bcast>>

\* Mutant: the passes are repeated on one read_fds, which is not rebuilt.
EndPassRepeats ==
    /\ pc = "pass"
    /\ \A f \in ToSet(files) : Place(f) > Place(it) => Bit(f) \notin ready
    /\ \/ pc' = "select" /\ ready' = {}
       \/ UNCHANGED <<pc, ready>>
    /\ it' = Begin
    /\ UNCHANGED <<registry, fd, conn, backlog, input, queue, condemned,
                   gracious_stop, bcast>>

\* No file after the iterator is ready: the inner loop ends.
EndPass ==
    /\ pc = "pass"
    /\ \A f \in ToSet(files) : Place(f) > Place(it) => Bit(f) \notin ready
    /\ pc' = "select" /\ it' = Begin /\ ready' = {}
    /\ UNCHANGED <<registry, fd, conn, backlog, input, queue, condemned,
                   gracious_stop, bcast>>

Leave ==
    /\ pc = "select" /\ gracious_stop
    /\ pc' = "exit"
    /\ UNCHANGED <<registry, fd, conn, backlog, input, queue, condemned,
                   gracious_stop, ready, it, bcast>>

-----------------------------------------------------------------------------
(* The event queue *)

\* data_available on an endpoint: read events while there are any.
QueueReady ==
    /\ Due(Second)
    /\ it' = Second /\ pc' = "drain"
    /\ UNCHANGED <<registry, fd, conn, backlog, input, queue, condemned,
                   gracious_stop, ready, bcast>>

\* Mutant: ~client does not remove the object from client::clients.
DeleteHeadKeepsClient ==
    /\ pc = "drain" /\ queue # <<>>
    /\ files' = Without(files, Head(queue))
    /\ heap' = heap \ {Head(queue)}
    /\ condemned' = condemned \ {Head(queue)}
    /\ queue' = Tail(queue)
    /\ UNCHANGED <<clients, conn, fd, backlog, input, gracious_stop, pc, ready,
                   it, bcast>>

\* EV_DEFER_DELETE: `delete ev.sender' runs ~client and ~ufile.
DeleteHead ==
    /\ pc = "drain" /\ queue # <<>>
    /\ LET c == Head(queue) IN
         /\ files' = Without(files, c)
         /\ clients' = Without(clients, c)
         /\ heap' = heap \ {c}
         /\ condemned' = condemned \ {c}
         /\ conn' = IF fd[c] > 0 THEN [conn EXCEPT ![fd[c]] = Free] ELSE conn
         /\ fd' = [fd EXCEPT ![c] = -1]
    /\ queue' = Tail(queue)
    /\ UNCHANGED <<backlog, input, gracious_stop, pc, ready, it, bcast>>

\* The pipe is empty.  Where size_t is wider than the int that FIONREAD
\* stores, the upper half of bytes_available() is whatever the stack held:
\* a non-zero one makes the loop read from the empty pipe and block for ever.
Drained ==
    /\ pc = "drain" /\ queue = <<>>
    /\ \/ pc' = "pass"
       \/ ~CleanSize /\ pc' = "hung"
    /\ UNCHANGED <<registry, fd, conn, backlog, input, queue, condemned,
                   gracious_stop, ready, it, bcast>>

-----------------------------------------------------------------------------
(* server::accept and client::client *)

FreeFds == {n \in ClientFds : conn[n].state = "free"}

\* Mutant: the constructor does not register the file with the event loop.
NewClientUnwatched(c, n) ==
    /\ c \in Objs \ heap
    /\ heap' = heap \cup {c}
    /\ files' = files
    /\ clients' = Append(clients, c)
    /\ fd' = [fd EXCEPT ![c] = n]

NewClient(c, n) ==
    /\ c \in Objs \ heap
    /\ heap' = heap \cup {c}
    /\ files' = Append(files, c)
    /\ clients' = Append(clients, c)
    /\ fd' = [fd EXCEPT ![c] = n]

\* accept() returns the lowest free descriptor.
Accept(c) ==
    /\ Due(Server) /\ backlog > 0
    /\ \E n \in FreeFds : /\ \A m \in FreeFds : n <= m
                          /\ NewClient(c, n)
                          /\ conn' = [conn EXCEPT ![n] = Opened]
    /\ backlog' = backlog - 1
    /\ it' = Server
    /\ UNCHANGED <<input, queue, condemned, gracious_stop, pc, ready, bcast>>

\* accept() fails with -1, which `if(cli_fd)' takes for a descriptor: a
\* client without a connection is made and the connection stays queued.
AcceptFails(c) ==
    /\ Due(Server) /\ backlog > 0 /\ FreeFds = {}
    /\ NewClient(c, -1)
    /\ it' = Server
    /\ UNCHANGED <<conn, backlog, input, queue, condemned, gracious_stop, pc,
                   ready, bcast>>

-----------------------------------------------------------------------------
(* client::data_available, carma::start_reading and the writes they make *)

\* Mutant: the descriptor is forgotten without being closed.
ClosedLeaking(c) ==
    /\ fd' = [fd EXCEPT ![c] = -1]
    /\ conn' = conn

\* ufile::close on a client
Closed(c) ==
    /\ fd' = [fd EXCEPT ![c] = -1]
    /\ conn' = IF fd[c] = -1 THEN conn ELSE [conn EXCEPT ![fd[c]] = Free]

NoBytes(c) == fd[c] # -1 => conn[fd[c]].rx = <<>>

\* Mutant: `delete this' instead of defer_delete().
ClientGoneDeletes(c) ==
    /\ Due(c) /\ NoBytes(c)
    /\ Closed(c)
    /\ files' = Without(files, c)
    /\ clients' = Without(clients, c)
    /\ heap' = heap \ {c}
    /\ it' = c
    /\ UNCHANGED <<backlog, input, queue, condemned, gracious_stop, pc, ready,
                   bcast>>

\* Mutant: the descriptor is left open until the deferred delete.
ClientGoneKeepsFd(c) ==
    /\ Due(c) /\ NoBytes(c)
    /\ queue' = Posted(queue, c)
    /\ condemned' = condemned \cup {c}
    /\ it' = c
    /\ UNCHANGED <<registry, fd, conn, backlog, input, gracious_stop, pc, ready,
                   bcast>>

\* bytes_available() == 0: "Disconnected".
ClientGone(c) ==
    /\ Due(c) /\ NoBytes(c)
    /\ Closed(c)
    /\ queue' = Posted(queue, c)
    /\ condemned' = condemned \cup {c}
    /\ it' = c
    /\ UNCHANGED <<registry, backlog, input, gracious_stop, pc, ready, bcast>>

\* The upper half of bytes_available() is not 0: the end of the stream goes
\* to start_reading, which fails whatever the opcode it did not receive.
ClientGoneMisread(c) ==
    /\ Due(c) /\ NoBytes(c)
    /\ fd[c] # -1 /\ ~CleanSize
    /\ Closed(c)
    /\ it' = c
    /\ UNCHANGED <<registry, backlog, input, queue, condemned, gracious_stop,
                   pc, ready, bcast>>

\* start_reading returns -1: a wrong opcode or a short packet ("bad"), or a
\* report request on a machine without the sound directory.
ProtocolError(c) ==
    /\ Due(c) /\ ~NoBytes(c)
    /\ Head(conn[fd[c]].rx) \in {"bad", "report"}
    /\ Closed(c)
    /\ it' = c
    /\ UNCHANGED <<registry, backlog, input, queue, condemned, gracious_stop,
                   pc, ready, bcast>>

\* The request is read; "sync" without calibration needs no answer.
Request(c) ==
    /\ Due(c) /\ ~NoBytes(c)
    /\ LET r == Head(conn[fd[c]].rx) IN
         /\ r # "bad"
         /\ pc' = CASE r = "sync"   -> "pass"
                    [] r = "report" -> "report"
                    [] OTHER        -> "ack"
    /\ conn' = [conn EXCEPT ![fd[c]].rx = Tail(@)]
    /\ it' = c
    /\ UNCHANGED <<registry, fd, backlog, input, queue, condemned,
                   gracious_stop, ready, bcast>>

\* write() on a blocking socket returns once the buffers take the data;
\* while they are full the action, and with it the process, waits.
CanWrite(n) == conn[n].state \in {"est", "fin"} /\ conn[n].tx < SndBuf
Written(n)  == [conn EXCEPT ![n].tx = @ + 1]
\* The first write after a RST returns ECONNRESET, and later ones raise
\* SIGPIPE.
WriteFails(n) == conn[n].state = "reset"
Refused(n)  == [conn EXCEPT ![n].state = "broken"]
WriteKills(n) == conn[n].state = "broken"

\* The answer: the result is used for a report only, where -1 closes.
Reply ==
    /\ pc \in {"ack", "report"}
    /\ LET n == fd[it] IN
         \/ CanWrite(n) /\ conn' = Written(n) /\ pc' = "pass" /\ fd' = fd
         \/ WriteFails(n) /\ pc' = "pass"
              /\ IF pc = "report" THEN Closed(it)
                                  ELSE conn' = Refused(n) /\ fd' = fd
         \/ WriteKills(n) /\ pc' = "killed" /\ conn' = conn /\ fd' = fd
    /\ UNCHANGED <<registry, backlog, input, queue, condemned, gracious_stop,
                   ready, it, bcast>>

-----------------------------------------------------------------------------
(* The devices: mainboard and meas broadcast, stdin may stop the loop *)

\* One read of a device takes all its bytes and causes k broadcasts: one
\* packet at most from the mainboard, several readings from meas.  With a dirty
\* upper half the buffer meas puts on the stack has 2^32 bytes or more and the
\* process dies; the mainboard keeps 16 bits of the size.
SensorReady(d) ==
    /\ Due(d)
    /\ \/ \E k \in 0..(IF d = Mainboard THEN 1 ELSE Burst) :
            /\ bleft' = k
            /\ pc' = IF k = 0 THEN "pass" ELSE "broadcast"
       \/ d = Meas /\ ~CleanSize /\ pc' = "killed" /\ bleft' = 0
    /\ bnext' = 1
    /\ input' = input \ {d}
    /\ it' = d
    /\ UNCHANGED <<registry, fd, conn, backlog, queue, condemned,
                   gracious_stop, ready>>

\* client::incoming_*_event: one write for each element of client::clients,
\* whose failure nobody looks at.  A write on fd -1 is EBADF.
BroadcastTo ==
    /\ pc = "broadcast" /\ bnext <= Len(clients)
    /\ LET n == fd[clients[bnext]] IN
         \/ n = -1 /\ conn' = conn /\ pc' = pc
         \/ n # -1 /\ CanWrite(n) /\ conn' = Written(n) /\ pc' = pc
         \/ n # -1 /\ WriteFails(n) /\ conn' = Refused(n) /\ pc' = pc
         \/ n # -1 /\ WriteKills(n) /\ conn' = conn /\ pc' = "killed"
    /\ bnext' = bnext + 1
    /\ UNCHANGED <<registry, fd, backlog, input, queue, condemned,
                   gracious_stop, ready, it, bleft>>

\* Mutant: the loop over the readings runs once too often.
BroadcastDoneLate ==
    /\ pc = "broadcast" /\ bnext > Len(clients)
    /\ bleft' = bleft - 1
    /\ bnext' = 1
    /\ pc' = IF bleft = 0 THEN "pass" ELSE "broadcast"
    /\ UNCHANGED <<registry, fd, conn, backlog, input, queue, condemned,
                   gracious_stop, ready, it>>

BroadcastDone ==
    /\ pc = "broadcast" /\ bnext > Len(clients)
    /\ bleft' = bleft - 1
    /\ bnext' = 1
    /\ pc' = IF bleft = 1 THEN "pass" ELSE "broadcast"
    /\ UNCHANGED <<registry, fd, conn, backlog, input, queue, condemned,
                   gracious_stop, ready, it>>

\* stdin_ep::data_available.  parse() stops the loop on a prefix of "exit"
\* (an empty line is one), ignores other words that end the buffer, and for
\* any other first word loops for ever.  With a dirty upper half the buffer
\* on the stack has 2^32 bytes or more and the process dies.
StdinReady ==
    /\ Due(Stdin)
    /\ input' = input \ {Stdin}
    /\ it' = Stdin
    /\ \/ pc' = "pass" /\ gracious_stop' \in {gracious_stop, TRUE}
       \/ pc' = "hung" /\ UNCHANGED gracious_stop
       \/ ~CleanSize /\ pc' = "killed" /\ UNCHANGED gracious_stop
    /\ UNCHANGED <<registry, fd, conn, backlog, queue, condemned, ready,
                   bcast>>

\* FD_ISSET(-1) hit a watched descriptor: ufile::data_available is empty.
ConfigReady ==
    /\ Due(Config)
    /\ it' = Config
    /\ UNCHANGED <<registry, fd, conn, backlog, input, queue, condemned,
                   gracious_stop, pc, ready, bcast>>

-----------------------------------------------------------------------------
(* The environment *)

\* bound: there are never more connections than objects.
PeerConnect ==
    /\ backlog < Backlog /\ backlog + Cardinality(heap) < Cardinality(Objs)
    /\ backlog' = backlog + 1
    /\ UNCHANGED <<registry, fd, conn, input, queue, condemned, gracious_stop,
                   pc, ready, it, bcast>>

Network(n, new) ==
    /\ conn' = [conn EXCEPT ![n] = new]
    /\ UNCHANGED <<registry, fd, backlog, input, queue, condemned,
                   gracious_stop, pc, ready, it, bcast>>

PeerSend(n) ==
    /\ conn[n].state = "est" /\ Len(conn[n].rx) < RxMax
    /\ \E r \in Requests :
          Network(n, [conn[n] EXCEPT !.rx = Append(@, r)])

PeerRead(n) ==
    /\ conn[n].state \in {"est", "fin"} /\ conn[n].tx > 0
    /\ Network(n, [conn[n] EXCEPT !.tx = @ - 1])

PeerClose(n) ==
    /\ conn[n].state = "est"
    /\ Network(n, [conn[n] EXCEPT !.state = "fin"])

PeerAbort(n) ==
    /\ conn[n].state = "est"
    /\ Network(n, [conn[n] EXCEPT !.state = "reset"])

\* A peer that has closed altogether answers data with a RST.
PeerReset(n) ==
    /\ conn[n].state = "fin" /\ conn[n].tx > 0
    /\ Network(n, [conn[n] EXCEPT !.state = "broken"])

DeviceInput(d) ==
    /\ d \notin input
    /\ input' = input \cup {d}
    /\ UNCHANGED <<registry, fd, conn, backlog, queue, condemned,
                   gracious_stop, pc, ready, it, bcast>>

-----------------------------------------------------------------------------
ClientStep(c) == ClientGone(c) \/ ClientGoneMisread(c) \/ ProtocolError(c)
                   \/ Request(c)

Loop == \/ Select \/ EndPass \/ Leave
        \/ QueueReady \/ DeleteHead \/ Drained
        \/ \E c \in Objs : Accept(c) \/ AcceptFails(c)
        \/ \E c \in heap : ClientStep(c)
        \/ Reply
        \/ \E d \in {Mainboard, Meas} : SensorReady(d)
        \/ BroadcastTo \/ BroadcastDone
        \/ StdinReady \/ ConfigReady

Peer(n) == \/ PeerSend(n) \/ PeerRead(n) \/ PeerClose(n) \/ PeerAbort(n)
           \/ PeerReset(n)

Environment == \/ PeerConnect
               \/ \E n \in ClientFds : Peer(n)
               \/ \E d \in Devices : DeviceInput(d)

Next == Loop \/ Environment

Spec == Init /\ [][Next]_vars

\* The process is scheduled, and a peer reads what it is sent or its kernel
\* answers with a RST: without the second, write() blocks for ever.
FairSpec == /\ Spec
            /\ WF_vars(Loop)
            /\ \A n \in ClientFds : WF_vars(PeerRead(n) \/ PeerReset(n))

-----------------------------------------------------------------------------
(* Safety *)

PCs == {"select", "pass", "drain", "broadcast", "ack", "report", "hung",
        "killed", "exit"}

\* The values each variable may take.
TypeOK ==
    /\ heap \subseteq Objs
    /\ files \in Seq(Objs \cup FixedFiles) /\ clients \in Seq(Objs)
    /\ fd \in [Objs -> ClientFds \cup {-1}]
    /\ conn \in [ClientFds -> Conns]
    /\ backlog \in Nat /\ input \subseteq Devices
    /\ queue \in Seq(Objs) /\ condemned \subseteq heap
    /\ gracious_stop \in BOOLEAN /\ pc \in PCs
    /\ ready \subseteq Nat /\ it \in Objs \cup FixedFiles \cup {Begin}
    /\ bleft \in Nat /\ bnext \in Nat \ {0}

\* event_loop::files and client::clients hold the same client objects, in the
\* order they were made, each once, and no freed one: what the two loops of
\* run() and the broadcasts dereference is alive.
RegistriesAgree ==
    /\ files = Fixed \o clients
    /\ ToSet(clients) = heap
    /\ \A i, j \in DOMAIN clients : clients[i] = clients[j] => i = j

\* No two objects own a descriptor, none owns a closed one, and every open
\* connection is owned: closing and reusing descriptors never mixes clients
\* up and leaks none.
FdOwnership ==
    /\ \A c \in heap : fd[c] # -1 => conn[fd[c]].state # "free"
    /\ \A c, d \in heap : fd[c] = fd[d] /\ fd[c] # -1 => c = d
    /\ \A n \in ClientFds :
          conn[n].state # "free" => \E c \in heap : fd[c] = n

\* The node under run()'s iterator is still in the list when it++ follows it:
\* what defer_delete is for.
IteratorValid == it \in heap \cup FixedFiles \cup {Begin}

\* Each deferred delete is of an object that asked for it, still exists, has
\* closed its descriptor, and is queued once: no double free, and an address
\* that was reused is not freed in the place of its former owner.
PendingDeletesSafe ==
    /\ \A i \in DOMAIN queue :
          queue[i] \in condemned \cap heap /\ fd[queue[i]] = -1
    /\ \A i, j \in DOMAIN queue : queue[i] = queue[j] => i = j

\* A connection that is open both ways is only ever closed by the server for
\* a packet it could not serve, never because a stale readiness makes its
\* descriptor look like that of a peer that left.
NoFalseDisconnect ==
    [][\A n \in ClientFds :
          conn[n].state = "est" /\ conn'[n].state = "free" =>
             conn[n].rx # <<>> /\ Head(conn[n].rx) \in {"bad", "report"}]_vars

\* The registry this loop keeps, seen through no more than which objects
\* exist, what each is connected to and which asked to be deleted.
Registry == INSTANCE ClientRegistry WITH
                Objects <- Objs,
                Lines   <- ClientFds,
                live    <- heap,
                line    <- fd,
                leaving <- condemned

\* With all its queues, passes and stale readiness the loop is a registry of
\* clients: an object is freed once, after it gave its connection up and asked
\* for it, and no two ever share a connection.
RegistryImplemented == Registry!RegistrySpec

-----------------------------------------------------------------------------
(* What the safety properties rest on *)

\* A broadcast under way has a reading to send.
TypeInv == TypeOK /\ (pc = "broadcast" => bleft > 0)

\* Where the iterator stands while a handler runs.
IteratorInv ==
    /\ IteratorValid
    /\ pc = "drain" => it = Second
    /\ pc \in {"ack", "report"} => it \in heap

InPass == pc \in {"pass", "ack", "report", "broadcast"}

\* Deletes are pending in the middle of a pass only while the queue is still
\* to be read in it, or after a client has posted them: their objects are
\* then behind the iterator, so no object posts a second one.
QueueBehind ==
    InPass => \A i \in DOMAIN queue :
                 \/ it = Begin /\ FixedFd(Second) \in ready
                 \/ it \in heap /\ Place(queue[i]) <= Place(it)

QueueInv == /\ PendingDeletesSafe
            /\ QueueBehind
            /\ queue # <<>> => DuplexPipe

\* Until the server has run in a pass, each client descriptor that select()
\* reported still has its owner.
ReadyOwned ==
    (InPass \/ pc = "drain") /\ it \in {Begin, First, Second} =>
       \A n \in ready \cap ClientFds : \E c \in heap : fd[c] = n

\* What select() said of the clients the iterator has yet to reach is still
\* true: there is something to read, or the peer has gone.
ReadyFresh ==
    InPass \/ pc = "drain" =>
       \A c \in heap :
          fd[c] \in ready \cap ClientFds /\ Place(c) > Place(it) =>
             conn[fd[c]].rx # <<>> \/ conn[fd[c]].state # "est"

Inv == /\ TypeInv /\ RegistriesAgree /\ IteratorInv /\ QueueInv /\ FdOwnership
       /\ ReadyOwned /\ ReadyFresh

-----------------------------------------------------------------------------
(* Liveness *)

Halted == pc \in {"hung", "killed", "exit"}

\* Every request is read, or its connection closed, unless the process halts.
RequestsServed ==
    \A n \in ClientFds : conn[n].rx # <<>> ~> conn[n].rx = <<>> \/ Halted

\* event_loop::stop() ends run(): the flag it sets is enough, although no
\* handler exists for the event it posts.  What is left of the pass may still
\* be killed by a write to a client, but neither hangs nor goes on for ever.
StopHonoured == gracious_stop ~> pc \in {"exit", "killed"}

\* An object that called defer_delete() is deleted.
DeferredDeletesHappen ==
    \A c \in Objs : c \in condemned ~> c \notin condemned \/ Halted

\* A write to a connection the peer has broken is an error the server
\* survives, as "Protocol error - Write fail" supposes.
WriteFailureSurvived == pc # "killed"

=============================================================================
