------------------------------- MODULE Vehicle -------------------------------
(***************************************************************************)
(* The whole controller from main() to its end: CARMA sessions (Carma)     *)
(* whose sync requests are orders to the bus (CommandBus), the operator's  *)
(* terminal (main.cpp, stdin_ep), and what happens once run() returns      *)
(* (Teardown).                                                             *)
(*                                                                         *)
(* The loop is taken for what EventLoop shows of it: it calls the handlers *)
(* of what is ready, one at a time and in any order, and on Linux keeps    *)
(* the objects of clients that left.  The bus is taken for what Mainboard  *)
(* implements: a sync request is one order, and waits while the line has   *)
(* no room.  The bus goes on whatever becomes of the process.              *)
(***************************************************************************)
EXTENDS CommandBus, Carma, Teardown

CONSTANT Typed        \* the lines an operator may type

ASSUME SameObjects == Files = Clients
\* A sync request may ask for anything that a byte can tell all units.
ASSUME DriveAssumption == \A d \in 0..255 : [u \in Units |-> d] \in Orders

VARIABLE driver       \* history: whose sync request was served last

NoDriver == "nobody"

vehicleVars == <<sessionVars, busVars, exitVars, driver>>

VehicleInit == SessionInit /\ BusInit /\ ExitInit /\ driver = NoDriver

-----------------------------------------------------------------------------
(* carma::read_sync: a session and the bus in one step *)

\* Mutant: the throttle is read from the place of the calibration flag.
OrderMisread(c) == [u \in Units |-> rx[c][2]]

Order(c) == [u \in Units |-> Drive(c)]

Sync(c) ==
    /\ ReadSync(c)
    /\ Issue(Order(c))
    /\ driver' = c
    /\ UNCHANGED exitVars

-----------------------------------------------------------------------------
(* stdin_ep::parse: a line is a sequence of characters *)

Exit == <<"e", "x", "i", "t">>
Alphanumeric == {"e", "x", "i", "t", "s", "o", "p"}

\* The alphanumeric characters a line begins with.
Word(line) ==
    SubSeq(line, 1, Max({n \in 0..Len(line) :
                           \A i \in 1..n : line[i] \in Alphanumeric}))

\* strncmp with the length of the word: any prefix of "exit" will do.
Stops(line) == line # <<>> /\ IsPrefix(Word(line), Exit)

\* parse() does not move on past the end of another word.
Hangs(line) == ~Stops(line) /\ Word(line) # line

\* run() returns.  The kernel closes the connections.
Stop(line) ==
    /\ Stops(line)
    /\ Return(clients)
    /\ conn' = [c \in Clients |-> "none"]
    /\ coming'   = [c \in Clients |-> <<>>]
    /\ rx'       = [c \in Clients |-> <<>>]
    /\ answers'  = [c \in Clients |-> <<>>]
    /\ unserved' = [c \in Clients |-> <<>>]
    /\ expected' = [c \in Clients |-> <<>>]
    /\ UNCHANGED <<clients, wanted, busVars, driver>>

Hang(line) ==
    /\ Hangs(line)
    /\ phase = "run" /\ phase' = "hung"
    /\ UNCHANGED <<sessionVars, busVars, files, todo, freed, dangling, driver>>

-----------------------------------------------------------------------------
\* What a client or TCP may do in a session, and what its handler does but to
\* drive.
Peer(c) == \/ \E r \in Requests[c] : ClientSends(c, r)
           \/ \E k \in 1..Len(coming[c]) : Deliver(c, k)
           \/ ClientReads(c) \/ ClientLeaves(c)

Handler(c) == \/ Connect(c) \/ Gone(c)
              \/ InvalidOpcode(c) \/ InvalidSize(c)
              \/ ReadKeepalive(c) \/ ReadReport(c) \/ RefuseReport(c)

Running ==
    /\ phase = "run"
    /\ \/ \E c \in Clients : /\ Peer(c) \/ Handler(c)
                             /\ UNCHANGED <<busVars, exitVars, driver>>
       \/ \E c \in Clients : Sync(c)
       \/ \E line \in Typed : Stop(line) \/ Hang(line)

Obeying == /\ \E u \in Units : Follow(u)
           /\ UNCHANGED <<sessionVars, exitVars, driver>>

Exiting == ExitNext /\ UNCHANGED <<sessionVars, busVars, driver>>

VehicleNext == Running \/ Obeying \/ Exiting

VehicleSpec == VehicleInit /\ [][VehicleNext]_vehicleVars

-----------------------------------------------------------------------------
(* Properties *)

\* From a client's socket to the wheels: once the one that drove last has no
\* request outstanding and the bus is quiet, every unit does what the last of
\* its sync requests asked.
Driven ==
    driver # NoDriver /\ Linked(driver) /\ unserved[driver] = <<>>
    /\ (\A u \in Units : pending[u] = <<>>)
       => \A u \in Units : obeyed[u] = wanted[driver]

\* What main() made is deleted once when it ends, and so is each client,
\* registered still or long gone, by the loop: none twice, none not at all.
ExitComplete ==
    \A x \in Objects \ ToSet(QueueDeletes) :
       /\ freed[x] <= 1
       /\ phase = "done" /\ x \in ToSet(MainFiles \o clients) => freed[x] = 1

==============================================================================
