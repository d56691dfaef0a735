------------------------------ MODULE Mainboard ------------------------------
(***************************************************************************)
(* The link to the vehicle's main board (mainboard.cpp): the byte stream   *)
(* it reads from a serial line and cuts into packets, the address it takes *)
(* on the bus, the readings of the motor drivers it keeps, and the         *)
(* commands a sync request (carma::read_sync) makes it write.              *)
(*                                                                         *)
(* A packet is a sequence of bytes.  Its layout keeps the two bytes of     *)
(* bus_hdr::len, which may be read apart, and gives every other field one  *)
(* byte; the CRC, which nothing computes or checks, is left out:           *)
(*                                                                         *)
(*        len_lo, len_hi, op, saddr, daddr, stype, payload ...             *)
(*                                                                         *)
(* `connected' is left out too: it is written and never read.              *)
(***************************************************************************)
EXTENDS Integers, SequencesExt, FiniteSets

CONSTANTS
    Offers,      \* <<host, address>> pairs the board may send in a HELLO
    Readings,    \* sensor readings of the two motors of a pair
    Senders,     \* device types whose EVENTs reach the controller
    Syncs,       \* what sync requests ask: [left, right, io]
    Unplugs,     \* TRUE where the link may be lost, and what is on it too
    MaxBytes,    \* bound: bytes in flight or buffered
    MaxOut,      \* capacity of the line's output buffer, in packets
    Junk         \* bytes that may lie behind the end of a heap block

NoAddr == 65535                        \* bus_addr_t my_addr = -1
ASSUME OffersAssumption == Offers \subseteq (0..255) \X (0..255)
ASSUME ReadingsAssumption == /\ Readings \subseteq (1..255) \X (1..255)
                             /\ Junk \subseteq 0..255
ASSUME SyncsAssumption ==
    Syncs \subseteq [left : -128..127, right : -128..127, io : 0..255]
ASSUME LineAssumption == /\ Unplugs \in BOOLEAN /\ MaxBytes \in Nat
                         /\ MaxOut \in Nat \ {0}

\* bus_types.h
HELLO   == 0
EVENT   == 1
DONE    == 2
ACQUIRE == 3
FRONT   == 2
BACK    == 3
IPC     == 6
IO      == 7
Drivers == {FRONT, BACK}
Units   == Drivers \cup {IO}
ASSUME SendersAssumption == Senders \subseteq Drivers

VARIABLES
    wire,           \* bytes sent by the board and not yet read
    read_buffer,    \* <<>> stands for NULL
    my_addr, host_addr,
    motors_buffer,  \* readings of the front pair and of the back pair
    response,       \* what carma::response of a client holds of the motors
    out,            \* packets written to the line, not yet taken by the board
    pc,             \* which bus_write of a sync request is next
    sync,           \* the last sync request
    plugged,        \* the board is there
    obeyed,         \* what the drivers and the outputs were last told
    before,         \* history: the sync request before the last one,
    missed,         \* the units whose last packet was lost,
    lost,           \* and whether the link ever was
    unread,         \* history, kept where the link is never lost: what was
                    \* sent and has not been processed,
    offered,        \* the offers sent,
    reported        \* and the last reading each driver sent

readings == <<motors_buffer, response>>
lineVars == <<read_buffer, my_addr, host_addr, readings>>
requests == <<sync, before, missed>>
history  == <<unread, offered, reported, lost>>
vars == <<wire, lineVars, out, pc, requests, plugged, obeyed, history>>

Still == [left |-> 0, right |-> 0, io |-> 0]
Zeros == <<0, 0>>                      \* memset in mainboard's constructor
Unset == -1                            \* carma's constructor sets nothing

\* What a sync request tells the two drivers and the outputs.
Throttles(s) == <<s.left * 10, s.right * 10>>
OrderOf(s) == [u \in Units |-> IF u = IO THEN <<s.io>> ELSE Throttles(s)]

-----------------------------------------------------------------------------
(* Packets *)

HdrLen == 6
Hello(o)    == <<6, 0, HELLO, o[1], o[2], IPC>>
Event(d, r) == <<8, 0, EVENT, 0, 0, d, r[1], r[2]>>
Done        == <<6, 0, DONE, 0, 0, FRONT>>
Disconnect  == <<0>>

\* The fields of the packet at the front of a buffer.  Nothing compares len
\* with the size of a header: a field may lie behind the end of the block.
PacketLen(b) == b[1] + 256 * b[2]
Field(b, i)  == IF i <= Len(b) THEN {b[i]} ELSE Junk
Op(b)    == Field(b, 3)
SAddr(b) == Field(b, 4)
DAddr(b) == Field(b, 5)
SType(b) == Field(b, 6)
Sensors(b) == Field(b, 7) \X Field(b, 8)

Drop(s, n) == SubSeq(s, n + 1, Len(s))

\* What a packet tells the board; its addresses are left out.
Packet(op, dtype, args) == [op |-> op, dtype |-> dtype, args |-> args]

-----------------------------------------------------------------------------
\* The history after a packet is processed.
Remaining == IF unread = <<>> THEN <<>> ELSE Tail(unread)

Init ==
    /\ wire = <<>> /\ read_buffer = <<>>
    /\ my_addr = NoAddr /\ host_addr = NoAddr
    /\ motors_buffer = [d \in Drivers |-> Zeros]
    /\ response = [d \in Drivers |-> <<Unset, Unset>>]
    /\ out = <<Packet(ACQUIRE, 0, <<>>)>>
    /\ pc = "idle" /\ sync = Still /\ before = Still /\ missed = {}
    /\ plugged = TRUE /\ obeyed = OrderOf(Still)
    /\ unread = <<>> /\ offered = {} /\ lost = FALSE
    /\ reported = [d \in Drivers |-> Zeros]

\* mainboard::bus_write: write() waits for room on the line, and with the link
\* gone it may also fail.  Nothing looks at what it returns.
Delivered(p) == Len(out) < MaxOut /\ out' = Append(out, p)
Failed == ~plugged /\ UNCHANGED out

\* Mutant: any offer is taken.
ProcessHelloAlways(b) ==
    \E host \in SAddr(b), addr \in DAddr(b) :
       /\ my_addr' = addr /\ host_addr' = host
       /\ Delivered(Packet(HELLO, IPC, <<>>)) \/ Failed
       /\ UNCHANGED readings

\* mainboard::process_hello: an offer above the present address is ignored.
ProcessHello(b) ==
    \E host \in SAddr(b), addr \in DAddr(b) :
       /\ IF addr > my_addr
          THEN UNCHANGED <<my_addr, host_addr, out>>
          ELSE /\ my_addr' = addr /\ host_addr' = host
               /\ Delivered(Packet(HELLO, IPC, <<>>)) \/ Failed
       /\ UNCHANGED readings

\* carma::motor_sensors_event for a client that has heard all broadcasts:
\* sizeof(ev) is that of a pointer, and ends with the first of four motors.
MotorSensorsEvent(ev) ==
    response' = [response EXCEPT ![FRONT] = <<ev[FRONT][1], @[2]>>]

\* The readings after an event: its own type is not looked at, and every
\* sender but the back driver is taken for the front one.
Updated(stype, r) ==
    [motors_buffer EXCEPT ![IF stype = BACK THEN BACK ELSE FRONT] = r]

\* Mutant: the clients are told before the readings are copied.
ProcessEventLate(b) ==
    /\ \E stype \in SType(b), r \in Sensors(b) :
          motors_buffer' = Updated(stype, r)
    /\ MotorSensorsEvent(motors_buffer)
    /\ UNCHANGED <<my_addr, host_addr, out>>

ProcessEvent(b) ==
    /\ \E stype \in SType(b), r \in Sensors(b) :
          LET ev == Updated(stype, r)
          IN  motors_buffer' = ev /\ MotorSensorsEvent(ev)
    /\ UNCHANGED <<my_addr, host_addr, out>>

\* Mutant: the sender of an event is not looked at.
ProcessPacketOnePair(b) ==
    \E op \in Op(b) :
       \/ op = HELLO /\ ProcessHello(b)
       \/ op = EVENT /\ \E r \in Sensors(b) :
             /\ motors_buffer' = [motors_buffer EXCEPT ![FRONT] = r]
             /\ MotorSensorsEvent(motors_buffer')
             /\ UNCHANGED <<my_addr, host_addr, out>>
       \/ op \notin {HELLO, EVENT}
             /\ UNCHANGED <<my_addr, host_addr, out, readings>>

ProcessPacket(b) ==
    \E op \in Op(b) :
       \/ op = HELLO /\ ProcessHello(b)
       \/ op = EVENT /\ ProcessEvent(b)
       \/ op \notin {HELLO, EVENT}
             /\ UNCHANGED <<my_addr, host_addr, out, readings>>

\* Mutant: the whole buffer is freed with its first packet.
ConsumeAll(b) ==
    IF Len(b) >= 2 /\ Len(b) >= PacketLen(b)
    THEN /\ ProcessPacket(b)
         /\ read_buffer' = <<>>
         /\ unread' = Remaining
    ELSE /\ read_buffer' = b
         /\ UNCHANGED <<my_addr, host_addr, readings, out, unread>>

\* At most one packet is taken from the buffer, and only by a read.
Consume(b) ==
    IF Len(b) >= 2 /\ Len(b) >= PacketLen(b)
    THEN /\ ProcessPacket(b)
         /\ read_buffer' = Drop(b, PacketLen(b))
         /\ unread' = Remaining
    ELSE /\ read_buffer' = b
         /\ UNCHANGED <<my_addr, host_addr, readings, out, unread>>

\* Mutant: the test for a disconnect forgets what is buffered.
SpuriousWithBuffer(bytes) == bytes = Disconnect

\* "spurious disconnect byte"
Spurious(bytes) == bytes = Disconnect /\ read_buffer = <<>>

\* mainboard::data_available, when k bytes have arrived.
DataAvailable(k) ==
    /\ pc = "idle" /\ k <= Len(wire)
    /\ wire' = Drop(wire, k)
    /\ LET bytes == SubSeq(wire, 1, k) IN
         IF Spurious(bytes)
         THEN /\ my_addr' = NoAddr /\ host_addr' = NoAddr
              /\ read_buffer' = <<>>
              /\ unread' = Remaining
              /\ UNCHANGED <<readings, out>>
         ELSE Consume(read_buffer \o bytes)
    /\ UNCHANGED <<pc, requests, plugged, obeyed, offered, reported, lost>>

-----------------------------------------------------------------------------
(* carma::read_sync, from set_throttle on: three writes *)

\* Mutant: the line is not blocking, and its buffer does not end.
BusWriteNoWait(p) ==
    /\ out' = Append(out, p) /\ missed' = missed \ {p.dtype}
    /\ UNCHANGED <<wire, lineVars, plugged, obeyed, history>>

BusWrite(p) ==
    /\ \/ Delivered(p) /\ missed' = missed \ {p.dtype}
       \/ Failed /\ missed' = missed \cup {p.dtype}
    /\ UNCHANGED <<wire, lineVars, plugged, obeyed, history>>

SetThrottleFront(s) ==
    /\ pc = "idle"
    /\ BusWrite(Packet(EVENT, FRONT, Throttles(s)))
    /\ sync' = s /\ before' = sync /\ pc' = "back"

\* Mutant: the second packet keeps the device type of the first.
SetThrottleBackToFront ==
    /\ pc = "back"
    /\ BusWrite(Packet(EVENT, FRONT, Throttles(sync)))
    /\ UNCHANGED <<sync, before>> /\ pc' = "io"

\* Mutant: the second packet is only written where the line has room.
SetThrottleBackDropped ==
    /\ pc = "back"
    /\ IF Len(out) < MaxOut
       THEN BusWrite(Packet(EVENT, BACK, Throttles(sync)))
       ELSE UNCHANGED <<out, wire, lineVars, missed, plugged, obeyed, history>>
    /\ UNCHANGED <<sync, before>> /\ pc' = "io"

SetThrottleBack ==
    /\ pc = "back"
    /\ BusWrite(Packet(EVENT, BACK, Throttles(sync)))
    /\ UNCHANGED <<sync, before>> /\ pc' = "io"

SetDigitalOutputs ==
    /\ pc = "io"
    /\ BusWrite(Packet(EVENT, IO, <<sync.io>>))
    /\ UNCHANGED <<sync, before>> /\ pc' = "idle"

-----------------------------------------------------------------------------
(* The board *)

InFlight == Len(wire) + Len(read_buffer)

Send(p) ==
    /\ plugged /\ InFlight + Len(p) <= MaxBytes
    /\ wire' = wire \o p
    /\ unread' = IF Unplugs THEN unread ELSE Append(unread, p)
    /\ UNCHANGED <<lineVars, out, pc, requests, plugged, obeyed, lost>>

BoardOffers(o) ==
    /\ Send(Hello(o))
    /\ offered' = IF Unplugs THEN offered ELSE offered \cup {o}
    /\ UNCHANGED reported

BoardReports(d, r) ==
    /\ Send(Event(d, r))
    /\ reported' = IF Unplugs THEN reported ELSE [reported EXCEPT ![d] = r]
    /\ UNCHANGED offered

BoardDone == Send(Done) /\ UNCHANGED <<offered, reported>>

\* The board takes a packet; the commands go on to the drivers.
BoardTakes ==
    /\ plugged /\ out # <<>>
    /\ LET p == Head(out) IN
         obeyed' = IF p.op = EVENT THEN [obeyed EXCEPT ![p.dtype] = p.args]
                                   ELSE obeyed
    /\ out' = Tail(out)
    /\ UNCHANGED <<wire, lineVars, pc, requests, plugged, history>>

\* Whether p is a command for u.
Mine(p, u) == p.op = EVENT /\ p.dtype = u

\* With the link gone, what is on the line goes nowhere.  It was the last
\* command for its unit unless another one follows it.
LineDrains ==
    /\ ~plugged /\ out # <<>>
    /\ out' = Tail(out)
    /\ missed' = missed \cup
          {u \in Units : /\ Mine(Head(out), u)
                         /\ \A i \in 2..Len(out) : ~Mine(out[i], u)}
    /\ UNCHANGED <<wire, lineVars, pc, sync, before, plugged, obeyed, history>>

\* The link is lost: the last n bytes sent never arrive, a NUL byte does.
Unplug ==
    /\ Unplugs /\ plugged /\ InFlight < MaxBytes
    /\ \E n \in 0..Len(wire) :
          wire' = SubSeq(wire, 1, Len(wire) - n) \o Disconnect
    /\ plugged' = FALSE /\ lost' = TRUE
    /\ UNCHANGED <<lineVars, out, pc, requests, obeyed, unread, offered, reported>>

Replug ==
    /\ ~plugged /\ plugged' = TRUE
    /\ UNCHANGED <<wire, lineVars, out, pc, requests, obeyed, history>>

-----------------------------------------------------------------------------
Controller == \/ \E k \in 1..Len(wire) : DataAvailable(k)
              \/ \E s \in Syncs : SetThrottleFront(s)
              \/ SetThrottleBack \/ SetDigitalOutputs

Board == \/ \E o \in Offers : BoardOffers(o)
         \/ \E d \in Senders, r \in Readings : BoardReports(d, r)
         \/ BoardDone \/ BoardTakes \/ LineDrains \/ Unplug \/ Replug

Next == Controller \/ Board

Spec == Init /\ [][Next]_vars

-----------------------------------------------------------------------------
(* Properties *)

Addresses == 0..255 \cup {NoAddr}
Pairs(S) == S \X S
ReadingsOK == /\ motors_buffer \in [Drivers -> Pairs(0..255)]
              /\ response \in [Drivers -> Pairs(-1..255)]
              /\ reported \in [Drivers -> Readings \cup {Zeros}]

\* The values each variable may take.
TypeOK ==
    /\ wire \in Seq(0..255) /\ read_buffer \in Seq(0..255)
    /\ my_addr \in Addresses /\ host_addr \in Addresses
    /\ Len(out) <= MaxOut /\ pc \in {"idle", "back", "io"}
    /\ sync \in Syncs \cup {Still} /\ before \in Syncs \cup {Still}
    /\ missed \subseteq Units /\ DOMAIN obeyed = Units
    /\ plugged \in BOOLEAN /\ lost \in BOOLEAN
    /\ offered \subseteq Offers /\ ReadingsOK

\* However reads cut and join the stream, the buffer and what is still to come
\* are exactly the packets not yet processed, from a packet's first byte on:
\* none is lost, repeated, reordered or started in its middle.
StreamIntact == read_buffer \o wire = FlattenSeq(unread)

\* Once all that was sent is processed the controller has the lowest address
\* it was ever offered, from a host that offered it.
AddressSettled ==
    unread = <<>> =>
       IF offered = {} THEN my_addr = NoAddr /\ host_addr = NoAddr
       ELSE /\ <<host_addr, my_addr>> \in offered
            /\ \A o \in offered : my_addr <= o[2]

\* Once all that was sent is processed, the controller holds the readings of
\* both motors that each pair sent last, whatever the two sent in between.
MotorsSettled == unread = <<>> => motors_buffer = reported

\* Then a client that heard all broadcasts knows of one motor in four, the first
\* of the front pair, what it sent last; every event tells it of that one again,
\* also an event of the back pair.  Of the other three it is sent, with every
\* response, what nobody wrote, and so of the first one before any event.
MotorsTold ==
    unread = <<>> =>
       LET first == IF \A d \in Drivers : reported[d] = Zeros
                    THEN Unset ELSE reported[FRONT][1]
       IN  response = [d \in Drivers |->
                         <<IF d = FRONT THEN first ELSE Unset, Unset>>]

\* While the link holds, no cut of the stream looks like a disconnect: an
\* address once taken is never lost, and only ever lowered.
AddressKept == [][my_addr' <= my_addr]_vars

\* The units whose part of the present request bus_write has yet to write.
Unwritten == CASE pc = "back" -> {BACK, IO}
               [] pc = "io"   -> {IO}
               [] OTHER       -> {}

\* What the last packet written for u, lost or not, tells it.
Asked(u) == OrderOf(IF u \in Unwritten THEN before ELSE sync)[u]

\* However the link is lost and found, and also where the controller stops for
\* good between two of the three writes of a request: when no command is on its
\* way, every unit follows the last request that was written to it, unless that
\* very packet was lost.  No unit falls back behind a loss that hit another
\* unit, and one that missed a packet is right again with the next it gets.
CommandsFollowed ==
    out = <<>> => \A u \in Units \ missed : obeyed[u] = Asked(u)

\* The "spurious disconnect byte": once a board that left is silent and all
\* was read, the address it gave is forgotten.
DisconnectRecognised == ~plugged /\ wire = <<>> => my_addr = NoAddr

-----------------------------------------------------------------------------
(* The bus this module implements *)

\* What a unit will be told: the packets written for it, and the one to come.
Pending(u) ==
    LET told == [i \in DOMAIN out |->
                   IF out[i].op = EVENT /\ out[i].dtype = u
                   THEN <<out[i].args>> ELSE <<>>]
    IN  FlattenSeq(told)
          \o (IF u \in Unwritten THEN <<OrderOf(sync)[u]>> ELSE <<>>)

Bus == INSTANCE CommandBus WITH
          Values     <- Seq(Int),
          Orders     <- {OrderOf(s) : s \in Syncs},
          Rest       <- OrderOf(Still),
          MaxPending <- MaxOut + 1,
          pending    <- [u \in Units |-> Pending(u)],
          last       <- OrderOf(sync)

\* Until the link is lost, and although three packets are written, each of which
\* may wait for the line while the board goes on, a sync request is one order:
\* the three units get their parts in step, and no unit is ever two requests
\* ahead of another.
BusImplemented ==
    Bus!BusInit /\ [][~lost' => [Bus!BusNext]_(Bus!busVars)]_vars

=============================================================================
