----------------------- MODULE MainboardStreamProofs -----------------------
(* Proofs about Mainboard where the link is never lost: what the controller *)
(* makes of the packets the board sends, however the reads cut them.        *)
EXTENDS MainboardProofs, StreamLemmas

\* The link is never lost.
LinkHolds == Unplugs = FALSE

\* What the board sends.
EventsOf(d) == {Event(d, r) : r \in Readings}
Sendable == {Hello(o) : o \in Offers} \cup {Done} \cup UNION {EventsOf(d) : d \in Senders}

-----------------------------------------------------------------------------
(* The inductive invariant *)

\* The buffer and the wire hold whole packets of the board, from a first byte on.
StreamInv == /\ unread \in Seq(Sendable)
             /\ StreamIntact
             /\ plugged = TRUE

\* An offer is on its way or was compared with the address, which is one of
\* those offered.
AddressInv ==
    /\ \A o \in Offers : ~NoneIn(unread, {Hello(o)}) => o \in offered
    /\ \A o \in offered : my_addr <= o[2] \/ ~NoneIn(unread, {Hello(o)})
    /\ \/ my_addr = NoAddr /\ host_addr = NoAddr
       \/ <<host_addr, my_addr>> \in offered

\* The last reading of a driver is on its way or held.
MotorsInv == \A d \in Drivers :
    \/ NoneIn(unread, EventsOf(d)) /\ motors_buffer[d] = reported[d]
    \/ LastIn(unread, EventsOf(d), {Event(d, reported[d])}) /\ reported[d] \in Readings

\* What a client knows when it was told r of the first motor.
Knows(r) == response = [d \in Drivers |-> <<IF d = FRONT THEN r ELSE Unset, Unset>>]

\* A client was told of the first motor as often as any event came.
ToldInv ==
    \/ Knows(Unset) /\ motors_buffer = [d \in Drivers |-> Zeros]
    \/ Knows(motors_buffer[FRONT][1]) /\ \E d \in Drivers : reported[d] # Zeros

-----------------------------------------------------------------------------
(* One packet *)

\* A packet says how long it is, and begins with no NUL.
LEMMA PacketType ==
    ASSUME NEW p \in Sendable
    PROVE  /\ p \in Seq(0..255) /\ Len(p) \in {6, 8}
           /\ p[1] = Len(p) /\ p[2] = 0
<1>1. ASSUME NEW o \in Offers, p = Hello(o)
      PROVE  p \in Seq(0..255) /\ Len(p) = 6 /\ p[1] = 6 /\ p[2] = 0
  <2>1. o[1] \in 0..255 /\ o[2] \in 0..255
    BY OffersAssumption
  <2> QED
    BY <1>1, <2>1 DEF Hello, HELLO, IPC
<1>2. ASSUME NEW d \in Senders, NEW r \in Readings, p = Event(d, r)
      PROVE  p \in Seq(0..255) /\ Len(p) = 8 /\ p[1] = 8 /\ p[2] = 0
  <2>1. d \in 0..255 /\ r[1] \in 0..255 /\ r[2] \in 0..255
    BY ReadingsAssumption, SendersAssumption DEF Drivers, FRONT, BACK
  <2> QED
    BY <1>2, <2>1 DEF Event, EVENT
<1>3. ASSUME p = Done
      PROVE  p \in Seq(0..255) /\ Len(p) = 6 /\ p[1] = 6 /\ p[2] = 0
  BY <1>3 DEF Done, DONE, FRONT
<1> QED
  BY <1>1, <1>2, <1>3 DEF Sendable, EventsOf

LEMMA SendableBytes == Seq(Sendable) \subseteq Seq(Seq(0..255))
<1>1. Sendable \subseteq Seq(0..255)
  BY PacketType
<1> QED
  BY <1>1, SeqMonotonic

\* A read leaves the stream whole.  If it takes anything off the buffer, that
\* is the next packet the board sent.
LEMMA Received ==
    ASSUME TypeInv, StreamInv, NEW k \in 1..Len(wire), DataAvailable(k)
    PROVE  /\ StreamInv'
           /\ \/ unread' = unread /\ UNCHANGED <<my_addr, host_addr, readings>>
              \/ /\ unread # <<>> /\ unread' = Tail(unread)
                 /\ \E b \in Seq(0..255) :
                       /\ ProcessPacket(b)
                       /\ Len(Head(unread)) <= Len(b)
                       /\ \A i \in 1..Len(Head(unread)) : b[i] = Head(unread)[i]
<1> DEFINE bytes == SubSeq(wire, 1, k)
           rest == Drop(wire, k)
           b == read_buffer \o bytes
           p == Head(unread)
           q == FlattenSeq(Tail(unread))
<1>1. /\ wire \in Seq(0..255) /\ read_buffer \in Seq(0..255)
      /\ Len(wire) \in Nat /\ k \in 0..Len(wire)
  BY LenProperties DEF TypeInv, TypeOK
<1>2. /\ bytes \in Seq(0..255) /\ Len(bytes) = k /\ rest \in Seq(0..255)
      /\ wire = bytes \o rest
  <2>1. wire \in Seq(0..255) /\ k \in 0..Len(wire)
    BY <1>1
  <2>2. /\ SubSeq(wire, 1, k) \in Seq(0..255) /\ Len(SubSeq(wire, 1, k)) = k
        /\ SubSeq(wire, k + 1, Len(wire)) \in Seq(0..255)
        /\ wire = SubSeq(wire, 1, k) \o SubSeq(wire, k + 1, Len(wire))
    <3>1. PICK B : B = 0..255
      OBVIOUS
    <3>2. wire \in Seq(B) /\ k \in 0..Len(wire)
      BY <2>1, <3>1
    <3>3. /\ SubSeq(wire, 1, k) \in Seq(B) /\ Len(SubSeq(wire, 1, k)) = k
          /\ SubSeq(wire, k + 1, Len(wire)) \in Seq(B)
          /\ wire = SubSeq(wire, 1, k) \o SubSeq(wire, k + 1, Len(wire))
      BY ONLY <3>2, Cut, ZenonT(30)
    <3> QED
      BY <3>1, <3>3
  <2> QED
    BY <2>2, Zenon DEF Drop
<1>3. b \in Seq(0..255) /\ Len(b) = Len(read_buffer) + k
  <2>1. bytes \in Seq(0..255) /\ read_buffer \in Seq(0..255)
    BY <1>1, <1>2
  <2>2. b \in Seq(0..255) /\ Len(b) = Len(read_buffer) + Len(bytes)
    BY ONLY <2>1, ConcatProperties
  <2> QED
    BY <1>2, <2>2
<1>4. wire' = rest /\ plugged' = plugged
  BY DEF DataAvailable
<1>5. unread \in Seq(Sendable) /\ unread \in Seq(Seq(0..255))
  BY SendableBytes DEF StreamInv
<1>6. unread # <<>>
  <2>1. Len(read_buffer \o wire) = Len(read_buffer) + Len(wire)
    BY <1>1, ConcatProperties
  <2>2. Len(read_buffer \o wire) # 0
    BY <1>1, <2>1, LenProperties
  <2> SUFFICES ASSUME unread = <<>> PROVE FALSE
    OBVIOUS
  <2>3. read_buffer \o wire = <<>>
    BY FlattenEmpty DEF StreamInv, StreamIntact
  <2> QED
    BY <2>2, <2>3
<1>7. /\ p \in Sendable /\ p \in Seq(0..255) /\ Len(p) \in {6, 8}
      /\ p[1] = Len(p) /\ p[2] = 0
      /\ Tail(unread) \in Seq(Sendable) /\ Tail(unread) \in Seq(Seq(0..255))
  BY <1>5, <1>6, HeadTailProperties, PacketType
<1>8. q \in Seq(0..255)
  BY <1>7, FlattenType
<1>9. b \o rest = p \o q
  <2>1. read_buffer \o wire = p \o q
    BY <1>5, <1>6, FlattenTail DEF StreamInv, StreamIntact
  <2>2. (read_buffer \o bytes) \o rest = read_buffer \o (bytes \o rest)
    BY <1>1, <1>2, ConcatAssociative, SMTT(30)
  <2> QED
    BY <1>2, <2>1, <2>2
<1> HIDE DEF b, p, q, rest
<1>10. \A i \in 1..Len(b) : i <= Len(p) => b[i] = p[i]
  <2>1. /\ b \in Seq(0..255) /\ rest \in Seq(0..255) /\ p \in Seq(0..255)
        /\ q \in Seq(0..255)
    BY <1>2, <1>3, <1>7, <1>8 DEF rest
  <2> QED
    BY ONLY <1>9, <2>1, FrontsAgree
<1>11. ~Spurious(bytes)
  <2> SUFFICES ASSUME Spurious(bytes) PROVE FALSE
    OBVIOUS
  <2>0. bytes = <<0>> /\ read_buffer = <<>>
    BY DEF Spurious, Disconnect
  <2>1. b = <<0>>
    BY <1>2, <2>0, ConcatEmptySeq DEF b
  <2>2. Len(b) = 1 /\ b[1] = 0
    BY <2>1
  <2> QED
    BY <1>7, <1>10, <2>2
<1>12. Consume(b)
  BY <1>11 DEF DataAvailable, b
<1>13. CASE Len(b) >= 2 /\ Len(b) >= PacketLen(b)
  <2>1. PacketLen(b) = Len(p)
    <3>1. b[1] = p[1] /\ b[2] = p[2]
      <4>1. 1 \in 1..Len(b) /\ 2 \in 1..Len(b) /\ 1 <= Len(p) /\ 2 <= Len(p)
        BY <1>3, <1>7, <1>13, LenProperties, SMTT(30)
      <4> QED
        BY <1>10, <4>1, Zenon
    <3> QED
      BY <1>7, <3>1 DEF PacketLen
  <2>2. /\ ProcessPacket(b) /\ unread' = Tail(unread)
        /\ read_buffer' = SubSeq(b, Len(p) + 1, Len(b))
    BY <1>6, <1>12, <1>13, <2>1 DEF Consume, Remaining, Drop
  <2>3. Len(p) <= Len(b)
    BY <1>13, <2>1
  <2>4. SubSeq(b, Len(p) + 1, Len(b)) \o rest = q
    <3>1. /\ b \in Seq(0..255) /\ rest \in Seq(0..255) /\ p \in Seq(0..255)
          /\ q \in Seq(0..255)
      BY <1>2, <1>3, <1>7, <1>8 DEF rest
    <3> QED
      BY ONLY <1>9, <2>3, <3>1, FrontTaken
  <2>5. StreamInv'
    BY <1>4, <1>7, <2>2, <2>4 DEF StreamInv, StreamIntact, q
  <2>6. \A i \in 1..Len(p) : b[i] = p[i]
    BY <1>3, <1>7, <1>10, <2>3, LenProperties
  <2> QED
    BY <1>3, <1>6, <2>2, <2>3, <2>5, <2>6 DEF p
<1>14. CASE ~(Len(b) >= 2 /\ Len(b) >= PacketLen(b))
  <2>1. /\ read_buffer' = b /\ unread' = unread
        /\ UNCHANGED <<my_addr, host_addr, readings>>
    BY <1>12, <1>14 DEF Consume
  <2>2. p \o q = FlattenSeq(unread)
    BY <1>5, <1>6, FlattenTail DEF p, q
  <2> QED
    BY <1>4, <1>9, <2>1, <2>2 DEF StreamInv, StreamIntact
<1> QED
  BY <1>13, <1>14

\* What the controller makes of the packet.
LEMMA Understood ==
    ASSUME TypeInv, NEW p \in Sendable, NEW b \in Seq(0..255),
           Len(p) <= Len(b), \A i \in 1..Len(p) : b[i] = p[i],
           ProcessPacket(b)
    PROVE  \/ \E o \in Offers :
                 /\ p = Hello(o) /\ UNCHANGED readings
                 /\ IF o[2] > my_addr THEN UNCHANGED <<my_addr, host_addr>>
                    ELSE my_addr' = o[2] /\ host_addr' = o[1]
           \/ \E d \in Senders, r \in Readings :
                 /\ p = Event(d, r) /\ UNCHANGED <<my_addr, host_addr>>
                 /\ motors_buffer' = [motors_buffer EXCEPT ![d] = r]
                 /\ MotorSensorsEvent(motors_buffer')
           \/ p = Done /\ UNCHANGED <<my_addr, host_addr, readings>>
<1>1. Len(p) \in {6, 8} /\ Len(b) \in Nat
  BY PacketType, LenProperties
<1>2. /\ b[3] = p[3] /\ b[4] = p[4] /\ b[5] = p[5] /\ b[6] = p[6]
      /\ Len(p) = 8 => b[7] = p[7] /\ b[8] = p[8]
  BY <1>1
<1>3. /\ Op(b) = {p[3]} /\ SAddr(b) = {p[4]} /\ DAddr(b) = {p[5]}
      /\ SType(b) = {p[6]} /\ (Len(p) = 8 => Sensors(b) = {<<p[7], p[8]>>})
  BY <1>1, <1>2 DEF Op, SAddr, DAddr, SType, Sensors, Field
<1>4. ASSUME NEW o \in Offers, p = Hello(o)
      PROVE  /\ UNCHANGED readings
             /\ IF o[2] > my_addr THEN UNCHANGED <<my_addr, host_addr>>
                ELSE my_addr' = o[2] /\ host_addr' = o[1]
  <2>1. p[3] = HELLO /\ p[4] = o[1] /\ p[5] = o[2]
    BY <1>4 DEF Hello
  <2>2. ProcessHello(b)
    BY <1>3, <2>1 DEF ProcessPacket, HELLO, EVENT
  <2> QED
    BY <1>3, <2>1, <2>2 DEF ProcessHello
<1>5. ASSUME NEW d \in Senders, NEW r \in Readings, p = Event(d, r)
      PROVE  /\ UNCHANGED <<my_addr, host_addr>>
             /\ motors_buffer' = [motors_buffer EXCEPT ![d] = r]
             /\ MotorSensorsEvent(motors_buffer')
  <2>1. Len(p) = 8 /\ p[3] = EVENT /\ p[6] = d /\ <<p[7], p[8]>> = r
    BY <1>5, ReadingsAssumption DEF Event
  <2>2. ProcessEvent(b)
    BY <1>3, <2>1 DEF ProcessPacket, HELLO, EVENT
  <2>3. motors_buffer' = Updated(d, r) /\ MotorSensorsEvent(motors_buffer')
    BY <1>3, <2>1, <2>2 DEF ProcessEvent
  <2>4. d \in {FRONT, BACK}
    BY SendersAssumption DEF Drivers
  <2> QED
    BY <2>2, <2>3, <2>4 DEF ProcessEvent, Updated
<1>6. ASSUME p = Done PROVE UNCHANGED <<my_addr, host_addr, readings>>
  <2>1. p[3] = DONE
    BY <1>6 DEF Done
  <2> QED
    BY <1>3, <2>1 DEF ProcessPacket, HELLO, EVENT, DONE
<1> QED
  BY <1>4, <1>5, <1>6 DEF Sendable, EventsOf
-----------------------------------------------------------------------------
(* What a step does to the stream *)

\* The next packet is processed.
Hears(p) == /\ unread # <<>> /\ p = Head(unread) /\ unread' = Tail(unread)
            /\ UNCHANGED <<offered, reported>>
HearsOffer(o) ==
    /\ Hears(Hello(o)) /\ UNCHANGED readings
    /\ IF o[2] > my_addr THEN UNCHANGED <<my_addr, host_addr>>
       ELSE my_addr' = o[2] /\ host_addr' = o[1]
HearsEvent(d, r) ==
    /\ Hears(Event(d, r)) /\ UNCHANGED <<my_addr, host_addr>>
    /\ motors_buffer' = [motors_buffer EXCEPT ![d] = r]
    /\ MotorSensorsEvent(motors_buffer')
HearsDone == Hears(Done) /\ UNCHANGED <<my_addr, host_addr, readings>>

\* Or one is sent.
Sends(p) == /\ unread' = Append(unread, p)
            /\ UNCHANGED <<my_addr, host_addr, readings>>
SendsOffer(o) == /\ Sends(Hello(o)) /\ offered' = offered \cup {o}
                 /\ UNCHANGED reported
SendsEvent(d, r) == /\ Sends(Event(d, r)) /\ UNCHANGED offered
                    /\ reported' = [reported EXCEPT ![d] = r]
SendsDone == Sends(Done) /\ UNCHANGED <<offered, reported>>

Elsewhere == UNCHANGED <<unread, offered, reported, my_addr, host_addr, readings>>

LinkStep == \/ \E o \in Offers : HearsOffer(o) \/ SendsOffer(o)
            \/ \E d \in Senders, r \in Readings : HearsEvent(d, r) \/ SendsEvent(d, r)
            \/ HearsDone \/ SendsDone \/ Elsewhere

LEMMA LinkSteps ==
    ASSUME LinkHolds, TypeInv, StreamInv, [Next]_vars
    PROVE  StreamInv' /\ LinkStep
<1> USE DEF lineVars, readings, requests, history, vars
<1>1. ASSUME NEW k \in 1..Len(wire), DataAvailable(k)
      PROVE  StreamInv' /\ LinkStep
  <2>1. UNCHANGED <<offered, reported>>
    BY <1>1 DEF DataAvailable
  <2>2. StreamInv'
    BY <1>1, Received
  <2>3. CASE unread' = unread /\ UNCHANGED <<my_addr, host_addr, readings>>
    BY <2>1, <2>2, <2>3 DEF LinkStep, Elsewhere
  <2>4. CASE /\ unread # <<>> /\ unread' = Tail(unread)
             /\ \E b \in Seq(0..255) :
                   /\ ProcessPacket(b)
                   /\ Len(Head(unread)) <= Len(b)
                   /\ \A i \in 1..Len(Head(unread)) : b[i] = Head(unread)[i]
    <3>1. PICK p \in Sendable : p = Head(unread)
      BY <2>4, HeadTailProperties DEF StreamInv
    <3>2. Hears(p)
      BY <2>1, <2>4, <3>1 DEF Hears
    <3>3. \/ \E o \in Offers :
                /\ p = Hello(o) /\ UNCHANGED readings
                /\ IF o[2] > my_addr THEN UNCHANGED <<my_addr, host_addr>>
                   ELSE my_addr' = o[2] /\ host_addr' = o[1]
          \/ \E d \in Senders, r \in Readings :
                /\ p = Event(d, r) /\ UNCHANGED <<my_addr, host_addr>>
                /\ motors_buffer' = [motors_buffer EXCEPT ![d] = r]
                /\ MotorSensorsEvent(motors_buffer')
          \/ p = Done /\ UNCHANGED <<my_addr, host_addr, readings>>
      <4>1. PICK b \in Seq(0..255) :
               /\ ProcessPacket(b) /\ Len(p) <= Len(b)
               /\ \A i \in 1..Len(p) : b[i] = p[i]
        BY <2>4, <3>1
      <4> QED
        BY <4>1, Understood
    <3>4. LinkStep
      BY <3>2, <3>3, Zenon DEF LinkStep, HearsOffer, HearsEvent, HearsDone
    <3> QED
      BY <2>2, <3>4
  <2> QED
    BY <1>1, <2>3, <2>4, Received
<1>2. ASSUME NEW p \in Sendable, Send(p) PROVE StreamInv' /\ Sends(p)
  <2>1. unread' = Append(unread, p) /\ wire' = wire \o p
    BY <1>2 DEF Send, LinkHolds
  <2>2. UNCHANGED <<read_buffer, my_addr, host_addr, readings, plugged>>
    BY <1>2 DEF Send
  <2>3. /\ read_buffer \in Seq(0..255) /\ wire \in Seq(0..255)
        /\ p \in Seq(0..255) /\ unread \in Seq(Seq(0..255))
    BY PacketType, SendableBytes DEF TypeInv, TypeOK, StreamInv
  <2>4. FlattenSeq(unread') = FlattenSeq(unread) \o p
    BY <2>1, <2>3, FlattenAppend
  <2>5. (read_buffer \o wire) \o p = read_buffer \o (wire \o p)
    BY ONLY <2>3, ConcatAssociative, SMTT(30)
  <2>6. StreamIntact'
    BY <2>1, <2>2, <2>4, <2>5 DEF StreamInv, StreamIntact
  <2>7. unread' \in Seq(Sendable)
    BY <2>1, AppendProperties DEF StreamInv
  <2> QED
    BY <2>1, <2>2, <2>6, <2>7 DEF StreamInv, Sends
<1>3. ASSUME NEW o \in Offers, BoardOffers(o) PROVE StreamInv' /\ LinkStep
  <2>1. Hello(o) \in Sendable
    BY DEF Sendable
  <2> QED
    BY <1>2, <1>3, <2>1 DEF BoardOffers, LinkHolds, LinkStep, SendsOffer
<1>4. ASSUME NEW d \in Senders, NEW r \in Readings, BoardReports(d, r)
      PROVE  StreamInv' /\ LinkStep
  <2>1. Event(d, r) \in Sendable
    BY DEF Sendable, EventsOf
  <2> QED
    BY <1>2, <1>4, <2>1 DEF BoardReports, LinkHolds, LinkStep, SendsEvent
<1>5. CASE BoardDone
  <2>1. Done \in Sendable
    BY DEF Sendable
  <2> QED
    BY <1>2, <1>5, <2>1 DEF BoardDone, LinkStep, SendsDone
<1>6. CASE UNCHANGED <<wire, lineVars, plugged, history>>
  BY <1>6 DEF StreamInv, StreamIntact, LinkStep, Elsewhere
<1>7. CASE Unplug \/ Replug
  BY <1>7 DEF Unplug, Replug, LinkHolds, StreamInv
<1>8. ASSUME NEW s \in Syncs, SetThrottleFront(s) PROVE StreamInv' /\ LinkStep
  BY <1>6, <1>8 DEF SetThrottleFront, BusWrite
<1> QED
  BY <1>1, <1>3, <1>4, <1>5, <1>6, <1>7, <1>8
     DEF Next, Controller, Board, SetThrottleBack, SetDigitalOutputs, BusWrite,
         BoardTakes, LineDrains

LEMMA StreamStart == LinkHolds /\ Init => StreamInv
<1> SUFFICES ASSUME Init PROVE StreamInv
  OBVIOUS
<1>1. <<>> \o <<>> = <<>>
  OBVIOUS
<1> QED
  BY <1>1, FlattenEmpty, EmptySeq DEF Init, StreamInv, StreamIntact

\* However the reads cut and join what the board sends, while the link holds
\* the buffer and what is to come are whole packets: none is lost, repeated or
\* begun in its middle, and nothing passes for a disconnect.
THEOREM StreamCorrect == ASSUME LinkHolds PROVE Spec => []StreamIntact
<1>1. Init => TypeInv /\ StreamInv
  BY StreamStart, TypeCorrectStep
<1>2. TypeInv /\ StreamInv /\ [Next]_vars => TypeInv' /\ StreamInv'
  BY LinkSteps, TypeCorrectStep
<1>3. StreamInv => StreamIntact
  BY DEF StreamInv
<1> QED
  BY <1>1, <1>2, <1>3, PTL DEF Spec
-----------------------------------------------------------------------------
(* What has been said of a packet when it is heard, or sent *)

\* No packet is taken for another.
LEMMA Distinct ==
    ASSUME NEW o \in Offers, NEW d \in Senders, NEW r \in Readings
    PROVE  /\ \A o2 \in Offers : Hello(o) = Hello(o2) => o = o2
           /\ \A d2 \in Drivers : Event(d, r) \in EventsOf(d2) => d = d2
           /\ \A d2 \in Drivers : Hello(o) \notin EventsOf(d2) /\ Done \notin EventsOf(d2)
           /\ Event(d, r) # Hello(o) /\ Done # Hello(o)
<1>1. \A o2 \in Offers : Hello(o) = Hello(o2) => o = o2
  BY OffersAssumption DEF Hello
<1>2. \A d2 \in Drivers : Event(d, r) \in EventsOf(d2) => d = d2
  BY DEF EventsOf, Event
<1>3. Hello(o)[3] = HELLO /\ Done[3] = DONE /\ Event(d, r)[3] = EVENT
  BY DEF Hello, Done, Event
<1>4. \A d2 \in Drivers : \A p \in EventsOf(d2) : p[3] = EVENT
  BY DEF EventsOf, Event
<1> QED
  BY <1>1, <1>2, <1>3, <1>4 DEF HELLO, DONE, EVENT

\* A packet that was heard was on its way, and the others still are.
LEMMA HeardPacket ==
    ASSUME NEW p, Hears(p), unread \in Seq(Sendable), NEW A
    PROVE  /\ NoneIn(unread, A) => p \notin A /\ NoneIn(unread', A)
           /\ NoneIn(unread', A) /\ p \notin A => NoneIn(unread, A)
           /\ \A B : LastIn(unread, A, B) =>
                        LastIn(unread', A, B) \/ (p \in B /\ NoneIn(unread', A))
<1>1. /\ NoneIn(unread, A) => p \notin A /\ NoneIn(unread', A)
      /\ \A B : LastIn(unread, A, B) =>
                   LastIn(unread', A, B) \/ (p \in B /\ NoneIn(unread', A))
  BY LastTail DEF Hears
<1>2. ASSUME NoneIn(unread', A), p \notin A PROVE NoneIn(unread, A)
  <2>1. /\ Len(unread) \in Nat \ {0} /\ DOMAIN unread = 1..Len(unread)
        /\ DOMAIN unread' = 1..Len(unread) - 1 /\ p = unread[1]
        /\ \A i \in 1..Len(unread) - 1 : unread'[i] = unread[i + 1]
    BY HeadTailProperties, LenProperties, EmptySeq DEF Hears
  <2>2. SUFFICES ASSUME NEW i \in 1..Len(unread), unread[i] \in A PROVE FALSE
    BY <2>1 DEF NoneIn
  <2>3. CASE i = 1
    BY <1>2, <2>1, <2>2, <2>3
  <2>4. CASE i # 1
    <3>1. i - 1 \in 1..Len(unread) - 1 /\ i - 1 + 1 = i
      BY <2>1, <2>4
    <3> QED
      BY <1>2, <2>1, <2>2, <3>1 DEF NoneIn
  <2> QED
    BY <2>3, <2>4
<1> QED
  BY <1>1, <1>2

\* A packet that is sent is on its way, behind the others.
LEMMA SentPacket ==
    ASSUME NEW p \in Sendable, Sends(p), unread \in Seq(Sendable), NEW A
    PROVE  /\ p \in A => ~NoneIn(unread', A)
           /\ p \notin A => (NoneIn(unread', A) <=> NoneIn(unread, A))
           /\ \A B : p \in B => LastIn(unread', A, B)
           /\ \A B : p \notin A /\ LastIn(unread, A, B) => LastIn(unread', A, B)
<1>1. /\ Len(unread) \in Nat /\ DOMAIN unread = 1..Len(unread)
      /\ DOMAIN unread' = 1..Len(unread) + 1 /\ unread'[Len(unread) + 1] = p
      /\ \A i \in 1..Len(unread) : unread'[i] = unread[i]
  BY AppendProperties, LenProperties DEF Sends
<1>2. p \in A => ~NoneIn(unread', A)
  BY <1>1 DEF NoneIn
<1>3. ~NoneIn(unread, A) => ~NoneIn(unread', A)
  BY <1>1 DEF NoneIn
<1> QED
  BY <1>2, <1>3, LastAppend DEF Sends

-----------------------------------------------------------------------------
(* The address *)

LEMMA AddressStep ==
    ASSUME TypeInv, StreamInv, AddressInv, LinkStep
    PROVE  AddressInv'
<1> USE DEF readings
<1>0. /\ unread \in Seq(Sendable) /\ offered \subseteq Offers
      /\ my_addr \in Int /\ \A o \in Offers : o[2] \in Int
  <2>1. my_addr \in Int
    BY DEF TypeInv, TypeOK, Addresses, NoAddr
  <2>2. \A o \in Offers : o[2] \in Int
    BY ONLY OffersAssumption
  <2> QED
    BY ONLY <2>1, <2>2, TypeInv, StreamInv DEF StreamInv, TypeInv, TypeOK
<1>1. ASSUME NEW o \in Offers, HearsOffer(o) PROVE AddressInv'
  <2>0. Hears(Hello(o)) /\ offered' = offered
    BY <1>1 DEF HearsOffer, Hears
  <2>1. o \in offered
    <3>1. ~NoneIn(unread, {Hello(o)})
      BY <1>0, <2>0, HeardPacket
    <3> QED
      BY <3>1 DEF AddressInv
  <2>2. my_addr' <= o[2] /\ my_addr' <= my_addr /\ my_addr' \in Int
    <3>1. my_addr \in Int /\ o[2] \in Int
      BY <1>0
    <3>2. \/ o[2] > my_addr /\ my_addr' = my_addr
          \/ ~(o[2] > my_addr) /\ my_addr' = o[2]
      BY <1>1 DEF HearsOffer
    <3> QED
      BY ONLY <3>1, <3>2
  <2>3. ASSUME NEW o2 \in Offers, ~NoneIn(unread', {Hello(o2)}) PROVE o2 \in offered'
    <3>1. ~NoneIn(unread, {Hello(o2)})
      BY <1>0, <2>0, <2>3, HeardPacket
    <3> QED
      BY <2>0, <3>1 DEF AddressInv
  <2>4. ASSUME NEW o2 \in offered'
        PROVE  my_addr' <= o2[2] \/ ~NoneIn(unread', {Hello(o2)})
    <3>1. CASE o2 = o
      BY <2>2, <3>1
    <3>2. CASE my_addr <= o2[2]
      <4>1. my_addr \in Int /\ o2[2] \in Int
        BY <1>0, <2>0, <2>4
      <4> QED
        BY ONLY <2>2, <3>2, <4>1
    <3>3. CASE o2 # o /\ ~NoneIn(unread, {Hello(o2)})
      <4>1. Hello(o) \notin {Hello(o2)}
        BY <1>0, <2>0, <3>3, OffersAssumption DEF Hello
      <4> QED
        BY <1>0, <2>0, <3>3, <4>1, HeardPacket
    <3> QED
      BY <2>0, <2>4, <3>1, <3>2, <3>3 DEF AddressInv
  <2>5. \/ my_addr' = NoAddr /\ host_addr' = NoAddr
        \/ <<host_addr', my_addr'>> \in offered'
    <3>1. o = <<o[1], o[2]>>
      BY OffersAssumption
    <3> QED
      BY <1>1, <2>0, <2>1, <3>1 DEF HearsOffer, AddressInv
  <2> QED
    BY <2>3, <2>4, <2>5 DEF AddressInv
<1>2. ASSUME NEW p, Hears(p), \A o \in Offers : p # Hello(o),
             UNCHANGED <<my_addr, host_addr>>
      PROVE  AddressInv'
  <2>1. \A o \in Offers : NoneIn(unread', {Hello(o)}) <=> NoneIn(unread, {Hello(o)})
    BY <1>0, <1>2, HeardPacket
  <2> QED
    BY <1>0, <1>2, <2>1 DEF AddressInv, Hears
<1>3. ASSUME NEW o \in Offers, SendsOffer(o) PROVE AddressInv'
  <2>0. /\ Sends(Hello(o)) /\ Hello(o) \in Sendable
        /\ offered' = offered \cup {o} /\ UNCHANGED <<my_addr, host_addr>>
    BY <1>3 DEF SendsOffer, Sends, Sendable
  <2>1. \A o2 \in Offers : Hello(o2) = Hello(o) => o2 = o
    BY OffersAssumption DEF Hello
  <2>2. ~NoneIn(unread', {Hello(o)})
    BY <1>0, <2>0, SentPacket
  <2>3. \A o2 \in Offers : o2 # o =>
           (NoneIn(unread', {Hello(o2)}) <=> NoneIn(unread, {Hello(o2)}))
    <3> SUFFICES ASSUME NEW o2 \in Offers, o2 # o
                 PROVE  NoneIn(unread', {Hello(o2)}) <=> NoneIn(unread, {Hello(o2)})
      OBVIOUS
    <3>1. Hello(o) \notin {Hello(o2)}
      BY <2>1
    <3> QED
      BY <1>0, <2>0, <3>1, SentPacket
  <2> QED
    BY <1>0, <2>0, <2>2, <2>3 DEF AddressInv
<1>4. ASSUME NEW p \in Sendable, Sends(p), \A o \in Offers : p # Hello(o), offered' = offered
      PROVE  AddressInv'
  <2>1. \A o \in Offers : NoneIn(unread', {Hello(o)}) <=> NoneIn(unread, {Hello(o)})
    BY <1>0, <1>4, SentPacket
  <2>2. UNCHANGED <<my_addr, host_addr>>
    BY <1>4 DEF Sends
  <2> QED
    BY <1>0, <1>4, <2>1, <2>2 DEF AddressInv
<1>5. ASSUME NEW d \in Senders, NEW r \in Readings, HearsEvent(d, r) PROVE AddressInv'
  BY <1>2, <1>5, Distinct DEF HearsEvent
<1>6. ASSUME NEW d \in Senders, NEW r \in Readings, SendsEvent(d, r) PROVE AddressInv'
  <2>1. Event(d, r) \in Sendable
    BY DEF Sendable, EventsOf
  <2> QED
    BY <1>4, <1>6, <2>1, Distinct DEF SendsEvent
<1>7. \A o \in Offers : Done # Hello(o)
  BY DEF Done, Hello, DONE, HELLO
<1>8. CASE HearsDone
  BY <1>2, <1>7, <1>8 DEF HearsDone
<1>9. CASE SendsDone
  <2>1. Done \in Sendable
    BY DEF Sendable
  <2> QED
    BY <1>4, <1>7, <1>9, <2>1 DEF SendsDone
<1>10. CASE Elsewhere
  BY <1>10 DEF Elsewhere, AddressInv
<1> QED
  BY <1>1, <1>3, <1>5, <1>6, <1>8, <1>9, <1>10 DEF LinkStep
LinkInv == TypeInv /\ StreamInv

LEMMA LinkInvariant == ASSUME LinkHolds PROVE Spec => []LinkInv
<1>1. Init => LinkInv
  BY StreamStart, TypeCorrectStep DEF LinkInv
<1>2. LinkInv /\ [Next]_vars => LinkInv'
  BY LinkSteps, TypeCorrectStep DEF LinkInv
<1> QED
  BY <1>1, <1>2, PTL DEF Spec

\* While the link holds, the address the controller ends up with is the lowest
\* it was ever offered, from a host that offered it: an offer that arrives in
\* pieces, or behind others, counts as much as one that arrives alone.
THEOREM AddressCorrect == ASSUME LinkHolds PROVE Spec => []AddressSettled
<1>1. Init => AddressInv
  BY DEF Init, AddressInv, NoneIn
<1>2. LinkInv /\ AddressInv /\ [Next]_vars => AddressInv'
  BY LinkSteps, AddressStep DEF LinkInv
<1>3. LinkInv /\ AddressInv => AddressSettled
  <2> SUFFICES ASSUME LinkInv, AddressInv, unread = <<>> PROVE AddressSettled
    BY DEF AddressSettled
  <2>1. \A A : NoneIn(unread, A)
    BY DEF NoneIn
  <2>2. \A o \in offered : my_addr <= o[2]
    BY <2>1 DEF AddressInv
  <2>3. CASE offered = {}
    BY <2>3 DEF AddressInv, AddressSettled
  <2>4. CASE offered # {}
    <3>1. PICK o \in offered : o \in Offers
      BY <2>4 DEF LinkInv, TypeInv, TypeOK
    <3>2. o[2] \in 0..255
      BY <3>1, OffersAssumption
    <3>3. my_addr # NoAddr
      <4>1. my_addr <= o[2]
        BY <2>2
      <4> QED
        BY ONLY <3>2, <4>1 DEF NoAddr
    <3> QED
      BY <2>2, <2>4, <3>3 DEF AddressInv, AddressSettled
  <2> QED
    BY <2>3, <2>4
<1> QED
  BY <1>1, <1>2, <1>3, LinkInvariant, PTL DEF Spec

\* While the link holds an address once taken is never lost, and only ever
\* lowered: no piece of a packet passes for the byte that ends a connection.
THEOREM AddressKeptCorrect == ASSUME LinkHolds PROVE Spec => AddressKept
<1>1. LinkInv /\ [Next]_vars => [my_addr' <= my_addr]_vars
  <2> SUFFICES ASSUME LinkInv, [Next]_vars PROVE my_addr' <= my_addr
    OBVIOUS
  <2>1. my_addr \in Int
    BY DEF LinkInv, TypeInv, TypeOK, Addresses, NoAddr
  <2>2. LinkStep
    BY LinkSteps DEF LinkInv
  <2>3. CASE my_addr' = my_addr
    BY ONLY <2>1, <2>3
  <2>4. ASSUME NEW o \in Offers, HearsOffer(o) PROVE my_addr' <= my_addr
    <3>1. o[2] \in Int
      BY OffersAssumption
    <3>2. \/ my_addr' = my_addr
          \/ ~(o[2] > my_addr) /\ my_addr' = o[2]
      BY <2>4 DEF HearsOffer
    <3> QED
      BY ONLY <2>1, <3>1, <3>2
  <2> QED
    BY <2>2, <2>3, <2>4
       DEF LinkStep, SendsOffer, SendsEvent, SendsDone, Sends, HearsEvent,
           HearsDone, Elsewhere
<1> QED
  BY <1>1, LinkInvariant, PTL DEF Spec, AddressKept

-----------------------------------------------------------------------------
(* The readings *)

LEMMA MotorsStep ==
    ASSUME TypeInv, StreamInv, MotorsInv, LinkStep
    PROVE  MotorsInv'
<1> USE DEF readings
<1>0. /\ unread \in Seq(Sendable) /\ Senders \subseteq Drivers
      /\ motors_buffer \in [Drivers -> Pairs(0..255)] /\ DOMAIN reported = Drivers
  BY SendersAssumption DEF StreamInv, TypeInv, TypeOK, ReadingsOK
<1>1. ASSUME NEW d \in Senders, NEW r \in Readings, HearsEvent(d, r)
      PROVE  MotorsInv'
  <2>0. /\ Hears(Event(d, r)) /\ reported' = reported
        /\ motors_buffer' = [motors_buffer EXCEPT ![d] = r]
    BY <1>1 DEF HearsEvent, Hears
  <2> SUFFICES ASSUME NEW e \in Drivers
               PROVE  \/ /\ NoneIn(unread', EventsOf(e))
                         /\ motors_buffer'[e] = reported[e]
                      \/ /\ LastIn(unread', EventsOf(e), {Event(e, reported[e])})
                         /\ reported[e] \in Readings
    BY <2>0 DEF MotorsInv, EventsOf, Event
  <2>1. CASE NoneIn(unread, EventsOf(e)) /\ motors_buffer[e] = reported[e]
    <3>1. Event(d, r) \notin EventsOf(e) /\ NoneIn(unread', EventsOf(e))
      BY <1>0, <2>0, <2>1, HeardPacket
    <3>2. d # e
      BY <3>1 DEF EventsOf
    <3> QED
      BY <1>0, <2>0, <2>1, <3>1, <3>2
  <2>2. CASE /\ LastIn(unread, EventsOf(e), {Event(e, reported[e])})
             /\ reported[e] \in Readings
    <3>1. \/ LastIn(unread', EventsOf(e), {Event(e, reported[e])})
          \/ Event(d, r) = Event(e, reported[e]) /\ NoneIn(unread', EventsOf(e))
      BY <1>0, <2>0, <2>2, HeardPacket
    <3>2. Event(d, r) = Event(e, reported[e]) => d = e /\ r = reported[e]
      BY <2>2, ReadingsAssumption DEF Event
    <3> QED
      BY <1>0, <2>0, <2>2, <3>1, <3>2
  <2> QED
    BY <2>1, <2>2 DEF MotorsInv
<1>2. ASSUME NEW p, Hears(p), \A e \in Drivers : p \notin EventsOf(e),
             motors_buffer' = motors_buffer
      PROVE  MotorsInv'
  <2> SUFFICES ASSUME NEW e \in Drivers
               PROVE  \/ /\ NoneIn(unread', EventsOf(e))
                         /\ motors_buffer'[e] = reported'[e]
                      \/ /\ LastIn(unread', EventsOf(e), {Event(e, reported'[e])})
                         /\ reported'[e] \in Readings
    BY DEF MotorsInv, EventsOf, Event
  <2>1. reported' = reported
    BY <1>2 DEF Hears
  <2>2. reported[e] \in Readings => p \notin {Event(e, reported[e])}
    BY <1>2 DEF EventsOf
  <2> QED
    BY <1>0, <1>2, <2>1, <2>2, HeardPacket, SMTT(30) DEF MotorsInv
<1>3. ASSUME NEW d \in Senders, NEW r \in Readings, SendsEvent(d, r)
      PROVE  MotorsInv'
  <2>0. /\ Sends(Event(d, r)) /\ Event(d, r) \in Sendable
        /\ reported' = [reported EXCEPT ![d] = r]
        /\ motors_buffer' = motors_buffer
    BY <1>3 DEF SendsEvent, Sends, Sendable, EventsOf
  <2> SUFFICES ASSUME NEW e \in Drivers
               PROVE  \/ /\ NoneIn(unread', EventsOf(e))
                         /\ motors_buffer'[e] = reported'[e]
                      \/ /\ LastIn(unread', EventsOf(e), {Event(e, reported'[e])})
                         /\ reported'[e] \in Readings
    BY DEF MotorsInv, EventsOf, Event
  <2>1. CASE e = d
    <3>1. reported'[e] = r
      BY <1>0, <2>0, <2>1
    <3>2. LastIn(unread', EventsOf(e), {Event(d, r)})
      BY <1>0, <2>0, SentPacket
    <3> QED
      BY <2>1, <3>1, <3>2
  <2>2. CASE e # d
    <3>1. reported'[e] = reported[e]
      BY <1>0, <2>0, <2>2
    <3>2. Event(d, r) \notin EventsOf(e)
      BY <2>2 DEF EventsOf, Event
    <3> QED
      BY <1>0, <2>0, <3>1, <3>2, SentPacket DEF MotorsInv
  <2> QED
    BY <2>1, <2>2
<1>4. ASSUME NEW p \in Sendable, Sends(p), \A e \in Drivers : p \notin EventsOf(e),
             reported' = reported
      PROVE  MotorsInv'
  <2> SUFFICES ASSUME NEW e \in Drivers
               PROVE  \/ /\ NoneIn(unread', EventsOf(e))
                         /\ motors_buffer'[e] = reported'[e]
                      \/ /\ LastIn(unread', EventsOf(e), {Event(e, reported'[e])})
                         /\ reported'[e] \in Readings
    BY DEF MotorsInv, EventsOf, Event
  <2>1. motors_buffer' = motors_buffer
    BY <1>4 DEF Sends
  <2> QED
    BY <1>0, <1>4, <2>1, SentPacket DEF MotorsInv
<1>5. \A e \in Drivers : \A p \in EventsOf(e) : p[3] = EVENT
  BY DEF EventsOf, Event
<1>6. ASSUME NEW o \in Offers PROVE \A e \in Drivers : Hello(o) \notin EventsOf(e)
  <2>1. Hello(o)[3] = HELLO
    BY DEF Hello
  <2> QED
    BY <1>5, <2>1 DEF HELLO, EVENT
<1>7. \A e \in Drivers : Done \notin EventsOf(e)
  <2>1. Done[3] = DONE
    BY DEF Done
  <2> QED
    BY <1>5, <2>1 DEF DONE, EVENT
<1>8. ASSUME NEW o \in Offers, HearsOffer(o) \/ SendsOffer(o) PROVE MotorsInv'
  <2>1. Hello(o) \in Sendable
    BY DEF Sendable
  <2> QED
    BY <1>2, <1>4, <1>6, <1>8, <2>1 DEF HearsOffer, SendsOffer
<1>9. CASE HearsDone \/ SendsDone
  <2>1. Done \in Sendable
    BY DEF Sendable
  <2> QED
    BY <1>2, <1>4, <1>7, <1>9, <2>1 DEF HearsDone, SendsDone
<1>10. CASE Elsewhere
  BY <1>10 DEF Elsewhere, MotorsInv
<1> QED
  BY <1>1, <1>3, <1>8, <1>9, <1>10 DEF LinkStep

\* While the link holds, the readings the controller ends up with are the last
\* that each pair of motors sent, whatever the two sent in between.
THEOREM MotorsCorrect == ASSUME LinkHolds PROVE Spec => []MotorsSettled
<1>1. Init => MotorsInv
  BY DEF Init, MotorsInv, NoneIn
<1>2. LinkInv /\ MotorsInv /\ [Next]_vars => MotorsInv'
  BY LinkSteps, MotorsStep DEF LinkInv
<1>3. LinkInv /\ MotorsInv => MotorsSettled
  <2> SUFFICES ASSUME LinkInv, MotorsInv, unread = <<>>
               PROVE  motors_buffer = reported
    BY DEF MotorsSettled
  <2>1. \A A, B : ~LastIn(unread, A, B)
    BY DEF LastIn
  <2>2. \A d \in Drivers : motors_buffer[d] = reported[d]
    BY <2>1 DEF MotorsInv
  <2> QED
    BY <2>2 DEF LinkInv, TypeInv, TypeOK, ReadingsOK
<1> QED
  BY <1>1, <1>2, <1>3, LinkInvariant, PTL DEF Spec

LEMMA ToldStep ==
    ASSUME TypeInv, StreamInv, MotorsInv, ToldInv, LinkStep
    PROVE  ToldInv'
<1> USE DEF readings
<1>0. /\ unread \in Seq(Sendable) /\ Senders \subseteq Drivers
      /\ DOMAIN reported = Drivers /\ Zeros \notin Readings
  <2>1. Zeros \notin Readings
    BY ReadingsAssumption DEF Zeros
  <2> QED
    BY <2>1, SendersAssumption DEF StreamInv, TypeInv, TypeOK, ReadingsOK
<1>1. ASSUME NEW d \in Senders, NEW r \in Readings, HearsEvent(d, r)
      PROVE  ToldInv'
  <2>1. Hears(Event(d, r)) /\ reported' = reported /\ MotorSensorsEvent(motors_buffer')
    BY <1>1 DEF HearsEvent, Hears
  <2>2. ~NoneIn(unread, EventsOf(d))
    <3>1. Event(d, r) \in EventsOf(d)
      BY DEF EventsOf
    <3> QED
      BY <1>0, <2>1, <3>1, HeardPacket
  <2>3. reported[d] # Zeros
    BY <1>0, <2>2 DEF MotorsInv
  <2>4. PICK x, y : Knows(x) /\ y = motors_buffer'[FRONT][1]
    BY DEF ToldInv
  <2>5. response' = [d2 \in Drivers |-> <<IF d2 = FRONT THEN y ELSE Unset, Unset>>]
    BY <2>1, <2>4 DEF Knows, MotorSensorsEvent, Drivers, FRONT, BACK
  <2> QED
    BY <1>0, <2>1, <2>3, <2>4, <2>5 DEF ToldInv, Knows
<1>2. ASSUME NEW d \in Senders, NEW r \in Readings, SendsEvent(d, r)
      PROVE  ToldInv'
  <2>1. /\ response' = response /\ motors_buffer' = motors_buffer
        /\ reported' = [reported EXCEPT ![d] = r]
    BY <1>2 DEF SendsEvent, Sends
  <2>2. reported'[d] # Zeros
    BY <1>0, <2>1
  <2> QED
    BY <1>0, <2>1, <2>2 DEF ToldInv, Knows
<1>3. CASE UNCHANGED <<response, motors_buffer, reported>>
  BY <1>3 DEF ToldInv, Knows
<1> QED
  BY <1>1, <1>2, <1>3
     DEF LinkStep, HearsOffer, Hears, HearsDone, SendsOffer, SendsDone, Sends,
         Elsewhere

\* While the link holds, the client that heard every broadcast ends up with the
\* last reading of the front pair's first motor, whichever pair's events it was
\* sent, and with nothing of the three other motors.
THEOREM ToldCorrect == ASSUME LinkHolds PROVE Spec => []MotorsTold
<1>1. Init => MotorsInv /\ ToldInv
  BY DEF Init, MotorsInv, NoneIn, ToldInv, Knows
<1>2. LinkInv /\ MotorsInv /\ ToldInv /\ [Next]_vars => (MotorsInv /\ ToldInv)'
  BY LinkSteps, MotorsStep, ToldStep DEF LinkInv
<1>3. LinkInv /\ MotorsInv /\ ToldInv => MotorsTold
  <2> SUFFICES ASSUME LinkInv, MotorsInv, ToldInv, unread = <<>> PROVE MotorsTold
    BY DEF MotorsTold
  <2>1. \A A, B : ~LastIn(unread, A, B)
    BY DEF LastIn
  <2>2. \A d \in Drivers : motors_buffer[d] = reported[d]
    BY <2>1 DEF MotorsInv
  <2>3. FRONT \in Drivers
    BY DEF Drivers
  <2>4. CASE /\ Knows(motors_buffer[FRONT][1])
             /\ \E d \in Drivers : reported[d] # Zeros
    BY <2>2, <2>3, <2>4 DEF Knows, MotorsTold
  <2>5. CASE Knows(Unset) /\ motors_buffer = [d \in Drivers |-> Zeros]
    BY <2>2, <2>5 DEF Knows, MotorsTold
  <2> QED
    BY <2>4, <2>5 DEF ToldInv
<1> QED
  BY <1>1, <1>2, <1>3, LinkInvariant, PTL DEF Spec
=============================================================================
