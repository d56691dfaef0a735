-------------------------- MODULE MainboardProofs --------------------------
(* Proofs about Mainboard: what holds of the line to the main board whatever *)
(* the board sends, however reads cut it, and wherever the link is lost: the *)
(* types, what the units follow when nothing is on its way, and that, until  *)
(* the link is lost, the packets of a request implement CommandBus's orders. *)
EXTENDS Mainboard, StreamLemmas, SequenceTheorems, TLAPS

\* What the controller writes.
Packets == [op : {HELLO, EVENT, ACQUIRE}, dtype : 0..IO, args : Seq(Int)]

TypeInv == /\ TypeOK
           /\ out \in Seq(Packets)
           /\ obeyed \in [Units -> Seq(Int)]

\* What is left of a stream of bytes, and what is taken from it, are bytes.
LEMMA Pieces ==
    ASSUME NEW s \in Seq(0..255), NEW n \in 0..Len(s)
    PROVE  SubSeq(s, 1, n) \in Seq(0..255) /\ Drop(s, n) \in Seq(0..255)
<1>1. Len(s) \in Nat /\ \A i \in 1..Len(s) : s[i] \in 0..255
  BY LenProperties, ElementOfSeq
<1>2. \A i \in 1..n : s[i] \in 0..255
  BY <1>1
<1>3. \A i \in n + 1..Len(s) : s[i] \in 0..255
  BY <1>1
<1>4. n \in Int /\ n + 1 \in Int /\ Len(s) \in Int
  BY <1>1
<1> QED
  BY <1>2, <1>3, <1>4, SubSeqProperties DEF Drop

\* A sync request asks something of every unit.
LEMMA OrderType ==
    ASSUME NEW s \in Syncs \cup {Still}
    PROVE  /\ OrderOf(s) \in [Units -> Seq(Int)]
           /\ Throttles(s) \in Seq(Int) /\ <<s.io>> \in Seq(Int)
<1>1. s.left \in Int /\ s.right \in Int /\ s.io \in Int
  BY SyncsAssumption DEF Still
<1>2. s.left * 10 \in Int /\ s.right * 10 \in Int
  BY <1>1
<1>3. Throttles(s) \in Seq(Int) /\ <<s.io>> \in Seq(Int)
  BY <1>1, <1>2 DEF Throttles
<1> QED
  BY <1>3 DEF OrderOf

\* A packet is processed without harm to the types, wherever its fields lie.
LEMMA Processed ==
    ASSUME TypeInv, NEW b \in Seq(0..255), ProcessPacket(b)
    PROVE  /\ my_addr' \in Addresses /\ host_addr' \in Addresses
           /\ reported' = reported => ReadingsOK'
           /\ Len(out') <= MaxOut /\ out' \in Seq(Packets)
           /\ \/ out' = out
              \/ \E p \in Packets : p.op = HELLO /\ out' = Append(out, p)
<1>1. /\ SAddr(b) \subseteq 0..255 /\ DAddr(b) \subseteq 0..255
      /\ Sensors(b) \subseteq Pairs(0..255)
  <2>1. Len(b) \in Nat /\ \A i \in 1..Len(b) : b[i] \in 0..255
    BY LenProperties, ElementOfSeq
  <2>2. \A i \in {4, 5, 7, 8} : i <= Len(b) => b[i] \in 0..255
    BY ONLY <2>1
  <2>3. \A i \in {4, 5, 7, 8} : Field(b, i) \subseteq 0..255
    <3>1. Junk \subseteq 0..255
      BY ReadingsAssumption
    <3>2. SUFFICES ASSUME NEW i \in {4, 5, 7, 8}, NEW x \in Field(b, i) PROVE x \in 0..255
      OBVIOUS
    <3>3. CASE i <= Len(b)
      <4>1. x = b[i]
        BY ONLY <3>3, x \in Field(b, i), Zenon DEF Field
      <4> QED
        BY ONLY <2>2, <3>3, <4>1, i \in {4, 5, 7, 8}, Zenon
    <3>4. CASE ~(i <= Len(b))
      BY ONLY <3>1, <3>4, x \in Field(b, i), Zenon DEF Field
    <3> QED
      BY ONLY <3>3, <3>4
  <2>4. /\ Field(b, 4) \subseteq 0..255 /\ Field(b, 5) \subseteq 0..255
        /\ Field(b, 7) \subseteq 0..255 /\ Field(b, 8) \subseteq 0..255
    BY ONLY <2>3
  <2>5. Field(b, 7) \X Field(b, 8) \subseteq (0..255) \X (0..255)
    BY ONLY <2>4
  <2> QED
    BY ONLY <2>4, <2>5, Zenon DEF SAddr, DAddr, Sensors, Pairs
<1>5. UNCHANGED <<readings, reported>> => ReadingsOK'
  BY DEF TypeInv, TypeOK, ReadingsOK, readings
<1>2. CASE ProcessHello(b)
  <2> DEFINE p == Packet(HELLO, IPC, <<>>)
  <2>2. p \in Packets /\ p.op = HELLO
    BY DEF Packet, Packets, HELLO, IPC, IO
  <2> HIDE DEF p
  <2>3. /\ Append(out, p) \in Seq(Packets)
        /\ Len(out) < MaxOut => Len(Append(out, p)) <= MaxOut
    <3>1. out \in Seq(Packets) /\ MaxOut \in Nat
      BY LineAssumption DEF TypeInv
    <3>2. /\ Append(out, p) \in Seq(Packets) /\ Len(out) \in Nat
          /\ Len(Append(out, p)) = Len(out) + 1
      BY <2>2, <3>1, AppendProperties, LenProperties
    <3> QED
      BY <3>1, <3>2
  <2>4. PICK host \in SAddr(b), addr \in DAddr(b) :
           \/ UNCHANGED <<my_addr, host_addr, out>>
           \/ /\ my_addr' = addr /\ host_addr' = host
              /\ \/ Len(out) < MaxOut /\ out' = Append(out, p)
                 \/ out' = out
    BY <1>2 DEF ProcessHello, Delivered, Failed, p
  <2>5. UNCHANGED readings
    BY <1>2 DEF ProcessHello
  <2>6. CASE UNCHANGED <<my_addr, host_addr, out>>
    BY <1>5, <2>5, <2>6 DEF TypeInv, TypeOK
  <2>7. CASE /\ my_addr' = addr /\ host_addr' = host
             /\ \/ Len(out) < MaxOut /\ out' = Append(out, p)
                \/ out' = out
    <3>1. my_addr' \in Addresses /\ host_addr' \in Addresses
      BY <1>1, <2>7 DEF Addresses
    <3> QED
      BY <1>5, <2>2, <2>3, <2>5, <2>7, <3>1 DEF TypeInv, TypeOK
  <2> QED
    BY <2>4, <2>6, <2>7
<1>3. CASE ProcessEvent(b)
  <2>1. PICK stype \in SType(b), r \in Sensors(b) :
           /\ motors_buffer' = Updated(stype, r)
           /\ response' = [response EXCEPT ![FRONT]
                                = <<Updated(stype, r)[FRONT][1], @[2]>>]
    BY <1>3 DEF ProcessEvent, MotorSensorsEvent
  <2>2. Updated(stype, r) \in [Drivers -> Pairs(0..255)]
    <3>1. r \in Pairs(0..255) /\ motors_buffer \in [Drivers -> Pairs(0..255)]
      BY <1>1 DEF TypeInv, TypeOK, ReadingsOK
    <3> QED
      BY <3>1 DEF Updated
  <2>3. response' \in [Drivers -> Pairs(-1..255)]
    <3>1. /\ Updated(stype, r)[FRONT] \in Pairs(0..255)
          /\ response[FRONT] \in Pairs(-1..255)
      BY <2>2 DEF TypeInv, TypeOK, ReadingsOK, Drivers
    <3>2. PICK q : q = <<Updated(stype, r)[FRONT][1], response[FRONT][2]>>
      OBVIOUS
    <3>3. q \in Pairs(-1..255)
      <4>1. PICK u, v : /\ u = Updated(stype, r)[FRONT] /\ v = response[FRONT]
                        /\ u \in Pairs(0..255) /\ v \in Pairs(-1..255)
        BY <3>1
      <4>2. u[1] \in 0..255
        BY ONLY <4>1 DEF Pairs
      <4>3. v[2] \in -1..255
        BY ONLY <4>1 DEF Pairs
      <4>4. PICK x, y : x = u[1] /\ y = v[2]
        OBVIOUS
      <4>5. x \in -1..255 /\ y \in -1..255
        BY ONLY <4>2, <4>3, <4>4
      <4>6. q = <<x, y>>
        BY <3>2, <4>1, <4>4
      <4> QED
        BY ONLY <4>5, <4>6 DEF Pairs
    <3>4. response \in [Drivers -> Pairs(-1..255)]
      BY DEF TypeInv, TypeOK, ReadingsOK
    <3>5. response' = [response EXCEPT ![FRONT] = q]
      BY <2>1, <3>2
    <3>6. \A T, f : f \in [Drivers -> T] /\ q \in T
                       => [f EXCEPT ![FRONT] = q] \in [Drivers -> T]
      OBVIOUS
    <3> QED
      BY ONLY <3>3, <3>4, <3>5, <3>6, Zenon
  <2>4. UNCHANGED <<my_addr, host_addr, out>>
    BY <1>3 DEF ProcessEvent
  <2>5. motors_buffer' \in [Drivers -> Pairs(0..255)]
    BY <2>1, <2>2
  <2> QED
    BY <2>3, <2>4, <2>5 DEF TypeInv, TypeOK, ReadingsOK
<1>4. CASE UNCHANGED <<my_addr, host_addr, out, readings>>
  BY <1>4, <1>5 DEF TypeInv, TypeOK
<1> QED
  BY <1>2, <1>3, <1>4 DEF ProcessPacket

\* The constructor establishes the types, and every step keeps them: no read
\* is processed beyond the end of the buffer, and the line never holds more
\* than it has room for.
LEMMA TypeCorrectStep ==
    /\ Init => TypeInv
    /\ TypeInv /\ [Next]_vars => TypeInv'
<1>1. ASSUME Init PROVE TypeInv
  <2>1. /\ OrderOf(Still) \in [Units -> Seq(Int)]
        /\ DOMAIN OrderOf(Still) = Units
    BY OrderType DEF OrderOf
  <2> DEFINE p == Packet(ACQUIRE, 0, <<>>)
  <2>2. p \in Packets
    BY DEF Packet, Packets, ACQUIRE, IO
  <2> HIDE DEF p
  <2>3. out \in Seq(Packets) /\ Len(out) <= MaxOut
    BY <1>1, <2>2, LineAssumption DEF Init, p
  <2>4. /\ Zeros \in Pairs(0..255)
        /\ <<Unset, Unset>> \in Pairs(-1..255)
    BY DEF Zeros, Unset, Pairs
  <2>5. ReadingsOK
    BY <1>1, <2>4 DEF Init, ReadingsOK
  <2>6. /\ wire \in Seq(0..255) /\ read_buffer \in Seq(0..255)
        /\ my_addr \in Addresses /\ host_addr \in Addresses
        /\ pc \in {"idle", "back", "io"}
        /\ sync \in Syncs \cup {Still} /\ before \in Syncs \cup {Still}
    BY <1>1 DEF Init, Addresses
  <2>7. /\ missed \subseteq Units /\ plugged \in BOOLEAN /\ lost \in BOOLEAN
        /\ obeyed = OrderOf(Still) /\ offered \subseteq Offers
    BY <1>1 DEF Init
  <2> QED
    BY <2>1, <2>3, <2>5, <2>6, <2>7 DEF TypeInv, TypeOK
<1>2. ASSUME TypeInv, [Next]_vars PROVE TypeInv'
  <2> USE DEF lineVars, readings, requests, history, vars
  <2>0. /\ wire \in Seq(0..255) /\ Len(wire) \in Nat
        /\ read_buffer \in Seq(0..255)
    BY <1>2, LenProperties DEF TypeInv, TypeOK
  <2>9. UNCHANGED <<motors_buffer, response, reported>> => ReadingsOK'
    BY <1>2 DEF TypeInv, TypeOK, ReadingsOK
  <2>1. ASSUME NEW k \in 1..Len(wire), DataAvailable(k) PROVE TypeInv'
    <3> DEFINE bytes == SubSeq(wire, 1, k)
               b == read_buffer \o bytes
    <3>1. wire' \in Seq(0..255) /\ bytes \in Seq(0..255)
      BY <2>0, <2>1, Pieces DEF DataAvailable
    <3>2. b \in Seq(0..255)
      BY <2>0, <3>1, ConcatProperties
    <3> HIDE DEF b
    <3>3. UNCHANGED <<pc, requests, plugged, obeyed, offered, reported, lost>>
      BY <2>1 DEF DataAvailable
    <3>4. CASE Spurious(bytes)
      <4>1. /\ my_addr' = NoAddr /\ host_addr' = NoAddr /\ read_buffer' = <<>>
            /\ UNCHANGED <<motors_buffer, response, out>>
        BY <2>1, <3>4 DEF DataAvailable
      <4>2. /\ my_addr' \in Addresses /\ host_addr' \in Addresses
            /\ read_buffer' \in Seq(0..255)
        BY <4>1, EmptySeq DEF Addresses
      <4> QED
        BY <1>2, <2>9, <3>1, <3>3, <4>1, <4>2 DEF TypeInv, TypeOK
    <3>5. CASE ~Spurious(bytes)
      <4>1. Consume(b)
        BY <2>1, <3>5 DEF DataAvailable, b
      <4>2. CASE ProcessPacket(b) /\ Len(b) >= 2 /\ Len(b) >= PacketLen(b)
                   /\ read_buffer' = Drop(b, PacketLen(b))
        <5>1. PacketLen(b) \in 0..Len(b)
          <6>1. Len(b) \in Nat /\ b[1] \in 0..255 /\ b[2] \in 0..255
            <7>1. Len(b) \in Nat /\ \A i \in 1..Len(b) : b[i] \in 0..255
              BY <3>2, LenProperties, ElementOfSeq, Zenon
            <7>2. 1 \in 1..Len(b) /\ 2 \in 1..Len(b)
              BY ONLY <4>2, <7>1
            <7> QED
              BY <7>1, <7>2, Zenon
          <6>2. PacketLen(b) \in Nat
            <7>1. \A x, y \in 0..255 : x + 256 * y \in Nat
              OBVIOUS
            <7> QED
              BY <6>1, <7>1, Zenon DEF PacketLen
          <6> QED
            BY ONLY <4>2, <6>1, <6>2
        <5>2. read_buffer' \in Seq(0..255)
          BY <3>2, <4>2, <5>1, Pieces
        <5>3. /\ my_addr' \in Addresses /\ host_addr' \in Addresses
              /\ ReadingsOK'
              /\ Len(out') <= MaxOut /\ out' \in Seq(Packets)
          BY <1>2, <3>2, <3>3, <4>2, Processed
        <5> QED
          BY <1>2, <3>1, <3>3, <5>2, <5>3 DEF TypeInv, TypeOK
      <4>3. CASE /\ read_buffer' = b
                 /\ UNCHANGED <<my_addr, host_addr, readings, out>>
        BY <1>2, <2>9, <3>1, <3>2, <3>3, <4>3 DEF TypeInv, TypeOK
      <4> QED
        BY <4>1, <4>2, <4>3 DEF Consume
    <3> QED
      BY <3>4, <3>5
  <2>2. ASSUME NEW p \in Packets, p.dtype \in Units, BusWrite(p),
               sync' \in Syncs \cup {Still}, before' \in Syncs \cup {Still},
               pc' \in {"idle", "back", "io"}
        PROVE  TypeInv'
    <3>1. MaxOut \in Nat /\ out \in Seq(Packets) /\ Len(out) <= MaxOut
      BY <1>2, LineAssumption DEF TypeInv, TypeOK
    <3>2. out' \in Seq(Packets) /\ Len(out') <= MaxOut
      <4>1. CASE Delivered(p)
        <5>1. /\ out' \in Seq(Packets) /\ Len(out) \in Nat
              /\ Len(out') = Len(out) + 1 /\ Len(out) < MaxOut
          BY <3>1, <4>1, AppendProperties, LenProperties DEF Delivered
        <5> QED
          BY ONLY <3>1, <5>1
      <4>2. CASE Failed
        BY <3>1, <4>2 DEF Failed
      <4> QED
        BY <2>2, <4>1, <4>2 DEF BusWrite
    <3>3. missed' \subseteq Units
      BY <1>2, <2>2 DEF BusWrite, TypeInv, TypeOK
    <3>4. UNCHANGED <<wire, lineVars, plugged, obeyed, history>>
      BY <2>2 DEF BusWrite
    <3> QED
      BY <1>2, <2>2, <2>9, <3>2, <3>3, <3>4 DEF TypeInv, TypeOK
  <2>3. ASSUME NEW s \in Syncs, SetThrottleFront(s) PROVE TypeInv'
    <3>1. /\ Packet(EVENT, FRONT, Throttles(s)) \in Packets
          /\ Packet(EVENT, FRONT, Throttles(s)).dtype \in Units
      BY OrderType DEF Packet, Packets, FRONT, IO, Units, Drivers
    <3> QED
      BY <1>2, <2>2, <2>3, <3>1 DEF SetThrottleFront, TypeInv, TypeOK
  <2>4. CASE SetThrottleBack
    <3>1. /\ Packet(EVENT, BACK, Throttles(sync)) \in Packets
          /\ Packet(EVENT, BACK, Throttles(sync)).dtype \in Units
      BY <1>2, OrderType
         DEF Packet, Packets, BACK, IO, Units, Drivers, TypeInv, TypeOK
    <3> QED
      BY <1>2, <2>2, <2>4, <3>1 DEF SetThrottleBack, TypeInv, TypeOK
  <2>5. CASE SetDigitalOutputs
    <3>1. /\ Packet(EVENT, IO, <<sync.io>>) \in Packets
          /\ Packet(EVENT, IO, <<sync.io>>).dtype \in Units
      BY <1>2, OrderType DEF Packet, Packets, IO, Units, TypeInv, TypeOK
    <3> QED
      BY <1>2, <2>2, <2>5, <3>1 DEF SetDigitalOutputs, TypeInv, TypeOK
  <2>6. ASSUME NEW p \in Seq(0..255), Send(p), offered' \subseteq Offers,
               reported' \in [Drivers -> Readings \cup {Zeros}]
        PROVE  TypeInv'
    <3>2. ReadingsOK'
      BY <1>2, <2>6 DEF Send, TypeInv, TypeOK, ReadingsOK
    <3>1. wire' \in Seq(0..255)
      BY <2>0, <2>6, ConcatProperties DEF Send
    <3> QED
      BY <1>2, <2>6, <3>1, <3>2 DEF Send, TypeInv, TypeOK
  <2>7. CASE Board
    <3>1. ASSUME NEW o \in Offers, BoardOffers(o) PROVE TypeInv'
      <4>1. Hello(o) \in Seq(0..255)
        BY OffersAssumption DEF Hello, HELLO, IPC
      <4> QED
        BY <1>2, <2>6, <3>1, <4>1 DEF BoardOffers, TypeInv, TypeOK, ReadingsOK
    <3>2. ASSUME NEW d \in Senders, NEW r \in Readings, BoardReports(d, r)
          PROVE  TypeInv'
      <4>1. Event(d, r) \in Seq(0..255)
        <5>1. r[1] \in 0..255 /\ r[2] \in 0..255 /\ d \in 0..255
          BY ReadingsAssumption, SendersAssumption DEF Drivers, FRONT, BACK
        <5> QED
          BY <5>1 DEF Event, EVENT
      <4>2. reported' \in [Drivers -> Readings \cup {Zeros}]
        BY <1>2, <3>2 DEF BoardReports, TypeInv, TypeOK, ReadingsOK
      <4>3. Send(Event(d, r)) /\ offered' = offered
        BY <3>2 DEF BoardReports
      <4>4. offered' \subseteq Offers
        BY <1>2, <4>3 DEF TypeInv, TypeOK
      <4>5. PICK p : p = Event(d, r)
        OBVIOUS
      <4>6. p \in Seq(0..255) /\ Send(p)
        BY <4>1, <4>3, <4>5
      <4> QED
        BY ONLY <2>6, <4>2, <4>4, <4>6
    <3>3. CASE BoardDone
      <4>1. Done \in Seq(0..255)
        BY DEF Done, DONE, FRONT
      <4> QED
        BY <1>2, <2>6, <3>3, <4>1 DEF BoardDone, TypeInv, TypeOK, ReadingsOK
    <3>4. CASE BoardTakes
      <4>1. /\ out \in Seq(Packets) /\ out # <<>> /\ out' = Tail(out)
            /\ obeyed \in [Units -> Seq(Int)]
        BY <1>2, <3>4 DEF BoardTakes, TypeInv
      <4>2. /\ Head(out) \in Packets /\ Tail(out) \in Seq(Packets)
            /\ Len(Tail(out)) = Len(out) - 1 /\ Len(out) \in Nat
        BY <4>1, HeadTailProperties, LenProperties, ElementOfSeq
      <4>3. obeyed' \in [Units -> Seq(Int)]
        BY <3>4, <4>1, <4>2 DEF BoardTakes, Packets
      <4>4. Len(out') <= MaxOut
        <5>1. Len(out) <= MaxOut /\ MaxOut \in Nat
          BY <1>2, LineAssumption DEF TypeInv, TypeOK
        <5> QED
          BY ONLY <4>1, <4>2, <5>1
      <4>5. /\ UNCHANGED <<wire, lineVars, pc, requests, plugged, history>>
            /\ out' \in Seq(Packets)
        BY <3>4, <4>1, <4>2 DEF BoardTakes
      <4>6. DOMAIN obeyed' = Units
        BY <4>3
      <4> QED
        BY <1>2, <2>9, <4>3, <4>4, <4>5, <4>6 DEF TypeInv, TypeOK
    <3>7. CASE LineDrains
      <4>1. out \in Seq(Packets) /\ out # <<>> /\ out' = Tail(out)
        BY <1>2, <3>7 DEF LineDrains, TypeInv
      <4>2. /\ Tail(out) \in Seq(Packets)
            /\ Len(Tail(out)) = Len(out) - 1 /\ Len(out) \in Nat
        BY <4>1, HeadTailProperties, LenProperties
      <4>3. Len(out') <= MaxOut
        <5>1. Len(out) <= MaxOut /\ MaxOut \in Nat
          BY <1>2, LineAssumption DEF TypeInv, TypeOK
        <5> QED
          BY ONLY <4>1, <4>2, <5>1
      <4>4. missed' \subseteq Units
        <5>1. missed \subseteq Units
          BY <1>2 DEF TypeInv, TypeOK
        <5> QED
          BY <3>7, <5>1 DEF LineDrains
      <4>5. /\ UNCHANGED <<wire, lineVars, pc, sync, before, plugged, obeyed, history>>
            /\ out' \in Seq(Packets)
        BY <3>7, <4>1, <4>2 DEF LineDrains
      <4> QED
        BY <1>2, <2>9, <4>3, <4>4, <4>5 DEF TypeInv, TypeOK
    <3>5. CASE Unplug
      <4>1. PICK n \in 0..Len(wire) :
               wire' = SubSeq(wire, 1, Len(wire) - n) \o Disconnect
        BY <3>5 DEF Unplug
      <4>2. Len(wire) - n \in 0..Len(wire)
        BY <2>0
      <4>3. SubSeq(wire, 1, Len(wire) - n) \in Seq(0..255)
        BY <2>0, <4>2, Pieces
      <4>4. Disconnect \in Seq(0..255)
        BY DEF Disconnect
      <4>5. wire' \in Seq(0..255)
        BY <4>1, <4>3, <4>4, ConcatProperties
      <4> QED
        BY <1>2, <2>9, <3>5, <4>5 DEF Unplug, TypeInv, TypeOK
    <3>6. CASE Replug
      BY <1>2, <2>9, <3>6 DEF Replug, TypeInv, TypeOK
    <3> QED
      BY <2>7, <3>1, <3>2, <3>3, <3>4, <3>5, <3>6, <3>7 DEF Board
  <2>8. CASE UNCHANGED vars
    BY <1>2, <2>8, <2>9 DEF TypeInv, TypeOK
  <2> QED
    BY <1>2, <2>1, <2>3, <2>4, <2>5, <2>7, <2>8 DEF Next, Controller
<1> QED
  BY <1>1, <1>2

\* However the stream of the board is cut or broken off, the parser leaves the
\* address, the readings and the stream within their types, and no write goes
\* beyond what the line has room for.
THEOREM TypeCorrect == Spec => []TypeOK
<1>1. TypeInv => TypeOK
  BY DEF TypeInv
<1> QED
  BY <1>1, TypeCorrectStep, PTL DEF Spec

-----------------------------------------------------------------------------
(* What a unit will be told last *)

\* Of what a read brings, only a HELLO is answered.
LEMMA Heard ==
    ASSUME TypeInv, NEW k \in 1..Len(wire), DataAvailable(k)
    PROVE  /\ UNCHANGED <<pc, requests, obeyed>>
           /\ \/ out' = out
              \/ \E p \in Packets : p.op = HELLO /\ out' = Append(out, p)
<1> DEFINE bytes == SubSeq(wire, 1, k)
           b == read_buffer \o bytes
<1>1. b \in Seq(0..255)
  <2>1. wire \in Seq(0..255) /\ read_buffer \in Seq(0..255)
    BY DEF TypeInv, TypeOK
  <2>2. bytes \in Seq(0..255)
    BY <2>1, LenProperties, Pieces
  <2> QED
    BY <2>1, <2>2, ConcatProperties
<1>2. out' = out \/ Consume(b)
  BY DEF DataAvailable
<1>3. UNCHANGED <<pc, requests, obeyed>>
  BY DEF DataAvailable
<1> HIDE DEF b
<1>4. out' = out \/ ProcessPacket(b)
  BY <1>2 DEF Consume
<1> QED
  BY <1>1, <1>3, <1>4, Processed

\* The last packet on the line for u says v; or none is left, and u does v.
Told(u, v) ==
    \/ obeyed[u] = v /\ \A i \in DOMAIN out : ~Mine(out[i], u)
    \/ \E i \in DOMAIN out :
          /\ Mine(out[i], u) /\ out[i].args = v
          /\ \A j \in DOMAIN out : j > i => ~Mine(out[j], u)

\* Each unit whose last packet was not lost will end up with what it says.
CommandsInv == \A u \in Units \ missed : Told(u, Asked(u))

\* A packet written is the last one for its unit, and no other unit's.
LEMMA Written ==
    ASSUME out \in Seq(Packets), NEW p \in Packets, out' = Append(out, p),
           obeyed' = obeyed, NEW u \in Units, NEW v,
           \/ Mine(p, u) /\ p.args = v
           \/ ~Mine(p, u) /\ Told(u, v)
    PROVE  \/ obeyed'[u] = v /\ \A i \in DOMAIN out' : ~Mine(out'[i], u)
           \/ \E i \in DOMAIN out' :
                 /\ Mine(out'[i], u) /\ out'[i].args = v
                 /\ \A j \in DOMAIN out' : j > i => ~Mine(out'[j], u)
<1> DEFINE n == Len(out)
           w == out'
<1>1. /\ n \in Nat /\ DOMAIN out = 1..n /\ DOMAIN w = 1..n + 1
      /\ w[n + 1] = p /\ \A i \in 1..n : w[i] = out[i]
  BY AppendProperties, LenProperties
<1> HIDE DEF n, w
<1>2. CASE Mine(p, u) /\ p.args = v
  <2>1. n + 1 \in DOMAIN w /\ \A j \in DOMAIN w : ~(j > n + 1)
    BY <1>1
  <2> QED
    BY <1>1, <1>2, <2>1 DEF w
<1>3. CASE ~Mine(p, u) /\ Told(u, v)
  <2>1. \A i \in DOMAIN w : i \in DOMAIN out \/ i = n + 1
    BY <1>1
  <2>2. \A i \in DOMAIN out : i \in DOMAIN w /\ w[i] = out[i]
    BY <1>1
  <2>3. \A i \in DOMAIN w : ~Mine(w[i], u) \/ (i \in DOMAIN out /\ Mine(out[i], u))
    BY <1>1, <1>3, <2>1
  <2> QED
    BY <1>3, <2>2, <2>3 DEF Told, w
<1> QED
  BY <1>2, <1>3

\* However the link is lost and found, and wherever the controller stops for
\* good, every unit follows the last packet written to it when none is on its
\* way, or that packet was lost: no loss of one unit's packet is another's.
THEOREM CommandsCorrect == Spec => []CommandsFollowed
<1>1. Init => CommandsInv
  <2> SUFFICES ASSUME Init, NEW u \in Units PROVE Told(u, Asked(u))
    BY DEF CommandsInv
  <2>1. DOMAIN out = {1} /\ out[1].op = ACQUIRE
    BY DEF Init, Packet
  <2> QED
    BY <2>1 DEF Init, Told, Asked, Mine, ACQUIRE, EVENT
<1>2. ASSUME TypeInv, CommandsInv, [Next]_vars PROVE CommandsInv'
  <2> USE DEF lineVars, readings, requests, history, vars
  <2>0. /\ out \in Seq(Packets) /\ sync \in Syncs \cup {Still}
        /\ before \in Syncs \cup {Still}
    BY <1>2 DEF TypeInv, TypeOK
  <2>1. CASE UNCHANGED <<out, obeyed, pc, requests>>
    BY <1>2, <2>1 DEF CommandsInv, Told, Asked, Unwritten
  <2>2. ASSUME NEW p \in Packets, out' = Append(out, p), obeyed' = obeyed,
               \A u \in Units \ missed' :
                  LET v == Asked(u)'
                  IN  \/ Mine(p, u) /\ p.args = v
                      \/ ~Mine(p, u) /\ Told(u, v)
        PROVE  CommandsInv'
    <3> SUFFICES ASSUME NEW u \in Units, u \notin missed'
                 PROVE  Told(u, Asked(u))'
      BY DEF CommandsInv
    <3>1. PICK v : v = Asked(u)'
      OBVIOUS
    <3> QED
      BY <2>0, <2>2, <3>1, Written DEF Told
  <2>3. ASSUME NEW k \in 1..Len(wire), DataAvailable(k) PROVE CommandsInv'
    <3>1. UNCHANGED <<pc, requests, obeyed>>
      BY <2>3 DEF DataAvailable
    <3>2. out' = out \/ \E p \in Packets : p.op = HELLO /\ out' = Append(out, p)
      BY <1>2, <2>3, Heard
    <3>3. CASE out' = out
      BY <2>1, <3>1, <3>3
    <3>4. ASSUME NEW p \in Packets, p.op = HELLO, out' = Append(out, p)
          PROVE  CommandsInv'
      <4>1. \A u \in Units \ missed : ~Mine(p, u) /\ Told(u, Asked(u))
        BY <1>2, <3>4 DEF CommandsInv, Mine, HELLO, EVENT
      <4>2. missed' = missed /\ \A u \in Units : Asked(u)' = Asked(u)
        BY <3>1 DEF Asked, Unwritten
      <4> QED
        BY <2>2, <3>1, <3>4, <4>1, <4>2
    <3> QED
      BY <3>2, <3>3, <3>4
  <2>10. ASSUME NEW d \in Units, NEW x \in Seq(Int), BusWrite(Packet(EVENT, d, x)),
                Asked(d)' = x, \A u \in Units : u # d => Asked(u)' = Asked(u)
         PROVE  CommandsInv'
    <3> DEFINE p == Packet(EVENT, d, x)
    <3>1. /\ p \in Packets /\ Mine(p, d) /\ p.args = x /\ p.dtype = d
          /\ \A u \in Units : u # d => ~Mine(p, u)
      BY DEF Mine, Packet, Packets, Units, Drivers, FRONT, BACK, IO
    <3> HIDE DEF p
    <3>2. obeyed' = obeyed
      BY <2>10 DEF BusWrite
    <3>3. CASE Delivered(p) /\ missed' = missed \ {d}
      <4>1. out' = Append(out, p)
        BY <3>3 DEF Delivered
      <4>2. \A u \in Units \ missed' : u # d => Told(u, Asked(u)')
        BY <1>2, <2>10, <3>3 DEF CommandsInv
      <4> QED
        BY <2>2, <2>10, <3>1, <3>2, <4>1, <4>2
    <3>4. CASE Failed /\ missed' = missed \cup {d}
      <4>1. out' = out
        BY <3>4 DEF Failed
      <4>2. \A u \in Units \ missed' : Told(u, Asked(u)')
        BY <1>2, <2>10, <3>4 DEF CommandsInv
      <4> QED
        BY <3>2, <4>1, <4>2 DEF CommandsInv, Told
    <3> QED
      BY <2>10, <3>1, <3>3, <3>4 DEF BusWrite, p
  <2>4. ASSUME NEW s \in Syncs, SetThrottleFront(s) PROVE CommandsInv'
    <3>1. FRONT \in Units /\ Throttles(s) \in Seq(Int)
      BY OrderType DEF Units, Drivers
    <3>2. pc = "idle" /\ pc' = "back" /\ sync' = s /\ before' = sync
      BY <2>4 DEF SetThrottleFront
    <3>3. /\ Asked(FRONT)' = Throttles(s)
          /\ \A u \in Units : u # FRONT => Asked(u)' = Asked(u)
      BY <3>2 DEF Asked, Unwritten, OrderOf, Throttles, Units, Drivers, FRONT,
         BACK, IO
    <3> QED
      BY <2>4, <2>10, <3>1, <3>3 DEF SetThrottleFront
  <2>5. CASE SetThrottleBack
    <3>1. BACK \in Units /\ Throttles(sync) \in Seq(Int)
      BY <2>0, OrderType DEF Units, Drivers
    <3>2. pc = "back" /\ pc' = "io" /\ sync' = sync /\ before' = before
      BY <2>5 DEF SetThrottleBack
    <3>3. /\ Asked(BACK)' = Throttles(sync)
          /\ \A u \in Units : u # BACK => Asked(u)' = Asked(u)
      BY <3>2 DEF Asked, Unwritten, OrderOf, Throttles, Units, Drivers, FRONT,
         BACK, IO
    <3> QED
      BY <2>5, <2>10, <3>1, <3>3 DEF SetThrottleBack
  <2>6. CASE SetDigitalOutputs
    <3>1. IO \in Units /\ <<sync.io>> \in Seq(Int)
      BY <2>0, OrderType DEF Units
    <3>2. pc = "io" /\ pc' = "idle" /\ sync' = sync /\ before' = before
      BY <2>6 DEF SetDigitalOutputs
    <3>3. /\ Asked(IO)' = <<sync.io>>
          /\ \A u \in Units : u # IO => Asked(u)' = Asked(u)
      BY <3>2 DEF Asked, Unwritten, OrderOf, Throttles, Units, Drivers, FRONT,
         BACK, IO
    <3> QED
      BY <2>6, <2>10, <3>1, <3>3 DEF SetDigitalOutputs
  <2>7. ASSUME out # <<>>, out' = Tail(out), UNCHANGED <<pc, sync, before>>,
               obeyed' \in [Units -> Seq(Int)],
               \A u \in Units \ missed' :
                  /\ u \notin missed
                  /\ \/ obeyed'[u] = IF Mine(Head(out), u) THEN Head(out).args
                                                           ELSE obeyed[u]
                     \/ /\ obeyed'[u] = obeyed[u]
                        /\ Mine(Head(out), u)
                              => \E i \in 2..Len(out) : Mine(out[i], u)
        PROVE  CommandsInv'
    <3> DEFINE n == Len(out)
               p == out[1]
    <3>1. /\ n \in Nat \ {0} /\ DOMAIN out = 1..n /\ DOMAIN out' = 1..n - 1
          /\ p = Head(out) /\ \A i \in 1..n - 1 : out'[i] = out[i + 1]
      BY <2>0, <2>7, HeadTailProperties, LenProperties, EmptySeq
    <3> SUFFICES ASSUME NEW u \in Units, u \notin missed'
                 PROVE  Told(u, Asked(u))'
      BY DEF CommandsInv
    <3>2. Asked(u)' = Asked(u)
      BY <2>7 DEF Asked, Unwritten
    <3>3. PICK v : v = Asked(u) /\ Told(u, v)
      BY <1>2, <2>7 DEF CommandsInv
    <3>4. \/ obeyed'[u] = IF Mine(p, u) THEN p.args ELSE obeyed[u]
          \/ /\ obeyed'[u] = obeyed[u]
             /\ Mine(p, u) => \E i \in 2..n : Mine(out[i], u)
      BY <2>7, <3>1
    <3> HIDE DEF n, p
    <3>5. CASE obeyed[u] = v /\ \A i \in DOMAIN out : ~Mine(out[i], u)
      <4>1. ~Mine(p, u) /\ \A i \in DOMAIN out' : ~Mine(out'[i], u)
        BY <3>1, <3>5 DEF p
      <4> QED
        BY <3>2, <3>3, <3>4, <3>5, <4>1 DEF Told
    <3>6. ASSUME NEW i \in DOMAIN out, Mine(out[i], u), out[i].args = v,
                 \A j \in DOMAIN out : j > i => ~Mine(out[j], u)
          PROVE  Told(u, Asked(u))'
      <4>1. CASE i = 1
        <5>1. ~ \E j \in 2..n : Mine(out[j], u)
          BY <3>1, <3>6, <4>1
        <5>2. obeyed'[u] = v
          BY <3>4, <3>6, <4>1, <5>1 DEF p
        <5>3. \A j \in DOMAIN out' : ~Mine(out'[j], u)
          BY <3>1, <3>6, <4>1, SMTT(30)
        <5> QED
          BY <3>2, <3>3, <5>2, <5>3 DEF Told
      <4>2. CASE i # 1
        <5>1. i - 1 \in DOMAIN out' /\ out'[i - 1] = out[i]
          BY <3>1, <4>2
        <5>2. \A j \in DOMAIN out' : j > i - 1 => ~Mine(out'[j], u)
          <6> SUFFICES ASSUME NEW j \in DOMAIN out', j > i - 1
                       PROVE  ~Mine(out[j + 1], u)
            BY <3>1
          <6> QED
            BY <3>1, <3>6
        <5> QED
          BY <3>2, <3>3, <3>6, <5>1, <5>2 DEF Told
      <4> QED
        BY <4>1, <4>2
    <3> QED
      BY <3>3, <3>5, <3>6 DEF Told
  <2>11. CASE BoardTakes
    <3> DEFINE p == Head(out)
    <3>1. /\ out # <<>> /\ out' = Tail(out) /\ UNCHANGED <<pc, requests>>
          /\ obeyed \in [Units -> Seq(Int)] /\ p \in Packets
          /\ obeyed' = IF p.op = EVENT THEN [obeyed EXCEPT ![p.dtype] = p.args]
                                       ELSE obeyed
      BY <1>2, <2>11, HeadTailProperties DEF BoardTakes, TypeInv
    <3> HIDE DEF p
    <3>2. obeyed' \in [Units -> Seq(Int)]
      BY <3>1 DEF Packets
    <3>3. \A u \in Units : obeyed'[u] = IF Mine(p, u) THEN p.args ELSE obeyed[u]
      BY <3>1 DEF Mine
    <3> QED
      BY <2>7, <3>1, <3>2, <3>3 DEF p
  <2>12. CASE LineDrains
    <3>1. /\ out # <<>> /\ out' = Tail(out) /\ UNCHANGED <<pc, sync, before>>
          /\ obeyed' = obeyed /\ obeyed \in [Units -> Seq(Int)]
      BY <1>2, <2>12 DEF LineDrains, TypeInv
    <3>2. \A u \in Units \ missed' :
             /\ u \notin missed
             /\ Mine(Head(out), u) => \E i \in 2..Len(out) : Mine(out[i], u)
      BY <2>12 DEF LineDrains
    <3> QED
      BY <2>7, <3>1, <3>2
  <2>8. CASE Board /\ ~BoardTakes /\ ~LineDrains
    BY <2>1, <2>8 DEF Board, BoardOffers, BoardReports, BoardDone, Send, Unplug,
       Replug
  <2>9. CASE UNCHANGED vars
    BY <2>1, <2>9
  <2> QED
    BY <1>2, <2>3, <2>4, <2>5, <2>6, <2>8, <2>9, <2>11, <2>12
       DEF Next, Controller
<1>3. TypeInv /\ CommandsInv => CommandsFollowed
  <2> SUFFICES ASSUME CommandsInv, out = <<>>, NEW u \in Units \ missed
               PROVE  obeyed[u] = Asked(u)
    BY DEF CommandsFollowed
  <2> QED
    BY EmptySeq, LenProperties DEF CommandsInv, Told
<1> QED
  BY <1>1, <1>2, <1>3, TypeCorrectStep, PTL DEF Spec

-----------------------------------------------------------------------------
(* The bus: what is written for each unit *)

Part(p, u) == IF Mine(p, u) THEN <<p.args>> ELSE <<>>
PartsOf(s, u)  == [i \in DOMAIN s |-> Part(s[i], u)]
Commands(s, u) == FlattenSeq(PartsOf(s, u))

\* What is written for u, as packets are appended and taken.
LEMMA CommandsChange ==
    ASSUME NEW s \in Seq(Packets), NEW u
    PROVE  /\ Commands(s, u) \in Seq(Seq(Int)) /\ Len(Commands(s, u)) <= Len(s)
           /\ \A p \in Packets : Commands(Append(s, p), u) = Commands(s, u) \o Part(p, u)
           /\ s # <<>> => Commands(s, u) = Part(Head(s), u) \o Commands(Tail(s), u)
<1> DEFINE n == Len(s)
           T == Seq(Seq(Int))
           w == PartsOf(s, u)
<1>0. \A p \in Packets : Part(p, u) \in T /\ Len(Part(p, u)) <= 1
  <2> SUFFICES ASSUME NEW p \in Packets PROVE Part(p, u) \in T /\ Len(Part(p, u)) <= 1
    OBVIOUS
  <2>1. p.args \in Seq(Int)
    BY DEF Packets
  <2> QED
    BY <2>1 DEF Part
<1>1. n \in Nat /\ DOMAIN s = 1..n /\ \A i \in 1..n : s[i] \in Packets
  BY LenProperties, ElementOfSeq
<1>2. /\ w \in Seq(T) /\ Len(w) = n /\ DOMAIN w = 1..n
      /\ \A i \in 1..n : w[i] = Part(s[i], u)
  <2>1. \A i \in 1..n : Part(s[i], u) \in T
    BY <1>0, <1>1
  <2> HIDE DEF T
  <2> QED
    BY <1>1, <2>1 DEF PartsOf
<1>3. Commands(s, u) \in T
  BY <1>2, FlattenType DEF Commands
<1>4. Len(Commands(s, u)) <= Len(s)
  <2>1. \A i \in DOMAIN w : Len(w[i]) <= 1
    BY <1>0, <1>1, <1>2
  <2> HIDE DEF w
  <2>2. Len(FlattenSeq(w)) <= Len(w)
    BY <1>2, <2>1, FlattenShort
  <2> QED
    BY <1>2, <2>2 DEF Commands, w
<1>5. ASSUME NEW p \in Packets
      PROVE  Commands(Append(s, p), u) = Commands(s, u) \o Part(p, u)
  <2>1. /\ DOMAIN Append(s, p) = 1..n + 1 /\ Append(s, p)[n + 1] = p
        /\ \A i \in 1..n : Append(s, p)[i] = s[i]
    BY <1>1, AppendProperties, LenProperties
  <2>2. PICK x : x = Part(p, u) /\ x \in T
    BY <1>0
  <2> HIDE DEF w, T
  <2>3. /\ Append(w, x) \in Seq(T) /\ Len(Append(w, x)) = n + 1
        /\ Append(w, x)[n + 1] = x /\ \A i \in 1..n : Append(w, x)[i] = w[i]
    BY <1>1, <1>2, <2>2, AppendProperties
  <2>4. PartsOf(Append(s, p), u) = Append(w, x)
    <3>1. DOMAIN Append(w, x) = 1..n + 1
      BY <1>1, <2>3, LenProperties
    <3>2. \A i \in 1..n + 1 : PartsOf(Append(s, p), u)[i] = Append(w, x)[i]
      BY <1>1, <1>2, <2>1, <2>2, <2>3 DEF PartsOf
    <3>3. DOMAIN PartsOf(Append(s, p), u) = 1..n + 1
      BY <2>1 DEF PartsOf
    <3>4. /\ PartsOf(Append(s, p), u)
                = [i \in DOMAIN Append(s, p) |-> Part(Append(s, p)[i], u)]
          /\ Append(w, x) = [i \in 1..n + 1 |-> Append(w, x)[i]]
      BY <2>3, <3>1, LenProperties DEF PartsOf
    <3> QED
      BY <2>1, <3>1, <3>2, <3>3, <3>4
  <2>5. FlattenSeq(Append(w, x)) = FlattenSeq(w) \o x
    BY <1>2, <2>2, FlattenAppend DEF T
  <2> QED
    BY <2>2, <2>4, <2>5 DEF Commands, w
<1>6. ASSUME s # <<>>
      PROVE  Commands(s, u) = Part(Head(s), u) \o Commands(Tail(s), u)
  <2>1. /\ DOMAIN Tail(s) = 1..n - 1 /\ Head(s) = s[1] /\ n \in Nat \ {0}
        /\ \A i \in 1..n - 1 : Tail(s)[i] = s[i + 1]
    BY <1>1, <1>6, HeadTailProperties, LenProperties, EmptySeq
  <2> HIDE DEF w, T
  <2>2. /\ w # <<>> /\ Head(w) = w[1] /\ Tail(w) \in Seq(T)
        /\ Len(Tail(w)) = n - 1 /\ \A i \in 1..n - 1 : Tail(w)[i] = w[i + 1]
    <3>1. w # <<>>
      BY <1>2, <2>1, EmptySeq
    <3> QED
      BY <1>2, <3>1, HeadTailProperties
  <2>3. PartsOf(Tail(s), u) = Tail(w)
    <3>1. DOMAIN Tail(w) = 1..n - 1 /\ Tail(w) = [i \in 1..n - 1 |-> Tail(w)[i]]
      BY <2>2, LenProperties
    <3>2. \A i \in 1..n - 1 : Part(Tail(s)[i], u) = Tail(w)[i]
      BY <1>2, <2>1, <2>2
    <3> QED
      BY <2>1, <3>1, <3>2 DEF PartsOf
  <2>4. Head(w) = Part(Head(s), u)
    BY <1>2, <2>1, <2>2
  <2>5. FlattenSeq(w) = Head(w) \o FlattenSeq(Tail(w))
    BY <1>2, <2>2, FlattenTail DEF T
  <2> QED
    BY <2>3, <2>4, <2>5 DEF Commands, w
<1> QED
  BY <1>3, <1>4, <1>5, <1>6

\* The part of the present request that is yet to be written for u.
Coming(u) == IF u \in Unwritten THEN <<OrderOf(sync)[u]>> ELSE <<>>

\* How many commands for u follow the k-th packet of s.
Behind(s, k, u) == Len(Commands(SubSeq(s, k + 1, Len(s)), u))

\* How many commands each unit has yet to get after the k-th packet, when c[u]
\* more are to come for u.
Left(s, c, k) == [u \in Units |-> Behind(s, k, u) + c[u]]

\* u is told next: those before it are a command behind, those after it are not.
InTurn(left, u) ==
    /\ u \in Units /\ left[u] # 0
    /\ \A v \in Units : left[v] = IF v < u THEN left[u] - 1 ELSE left[u]

\* Wherever the line is cut, the command behind the cut is for the unit whose
\* turn it is.
Turns(s, c) == \A k \in 1..Len(s) :
                  s[k].op = EVENT => InTurn(Left(s, c, k - 1), s[k].dtype)

Lag == [u \in Units |-> IF u \in Unwritten THEN 1 ELSE 0]

TurnInv == ~lost => Turns(out, Lag) /\ plugged = TRUE

\* Until the link is lost it stays, and no packet is lost with it.
LEMMA StaysPlugged ==
    ASSUME ~lost', TurnInv, [Next]_vars
    PROVE  /\ Turns(out, Lag) /\ plugged' = TRUE
           /\ ~Failed /\ ~LineDrains /\ ~Unplug
<1>1. lost' = lost /\ ~Unplug
  BY DEF Next, Controller, Board, DataAvailable, SetThrottleFront, SetThrottleBack,
     SetDigitalOutputs, BusWrite, BoardOffers, BoardReports, BoardDone, Send,
     BoardTakes, LineDrains, Unplug, Replug, history, vars
<1>2. Turns(out, Lag) /\ plugged = TRUE
  BY <1>1 DEF TurnInv
<1>3. ~Failed /\ ~LineDrains
  BY <1>2 DEF Failed, LineDrains
<1>4. plugged' = TRUE
  BY <1>1, <1>2 DEF Next, Controller, Board, DataAvailable, SetThrottleFront,
     SetThrottleBack, SetDigitalOutputs, BusWrite, BoardOffers, BoardReports,
     BoardDone, Send, BoardTakes, LineDrains, Unplug, Replug, requests, vars
<1> QED
  BY <1>1, <1>2, <1>3, <1>4

LEMMA ComingType ==
    ASSUME TypeInv, NEW u \in Units
    PROVE  Coming(u) \in Seq(Seq(Int)) /\ Len(Coming(u)) \in {0, 1}
<1>1. OrderOf(sync)[u] \in Seq(Int)
  BY OrderType DEF TypeInv, TypeOK
<1> QED
  BY <1>1 DEF Coming

LEMMA PendingIs ==
    /\ \A u : Pending(u) = Commands(out, u) \o Coming(u)
    /\ \A u : Pending(u)' = Commands(out', u) \o Coming(u)'
<1>1. \A u : /\ PartsOf(out, u) = [i \in DOMAIN out |->
                                     IF out[i].op = EVENT /\ out[i].dtype = u
                                     THEN <<out[i].args>> ELSE <<>>]
             /\ PartsOf(out', u) = [i \in DOMAIN out' |->
                                      IF out'[i].op = EVENT /\ out'[i].dtype = u
                                      THEN <<out'[i].args>> ELSE <<>>]
  BY DEF PartsOf, Part, Mine
<1> QED
  BY <1>1 DEF Pending, Commands, Coming

\* What follows a place on the line.
LEMMA Following ==
    ASSUME NEW s \in Seq(Packets), NEW k \in 0..Len(s)
    PROVE  /\ SubSeq(s, k + 1, Len(s)) \in Seq(Packets)
           /\ k = Len(s) => SubSeq(s, k + 1, Len(s)) = <<>>
           /\ \A p \in Packets :
                 SubSeq(Append(s, p), k + 1, Len(s) + 1)
                    = Append(SubSeq(s, k + 1, Len(s)), p)
           /\ k # 0 => SubSeq(Tail(s), k, Len(s) - 1) = SubSeq(s, k + 1, Len(s))
<1> DEFINE n == Len(s)
           t == SubSeq(s, k + 1, n)
<1>1. n \in Nat /\ k \in 0..n /\ \A i \in 1..n : s[i] \in Packets
  BY LenProperties, ElementOfSeq
<1>2. /\ t \in Seq(Packets) /\ Len(t) = n - k
      /\ \A i \in 1..n - k : t[i] = s[k + i]
  BY <1>1, SubSeqProperties
<1>3. k = n => t = <<>>
  BY <1>1, <1>2, EmptySeq
<1>4. ASSUME NEW p \in Packets
      PROVE  SubSeq(Append(s, p), k + 1, n + 1) = Append(t, p)
  <2> DEFINE w == Append(s, p)
             a == SubSeq(w, k + 1, n + 1)
             b == Append(t, p)
  <2>1. /\ w \in Seq(Packets) /\ Len(w) = n + 1
        /\ w[n + 1] = p /\ \A i \in 1..n : w[i] = s[i]
    BY AppendProperties
  <2> HIDE DEF n, t, w
  <2>2. \A i \in 1..n + 1 : w[i] \in Packets
    BY <2>1, ElementOfSeq
  <2>3. /\ a \in Seq(Packets) /\ Len(a) = n + 1 - k
        /\ \A i \in 1..n + 1 - k : a[i] = w[k + i]
    BY <1>1, <2>1, <2>2, SubSeqProperties
  <2>4. /\ b \in Seq(Packets) /\ Len(b) = n - k + 1 /\ b[n - k + 1] = p
        /\ \A i \in 1..n - k : b[i] = t[i]
    BY <1>1, <1>2, AppendProperties
  <2> HIDE DEF a, b
  <2>5. \A i \in 1..n + 1 - k : a[i] = b[i]
    <3> SUFFICES ASSUME NEW i \in 1..n + 1 - k PROVE a[i] = b[i]
      OBVIOUS
    <3>1. CASE i = n + 1 - k
      <4>1. k + i = n + 1 /\ i = n - k + 1
        BY <1>1, <3>1
      <4> QED
        BY <2>1, <2>3, <2>4, <4>1
    <3>2. CASE i # n + 1 - k
      <4>1. i \in 1..n - k /\ k + i \in 1..n
        BY <1>1, <3>2
      <4> QED
        BY <1>2, <2>1, <2>3, <2>4, <4>1
    <3> QED
      BY <3>1, <3>2
  <2>6. Len(a) = Len(b) /\ \A i \in 1..Len(a) : a[i] = b[i]
    <3>1. n + 1 - k = n - k + 1
      BY <1>1
    <3> QED
      BY ONLY <2>3, <2>4, <2>5, <3>1
  <2>7. a = b
    BY ONLY <2>3, <2>4, <2>6, SeqEqual
  <2> QED
    BY <2>7 DEF a, b, w
<1>5. ASSUME k # 0 PROVE SubSeq(Tail(s), k, n - 1) = t
  <2> DEFINE w == Tail(s)
             a == SubSeq(w, k, n - 1)
  <2>1. s # <<>>
    BY <1>1, <1>5, EmptySeq
  <2>2. /\ w \in Seq(Packets) /\ Len(w) = n - 1
        /\ \A i \in 1..n - 1 : w[i] = s[i + 1]
    BY <2>1, HeadTailProperties
  <2> HIDE DEF n, t, w
  <2>3. \A i \in 1..n - 1 : w[i] \in Packets
    BY <2>2, ElementOfSeq
  <2>4. /\ a \in Seq(Packets) /\ Len(a) = n - k
        /\ \A i \in 1..n - k : a[i] = w[k + i - 1]
    BY <1>1, <1>5, <2>2, <2>3, SubSeqProperties
  <2> HIDE DEF a
  <2>5. Len(a) = Len(t) /\ \A i \in 1..Len(a) : a[i] = t[i]
    <3>1. \A i \in 1..n - k : k + i - 1 \in 1..n - 1 /\ k + i - 1 + 1 = k + i
      BY <1>1, <1>5
    <3> QED
      BY <1>2, <2>2, <2>4, <3>1
  <2>6. a = t
    BY ONLY <1>2, <2>4, <2>5, SeqEqual
  <2> QED
    BY <2>6 DEF a, w
<1> QED
  BY <1>2, <1>3, <1>4, <1>5

LEMMA BehindType ==
    ASSUME NEW s \in Seq(Packets), NEW k \in 0..Len(s), NEW u
    PROVE  Behind(s, k, u) \in Nat
<1>1. Commands(SubSeq(s, k + 1, Len(s)), u) \in Seq(Seq(Int))
  BY Following, CommandsChange
<1> QED
  BY <1>1, LenProperties DEF Behind

\* What is behind a place grows with each packet appended, and the place moves
\* forward when one is taken.
LEMMA BehindChange ==
    ASSUME NEW s \in Seq(Packets), NEW k \in 0..Len(s), NEW u
    PROVE  /\ \A p \in Packets : Behind(Append(s, p), k, u)
                                    = Behind(s, k, u) + Len(Part(p, u))
           /\ k = Len(s) => Behind(s, k, u) = 0
           /\ k # 0 => Behind(Tail(s), k - 1, u) = Behind(s, k, u)
<1> DEFINE t == SubSeq(s, k + 1, Len(s))
<1>1. t \in Seq(Packets)
  BY Following
<1>2. ASSUME NEW p \in Packets
      PROVE  Behind(Append(s, p), k, u) = Behind(s, k, u) + Len(Part(p, u))
  <2>1. /\ Len(Append(s, p)) = Len(s) + 1
        /\ SubSeq(Append(s, p), k + 1, Len(s) + 1) = Append(t, p)
    BY AppendProperties, Following
  <2> HIDE DEF t
  <2>2. Commands(Append(t, p), u) = Commands(t, u) \o Part(p, u)
    BY <1>1, CommandsChange
  <2>3. Commands(t, u) \in Seq(Seq(Int))
    BY <1>1, CommandsChange
  <2>4. Part(p, u) \in Seq(Seq(Int))
    BY DEF Packets, Part
  <2>5. Len(Commands(t, u) \o Part(p, u)) = Len(Commands(t, u)) + Len(Part(p, u))
    BY <2>3, <2>4, ConcatProperties
  <2>6. Behind(Append(s, p), k, u) = Len(Commands(Append(t, p), u))
    BY <2>1 DEF Behind
  <2>7. Behind(s, k, u) = Len(Commands(t, u))
    BY DEF Behind, t
  <2> QED
    BY <2>2, <2>5, <2>6, <2>7
<1>3. k = Len(s) => Behind(s, k, u) = 0
  <2> SUFFICES ASSUME k = Len(s) PROVE Behind(s, k, u) = 0
    OBVIOUS
  <2>1. t = <<>>
    BY Following
  <2>2. /\ Commands(<<>>, u) \in Seq(Seq(Int)) /\ Len(Commands(<<>>, u)) <= 0
    <3>1. PICK z \in Seq(Packets) : z = <<>> /\ Len(z) = 0
      BY EmptySeq
    <3> QED
      BY <3>1, CommandsChange
  <2>3. Len(Commands(<<>>, u)) \in Nat
    BY <2>2, LenProperties
  <2>4. Behind(s, k, u) = Len(Commands(<<>>, u))
    BY <2>1 DEF Behind
  <2> QED
    BY <2>2, <2>3, <2>4
<1>4. ASSUME k # 0 PROVE Behind(Tail(s), k - 1, u) = Behind(s, k, u)
  <2>1. k \in Nat /\ Len(s) \in Nat /\ s # <<>>
    BY <1>4, EmptySeq, LenProperties
  <2>2. Len(Tail(s)) = Len(s) - 1 /\ k - 1 + 1 = k
    BY <2>1, HeadTailProperties
  <2>3. SubSeq(Tail(s), k, Len(s) - 1) = t
    BY <1>4, Following
  <2> HIDE DEF t
  <2>4. SubSeq(Tail(s), k - 1 + 1, Len(Tail(s))) = t
    BY <2>2, <2>3
  <2>5. SubSeq(s, k + 1, Len(s)) = t
    BY DEF t
  <2> QED
    BY <2>4, <2>5 DEF Behind
<1> QED
  BY <1>2, <1>3, <1>4

LEMMA LeftType ==
    ASSUME NEW s \in Seq(Packets), NEW c \in [Units -> Nat], NEW k \in 0..Len(s)
    PROVE  Left(s, c, k) \in [Units -> Nat]
<1>1. \A u \in Units : Behind(s, k, u) \in Nat
  BY BehindType
<1>2. \A u \in Units : Behind(s, k, u) + c[u] \in Nat
  <2> SUFFICES ASSUME NEW u \in Units PROVE Behind(s, k, u) + c[u] \in Nat
    OBVIOUS
  <2>1. PICK x, y : x = Behind(s, k, u) /\ y = c[u] /\ x \in Nat /\ y \in Nat
    BY <1>1
  <2> QED
    BY <2>1
<1> QED
  BY <1>2 DEF Left

\* The turn does not depend on orders that all units have yet to get.
LEMMA TurnShifts ==
    ASSUME NEW B \in [Units -> Nat], NEW e \in Nat, NEW u, InTurn(B, u)
    PROVE  InTurn([v \in Units |-> B[v] + e], u)
BY DEF InTurn

\* A packet written leaves everyone's turn as it was, if it brings each unit
\* as many commands nearer as that unit had to come, and if it is in turn.
LEMMA AppendTurn ==
    ASSUME NEW s \in Seq(Packets), NEW c \in [Units -> Nat],
           NEW d \in [Units -> Nat], NEW e \in Nat, NEW p \in Packets,
           Turns(s, c), \A v \in Units : Len(Part(p, v)) + d[v] = c[v] + e,
           p.op = EVENT => InTurn([v \in Units |-> c[v] + e], p.dtype)
    PROVE  Turns(Append(s, p), d)
<1> DEFINE n == Len(s)
           w == Append(s, p)
<1>1. /\ n \in Nat /\ Len(w) = n + 1 /\ w[n + 1] = p
      /\ \A i \in 1..n : w[i] = s[i]
  BY AppendProperties, LenProperties
<1>2. \A k \in 0..n : Left(w, d, k) = [v \in Units |-> Left(s, c, k)[v] + e]
  <2> SUFFICES ASSUME NEW k \in 0..n, NEW v \in Units
               PROVE  Behind(w, k, v) + d[v] = Behind(s, k, v) + c[v] + e
    BY DEF Left
  <2>1. PICK x : x = Behind(s, k, v) /\ x \in Nat
    BY BehindType
  <2>2. PICK y : y = Len(Part(p, v)) /\ y \in Nat
    BY DEF Packets, Part
  <2>3. Behind(w, k, v) = x + y
    BY <2>1, <2>2, BehindChange
  <2>4. PICK z, t : z = c[v] /\ t = d[v] /\ z \in Nat /\ t \in Nat /\ y + t = z + e
    BY <2>2
  <2>5. x + y + t = x + z + e
    <3>1. \A a, b, f, g, h \in Nat : b + g = f + h => a + b + g = a + f + h
      OBVIOUS
    <3>2. /\ x \in Nat /\ y \in Nat /\ z \in Nat /\ t \in Nat /\ e \in Nat
          /\ y + t = z + e
      BY <2>1, <2>2, <2>4
    <3> QED
      BY <3>1, <3>2
  <2> QED
    BY <2>1, <2>3, <2>4, <2>5
<1> HIDE DEF n, w
<1>3. ASSUME NEW k \in 1..n + 1, w[k].op = EVENT
      PROVE  InTurn(Left(w, d, k - 1), w[k].dtype)
  <2>1. k - 1 \in 0..n
    BY <1>1
  <2>2. Left(w, d, k - 1) = [v \in Units |-> Left(s, c, k - 1)[v] + e]
    BY <1>2, <2>1
  <2>3. CASE k = n + 1
    <3>1. k - 1 = n /\ w[k] = p
      BY <1>1, <2>3
    <3>2. \A v \in Units : Left(s, c, k - 1)[v] = c[v]
      <4> SUFFICES ASSUME NEW v \in Units PROVE Behind(s, n, v) + c[v] = c[v]
        BY <3>1 DEF Left
      <4>1. Behind(s, n, v) = 0 /\ c[v] \in Nat
        <5>1. Len(s) \in 0..Len(s) /\ n = Len(s)
          BY LenProperties DEF n
        <5> QED
          BY <5>1, BehindChange
      <4> QED
        BY ONLY <4>1
    <3>3. Left(w, d, k - 1) = [v \in Units |-> c[v] + e]
      BY <2>2, <3>2
    <3> QED
      BY <1>3, <3>1, <3>3
  <2>4. CASE k # n + 1
    <3>1. k \in 1..n /\ w[k] = s[k]
      <4>1. k \in 1..n
        BY <1>1, <2>4
      <4> QED
        BY <1>1, <4>1
    <3>2. InTurn(Left(s, c, k - 1), w[k].dtype)
      BY <1>3, <3>1 DEF Turns, n
    <3>3. Left(s, c, k - 1) \in [Units -> Nat]
      BY <2>1, LeftType DEF n
    <3> QED
      <4>1. PICK B : B = Left(s, c, k - 1)
        OBVIOUS
      <4>2. B \in [Units -> Nat] /\ InTurn(B, w[k].dtype) /\ e \in Nat
        BY <3>2, <3>3, <4>1
      <4>3. InTurn([v \in Units |-> B[v] + e], w[k].dtype)
        BY ONLY <4>2, TurnShifts
      <4> QED
        BY <2>2, <4>1, <4>3
  <2> QED
    BY <2>3, <2>4
<1> QED
  BY <1>1, <1>3 DEF Turns, w

\* So does a packet taken.
LEMMA TailTurn ==
    ASSUME NEW s \in Seq(Packets), s # <<>>, NEW c, Turns(s, c)
    PROVE  Turns(Tail(s), c)
<1> DEFINE n == Len(s)
           w == Tail(s)
<1>1. /\ n \in Nat \ {0} /\ Len(w) = n - 1 /\ \A i \in 1..n - 1 : w[i] = s[i + 1]
  BY HeadTailProperties, LenProperties, EmptySeq
<1>2. \A k \in 1..n - 1 : Left(w, c, k - 1) = Left(s, c, k)
  <2> SUFFICES ASSUME NEW k \in 1..n - 1, NEW v \in Units
               PROVE  Behind(w, k - 1, v) = Behind(s, k, v)
    BY DEF Left
  <2> QED
    BY <1>1, BehindChange
<1> HIDE DEF n, w
<1>3. ASSUME NEW k \in 1..n - 1, w[k].op = EVENT
      PROVE  InTurn(Left(w, c, k - 1), w[k].dtype)
  <2>1. k + 1 \in 1..n /\ k + 1 - 1 = k /\ w[k] = s[k + 1]
    BY <1>1
  <2>2. InTurn(Left(s, c, k), w[k].dtype)
    BY <1>3, <2>1 DEF Turns, n
  <2> QED
    BY <1>2, <2>2
<1> QED
  BY <1>1, <1>3 DEF Turns, w

-----------------------------------------------------------------------------
(* Every step keeps the turns *)

\* The packets that a request is written as, and whom they are for.
LEMMA WrittenFor ==
    ASSUME NEW d \in Units, NEW x \in Seq(Int)
    PROVE  /\ Packet(EVENT, d, x) \in Packets
           /\ Packet(EVENT, d, x).op = EVENT /\ Packet(EVENT, d, x).dtype = d
           /\ \A u \in Units : Part(Packet(EVENT, d, x), u)
                                 = IF u = d THEN <<x>> ELSE <<>>
BY DEF Packet, Packets, Part, Mine, Units, Drivers, FRONT, BACK, IO

LEMMA LagType == Lag \in [Units -> Nat] /\ Lag' \in [Units -> Nat]
BY DEF Lag

\* The constructor writes no command, and whatever is written or taken then
\* leaves the turns as they are.
LEMMA TurnCorrectStep ==
    /\ Init => TurnInv
    /\ TypeInv /\ TurnInv /\ [Next]_vars => TurnInv'
<1>1. ASSUME Init PROVE TurnInv
  <2>1. Len(out) = 1 /\ out[1].op = ACQUIRE
    BY <1>1 DEF Init, Packet
  <2> QED
    BY <1>1, <2>1 DEF Init, TurnInv, Turns, ACQUIRE, EVENT
<1>2. ASSUME TypeInv, TurnInv, [Next]_vars PROVE TurnInv'
  <2> USE DEF lineVars, readings, requests, history, vars
  <2> SUFFICES ASSUME ~lost' PROVE TurnInv'
    BY DEF TurnInv
  <2>0. /\ out \in Seq(Packets) /\ sync \in Syncs \cup {Still}
        /\ Turns(out, Lag)
    BY <1>2, StaysPlugged DEF TypeInv, TypeOK
  <2>12. plugged' = TRUE /\ ~Failed /\ ~LineDrains /\ ~Unplug
    BY <1>2, StaysPlugged
  <2>1. pc' = pc => Lag' = Lag
    BY DEF Lag, Unwritten
  <2>2. CASE UNCHANGED <<out, pc>>
    BY <2>0, <2>1, <2>2, <2>12 DEF TurnInv
  <2>3. ASSUME NEW p \in Packets, NEW e \in Nat, out' = Append(out, p),
               \A v \in Units : Len(Part(p, v)) + Lag'[v] = Lag[v] + e,
               p.op = EVENT => InTurn([v \in Units |-> Lag[v] + e], p.dtype)
        PROVE  TurnInv'
    <3>1. PICK c, d : c = Lag /\ d = Lag' /\ c \in [Units -> Nat] /\ d \in [Units -> Nat]
      BY LagType
    <3>2. Turns(Append(out, p), d)
      <4>1. Turns(out, c) /\ \A v \in Units : Len(Part(p, v)) + d[v] = c[v] + e
        BY <2>0, <2>3, <3>1
      <4>2. p.op = EVENT => InTurn([v \in Units |-> c[v] + e], p.dtype)
        BY <2>3, <3>1
      <4>3. /\ out \in Seq(Packets) /\ p \in Packets /\ e \in Nat
            /\ c \in [Units -> Nat] /\ d \in [Units -> Nat]
        BY <2>0, <3>1
      <4> QED
        BY ONLY <4>1, <4>2, <4>3, AppendTurn
    <3> QED
      BY <2>3, <2>12, <3>1, <3>2 DEF TurnInv
  <2>4. ASSUME NEW k \in 1..Len(wire), DataAvailable(k) PROVE TurnInv'
    <3>0. pc' = pc
      BY <2>4 DEF DataAvailable
    <3>1. \/ out' = out
          \/ \E p \in Packets : p.op = HELLO /\ out' = Append(out, p)
      BY <1>2, <2>4, Heard
    <3>2. ASSUME NEW p \in Packets, p.op = HELLO, out' = Append(out, p)
          PROVE  TurnInv'
      <4>1. \A v \in Units : Part(p, v) = <<>> /\ Len(Part(p, v)) = 0
        BY <3>2 DEF Part, Mine, HELLO, EVENT
      <4>2. \A v \in Units : Len(Part(p, v)) + Lag'[v] = Lag[v] + 0
        <5>0. Lag' = Lag /\ Lag \in [Units -> Nat]
          BY <2>1, <3>0, LagType
        <5>1. PICK c : c = Lag /\ c = Lag' /\ c \in [Units -> Nat]
          BY <5>0, Zenon
        <5>2. \A v \in Units : Len(Part(p, v)) + c[v] = c[v] + 0
          BY ONLY <4>1, <5>1
        <5> QED
          BY <5>1, <5>2
      <4>3. p.op # EVENT /\ 0 \in Nat
        BY <3>2 DEF HELLO, EVENT
      <4> QED
        BY ONLY <2>3, <3>2, <4>2, <4>3, p \in Packets, Zenon
    <3> QED
      BY <2>2, <3>0, <3>1, <3>2
  <2>5. ASSUME NEW d \in Units, NEW x \in Seq(Int), NEW e \in {0, 1},
               BusWrite(Packet(EVENT, d, x)),
               \A v \in Units : (IF v = d THEN 1 ELSE 0) + Lag'[v] = Lag[v] + e,
               InTurn([v \in Units |-> Lag[v] + e], d)
        PROVE  TurnInv'
    <3> DEFINE p == Packet(EVENT, d, x)
    <3>1. p \in Packets /\ p.dtype = d /\ out' = Append(out, p)
      BY <2>5, <2>12, WrittenFor DEF BusWrite, Delivered
    <3>2. \A v \in Units : Len(Part(p, v)) = IF v = d THEN 1 ELSE 0
      BY WrittenFor
    <3> HIDE DEF p
    <3>3. \A v \in Units : Len(Part(p, v)) + Lag'[v] = Lag[v] + e
      BY <2>5, <3>2
    <3>4. InTurn([v \in Units |-> Lag[v] + e], p.dtype) /\ e \in Nat
      BY <2>5, <3>1
    <3> QED
      BY ONLY <2>3, <3>1, <3>3, <3>4, Zenon
  <2>6. ASSUME NEW s \in Syncs, SetThrottleFront(s) PROVE TurnInv'
    <3>1. FRONT \in Units /\ Throttles(s) \in Seq(Int)
      BY OrderType DEF Units, Drivers
    <3>2. pc = "idle" /\ pc' = "back"
      BY <2>6 DEF SetThrottleFront
    <3>3. /\ \A v \in Units : (IF v = FRONT THEN 1 ELSE 0) + Lag'[v] = Lag[v] + 1
          /\ InTurn([v \in Units |-> Lag[v] + 1], FRONT)
      BY <3>2 DEF Lag, Unwritten, InTurn, Units, Drivers, FRONT, BACK, IO
    <3> QED
      BY <2>5, <2>6, <3>1, <3>3 DEF SetThrottleFront
  <2>7. CASE SetThrottleBack
    <3>1. BACK \in Units /\ Throttles(sync) \in Seq(Int)
      BY <2>0, OrderType DEF Units, Drivers
    <3>2. pc = "back" /\ pc' = "io"
      BY <2>7 DEF SetThrottleBack
    <3>3. /\ \A v \in Units : (IF v = BACK THEN 1 ELSE 0) + Lag'[v] = Lag[v] + 0
          /\ InTurn([v \in Units |-> Lag[v] + 0], BACK)
      BY <3>2 DEF Lag, Unwritten, InTurn, Units, Drivers, FRONT, BACK, IO
    <3> QED
      BY <2>5, <2>7, <3>1, <3>3 DEF SetThrottleBack
  <2>8. CASE SetDigitalOutputs
    <3>1. IO \in Units /\ <<sync.io>> \in Seq(Int)
      BY <2>0, OrderType DEF Units
    <3>2. pc = "io" /\ pc' = "idle"
      BY <2>8 DEF SetDigitalOutputs
    <3>3. /\ \A v \in Units : (IF v = IO THEN 1 ELSE 0) + Lag'[v] = Lag[v] + 0
          /\ InTurn([v \in Units |-> Lag[v] + 0], IO)
      BY <3>2 DEF Lag, Unwritten, InTurn, Units, Drivers, FRONT, BACK, IO
    <3> QED
      BY <2>5, <2>8, <3>1, <3>3 DEF SetDigitalOutputs
  <2>9. CASE BoardTakes
    <3>1. out # <<>> /\ out' = Tail(out) /\ pc' = pc
      BY <2>9 DEF BoardTakes
    <3> QED
      BY <2>0, <2>1, <2>12, <3>1, TailTurn DEF TurnInv
  <2>10. CASE Board /\ ~BoardTakes
    BY <2>2, <2>10, <2>12 DEF Board, BoardOffers, BoardReports, BoardDone, Send, Unplug,
       Replug
  <2>11. CASE UNCHANGED vars
    BY <2>2, <2>11
  <2> QED
    BY <1>2, <2>4, <2>6, <2>7, <2>8, <2>9, <2>10, <2>11 DEF Next, Controller
<1> QED
  BY <1>1, <1>2

-----------------------------------------------------------------------------
(* The refinement *)

LEMMA CommandsNone == \A u : Commands(<<>>, u) = <<>>
<1>1. \A u : PartsOf(<<>>, u) = <<>>
  BY DEF PartsOf
<1> QED
  BY <1>1, FlattenEmpty, Zenon DEF Commands

\* What is pending for a unit, and how much.
LEMMA PendingType ==
    ASSUME TypeInv, NEW u \in Units
    PROVE  /\ Commands(out, u) \in Seq(Seq(Int)) /\ Coming(u) \in Seq(Seq(Int))
           /\ Pending(u) \in Seq(Seq(Int))
           /\ Len(Pending(u)) = Left(out, Lag, 0)[u]
<1>1. out \in Seq(Packets) /\ Commands(out, u) \in Seq(Seq(Int))
  BY CommandsChange DEF TypeInv
<1>2. Coming(u) \in Seq(Seq(Int))
  BY ComingType
<1>3. Len(Coming(u)) = Lag[u]
  BY DEF Coming, Lag
<1>4. Pending(u) = Commands(out, u) \o Coming(u)
  BY PendingIs
<1>5. Behind(out, 0, u) = Len(Commands(out, u))
  <2>1. SubSeq(out, 1, Len(out)) = out
    <3>1. SubSeq(out, 1, Len(out)) \in Seq(Packets)
      BY <1>1, Following
    <3>2. /\ Len(out) \in Nat /\ \A i \in 1..Len(out) : out[i] \in Packets
      BY <1>1, LenProperties, ElementOfSeq
    <3>3. /\ Len(SubSeq(out, 1, Len(out))) = Len(out)
          /\ \A i \in 1..Len(out) : SubSeq(out, 1, Len(out))[i] = out[i]
      BY <3>2, SubSeqProperties
    <3> QED
      BY ONLY <1>1, <3>1, <3>3, SeqEqual
  <2>2. SubSeq(out, 0 + 1, Len(out)) = out
    BY <2>1
  <2> QED
    BY <2>2 DEF Behind
<1>6. Pending(u) \in Seq(Seq(Int)) /\ Len(Pending(u)) = Len(Commands(out, u)) + Lag[u]
  <2>1. PICK x, y : x = Commands(out, u) /\ y = Coming(u)
    OBVIOUS
  <2>2. x \in Seq(Seq(Int)) /\ y \in Seq(Seq(Int))
    BY <1>1, <1>2, <2>1
  <2>3. x \o y \in Seq(Seq(Int)) /\ Len(x \o y) = Len(x) + Len(y)
    BY ONLY <2>2, ConcatProperties
  <2> QED
    BY <1>3, <1>4, <2>1, <2>3
<1> QED
  BY <1>1, <1>2, <1>5, <1>6 DEF Left

\* A packet written adds to what is pending its own part and what is to come.
LEMMA PendingGrows ==
    ASSUME TypeInv, TypeInv', NEW p \in Packets, out' = Append(out, p), NEW u \in Units
    PROVE  Pending(u)' = Commands(out, u) \o (Part(p, u) \o Coming(u)')
<1>1. out \in Seq(Packets) /\ Commands(out, u) \in Seq(Seq(Int))
  BY CommandsChange DEF TypeInv
<1>2. Coming(u)' \in Seq(Seq(Int))
  <2>1. OrderOf(sync')[u] \in Seq(Int)
    BY OrderType DEF TypeInv, TypeOK
  <2> QED
    BY <2>1 DEF Coming
<1>3. Part(p, u) \in Seq(Seq(Int))
  BY DEF Packets, Part
<1>4. Pending(u)' = Commands(out', u) \o Coming(u)'
  BY PendingIs
<1>5. Commands(out', u) = Commands(out, u) \o Part(p, u)
  BY <1>1, CommandsChange
<1>6. PICK x, y, z : x = Commands(out, u) /\ y = Part(p, u) /\ z = Coming(u)'
  OBVIOUS
<1>7. x \in Seq(Seq(Int)) /\ y \in Seq(Seq(Int)) /\ z \in Seq(Seq(Int))
  BY <1>1, <1>2, <1>3, <1>6
<1>8. (x \o y) \o z = x \o (y \o z)
  BY ONLY <1>7, ConcatAssociative, SMTT(30)
<1> QED
  BY <1>4, <1>5, <1>6, <1>8

\* A write that puts on the line what was to come changes nothing for the bus.
LEMMA PendingStays ==
    ASSUME TypeInv, TypeInv', NEW p \in Packets, out' = Append(out, p), NEW u \in Units,
           Part(p, u) \o Coming(u)' = Coming(u)
    PROVE  Pending(u)' = Pending(u)
<1>1. Pending(u)' = Commands(out, u) \o Coming(u)
  BY PendingGrows
<1> QED
  BY <1>1, PendingIs

\* The command at the front, and what follows it.
LEMMA HeadTailOfOne ==
    ASSUME NEW S, NEW x \in S, NEW t \in Seq(S)
    PROVE  Head(<<x>> \o t) = x /\ Tail(<<x>> \o t) = t
<1> DEFINE s == <<x>>
<1>1. s \in Seq(S) /\ Len(s) = 1 /\ s[1] = x /\ s # <<>> /\ Tail(s) = <<>>
  OBVIOUS
<1> HIDE DEF s
<1>2. s \o t \in Seq(S) /\ Len(t) \in Nat /\ Len(s \o t) = 1 + Len(t)
  BY <1>1, ConcatProperties, LenProperties
<1>3. (s \o t)[1] = x
  <2>1. 1 \in 1..Len(s) + Len(t) /\ 1 <= Len(s)
    BY <1>1, <1>2
  <2> QED
    BY <1>1, <2>1, ConcatProperties
<1>4. s \o t # <<>> /\ Tail(s \o t) = Tail(s) \o t
  BY <1>1, TailConcat
<1>5. Head(s \o t) = (s \o t)[1]
  BY <1>2, <1>4, HeadTailProperties
<1>6. <<>> \o t = t
  BY ConcatEmptySeq
<1> QED
  BY <1>1, <1>3, <1>4, <1>5, <1>6 DEF s

\* Each step of the controller and of the board is one of the bus, or none:
\* the write for the front pair issues the order, the other two and the answer
\* to a HELLO change nothing, and a command taken is followed by the unit
\* whose turn it is.
LEMMA BusStep ==
    ASSUME ~lost', TypeInv, TypeInv', TurnInv, [Next]_vars
    PROVE  [Bus!BusNext]_(Bus!busVars)
<1> USE DEF lineVars, readings, requests, history, vars
<1>0. /\ out \in Seq(Packets) /\ sync \in Syncs \cup {Still}
      /\ Len(out) <= MaxOut /\ MaxOut \in Nat /\ obeyed \in [Units -> Seq(Int)]
  BY LineAssumption DEF TypeInv, TypeOK
<1>12. ~Failed /\ ~LineDrains
  BY StaysPlugged
<1>13. Turns(out, Lag)
  BY StaysPlugged
<1>1. ASSUME UNCHANGED <<obeyed, sync>>,
             \A u \in Units : Pending(u)' = Pending(u)
      PROVE  UNCHANGED Bus!busVars
  BY <1>1 DEF Bus!busVars, OrderOf, Throttles
<1>2. ASSUME UNCHANGED <<out, pc, sync, obeyed>> PROVE UNCHANGED Bus!busVars
  <2>1. \A u : Pending(u)' = Pending(u)
    BY <1>2 DEF Pending, Unwritten, OrderOf, Throttles
  <2> QED
    BY <1>1, <1>2, <2>1
<1>3. ASSUME NEW k \in 1..Len(wire), DataAvailable(k)
      PROVE  UNCHANGED Bus!busVars
  <2>1. UNCHANGED <<pc, sync, obeyed>>
    BY <1>3, Heard
  <2>2. ASSUME NEW p \in Packets, p.op = HELLO, out' = Append(out, p), NEW u \in Units
        PROVE  Pending(u)' = Pending(u)
    <3>1. Part(p, u) = <<>>
      BY <2>2 DEF Part, Mine, HELLO, EVENT
    <3>2. Coming(u)' = Coming(u)
      BY <2>1 DEF Coming, Unwritten, OrderOf, Throttles
    <3>3. <<>> \o Coming(u) = Coming(u)
      BY ComingType, ConcatEmptySeq
    <3> QED
      BY <2>2, <3>1, <3>2, <3>3, PendingStays
  <2>3. \/ out' = out
        \/ \E p \in Packets : p.op = HELLO /\ out' = Append(out, p)
    BY <1>3, Heard
  <2>4. CASE out' = out
    BY <1>2, <2>1, <2>4
  <2>5. ASSUME NEW p \in Packets, p.op = HELLO, out' = Append(out, p)
        PROVE  UNCHANGED Bus!busVars
    BY <1>1, <2>1, <2>2, <2>5
  <2> QED
    BY <2>3, <2>4, <2>5
<1>4. ASSUME NEW s \in Syncs, SetThrottleFront(s)
      PROVE  Bus!Issue(OrderOf(s))
  <2> DEFINE p == Packet(EVENT, FRONT, Throttles(s))
  <2>1. FRONT \in Units /\ Throttles(s) \in Seq(Int)
    BY OrderType DEF Units, Drivers
  <2>2. /\ p \in Packets
        /\ \A u \in Units : Part(p, u) = IF u = FRONT THEN <<Throttles(s)>> ELSE <<>>
    BY <2>1, WrittenFor
  <2>3. /\ pc = "idle" /\ pc' = "back" /\ sync' = s /\ obeyed' = obeyed
        /\ Len(out) < MaxOut /\ out' = Append(out, p)
    BY <1>4, <1>12 DEF SetThrottleFront, BusWrite, Delivered
  <2> HIDE DEF p
  <2>4. ASSUME NEW u \in Units
        PROVE  /\ Len(Pending(u)) < MaxOut + 1
               /\ Pending(u)' = Append(Pending(u), OrderOf(s)[u])
    <3>1. Coming(u) = <<>>
      BY <2>3 DEF Coming, Unwritten
    <3>2. Commands(out, u) \in Seq(Seq(Int)) /\ Len(Commands(out, u)) <= Len(out)
      BY <1>0, CommandsChange
    <3>3. Pending(u) = Commands(out, u)
      BY <3>1, <3>2, PendingIs, ConcatEmptySeq
    <3>4. Part(p, u) \o Coming(u)' = <<OrderOf(s)[u]>>
      <4>1. Coming(u)' = IF u \in {BACK, IO} THEN <<OrderOf(s)[u]>> ELSE <<>>
        BY <2>3 DEF Coming, Unwritten, OrderOf, Throttles
      <4>2. u = FRONT => OrderOf(s)[u] = Throttles(s)
        BY DEF OrderOf, FRONT, IO
      <4>3. CASE u = FRONT
        <5>1. Part(p, u) = <<OrderOf(s)[u]>> /\ Coming(u)' = <<>>
          BY <2>2, <4>1, <4>2, <4>3 DEF FRONT, BACK, IO
        <5>2. <<OrderOf(s)[u]>> \o <<>> = <<OrderOf(s)[u]>>
          BY ConcatEmptySeq
        <5> QED
          BY <5>1, <5>2
      <4>4. CASE u # FRONT
        <5>1. Part(p, u) = <<>> /\ Coming(u)' = <<OrderOf(s)[u]>>
          BY <2>2, <4>1, <4>4 DEF Units, Drivers
        <5>2. <<>> \o <<OrderOf(s)[u]>> = <<OrderOf(s)[u]>>
          BY ConcatEmptySeq
        <5> QED
          BY <5>1, <5>2
      <4> QED
        BY <4>3, <4>4
    <3>5. Pending(u)' = Commands(out, u) \o <<OrderOf(s)[u]>>
      BY <2>2, <2>3, <3>4, PendingGrows
    <3>6. OrderOf(s)[u] \in Seq(Int)
      BY OrderType
    <3>7. Append(Commands(out, u), OrderOf(s)[u]) = Commands(out, u) \o <<OrderOf(s)[u]>>
      BY <3>2, <3>6, AppendIsConcat
    <3>8. Len(Pending(u)) < MaxOut + 1
      <4>1. Len(out) \in Nat /\ Len(Pending(u)) \in Nat
        BY <1>0, <3>2, <3>3, LenProperties
      <4> QED
        BY <1>0, <2>3, <3>2, <3>3, <4>1
    <3> QED
      BY <3>3, <3>5, <3>7, <3>8
  <2>5. OrderOf(sync)' = OrderOf(s)
    BY <2>3 DEF OrderOf, Throttles
  <2> QED
    BY <2>3, <2>4, <2>5 DEF Bus!Issue
<1>5. ASSUME NEW d \in Units, NEW x \in Seq(Int), BusWrite(Packet(EVENT, d, x)),
             sync' = sync,
             \A u \in Units : /\ u = d => Coming(u) = <<x>> /\ Coming(u)' = <<>>
                              /\ u # d => Coming(u)' = Coming(u)
      PROVE  UNCHANGED Bus!busVars
  <2> DEFINE p == Packet(EVENT, d, x)
  <2>1. /\ p \in Packets /\ out' = Append(out, p) /\ obeyed' = obeyed
        /\ \A u \in Units : Part(p, u) = IF u = d THEN <<x>> ELSE <<>>
    BY <1>5, <1>12, WrittenFor DEF BusWrite, Delivered
  <2> HIDE DEF p
  <2>2. ASSUME NEW u \in Units PROVE Pending(u)' = Pending(u)
    <3>1. Part(p, u) \o Coming(u)' = Coming(u)
      <4>1. CASE u = d
        <5>1. <<x>> \o <<>> = <<x>>
          BY ConcatEmptySeq
        <5> QED
          BY <1>5, <2>1, <4>1, <5>1
      <4>2. CASE u # d
        <5>1. <<>> \o Coming(u) = Coming(u)
          BY ComingType, ConcatEmptySeq
        <5> QED
          BY <1>5, <2>1, <4>2, <5>1
      <4> QED
        BY <4>1, <4>2
    <3> QED
      BY <2>1, <3>1, PendingStays
  <2> QED
    BY <1>1, <1>5, <2>1, <2>2
<1>6. ASSUME SetThrottleBack PROVE UNCHANGED Bus!busVars
  <2>1. BACK \in Units /\ Throttles(sync) \in Seq(Int)
    BY <1>0, OrderType DEF Units, Drivers
  <2>2. /\ pc = "back" /\ pc' = "io" /\ sync' = sync
        /\ BusWrite(Packet(EVENT, BACK, Throttles(sync)))
    BY <1>6 DEF SetThrottleBack
  <2>3. \A u \in Units :
           /\ u = BACK => Coming(u) = <<Throttles(sync)>> /\ Coming(u)' = <<>>
           /\ u # BACK => Coming(u)' = Coming(u)
    BY <2>2 DEF Coming, Unwritten, OrderOf, Throttles, Units, Drivers, FRONT, BACK, IO
  <2> QED
    BY <1>5, <2>1, <2>2, <2>3
<1>7. ASSUME SetDigitalOutputs PROVE UNCHANGED Bus!busVars
  <2>1. IO \in Units /\ <<sync.io>> \in Seq(Int)
    BY <1>0, OrderType DEF Units
  <2>2. /\ pc = "io" /\ pc' = "idle" /\ sync' = sync
        /\ BusWrite(Packet(EVENT, IO, <<sync.io>>))
    BY <1>7 DEF SetDigitalOutputs
  <2>3. \A u \in Units :
           /\ u = IO => Coming(u) = <<<<sync.io>>>> /\ Coming(u)' = <<>>
           /\ u # IO => Coming(u)' = Coming(u)
    BY <2>2 DEF Coming, Unwritten, OrderOf, Units, Drivers, FRONT, BACK, IO
  <2> QED
    BY <1>5, <2>1, <2>2, <2>3
<1>8. ASSUME BoardTakes
      PROVE  UNCHANGED Bus!busVars \/ \E u \in Units : Bus!Follow(u)
  <2> DEFINE h == Head(out)
  <2>1. /\ out # <<>> /\ out' = Tail(out) /\ UNCHANGED <<pc, sync>>
        /\ obeyed' = IF h.op = EVENT THEN [obeyed EXCEPT ![h.dtype] = h.args]
                                     ELSE obeyed
    BY <1>8 DEF BoardTakes
  <2>2. /\ h \in Packets /\ h = out[1] /\ 1 \in 1..Len(out)
        /\ Tail(out) \in Seq(Packets)
    BY <1>0, <2>1, HeadTailProperties, LenProperties, ElementOfSeq, EmptySeq
  <2> HIDE DEF h
  <2>3. ASSUME NEW u \in Units
        PROVE  /\ Pending(u)' \in Seq(Seq(Int))
               /\ Pending(u) = Part(h, u) \o Pending(u)'
    <3>1. /\ Commands(out, u) = Part(h, u) \o Commands(out', u)
          /\ Commands(out', u) \in Seq(Seq(Int))
      BY <1>0, <2>1, <2>2, CommandsChange DEF h
    <3>2. Coming(u)' = Coming(u) /\ Coming(u) \in Seq(Seq(Int))
      BY <2>1, ComingType DEF Coming, Unwritten, OrderOf, Throttles
    <3>3. Part(h, u) \in Seq(Seq(Int))
      BY <2>2 DEF Packets, Part
    <3>4. PICK x, y, z : x = Part(h, u) /\ y = Commands(out', u) /\ z = Coming(u)
      OBVIOUS
    <3>5. x \in Seq(Seq(Int)) /\ y \in Seq(Seq(Int)) /\ z \in Seq(Seq(Int))
      BY <3>1, <3>2, <3>3, <3>4
    <3>6. (x \o y) \o z = x \o (y \o z)
      BY ONLY <3>5, ConcatAssociative, SMTT(30)
    <3>7. y \o z \in Seq(Seq(Int))
      BY ONLY <3>5, ConcatProperties
    <3>8. Pending(u) = (x \o y) \o z /\ Pending(u)' = y \o z
      BY <3>1, <3>2, <3>4, PendingIs
    <3> QED
      BY <3>4, <3>6, <3>7, <3>8
  <2>4. CASE h.op # EVENT
    <3>1. ASSUME NEW u \in Units PROVE Pending(u)' = Pending(u)
      <4>1. Part(h, u) = <<>>
        BY <2>4 DEF Part, Mine
      <4>2. <<>> \o Pending(u)' = Pending(u)'
        BY <2>3, ConcatEmptySeq
      <4> QED
        BY <2>3, <4>1, <4>2
    <3> QED
      BY <1>1, <2>1, <2>4, <3>1
  <2>5. CASE h.op = EVENT
    <3>1. PICK f, q : /\ f = [u \in Units |-> Pending(u)]
                      /\ q = [u \in Units |-> Pending(u)']
      OBVIOUS
    <3>2. \A u \in Units : /\ q[u] \in Seq(Seq(Int)) /\ f[u] = Part(h, u) \o q[u]
                           /\ Len(f[u]) = Left(out, Lag, 0)[u]
      BY <2>3, <3>1, PendingType
    <3>3. PICK d : d = h.dtype
      OBVIOUS
    <3>4. InTurn(Left(out, Lag, 0), d)
      <4>1. 1 - 1 = 0
        OBVIOUS
      <4> QED
        BY <1>13, <2>2, <2>5, <3>3, <4>1 DEF Turns
    <3>5. /\ d \in Units /\ Len(f[d]) # 0
          /\ \A v \in Units : Len(f[v]) = IF v < d THEN Len(f[d]) - 1
                                                   ELSE Len(f[d])
      BY <3>2, <3>4 DEF InTurn
    <3>6. f[d] # <<>>
      BY <3>5, NotEmpty, Zenon
    <3>7. h.args = Head(f[d]) /\ q[d] = Tail(f[d])
      <4>1. Part(h, d) = <<h.args>> /\ h.args \in Seq(Int)
        BY <2>2, <2>5, <3>3 DEF Part, Mine, Packets
      <4>2. PICK x, t : x = h.args /\ t = q[d]
        OBVIOUS
      <4>3. x \in Seq(Int) /\ t \in Seq(Seq(Int)) /\ f[d] = <<x>> \o t
        BY <3>2, <3>5, <4>1, <4>2
      <4>4. Head(<<x>> \o t) = x /\ Tail(<<x>> \o t) = t
        BY ONLY <4>3, HeadTailOfOne
      <4> QED
        BY <4>2, <4>3, <4>4
    <3>8. \A u \in Units : u # d => q[u] = f[u]
      <4> SUFFICES ASSUME NEW u \in Units, u # d PROVE q[u] = f[u]
        OBVIOUS
      <4>1. Part(h, u) = <<>>
        BY <3>3 DEF Part, Mine
      <4>2. <<>> \o q[u] = q[u]
        BY <3>2, ConcatEmptySeq
      <4> QED
        BY <3>2, <4>1, <4>2
    <3>9. q = [f EXCEPT ![d] = Tail(@)]
      BY <3>1, <3>5, <3>7, <3>8
    <3>10. UNCHANGED OrderOf(sync)
      BY <2>1 DEF OrderOf, Throttles
    <3>11. obeyed' = [obeyed EXCEPT ![d] = Head(f[d])]
      BY <2>1, <2>5, <3>3, <3>7
    <3>12. f = [u \in Units |-> Pending(u)] /\ q = [u \in Units |-> Pending(u)]'
      BY <3>1
    <3>13. Bus!Turn(d)
      BY <3>5, <3>6, <3>12, Zenon DEF Bus!Turn
    <3> QED
      BY <3>5, <3>9, <3>10, <3>11, <3>12, <3>13 DEF Bus!Follow
  <2> QED
    BY <2>4, <2>5
<1>9. CASE Board /\ ~BoardTakes
  <2>1. UNCHANGED <<out, pc, sync, obeyed>>
    BY <1>9, <1>12 DEF Board, BoardOffers, BoardReports, BoardDone, Send, Unplug,
       Replug
  <2> QED
    BY <1>2, <2>1
<1>10. CASE UNCHANGED vars
  BY <1>2, <1>10
<1>11. \A s \in Syncs : OrderOf(s) \in {OrderOf(r) : r \in Syncs}
  OBVIOUS
<1> QED
  BY <1>3, <1>4, <1>6, <1>7, <1>8, <1>9, <1>10, <1>11 DEF Next, Controller, Bus!BusNext

\* Until the link is lost, the controller's three packets for a request, its
\* answers to HELLOs, and the line they wait on, implement a bus that takes an
\* order as one: whatever the board sends, each unit is told its part of every
\* order, in step with the others.
THEOREM BusCorrect == Spec => BusImplemented
<1>1. Init => Bus!BusInit
  <2> SUFFICES ASSUME Init PROVE Bus!BusInit
    OBVIOUS
  <2> DEFINE p == Packet(ACQUIRE, 0, <<>>)
  <2>1. p \in Packets /\ p.op = ACQUIRE
    BY DEF Packet, Packets, ACQUIRE, IO
  <2>2. out = Append(<<>>, p) /\ pc = "idle"
    BY DEF Init
  <2> HIDE DEF p
  <2>3. \A u \in Units : Pending(u) = <<>>
    <3> SUFFICES ASSUME NEW u \in Units PROVE Pending(u) = <<>>
      OBVIOUS
    <3>1. Part(p, u) = <<>> /\ Coming(u) = <<>>
      BY <2>1, <2>2 DEF Part, Mine, Coming, Unwritten, ACQUIRE, EVENT
    <3>2. Commands(out, u) = <<>> \o <<>>
      <4>1. <<>> \in Seq(Packets)
        OBVIOUS
      <4>2. Commands(Append(<<>>, p), u) = Commands(<<>>, u) \o Part(p, u)
        BY <2>1, <4>1, CommandsChange
      <4> QED
        BY <2>2, <3>1, <4>2, CommandsNone
    <3>3. <<>> \o <<>> = <<>>
      OBVIOUS
    <3> QED
      BY <3>1, <3>2, <3>3, PendingIs
  <2>4. obeyed = OrderOf(Still) /\ OrderOf(sync) = OrderOf(Still)
    BY DEF Init
  <2> QED
    BY <2>3, <2>4 DEF Bus!BusInit
<1> QED
  BY <1>1, TypeCorrectStep, TurnCorrectStep, BusStep, PTL
     DEF Spec, BusImplemented
==============================================================================
