---------------------------- MODULE VehicleProofs ----------------------------
(* Proofs about Vehicle: that once the bus is quiet the units agree, for any *)
(* clients, units, orders and parts of them on their way.                    *)
EXTENDS Vehicle, SequenceTheorems, TLAPS

\* What a client sends is bytes, on their way and in the socket.
BytesOK == /\ coming \in [Clients -> Seq(0..255)]
           /\ rx \in [Clients -> Seq(0..255)]

\* Both pieces of a sequence are sequences of the same elements.
LEMMA Pieces ==
    ASSUME NEW S, NEW s \in Seq(S), NEW n \in 0..Len(s)
    PROVE  SubSeq(s, 1, n) \in Seq(S) /\ Drop(s, n) \in Seq(S)
<1>1. Len(s) \in Nat /\ \A i \in 1..Len(s) : s[i] \in S
  BY LenProperties, ElementOfSeq
<1>2. \A i \in 1..n : s[i] \in S
  BY <1>1
<1>3. \A i \in n + 1..Len(s) : s[i] \in S
  BY <1>1
<1>4. n \in Int /\ n + 1 \in Int /\ Len(s) \in Int
  BY <1>1
<1> QED
  BY <1>2, <1>3, <1>4, SubSeqProperties DEF Drop

\* A sequence and its tail end alike.
LEMMA EndOfTail ==
    ASSUME NEW S, NEW s \in Seq(S), s # <<>>
    PROVE  /\ Tail(s) \in Seq(S) /\ Head(s) \in S
           /\ s[Len(s)] = IF Tail(s) = <<>> THEN Head(s)
                                            ELSE Tail(s)[Len(Tail(s))]
<1>1. Len(s) \in Nat \ {0}
  BY EmptySeq
<1>0. Len(Tail(s)) = Len(s) - 1
  BY HeadTailProperties
<1>2. /\ Head(s) = s[1] /\ Tail(s) \in Seq(S) /\ Len(Tail(s)) = Len(s) - 1
      /\ \A i \in 1..Len(s) - 1 : Tail(s)[i] = s[i + 1]
  BY HeadTailProperties
<1>3. Head(s) \in S
  BY <1>1, <1>2, ElementOfSeq
<1>4. CASE Tail(s) = <<>>
  <2>0. Len(Tail(s)) = 0
    BY <1>4, EmptySeq
  <2>1. \A n \in Nat \ {0} : 0 = n - 1 => n = 1
    OBVIOUS
  <2>2. Len(s) = 1
    BY <1>0, <1>1, <2>0, <2>1, Zenon
  <2> QED
    BY <1>2, <1>3, <1>4, <2>2
<1>5. CASE Tail(s) # <<>>
  <2>1. Len(s) - 1 \in Nat \ {0}
    BY <1>2, <1>5, EmptySeq
  <2> QED
    BY <1>1, <1>2, <1>3, <1>5, <2>1
<1> QED
  BY <1>4, <1>5

\* Reading and closing leave bytes behind, whatever the request.
THEOREM BytesCorrect == VehicleSpec => []BytesOK
<1> USE DEF BytesOK, inVars, outVars, sessionVars, busVars, exitVars
<1>1. VehicleInit => BytesOK
  BY DEF VehicleInit, SessionInit
<1>2. ASSUME BytesOK, [VehicleNext]_vehicleVars PROVE BytesOK'
  <2>0. \A c \in Clients : /\ rx[c] \in Seq(0..255) /\ coming[c] \in Seq(0..255)
                           /\ Len(rx[c]) \in Nat /\ Len(coming[c]) \in Nat
    BY <1>2
  <2>1. ASSUME NEW c \in Clients, Close(c) PROVE BytesOK'
    BY <1>2, <2>1 DEF Close
  <2>2. ASSUME NEW c \in Clients, NEW op, Readable(c, op), Take(c, op),
               coming' = coming
        PROVE  BytesOK'
    <3>1. Size(op) \in {2, 3} /\ Size(op) <= Len(rx[c])
      BY <2>2 DEF Size, Readable
    <3>2. Size(op) \in 0..Len(rx[c])
      BY <2>0, <3>1
    <3>3. Drop(rx[c], Size(op)) \in Seq(0..255)
      BY <2>0, <3>2, Pieces
    <3> QED
      BY <1>2, <2>2, <3>3 DEF Take
  <2>3. ASSUME NEW c \in Clients, Peer(c) PROVE BytesOK'
    <3>1. ASSUME NEW r \in Requests[c], ClientSends(c, r) PROVE BytesOK'
      <4>1. r \in Seq(0..255)
        BY RequestsAssumption
      <4>2. coming[c] \o r \in Seq(0..255)
        BY <2>0, <4>1, ConcatProperties
      <4> QED
        BY <1>2, <3>1, <4>2 DEF ClientSends
    <3>2. ASSUME NEW k \in 1..Len(coming[c]), Deliver(c, k) PROVE BytesOK'
      <4>1. /\ SubSeq(coming[c], 1, k) \in Seq(0..255)
            /\ Drop(coming[c], k) \in Seq(0..255)
        BY <2>0, Pieces, SMTT(30)
      <4>2. rx[c] \o SubSeq(coming[c], 1, k) \in Seq(0..255)
        BY <2>0, <4>1, ConcatProperties
      <4> QED
        BY <1>2, <3>2, <4>1, <4>2 DEF Deliver
    <3> QED
      BY <1>2, <2>3, <3>1, <3>2 DEF Peer, ClientReads, ClientLeaves
  <2>4. ASSUME NEW c \in Clients, Handler(c) PROVE BytesOK'
    <3>1. CASE Connect(c)
      BY <1>2, <3>1 DEF Connect
    <3>2. CASE ReadKeepalive(c)
      BY <2>2, <3>2 DEF ReadKeepalive
    <3>3. CASE ReadReport(c)
      BY <2>2, <3>3 DEF ReadReport
    <3> QED
      BY <2>1, <2>4, <3>1, <3>2, <3>3
         DEF Handler, Gone, InvalidOpcode, InvalidSize, RefuseReport
  <2>5. ASSUME NEW c \in Clients, Sync(c) PROVE BytesOK'
    BY <2>2, <2>5 DEF Sync, ReadSync
  <2>6. ASSUME NEW line \in Typed, Stop(line) \/ Hang(line) PROVE BytesOK'
    <3>1. CASE Stop(line)
      BY <3>1, EmptySeq DEF Stop
    <3>2. CASE Hang(line)
      BY <1>2, <3>2 DEF Hang
    <3> QED
      BY <2>6, <3>1, <3>2
  <2>7. CASE Obeying \/ Exiting \/ UNCHANGED vehicleVars
    BY <1>2, <2>7 DEF Obeying, Exiting, vehicleVars
  <2> QED
    BY <1>2, <2>3, <2>4, <2>5, <2>6, <2>7 DEF VehicleNext, Running
<1> QED
  BY <1>1, <1>2, PTL DEF VehicleSpec

\* Each sync request that is served, and nothing else, is an order the bus may
\* get: what a byte of it says is one of Orders.
LEMMA BusSteps == VehicleSpec => BusSpec
<1>1. VehicleInit => BusInit
  BY DEF VehicleInit
<1>2. ASSUME BytesOK, [VehicleNext]_vehicleVars PROVE [BusNext]_busVars
  <2>1. ASSUME NEW c \in Clients, Sync(c) PROVE BusNext
    <3>1. rx[c] \in Seq(0..255) /\ Len(rx[c]) >= 3
      BY <1>2, <2>1 DEF BytesOK, Sync, ReadSync, Readable, Size, COP_SYNC,
         COP_KEEPALIVE
    <3>2. Drive(c) \in 0..255
      <4> DEFINE n == Len(rx[c])
      <4>1. n \in Nat /\ n >= 3
        BY <3>1, LenProperties, Zenon
      <4>2. \A i \in 1..n : rx[c][i] \in 0..255
        BY <3>1, ElementOfSeq, Zenon
      <4> HIDE DEF n
      <4>3. 3 \in 1..n
        BY ONLY <4>1
      <4> QED
        BY <4>2, <4>3, Zenon DEF Drive
    <3>3. Order(c) \in Orders
      BY <3>2, DriveAssumption DEF Order
    <3> QED
      BY <2>1, <3>3 DEF Sync, BusNext
  <2>2. CASE Obeying
    BY <2>2 DEF Obeying, BusNext
  <2>3. ASSUME NEW line \in Typed, Stop(line) \/ Hang(line) PROVE UNCHANGED busVars
    BY <2>3 DEF Stop, Hang
  <2> QED
    BY <1>2, <2>1, <2>2, <2>3 DEF VehicleNext, Running, Exiting, vehicleVars
<1> QED
  BY <1>1, <1>2, BytesCorrect, PTL DEF VehicleSpec, BusSpec

-----------------------------------------------------------------------------
\* What a unit will do when it has got all that is on its way to it.
Settled(u) == IF pending[u] = <<>> THEN obeyed[u]
                                   ELSE pending[u][Len(pending[u])]

BusInv == BusTypeOK /\ \A u \in Units : Settled(u) = last[u]

\* When no part of an order is on its way all units do what the last asked,
\* for any number of units, orders and parts in flight.
THEOREM ConvergedCorrect == VehicleSpec => []Converged
<1> USE DEF BusTypeOK, busVars
<1>1. BusInit => BusInv
  BY RestAssumption, EmptySeq DEF BusInit, BusInv, Settled
<1>2. ASSUME BusInv, [BusNext]_busVars PROVE BusInv'
  <2> USE DEF BusInv
  <2>1. ASSUME NEW o \in Orders, Issue(o) PROVE BusInv'
    <3>0. o \in [Units -> Values]
      BY OrdersAssumption
    <3>1. ASSUME NEW u \in Units
          PROVE  /\ pending'[u] = Append(pending[u], o[u])
                 /\ pending'[u] \in Seq(Values)
                 /\ pending'[u] # <<>>
                 /\ pending'[u][Len(pending'[u])] = o[u]
      <4>1. pending[u] \in Seq(Values) /\ o[u] \in Values
        BY <1>2, <3>0
      <4>2. pending'[u] = Append(pending[u], o[u])
        BY <2>1 DEF Issue
      <4> QED
        BY <4>1, <4>2, AppendProperties
    <3>2. pending' \in [Units -> Seq(Values)]
      BY <2>1, <3>1 DEF Issue
    <3>3. obeyed' = obeyed /\ last' = o
      BY <2>1 DEF Issue
    <3> QED
      BY <1>2, <3>1, <3>2, <3>3 DEF Settled
  <2>2. ASSUME NEW u \in Units, Follow(u) PROVE BusInv'
    <3> DEFINE p == pending[u]
    <3>0. p \in Seq(Values) /\ p # <<>>
      BY <1>2, <2>2 DEF Follow, Turn
    <3>2. /\ Tail(p) \in Seq(Values) /\ Head(p) \in Values
          /\ p[Len(p)] = IF Tail(p) = <<>> THEN Head(p) ELSE Tail(p)[Len(Tail(p))]
      BY <3>0, EndOfTail
    <3>3. /\ pending' = [pending EXCEPT ![u] = Tail(p)]
          /\ obeyed' = [obeyed EXCEPT ![u] = Head(p)]
          /\ last' = last
      BY <2>2 DEF Follow
    <3>4. pending' \in [Units -> Seq(Values)] /\ obeyed' \in [Units -> Values]
      BY <1>2, <3>2, <3>3
    <3>5. Settled(u)' = Settled(u)
      <4>0. pending'[u] = Tail(p) /\ obeyed'[u] = Head(p)
        BY <1>2, <3>3
      <4> QED
        BY <3>0, <3>2, <4>0 DEF Settled
    <3>6. ASSUME NEW v \in Units, v # u PROVE Settled(v)' = Settled(v)
      BY <1>2, <3>3, <3>6 DEF Settled
    <3> QED
      BY <1>2, <3>3, <3>4, <3>5, <3>6
  <2>3. CASE UNCHANGED busVars
    BY <1>2, <2>3 DEF Settled
  <2> QED
    BY <1>2, <2>1, <2>2, <2>3 DEF BusNext
<1>3. BusInv => Converged
  BY OrdersAssumption, RestAssumption DEF BusInv, Converged, Settled
<1> QED
  BY <1>1, <1>2, <1>3, BusSteps, PTL DEF BusSpec

==============================================================================
