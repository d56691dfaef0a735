---------------------------- MODULE SessionProofs ----------------------------
(***************************************************************************)
(* Proofs about what Vehicle promises to its clients, for any clients,     *)
(* requests, units and orders, however TCP cuts and joins the bytes.       *)
(***************************************************************************)
EXTENDS VehicleProofs, StreamLemmas

\* What a client may send: an opcode and as many bytes as it asks for.
Sendable == {r \in Seq(0..255) :
                Len(r) = IF r[1] \in Opcodes THEN Size(r[1]) ELSE 3}

Intact(c) == rx[c] \o coming[c] = FlattenSeq(unserved[c])

\* RequestsIntact, of closed connections too: closing one empties it.
SessionInv == /\ BytesOK
              /\ unserved \in [Clients -> Seq(Sendable)]
              /\ \A c \in Clients : Intact(c)

\* Requests of a client are of the kinds the proofs speak of.
LEMMA SendableRequests ==
    \A c \in Clients : \A r \in Requests[c] : r \in Sendable
BY RequestsAssumption DEF Sendable

LEMMA Sizes ==
    ASSUME NEW r \in Sendable
    PROVE  /\ r \in Seq(0..255) /\ Len(r) \in {2, 3}
           /\ r[1] \in Opcodes => Len(r) = Size(r[1])
           /\ r[1] # COP_KEEPALIVE => Len(r) = 3
<1>1. /\ r \in Seq(0..255)
      /\ Len(r) = IF r[1] \in Opcodes THEN Size(r[1]) ELSE 3
  BY DEF Sendable
<1> QED
  BY ONLY <1>1 DEF Size

\* Where the socket holds a byte, it is the first of the request whose turn
\* it is.
LEMMA AtFront ==
    ASSUME SessionInv, NEW c \in Clients, rx[c] # <<>>
    PROVE  /\ unserved[c] # <<>> /\ Head(unserved[c]) \in Sendable
           /\ Tail(unserved[c]) \in Seq(Sendable)
           /\ FlattenSeq(Tail(unserved[c])) \in Seq(0..255)
           /\ rx[c] \o coming[c]
                 = Head(unserved[c]) \o FlattenSeq(Tail(unserved[c]))
           /\ Opcode(c) = Head(unserved[c])[1]
           /\ Len(rx[c]) \in Nat \ {0}
<1>1. PICK b, s, uu : /\ b = rx[c] /\ s = coming[c] /\ uu = unserved[c]
                      /\ b \in Seq(0..255) /\ s \in Seq(0..255)
                      /\ uu \in Seq(Sendable) /\ b # <<>>
                      /\ b \o s = FlattenSeq(uu)
  BY DEF SessionInv, BytesOK, Intact
<1>2. Len(b) \in Nat \ {0}
  BY ONLY <1>1, EmptySeq, LenProperties
<1>3. uu # <<>>
  <2>1. Len(b \o s) = Len(b) + Len(s) /\ Len(s) \in Nat
    <3>1. PICK B : B = 0..255
      OBVIOUS
    <3>2. b \in Seq(B) /\ s \in Seq(B)
      BY <1>1, <3>1
    <3> QED
      BY ONLY <3>2, ConcatProperties, LenProperties
  <2>2. b \o s # <<>>
    <3>1. Len(b \o s) # 0
      BY ONLY <1>2, <2>1
    <3> QED
      BY <3>1, NotEmpty, Zenon
  <2> QED
    BY ONLY <1>1, <2>2, FlattenEmpty
<1>4. PICK r, tt : r = Head(uu) /\ tt = Tail(uu) /\ r \in Sendable
                   /\ tt \in Seq(Sendable)
  BY ONLY <1>1, <1>3, HeadTailProperties
<1>5. Sendable \subseteq Seq(0..255)
  BY DEF Sendable
<1>6. uu \in Seq(Seq(0..255)) /\ tt \in Seq(Seq(0..255)) /\ r \in Seq(0..255)
  BY ONLY <1>1, <1>4, <1>5
<1>7. FlattenSeq(uu) = r \o FlattenSeq(tt)
  BY ONLY <1>3, <1>4, <1>6, FlattenTail
<1>8. FlattenSeq(tt) \in Seq(0..255)
  BY ONLY <1>6, FlattenType
<1>9. b[1] = r[1]
  <2>1. Len(r) \in {2, 3}
    BY <1>4, Sizes
  <2>2. 1 \in 1..Len(b) /\ 1 <= Len(r)
    BY ONLY <1>2, <2>1
  <2>3. PICK q \in Seq(0..255) : q = FlattenSeq(tt)
    BY <1>8
  <2>4. b \o s = r \o q
    BY <1>1, <1>7, <2>3
  <2>5. /\ b \in Seq(0..255) /\ s \in Seq(0..255) /\ r \in Seq(0..255)
        /\ q \in Seq(0..255)
    BY <1>1, <1>6
  <2> QED
    BY ONLY <2>2, <2>4, <2>5, FrontsAgree
<1>10. Opcode(c) = b[1]
  BY <1>1 DEF Opcode
<1> QED
  BY <1>1, <1>2, <1>3, <1>4, <1>7, <1>8, <1>9, <1>10

\* A reader that finds its request there takes that request and no more.
LEMMA OneRead ==
    ASSUME SessionInv, NEW c \in Clients, NEW op \in Opcodes, Readable(c, op)
    PROVE  LET r == Head(unserved[c]) IN
             /\ rx[c] # <<>> /\ r[1] = op /\ Len(r) = Size(op)
             /\ Size(op) \in 0..Len(rx[c])
             /\ Drop(rx[c], Size(op)) \in Seq(0..255)
             /\ Drop(rx[c], Size(op)) \o coming[c]
                   = FlattenSeq(Tail(unserved[c]))
             /\ op # COP_KEEPALIVE => \A i \in 1..3 : rx[c][i] = r[i]
<1>0. rx[c] # <<>> /\ Opcode(c) = op /\ Len(rx[c]) >= Size(op)
  BY DEF Readable
<1>1. PICK b, s, r, q :
         /\ b = rx[c] /\ s = coming[c] /\ r = Head(unserved[c])
         /\ q = FlattenSeq(Tail(unserved[c]))
         /\ b \in Seq(0..255) /\ s \in Seq(0..255) /\ r \in Sendable
         /\ q \in Seq(0..255) /\ b \o s = r \o q
         /\ r[1] = op /\ Len(b) >= Size(op) /\ Len(b) \in Nat
  BY <1>0, AtFront DEF SessionInv, BytesOK
<1>2. r \in Seq(0..255) /\ Len(r) \in {2, 3} /\ Len(r) = Size(op)
      /\ (op # COP_KEEPALIVE => Len(r) = 3)
  BY <1>1, Sizes
<1>3. Len(r) \in 0..Len(b) /\ Len(r) <= Len(b)
  BY ONLY <1>1, <1>2
<1> DEFINE S == 0..255
<1> HIDE DEF S
<1>4. /\ b \in Seq(S) /\ s \in Seq(S) /\ r \in Seq(S) /\ q \in Seq(S)
      /\ b \o s = r \o q
  BY <1>1, <1>2 DEF S
<1>5. SubSeq(b, Len(r) + 1, Len(b)) \o s = q
  BY ONLY <1>3, <1>4, FrontTaken
<1>6. SubSeq(b, Len(r) + 1, Len(b)) \in Seq(0..255)
  BY ONLY <1>1, <1>3, Cut
<1>7. \A i \in 1..Len(r) : b[i] = r[i]
  <2> TAKE i \in 1..Len(r)
  <2>1. i \in 1..Len(b) /\ i <= Len(r)
    BY ONLY <1>1, <1>2, <1>3, i \in 1..Len(r)
  <2> QED
    BY ONLY <1>4, <2>1, FrontsAgree, SMTT(30)
<1> QED
  BY <1>0, <1>1, <1>2, <1>3, <1>5, <1>6, <1>7, ZenonT(30) DEF Drop

-----------------------------------------------------------------------------
\* A step that makes the bytes of one connection agree with its requests keeps
\* all connections so.
LEMMA OneSession ==
    ASSUME SessionInv, BytesOK', NEW c \in Clients,
           NEW b, NEW s, NEW uu \in Seq(Sendable), b \o s = FlattenSeq(uu),
           rx' = [rx EXCEPT ![c] = b], coming' = [coming EXCEPT ![c] = s],
           unserved' = [unserved EXCEPT ![c] = uu]
    PROVE  SessionInv'
<1>1. /\ rx \in [Clients -> Seq(0..255)] /\ coming \in [Clients -> Seq(0..255)]
      /\ unserved \in [Clients -> Seq(Sendable)]
      /\ \A d \in Clients : rx[d] \o coming[d] = FlattenSeq(unserved[d])
  BY DEF SessionInv, BytesOK, Intact
<1>2. unserved' \in [Clients -> Seq(Sendable)]
  BY <1>1
<1>3. ASSUME NEW d \in Clients
      PROVE  rx'[d] \o coming'[d] = FlattenSeq(unserved'[d])
  <2>1. CASE d = c
    <3>1. rx'[c] = b /\ coming'[c] = s /\ unserved'[c] = uu
      BY <1>1
    <3> QED
      BY <2>1, <3>1
  <2>2. CASE d # c
    <3>1. rx'[d] = rx[d] /\ coming'[d] = coming[d] /\ unserved'[d] = unserved[d]
      BY <1>1, <2>2
    <3> QED
      BY <1>1, <3>1
  <2> QED
    BY <2>1, <2>2
<1> QED
  BY <1>2, <1>3 DEF SessionInv, Intact

LEMMA SessionReads ==
    ASSUME SessionInv, BytesOK', NEW c \in Clients, NEW op \in Opcodes,
           Readable(c, op), Take(c, op), coming' = coming
    PROVE  SessionInv' /\ unserved' = [unserved EXCEPT ![c] = Tail(@)]
<1>1. /\ Drop(rx[c], Size(op)) \o coming[c] = FlattenSeq(Tail(unserved[c]))
      /\ unserved[c] # <<>> /\ Tail(unserved[c]) \in Seq(Sendable)
  BY OneRead, AtFront, ZenonT(30)
<1>2. unserved' = [unserved EXCEPT ![c] = Tail(@)]
  BY <1>1 DEF Take
<1>3. coming' = [coming EXCEPT ![c] = coming[c]]
  BY DEF SessionInv, BytesOK
<1> QED
  BY <1>1, <1>2, <1>3, OneSession DEF Take

LEMMA SessionCloses ==
    ASSUME SessionInv, BytesOK', NEW c \in Clients, Close(c) PROVE SessionInv'
<1>1. <<>> \o <<>> = FlattenSeq(<<>>) /\ <<>> \in Seq(Sendable)
  BY FlattenEmpty, EmptySeq, ConcatEmptySeq
<1> QED
  BY <1>1, OneSession DEF Close

LEMMA SessionSends ==
    ASSUME SessionInv, BytesOK', NEW c \in Clients, NEW r \in Requests[c],
           ClientSends(c, r)
    PROVE  SessionInv'
<1>1. PICK b, s, uu : /\ b = rx[c] /\ s = coming[c] /\ uu = unserved[c]
                      /\ b \in Seq(0..255) /\ s \in Seq(0..255)
                      /\ uu \in Seq(Sendable) /\ b \o s = FlattenSeq(uu)
  BY DEF SessionInv, BytesOK, Intact
<1>2. r \in Sendable /\ r \in Seq(0..255) /\ uu \in Seq(Seq(0..255))
  BY <1>1, SendableRequests DEF Sendable
<1>3. Append(uu, r) \in Seq(Sendable)
  BY <1>1, <1>2, AppendProperties
<1>4. FlattenSeq(Append(uu, r)) = FlattenSeq(uu) \o r
  BY ONLY <1>2, FlattenAppend
<1>5. b \o (s \o r) = (b \o s) \o r
  <2>1. b \in Seq(0..255) /\ s \in Seq(0..255) /\ r \in Seq(0..255)
    BY <1>1, <1>2
  <2> QED
    BY ONLY <2>1, ConcatAssociative, SMTT(30)
<1>6. b \o (s \o r) = FlattenSeq(Append(uu, r))
  BY <1>1, <1>4, <1>5
<1>7. rx' = [rx EXCEPT ![c] = b]
  BY <1>1 DEF ClientSends, SessionInv, BytesOK
<1>8. /\ coming' = [coming EXCEPT ![c] = s \o r]
      /\ unserved' = [unserved EXCEPT ![c] = Append(uu, r)]
  BY <1>1 DEF ClientSends
<1> QED
  BY <1>3, <1>6, <1>7, <1>8, OneSession

LEMMA SessionDelivers ==
    ASSUME SessionInv, BytesOK', NEW c \in Clients,
           NEW k \in 1..Len(coming[c]), Deliver(c, k)
    PROVE  SessionInv'
<1>1. PICK b, s, uu : /\ b = rx[c] /\ s = coming[c] /\ uu = unserved[c]
                      /\ b \in Seq(0..255) /\ s \in Seq(0..255)
                      /\ uu \in Seq(Sendable) /\ b \o s = FlattenSeq(uu)
  BY DEF SessionInv, BytesOK, Intact
<1>2. PICK f, g : /\ f = SubSeq(s, 1, k) /\ g = SubSeq(s, k + 1, Len(s))
                  /\ f \in Seq(0..255) /\ g \in Seq(0..255) /\ s = f \o g
  <2>1. s \in Seq(0..255) /\ k \in 0..Len(s)
    BY <1>1
  <2>2. /\ SubSeq(s, 1, k) \in Seq(0..255)
        /\ SubSeq(s, k + 1, Len(s)) \in Seq(0..255)
        /\ s = SubSeq(s, 1, k) \o SubSeq(s, k + 1, Len(s))
    <3>1. PICK B : B = 0..255
      OBVIOUS
    <3>2. s \in Seq(B) /\ k \in 0..Len(s)
      BY <2>1, <3>1
    <3>3. /\ SubSeq(s, 1, k) \in Seq(B)
          /\ SubSeq(s, k + 1, Len(s)) \in Seq(B)
          /\ s = SubSeq(s, 1, k) \o SubSeq(s, k + 1, Len(s))
      BY ONLY <3>2, Cut, ZenonT(30)
    <3> QED
      BY <3>1, <3>3
  <2> QED
    BY <2>2, Zenon
<1>3. (b \o f) \o g = b \o (f \o g)
  <2>1. b \in Seq(0..255) /\ f \in Seq(0..255) /\ g \in Seq(0..255)
    BY <1>1, <1>2
  <2> QED
    BY ONLY <2>1, ConcatAssociative, SMTT(30)
<1>4. (b \o f) \o g = FlattenSeq(uu)
  BY <1>1, <1>2, <1>3
<1>5. unserved' = [unserved EXCEPT ![c] = uu]
  BY <1>1 DEF Deliver, SessionInv
<1>6. /\ rx' = [rx EXCEPT ![c] = b \o f]
      /\ coming' = [coming EXCEPT ![c] = g]
  BY <1>1, <1>2 DEF Deliver, Drop
<1> QED
  BY <1>1, <1>4, <1>5, <1>6, OneSession

LEMMA SessionStart == VehicleInit => SessionInv
<1> SUFFICES ASSUME VehicleInit PROVE SessionInv
  OBVIOUS
<1>1. <<>> \o <<>> = FlattenSeq(<<>>) /\ \A S : <<>> \in Seq(S)
  BY FlattenEmpty, EmptySeq, ConcatEmptySeq
<1>2. /\ rx = [c \in Clients |-> <<>>] /\ coming = [c \in Clients |-> <<>>]
      /\ unserved = [c \in Clients |-> <<>>]
  BY DEF VehicleInit, SessionInit
<1> QED
  BY <1>1, <1>2 DEF SessionInv, BytesOK, Intact

LEMMA SessionStep ==
    ASSUME SessionInv, BytesOK', [VehicleNext]_vehicleVars PROVE SessionInv'
<1> USE DEF inVars, outVars, sessionVars, busVars, exitVars
<1>0. ASSUME UNCHANGED inVars PROVE SessionInv'
  BY <1>0 DEF SessionInv, BytesOK, Intact
<1>1. ASSUME NEW c \in Clients, Peer(c) PROVE SessionInv'
  <2>1. CASE \E r \in Requests[c] : ClientSends(c, r)
    BY <2>1, SessionSends
  <2>2. CASE \E k \in 1..Len(coming[c]) : Deliver(c, k)
    BY <2>2, SessionDelivers
  <2>3. CASE ClientReads(c) \/ ClientLeaves(c)
    BY <1>0, <2>3 DEF ClientReads, ClientLeaves
  <2> QED
    BY <1>1, <2>1, <2>2, <2>3 DEF Peer
<1>2. ASSUME NEW c \in Clients, Handler(c) PROVE SessionInv'
  <2>1. CASE Connect(c)
    BY <1>0, <2>1 DEF Connect
  <2>2. CASE Close(c)
    BY <2>2, SessionCloses
  <2>3. CASE ReadKeepalive(c)
    BY <2>3, SessionReads DEF ReadKeepalive, Opcodes
  <2>4. CASE ReadReport(c)
    BY <2>4, SessionReads DEF ReadReport, Opcodes
  <2> QED
    BY <1>2, <2>1, <2>2, <2>3, <2>4
       DEF Handler, Gone, InvalidOpcode, InvalidSize, RefuseReport
<1>3. ASSUME NEW c \in Clients, Sync(c) PROVE SessionInv'
  BY <1>3, SessionReads DEF Sync, ReadSync, Opcodes
<1>4. ASSUME NEW line \in Typed, Stop(line) PROVE SessionInv'
  <2>1. <<>> \o <<>> = FlattenSeq(<<>>) /\ <<>> \in Seq(Sendable)
    BY FlattenEmpty, EmptySeq, ConcatEmptySeq
  <2>2. /\ rx' = [c \in Clients |-> <<>>] /\ coming' = [c \in Clients |-> <<>>]
        /\ unserved' = [c \in Clients |-> <<>>]
    BY <1>4 DEF Stop
  <2> QED
    BY <2>1, <2>2 DEF SessionInv, Intact
<1>5. ASSUME NEW line \in Typed, Hang(line) PROVE SessionInv'
  BY <1>0, <1>5 DEF Hang
<1>6. CASE Obeying \/ Exiting \/ UNCHANGED vehicleVars
  BY <1>0, <1>6 DEF Obeying, Exiting, vehicleVars
<1> QED
  BY <1>1, <1>2, <1>3, <1>4, <1>5, <1>6 DEF VehicleNext, Running

LEMMA SessionInvariant == VehicleSpec => []SessionInv
BY SessionStart, SessionStep, BytesCorrect, PTL DEF VehicleSpec

\* However TCP cuts and joins the bytes, a connection holds exactly the
\* requests not yet served: no read stops in the middle of one or takes a part
\* of the next (carma::start_reading and the readers it calls).
THEOREM RequestsCorrect == VehicleSpec => []RequestsIntact
<1>1. SessionInv => RequestsIntact
  BY DEF SessionInv, Intact, RequestsIntact
<1> QED
  BY <1>1, SessionInvariant, PTL

-----------------------------------------------------------------------------
AnswerCodes == Opcodes \cup {COP_OK}

\* The answers the requests s ask for, one sequence for each.
Owed(s) == [i \in DOMAIN s |-> AnswersTo(s[i])]

LEMMA Answers ==
    ASSUME NEW r \in Sendable
    PROVE  /\ AnswersTo(r) \in Seq(AnswerCodes)
           /\ r[1] = COP_KEEPALIVE => AnswersTo(r) = <<COP_KEEPALIVE>>
           /\ r[1] = COP_REPORT => AnswersTo(r) = <<COP_REPORT>>
           /\ r[1] = COP_SYNC => AnswersTo(r) = IF r[2] = Calibrate
                                                THEN <<COP_OK>> ELSE <<>>
BY DEF AnswersTo, AnswerCodes, Opcodes, COP_OK, COP_SYNC, COP_REPORT, COP_KEEPALIVE

\* What is owed for requests, as more of them come and the first is served.
LEMMA OwedChanges ==
    ASSUME NEW s \in Seq(Sendable)
    PROVE  /\ Owed(s) \in Seq(Seq(AnswerCodes))
           /\ \A r \in Sendable : Owed(Append(s, r)) = Append(Owed(s), AnswersTo(r))
           /\ s # <<>> => /\ Owed(s) # <<>>
                          /\ Head(Owed(s)) = AnswersTo(Head(s))
                          /\ Tail(Owed(s)) = Owed(Tail(s))
<1> DEFINE n == Len(s)
<1>1. n \in Nat /\ DOMAIN s = 1..n /\ \A i \in 1..n : s[i] \in Sendable
  BY LenProperties, ElementOfSeq
<1>2. /\ Owed(s) \in Seq(Seq(AnswerCodes)) /\ Len(Owed(s)) = n
      /\ \A i \in 1..n : Owed(s)[i] = AnswersTo(s[i])
  BY <1>1, Answers DEF Owed
<1>3. ASSUME NEW r \in Sendable
      PROVE  Owed(Append(s, r)) = Append(Owed(s), AnswersTo(r))
  <2>1. /\ DOMAIN Append(s, r) = 1..n + 1 /\ Append(s, r)[n + 1] = r
        /\ \A i \in 1..n : Append(s, r)[i] = s[i]
    BY <1>1, AppendProperties, LenProperties
  <2>2. AnswersTo(r) \in Seq(AnswerCodes)
    BY Answers
  <2>3. /\ DOMAIN Append(Owed(s), AnswersTo(r)) = 1..n + 1
        /\ Append(Owed(s), AnswersTo(r))[n + 1] = AnswersTo(r)
        /\ \A i \in 1..n : Append(Owed(s), AnswersTo(r))[i] = Owed(s)[i]
    <3>1. PICK o, a, T : /\ o = Owed(s) /\ a = AnswersTo(r)
                         /\ o \in Seq(T) /\ a \in T /\ Len(o) = n
      BY <1>2, <2>2
    <3>2. /\ Append(o, a) \in Seq(T) /\ Len(Append(o, a)) = n + 1
          /\ Append(o, a)[n + 1] = a
          /\ \A i \in 1..n : Append(o, a)[i] = o[i]
      BY <3>1, AppendProperties
    <3> QED
      BY <3>1, <3>2, LenProperties
  <2> QED
    BY <1>1, <1>2, <2>1, <2>3 DEF Owed
<1>4. ASSUME s # <<>>
      PROVE  /\ Owed(s) # <<>> /\ Head(Owed(s)) = AnswersTo(Head(s))
             /\ Tail(Owed(s)) = Owed(Tail(s))
  <2>1. n \in Nat \ {0} /\ Owed(s) # <<>>
    BY <1>2, <1>4, EmptySeq
  <2>2. /\ DOMAIN Tail(s) = 1..n - 1 /\ Head(s) = s[1]
        /\ \A i \in 1..n - 1 : Tail(s)[i] = s[i + 1]
    BY <1>4, HeadTailProperties, LenProperties
  <2>3. /\ Tail(Owed(s)) \in Seq(Seq(AnswerCodes))
        /\ Len(Tail(Owed(s))) = n - 1 /\ Head(Owed(s)) = Owed(s)[1]
        /\ \A i \in 1..n - 1 : Tail(Owed(s))[i] = Owed(s)[i + 1]
    BY <1>2, <2>1, HeadTailProperties
  <2> QED
    BY <1>2, <2>1, <2>2, <2>3 DEF Owed
<1> QED
  BY <1>2, <1>3, <1>4

\* AnswersExpected, of closed connections too: closing one forgets what it is
\* owed.
AnswersInv ==
    /\ answers \in [Clients -> Seq(AnswerCodes)]
    /\ expected \in [Clients -> Seq(AnswerCodes)]
    /\ \A c \in Clients :
          answers[c] \o FlattenSeq(Owed(unserved[c])) = expected[c]

LEMMA OwedNothing == FlattenSeq(Owed(<<>>)) = <<>>
<1>1. Owed(<<>>) = <<>>
  BY DEF Owed
<1> QED
  BY <1>1, FlattenEmpty

LEMMA OneClient ==
    ASSUME AnswersInv, SessionInv, NEW c \in Clients,
           NEW a \in Seq(AnswerCodes), NEW e \in Seq(AnswerCodes), NEW uu,
           a \o FlattenSeq(Owed(uu)) = e,
           answers' = [answers EXCEPT ![c] = a],
           expected' = [expected EXCEPT ![c] = e],
           unserved' = [unserved EXCEPT ![c] = uu]
    PROVE  AnswersInv'
<1>1. /\ answers \in [Clients -> Seq(AnswerCodes)]
      /\ expected \in [Clients -> Seq(AnswerCodes)]
      /\ unserved \in [Clients -> Seq(Sendable)]
      /\ \A d \in Clients :
            answers[d] \o FlattenSeq(Owed(unserved[d])) = expected[d]
  BY DEF AnswersInv, SessionInv
<1>2. /\ answers' \in [Clients -> Seq(AnswerCodes)]
      /\ expected' \in [Clients -> Seq(AnswerCodes)]
  BY <1>1
<1>3. ASSUME NEW d \in Clients
      PROVE  answers'[d] \o FlattenSeq(Owed(unserved'[d])) = expected'[d]
  <2>1. CASE d = c
    <3>1. answers'[c] = a /\ expected'[c] = e /\ unserved'[c] = uu
      BY <1>1
    <3> QED
      BY <2>1, <3>1
  <2>2. CASE d # c
    <3>1. /\ answers'[d] = answers[d] /\ expected'[d] = expected[d]
          /\ unserved'[d] = unserved[d]
      BY <1>1, <2>2
    <3> QED
      BY <1>1, <3>1
  <2> QED
    BY <2>1, <2>2
<1>4. \A d \in Clients : Owed(unserved[d])' = Owed(unserved'[d])
  BY DEF Owed
<1> QED
  BY <1>2, <1>3, <1>4 DEF AnswersInv

\* A request is served by its answer, if it asks for one.
LEMMA AnswersServe ==
    ASSUME AnswersInv, SessionInv, NEW c \in Clients, unserved[c] # <<>>,
           answers' = [answers EXCEPT ![c] = @ \o AnswersTo(Head(unserved[c]))],
           unserved' = [unserved EXCEPT ![c] = Tail(@)], expected' = expected
    PROVE  AnswersInv'
<1>1. PICK a, e, uu : /\ a = answers[c] /\ e = expected[c] /\ uu = unserved[c]
                      /\ a \in Seq(AnswerCodes) /\ e \in Seq(AnswerCodes)
                      /\ uu \in Seq(Sendable) /\ uu # <<>>
                      /\ a \o FlattenSeq(Owed(uu)) = e
  BY DEF AnswersInv, SessionInv
<1>2. Head(uu) \in Sendable /\ Tail(uu) \in Seq(Sendable)
  BY <1>1, HeadTailProperties
<1>3. PICK x, y : /\ x = AnswersTo(Head(uu)) /\ y = FlattenSeq(Owed(Tail(uu)))
                  /\ x \in Seq(AnswerCodes) /\ y \in Seq(AnswerCodes)
  BY <1>2, Answers, OwedChanges, FlattenType
<1>4. FlattenSeq(Owed(uu)) = x \o y
  BY <1>1, <1>3, OwedChanges, FlattenTail
<1>5. (a \o x) \o y = a \o (x \o y) /\ a \o x \in Seq(AnswerCodes)
  <2>1. a \in Seq(AnswerCodes) /\ x \in Seq(AnswerCodes) /\ y \in Seq(AnswerCodes)
    BY <1>1, <1>3
  <2>2. (a \o x) \o y = a \o (x \o y)
    BY ONLY <2>1, ConcatAssociative
  <2>3. a \o x \in Seq(AnswerCodes)
    BY ONLY <2>1, ConcatProperties
  <2> QED
    BY <2>2, <2>3
<1>6. (a \o x) \o FlattenSeq(Owed(Tail(uu))) = e
  BY <1>1, <1>3, <1>4, <1>5
<1>7. expected' = [expected EXCEPT ![c] = e]
  BY <1>1 DEF AnswersInv
<1>8. PICK b, tt : b = a \o x /\ tt = Tail(uu) /\ b \in Seq(AnswerCodes)
  BY <1>5
<1>9. /\ answers' = [answers EXCEPT ![c] = b]
      /\ unserved' = [unserved EXCEPT ![c] = tt]
  BY <1>1, <1>3, <1>8
<1>10. b \o FlattenSeq(Owed(tt)) = e /\ e \in Seq(AnswerCodes)
  BY <1>1, <1>6, <1>8
<1>11. /\ AnswersInv /\ SessionInv /\ c \in Clients /\ b \in Seq(AnswerCodes)
       /\ e \in Seq(AnswerCodes)
  BY <1>8, <1>10
<1> QED
  BY ONLY <1>7, <1>9, <1>10, <1>11, OneClient, Zenon

\* What a reader writes is the answer to its request.
LEMMA AnswersRead ==
    ASSUME AnswersInv, SessionInv, BytesOK', NEW c \in Clients,
           ReadKeepalive(c) \/ ReadReport(c) \/ ReadSync(c)
    PROVE  AnswersInv'
<1> DEFINE r == Head(unserved[c])
<1>0. answers[c] \in Seq(AnswerCodes) /\ answers \in [Clients -> Seq(AnswerCodes)]
  BY DEF AnswersInv
<1>1. \A x : Append(answers[c], x) = answers[c] \o <<x>>
  BY <1>0, AppendIsConcat
<1>2. ASSUME NEW op \in Opcodes, Readable(c, op), Take(c, op), coming' = coming
      PROVE  /\ unserved[c] # <<>> /\ unserved' = [unserved EXCEPT ![c] = Tail(@)]
             /\ r \in Sendable /\ r[1] = op
             /\ op # COP_KEEPALIVE => rx[c][2] = r[2]
  <2>1. unserved' = [unserved EXCEPT ![c] = Tail(@)]
    BY <1>2, SessionReads
  <2>2. rx[c] # <<>> /\ r[1] = op
    BY <1>2, OneRead
  <2>3. op # COP_KEEPALIVE => rx[c][2] = r[2]
    <3>1. op # COP_KEEPALIVE => \A i \in 1..3 : rx[c][i] = r[i]
      BY <1>2, OneRead, ZenonT(30)
    <3>2. 2 \in 1..3
      OBVIOUS
    <3> HIDE DEF r
    <3> QED
      BY <3>1, <3>2
  <2>4. unserved[c] # <<>> /\ r \in Sendable
    BY <2>2, AtFront
  <2> QED
    BY <2>1, <2>2, <2>3, <2>4
<1>3. CASE ReadKeepalive(c)
  <2>1. /\ unserved[c] # <<>> /\ unserved' = [unserved EXCEPT ![c] = Tail(@)]
        /\ AnswersTo(r) = <<COP_KEEPALIVE>> /\ expected' = expected
    BY <1>2, <1>3, Answers DEF ReadKeepalive, Opcodes
  <2>2. answers' = [answers EXCEPT ![c] = @ \o AnswersTo(r)]
    BY <1>1, <1>3, <2>1 DEF ReadKeepalive, Answer
  <2> QED
    BY <2>1, <2>2, AnswersServe
<1>4. CASE ReadReport(c)
  <2>1. /\ unserved[c] # <<>> /\ unserved' = [unserved EXCEPT ![c] = Tail(@)]
        /\ AnswersTo(r) = <<COP_REPORT>> /\ expected' = expected
    BY <1>2, <1>4, Answers DEF ReadReport, Opcodes
  <2>2. answers' = [answers EXCEPT ![c] = @ \o AnswersTo(r)]
    BY <1>1, <1>4, <2>1 DEF ReadReport, Answer
  <2> QED
    BY <2>1, <2>2, AnswersServe
<1>5. CASE ReadSync(c)
  <2>1. /\ unserved[c] # <<>> /\ unserved' = [unserved EXCEPT ![c] = Tail(@)]
        /\ r \in Sendable /\ r[1] = COP_SYNC /\ rx[c][2] = r[2]
        /\ expected' = expected
    <3>1. COP_SYNC \in Opcodes /\ COP_SYNC # COP_KEEPALIVE
      BY DEF Opcodes, COP_SYNC, COP_KEEPALIVE
    <3>2. /\ Readable(c, COP_SYNC) /\ Take(c, COP_SYNC) /\ coming' = coming
          /\ expected' = expected
      BY <1>5 DEF ReadSync
    <3> QED
      BY <1>2, <3>1, <3>2
  <2>2. AnswersTo(r) = IF r[2] = Calibrate THEN <<COP_OK>> ELSE <<>>
    BY <2>1, Answers
  <2>3. answers' = [answers EXCEPT ![c] = @ \o AnswersTo(r)]
    <3>1. CASE r[2] = Calibrate
      BY <1>1, <1>5, <2>1, <2>2, <3>1 DEF ReadSync, Answer
    <3>2. CASE r[2] # Calibrate
      <4>1. answers' = answers /\ answers[c] \o <<>> = answers[c]
        BY <1>0, <1>5, <2>1, <3>2, ConcatEmptySeq DEF ReadSync
      <4>2. AnswersTo(r) = <<>>
        BY <2>2, <3>2
      <4> QED
        BY <1>0, <4>1, <4>2
    <3> QED
      BY <3>1, <3>2
  <2> QED
    BY <2>1, <2>3, AnswersServe
<1> QED
  BY <1>3, <1>4, <1>5

LEMMA AnswersStep ==
    ASSUME AnswersInv, SessionInv, BytesOK', [VehicleNext]_vehicleVars
    PROVE  AnswersInv'
<1> USE DEF inVars, outVars, sessionVars, busVars, exitVars
<1>0. ASSUME UNCHANGED <<outVars, unserved>> PROVE AnswersInv'
  <2>1. \A c \in Clients : Owed(unserved[c])' = Owed(unserved[c])
    BY <1>0 DEF Owed
  <2> QED
    BY <1>0, <2>1 DEF AnswersInv
<1>1. ASSUME NEW c \in Clients
      PROVE  /\ answers \in [Clients -> Seq(AnswerCodes)]
             /\ expected \in [Clients -> Seq(AnswerCodes)]
             /\ unserved \in [Clients -> Seq(Sendable)]
             /\ answers[c] \in Seq(AnswerCodes) /\ expected[c] \in Seq(AnswerCodes)
             /\ unserved[c] \in Seq(Sendable)
             /\ Owed(unserved[c]) \in Seq(Seq(AnswerCodes))
             /\ FlattenSeq(Owed(unserved[c])) \in Seq(AnswerCodes)
             /\ answers[c] \o FlattenSeq(Owed(unserved[c])) = expected[c]
  <2>1. unserved[c] \in Seq(Sendable)
    BY DEF SessionInv
  <2>2. Owed(unserved[c]) \in Seq(Seq(AnswerCodes))
    BY <2>1, OwedChanges
  <2>3. FlattenSeq(Owed(unserved[c])) \in Seq(AnswerCodes)
    BY <2>2, FlattenType
  <2> QED
    BY <2>1, <2>2, <2>3 DEF AnswersInv, SessionInv
<1>2. ASSUME NEW c \in Clients, Close(c) PROVE AnswersInv'
  <2>1. PICK a, uu : a = answers[c] /\ uu = <<>> /\ a \in Seq(AnswerCodes)
    BY <1>1
  <2>2. a \o FlattenSeq(Owed(uu)) = a
    BY <2>1, OwedNothing, ConcatEmptySeq
  <2>3. /\ answers' = [answers EXCEPT ![c] = a]
        /\ expected' = [expected EXCEPT ![c] = a]
        /\ unserved' = [unserved EXCEPT ![c] = uu]
    BY <1>1, <1>2, <2>1 DEF Close
  <2>4. AnswersInv /\ SessionInv /\ c \in Clients /\ a \in Seq(AnswerCodes)
    BY <2>1
  <2> QED
    BY ONLY <2>2, <2>3, <2>4, OneClient, Zenon
<1>3. ASSUME NEW c \in Clients, NEW r \in Requests[c], ClientSends(c, r)
      PROVE  AnswersInv'
  <2>1. PICK a, e, s, x, y :
           /\ a = answers[c] /\ s = unserved[c] /\ e = expected[c]
           /\ x = FlattenSeq(Owed(s)) /\ y = AnswersTo(r)
           /\ a \in Seq(AnswerCodes) /\ e \in Seq(AnswerCodes)
           /\ x \in Seq(AnswerCodes) /\ y \in Seq(AnswerCodes)
           /\ s \in Seq(Sendable) /\ r \in Sendable /\ a \o x = e
    BY <1>1, SendableRequests, Answers
  <2>2. PICK uu : uu = Append(s, r)
    OBVIOUS
  <2>3. FlattenSeq(Owed(uu)) = x \o y
    <3>1. /\ Owed(s) \in Seq(Seq(AnswerCodes))
          /\ Owed(Append(s, r)) = Append(Owed(s), AnswersTo(r))
      BY <2>1, OwedChanges
    <3>2. FlattenSeq(Append(Owed(s), y)) = FlattenSeq(Owed(s)) \o y
      BY <2>1, <3>1, FlattenAppend
    <3> QED
      BY <2>1, <2>2, <3>1, <3>2
  <2>4. /\ (a \o x) \o y = a \o (x \o y) /\ e \o y \in Seq(AnswerCodes)
    <3>1. /\ a \in Seq(AnswerCodes) /\ x \in Seq(AnswerCodes)
          /\ y \in Seq(AnswerCodes) /\ e \in Seq(AnswerCodes)
      BY <2>1
    <3>2. (a \o x) \o y = a \o (x \o y)
      BY ONLY <3>1, ConcatAssociative
    <3>3. e \o y \in Seq(AnswerCodes)
      BY ONLY <3>1, ConcatProperties
    <3> QED
      BY <3>2, <3>3
  <2>5. PICK f \in Seq(AnswerCodes) : f = e \o y
    BY <2>4
  <2>6. a \o FlattenSeq(Owed(uu)) = f
    BY <2>1, <2>3, <2>4, <2>5
  <2>7. /\ answers' = [answers EXCEPT ![c] = a]
        /\ expected' = [expected EXCEPT ![c] = f]
        /\ unserved' = [unserved EXCEPT ![c] = uu]
    BY <1>1, <1>3, <2>1, <2>2, <2>5 DEF ClientSends
  <2>8. /\ AnswersInv /\ SessionInv /\ c \in Clients
        /\ a \in Seq(AnswerCodes) /\ f \in Seq(AnswerCodes)
    BY <2>1
  <2> QED
    BY ONLY <2>6, <2>7, <2>8, OneClient, Zenon
<1>4. ASSUME NEW c \in Clients, ClientReads(c) PROVE AnswersInv'
  <2>1. PICK a, e, uu, x :
           /\ a = answers[c] /\ uu = unserved[c] /\ e = expected[c]
           /\ x = FlattenSeq(Owed(uu)) /\ a \o x = e /\ a # <<>>
           /\ a \in Seq(AnswerCodes) /\ e \in Seq(AnswerCodes)
           /\ x \in Seq(AnswerCodes)
    BY <1>1, <1>4 DEF ClientReads
  <2>2. a \o x # <<>> /\ Tail(a \o x) = Tail(a) \o x
    BY ONLY <2>1, TailConcat
  <2>3. PICK b \in Seq(AnswerCodes), f \in Seq(AnswerCodes) :
           b = Tail(a) /\ f = Tail(e) /\ b \o x = f
    BY <2>1, <2>2, HeadTailProperties
  <2>4. /\ answers' = [answers EXCEPT ![c] = b]
        /\ expected' = [expected EXCEPT ![c] = f]
        /\ unserved' = [unserved EXCEPT ![c] = uu]
    BY <1>1, <1>4, <2>1, <2>2, <2>3 DEF ClientReads
  <2>5. /\ AnswersInv /\ SessionInv /\ c \in Clients
        /\ b \in Seq(AnswerCodes) /\ f \in Seq(AnswerCodes)
        /\ b \o FlattenSeq(Owed(uu)) = f
    BY <2>1, <2>3
  <2> QED
    BY ONLY <2>4, <2>5, OneClient, Zenon
<1>5. ASSUME NEW c \in Clients, Peer(c) PROVE AnswersInv'
  <2>1. CASE \E k \in 1..Len(coming[c]) : Deliver(c, k)
    BY <1>0, <2>1 DEF Deliver
  <2>2. CASE ClientLeaves(c)
    BY <1>0, <2>2 DEF ClientLeaves
  <2> QED
    BY <1>3, <1>4, <1>5, <2>1, <2>2 DEF Peer
<1>6. ASSUME NEW c \in Clients, Handler(c) PROVE AnswersInv'
  <2>1. CASE Connect(c)
    BY <1>0, <2>1 DEF Connect
  <2> QED
    BY <1>2, <1>6, <2>1, AnswersRead
       DEF Handler, Gone, InvalidOpcode, InvalidSize, RefuseReport
<1>7. ASSUME NEW c \in Clients, Sync(c) PROVE AnswersInv'
  BY <1>7, AnswersRead DEF Sync
<1>8. ASSUME NEW line \in Typed, Stop(line) PROVE AnswersInv'
  <2>1. /\ answers' = [c \in Clients |-> <<>>] /\ expected' = [c \in Clients |-> <<>>]
        /\ unserved' = [c \in Clients |-> <<>>]
    BY <1>8 DEF Stop
  <2>2. FlattenSeq(Owed(<<>>)) = <<>> /\ <<>> \o <<>> = <<>>
        /\ <<>> \in Seq(AnswerCodes)
    BY OwedNothing, EmptySeq, ConcatEmptySeq
  <2>3. \A c \in Clients : Owed(unserved[c])' = Owed(<<>>)
    BY <2>1 DEF Owed
  <2> QED
    BY <2>1, <2>2, <2>3 DEF AnswersInv
<1>9. ASSUME NEW line \in Typed, Hang(line) PROVE AnswersInv'
  BY <1>0, <1>9 DEF Hang
<1>10. CASE Obeying \/ Exiting \/ UNCHANGED vehicleVars
  BY <1>0, <1>10 DEF Obeying, Exiting, vehicleVars
<1> QED
  BY <1>5, <1>6, <1>7, <1>8, <1>9, <1>10 DEF VehicleNext, Running

\* Each client gets the answers its requests ask for, each once and in their
\* order, however many requests are read in one turn and whatever other clients
\* do (the readers of carma.cpp).
THEOREM AnswersCorrect == VehicleSpec => []AnswersExpected
<1>1. VehicleInit => AnswersInv
  <2> SUFFICES ASSUME VehicleInit PROVE AnswersInv
    OBVIOUS
  <2>1. /\ answers = [c \in Clients |-> <<>>] /\ expected = [c \in Clients |-> <<>>]
        /\ unserved = [c \in Clients |-> <<>>]
    BY DEF VehicleInit, SessionInit
  <2>2. FlattenSeq(Owed(<<>>)) = <<>> /\ <<>> \o <<>> = <<>>
        /\ <<>> \in Seq(AnswerCodes)
    BY OwedNothing, EmptySeq, ConcatEmptySeq
  <2> QED
    BY <2>1, <2>2 DEF AnswersInv
<1>2. AnswersInv => AnswersExpected
  BY DEF AnswersInv, AnswersExpected, Owed
<1> QED
  BY <1>1, <1>2, AnswersStep, SessionInvariant, BytesCorrect, PTL DEF VehicleSpec

-----------------------------------------------------------------------------
\* A whole number of requests holds at least the first, once it holds a byte.
LEMMA WholeHolds ==
    ASSUME SessionInv, NEW c \in Clients, Whole(c), rx[c] # <<>>
    PROVE  Len(rx[c]) >= Len(Head(unserved[c]))
<1>1. PICK uu, b : /\ uu = unserved[c] /\ uu \in Seq(Sendable) /\ b = rx[c]
                   /\ uu # <<>> /\ Head(uu) \in Sendable
  BY AtFront DEF SessionInv
<1>2. PICK n \in 0..Len(uu) : b = FlattenSeq(SubSeq(uu, 1, n))
  BY <1>1 DEF Whole
<1>3. PICK ww : /\ ww = SubSeq(uu, 1, n) /\ ww \in Seq(Sendable)
                /\ Len(ww) = n /\ n \in Nat
                /\ \A i \in 1..n : ww[i] = uu[i]
  <2>1. Len(uu) \in Nat /\ \A i \in 1..Len(uu) : uu[i] \in Sendable
    BY ONLY <1>1, LenProperties, ElementOfSeq
  <2>2. /\ SubSeq(uu, 1, n) \in Seq(Sendable) /\ Len(SubSeq(uu, 1, n)) = n
        /\ \A i \in 1..n : SubSeq(uu, 1, n)[i] = uu[i]
    BY ONLY <1>1, <2>1, n \in 0..Len(uu), SubSeqProperties
  <2>3. n \in Nat
    BY <2>1
  <2> QED
    BY <2>2, <2>3, Zenon
<1>4. n # 0
  <2>1. n = 0 => ww = <<>>
    BY ONLY <1>3, EmptySeq
  <2> QED
    BY <1>1, <1>2, <1>3, <2>1, FlattenEmpty
<1>5. ww # <<>> /\ ww[1] = uu[1] /\ Head(ww) = Head(uu)
  <2>1. Len(ww) # 0 /\ 1 \in 1..n
    BY ONLY <1>3, <1>4
  <2>2. ww # <<>> /\ ww[1] = uu[1]
    BY <1>3, <2>1, NotEmpty, Zenon
  <2> QED
    BY <1>1, <1>3, <2>2, HeadTailProperties
<1>6. Sendable \subseteq Seq(0..255)
  BY DEF Sendable
<1>7. /\ Tail(ww) \in Seq(Seq(0..255)) /\ ww \in Seq(Seq(0..255))
      /\ Head(ww) \in Seq(0..255)
  BY <1>3, <1>5, <1>6, HeadTailProperties
<1>8. b = Head(ww) \o FlattenSeq(Tail(ww))
  BY <1>2, <1>3, <1>5, <1>7, FlattenTail
<1>9. FlattenSeq(Tail(ww)) \in Seq(0..255)
  BY <1>7, FlattenType
<1>10. PICK h, t : /\ h = Head(ww) /\ t = FlattenSeq(Tail(ww))
                   /\ h \in Seq(0..255) /\ t \in Seq(0..255)
  BY <1>7, <1>9
<1>11. Len(h \o t) = Len(h) + Len(t) /\ Len(h) \in Nat /\ Len(t) \in Nat
  BY ONLY <1>10, ConcatProperties, LenProperties
<1> QED
  BY <1>1, <1>5, <1>8, <1>10, <1>11

\* A client whose requests arrive whole is only cut off for a request the
\* protocol does not have, or for a report that cannot be made (client.cpp and
\* carma::start_reading, which end a session at the first error).
THEOREM CutForCauseCorrect == VehicleSpec => CutForCause
<1> DEFINE Cut1(c) == conn[c] = "open" /\ conn'[c] = "closed" /\ Whole(c)
           Cause(c) == /\ unserved[c] # <<>>
                       /\ Head(unserved[c])[1] \notin {COP_SYNC, COP_KEEPALIVE}
           ConnOK == conn \in [Clients -> {"none", "open", "left", "closed"}]
<1> USE DEF inVars, outVars, sessionVars, busVars, exitVars
<1>1. VehicleInit => ConnOK
  BY DEF VehicleInit, SessionInit
<1>2. ASSUME ConnOK, [VehicleNext]_vehicleVars PROVE ConnOK'
  BY <1>2 DEF VehicleNext, vehicleVars, Running, Peer, Handler, Sync, Stop, Hang,
     Obeying, Exiting, ClientSends, Deliver, ClientReads, ClientLeaves, Connect,
     Gone, InvalidOpcode, InvalidSize, ReadKeepalive, ReadReport, RefuseReport,
     ReadSync, Close
<1>3. ASSUME ConnOK, SessionInv, [VehicleNext]_vehicleVars,
             NEW d \in Clients, Cut1(d)
      PROVE  Cause(d)
  <2>1. ASSUME NEW c \in Clients, Close(c), rx[c] # <<>>,
               \/ Opcode(c) \notin Opcodes \/ Opcode(c) = COP_REPORT
               \/ Opcode(c) \in Opcodes /\ Len(rx[c]) < Size(Opcode(c))
        PROVE  Cause(d)
    <3>1. d = c
      BY <1>3, <2>1 DEF Close
    <3>2. /\ unserved[c] # <<>> /\ Head(unserved[c]) \in Sendable
          /\ Opcode(c) = Head(unserved[c])[1] /\ Len(rx[c]) \in Nat
      BY <1>3, <2>1, AtFront
    <3>3. Opcode(c) \in Opcodes => Len(rx[c]) >= Size(Opcode(c))
      BY <1>3, <2>1, <3>1, <3>2, WholeHolds, Sizes
    <3>4. Opcode(c) \in Opcodes => Size(Opcode(c)) \in Nat
      BY DEF Size
    <3> QED
      BY <2>1, <3>1, <3>2, <3>3, <3>4
         DEF Opcodes, COP_SYNC, COP_REPORT, COP_KEEPALIVE
  <2>2. ASSUME NEW c \in Clients, conn' = [conn EXCEPT ![c] = "open"]
        PROVE  conn'[d] # "closed"
    BY <1>3, <2>2
  <2>3. CASE UNCHANGED conn
    BY <1>3, <2>3
  <2>4. ASSUME NEW c \in Clients, Peer(c) PROVE Cause(d)
    <3>1. CASE ClientLeaves(c)
      BY <1>3, <3>1 DEF ClientLeaves
    <3> QED
      BY <2>3, <2>4, <3>1 DEF Peer, ClientSends, Deliver, ClientReads
  <2>5. ASSUME NEW c \in Clients, Handler(c) PROVE Cause(d)
    <3>1. CASE Connect(c)
      BY <1>3, <2>2, <3>1 DEF Connect
    <3>2. CASE Gone(c)
      BY <1>3, <3>2 DEF Gone, Close
    <3>3. CASE InvalidOpcode(c)
      BY <2>1, <3>3 DEF InvalidOpcode
    <3>4. CASE InvalidSize(c)
      BY <2>1, <3>4 DEF InvalidSize
    <3>5. CASE RefuseReport(c)
      BY <2>1, <3>5 DEF RefuseReport, Readable
    <3> QED
      BY <2>3, <2>5, <3>1, <3>2, <3>3, <3>4, <3>5
         DEF Handler, ReadKeepalive, ReadReport
  <2>6. ASSUME NEW c \in Clients, Sync(c) PROVE Cause(d)
    BY <2>3, <2>6 DEF Sync, ReadSync
  <2>7. ASSUME NEW line \in Typed, Stop(line) \/ Hang(line) PROVE Cause(d)
    BY <1>3, <2>3, <2>7 DEF Stop, Hang
  <2>8. CASE Obeying \/ Exiting \/ UNCHANGED vehicleVars
    BY <2>3, <2>8 DEF Obeying, Exiting, vehicleVars
  <2> QED
    BY <1>3, <2>4, <2>5, <2>6, <2>7, <2>8 DEF VehicleNext, Running
<1> DEFINE CutStep == \A c \in Clients :
              conn[c] = "open" /\ conn'[c] = "closed" /\ Whole(c) =>
                 /\ unserved[c] # <<>>
                 /\ Head(unserved[c])[1] \notin {COP_SYNC, COP_KEEPALIVE}
<1>4. ConnOK /\ SessionInv /\ [VehicleNext]_vehicleVars => [CutStep]_sessionVars
  BY <1>3
<1> HIDE DEF ConnOK
<1> QED
  BY <1>1, <1>2, <1>4, SessionInvariant, PTL DEF VehicleSpec, CutForCause

-----------------------------------------------------------------------------
(* Which sync request drives the vehicle *)

Syncs == {r \in Sendable : r[1] = COP_SYNC}

\* Of the sync requests a client has outstanding, the last asks for w.
LastDrive(s, w) ==
    NoneIn(s, Syncs) \/ LastIn(s, Syncs, {r \in Syncs : r[3] = w})

\* As a request of the driver is served another may be outstanding; when none
\* is, the last order is what it wanted.
DriveInv ==
    /\ conn \in [Clients -> {"none", "open", "left", "closed"}]
    /\ wanted \in [Clients -> Int]
    /\ \A c \in Clients : /\ LastDrive(unserved[c], wanted[c])
                          /\ conn[c] = "none" => unserved[c] = <<>>
    /\ driver \in Clients \cup {NoDriver}
    /\ driver # NoDriver /\ phase = "run" => conn[driver] # "none"
    /\ driver # NoDriver /\ Linked(driver) /\ NoneIn(unserved[driver], Syncs)
          => last = [u \in Units |-> wanted[driver]]

LEMMA LastDriveChanges ==
    ASSUME NEW s \in Seq(Sendable), NEW w, LastDrive(s, w)
    PROVE  /\ \A r \in Syncs : /\ LastDrive(Append(s, r), r[3])
                               /\ ~NoneIn(Append(s, r), Syncs)
           /\ \A r \in Sendable \ Syncs :
                 /\ LastDrive(Append(s, r), w)
                 /\ NoneIn(Append(s, r), Syncs) => NoneIn(s, Syncs)
           /\ s # <<>> =>
                 /\ LastDrive(Tail(s), w)
                 /\ NoneIn(Tail(s), Syncs) =>
                       \/ Head(s) \in Syncs /\ Head(s)[3] = w
                       \/ Head(s) \notin Syncs /\ NoneIn(s, Syncs)
<1> DEFINE B(v) == {r \in Syncs : r[3] = v}
<1>0. ASSUME NEW t, NEW v, LastIn(t, Syncs, B(v)) PROVE ~NoneIn(t, Syncs)
  BY <1>0 DEF LastIn, NoneIn
<1>1. ASSUME NEW r \in Syncs
      PROVE  LastDrive(Append(s, r), r[3]) /\ ~NoneIn(Append(s, r), Syncs)
  <2>1. r \in Sendable /\ r \in B(r[3])
    BY DEF Syncs
  <2>2. LastIn(Append(s, r), Syncs, B(r[3]))
    BY <2>1, LastAppend
  <2> QED
    BY <1>0, <2>2 DEF LastDrive
<1>2. ASSUME NEW r \in Sendable, r \notin Syncs
      PROVE  /\ LastDrive(Append(s, r), w)
             /\ NoneIn(Append(s, r), Syncs) => NoneIn(s, Syncs)
  <2>1. CASE NoneIn(s, Syncs)
    <3>1. NoneIn(Append(s, r), Syncs)
      BY <1>2, <2>1, LastAppend
    <3> QED
      BY <2>1, <3>1 DEF LastDrive
  <2>2. CASE LastIn(s, Syncs, B(w))
    <3>1. LastIn(Append(s, r), Syncs, B(w))
      BY <1>2, <2>2, LastAppend
    <3> QED
      BY <1>0, <3>1 DEF LastDrive
  <2> QED
    BY <2>1, <2>2 DEF LastDrive
<1>3. ASSUME s # <<>>
      PROVE  /\ LastDrive(Tail(s), w)
             /\ NoneIn(Tail(s), Syncs) =>
                   \/ Head(s) \in Syncs /\ Head(s)[3] = w
                   \/ Head(s) \notin Syncs /\ NoneIn(s, Syncs)
  <2>1. CASE NoneIn(s, Syncs)
    <3>1. Head(s) \notin Syncs /\ NoneIn(Tail(s), Syncs)
      BY <1>3, <2>1, LastTail
    <3> QED
      BY <2>1, <3>1 DEF LastDrive
  <2>2. CASE LastIn(s, Syncs, B(w))
    <3>1. \/ LastIn(Tail(s), Syncs, B(w))
          \/ Head(s) \in B(w) /\ NoneIn(Tail(s), Syncs)
      BY <1>3, <2>2, LastTail
    <3>2. LastIn(Tail(s), Syncs, B(w)) => ~NoneIn(Tail(s), Syncs)
      BY <1>0
    <3> QED
      BY <3>1, <3>2 DEF LastDrive
  <2> QED
    BY <2>1, <2>2 DEF LastDrive
<1> QED
  BY <1>1, <1>2, <1>3

\* Drivers that none but c is affected by what happens to c.
LEMMA OneDrive ==
    ASSUME DriveInv, phase = "run", phase' = phase,
           NEW c \in Clients, NEW k \in {"open", "left", "closed"}, NEW w \in Int,
           NEW s, LastDrive(s, w),
           unserved \in [Clients -> Seq(Sendable)],
           conn' = [conn EXCEPT ![c] = k], unserved' = [unserved EXCEPT ![c] = s],
           wanted' = [wanted EXCEPT ![c] = w],
           driver' = driver, last' = last,
           driver # NoDriver /\ driver = c /\ k # "closed" /\ NoneIn(s, Syncs) =>
              /\ Linked(c) /\ NoneIn(unserved[c], Syncs) /\ w = wanted[c]
    PROVE  DriveInv'
<1> USE DEF DriveInv
<1>1. /\ conn' \in [Clients -> {"none", "open", "left", "closed"}]
      /\ wanted' \in [Clients -> Int]
  OBVIOUS
<1>2. ASSUME NEW d \in Clients
      PROVE  /\ conn'[d] = IF d = c THEN k ELSE conn[d]
             /\ unserved'[d] = IF d = c THEN s ELSE unserved[d]
             /\ wanted'[d] = IF d = c THEN w ELSE wanted[d]
  OBVIOUS
<1>3. ASSUME NEW d \in Clients PROVE LastDrive(unserved'[d], wanted'[d])
  BY <1>2
<1>4. ASSUME NEW d \in Clients PROVE conn'[d] = "none" => unserved'[d] = <<>>
  BY <1>2
<1>5. driver' # NoDriver => conn'[driver'] # "none"
  BY <1>2
<1>6. ASSUME driver' # NoDriver, Linked(driver)', NoneIn(unserved'[driver'], Syncs)
      PROVE  last' = [u \in Units |-> wanted'[driver']]
  <2>1. driver \in Clients
    BY <1>6
  <2>2. conn'[driver] \in {"open", "left"} /\ NoneIn(unserved'[driver], Syncs)
    BY <1>6 DEF Linked
  <2>3. /\ Linked(driver) /\ NoneIn(unserved[driver], Syncs)
        /\ wanted'[driver] = wanted[driver]
    <3>1. CASE driver = c
      <4>1. conn'[c] = k /\ unserved'[c] = s /\ wanted'[c] = w
        BY <1>2
      <4>2. k # "closed" /\ NoneIn(s, Syncs)
        BY <2>2, <3>1, <4>1
      <4> QED
        BY <1>6, <3>1, <4>1, <4>2
    <3>2. CASE driver # c
      BY <1>2, <2>1, <2>2, <3>2 DEF Linked
    <3> QED
      BY <3>1, <3>2
  <2> QED
    BY <1>6, <2>3
<1>7. \A d \in Clients : LastDrive(unserved[d], wanted[d])'
                            = LastDrive(unserved'[d], wanted'[d])
  BY DEF LastDrive, NoneIn, LastIn
<1> QED
  BY <1>1, <1>3, <1>4, <1>5, <1>6, <1>7

\* The request that is served drives: its order is the driver's last wish, once
\* no other of its sync requests is outstanding.
LEMMA DriveSync ==
    ASSUME DriveInv, SessionInv, BytesOK', phase = "run", phase' = phase,
           NEW c \in Clients, Sync(c)
    PROVE  DriveInv'
<1> USE DEF DriveInv
<1>1. COP_SYNC \in Opcodes /\ COP_SYNC # COP_KEEPALIVE
  BY DEF Opcodes, COP_SYNC, COP_KEEPALIVE
<1>2. /\ Readable(c, COP_SYNC) /\ Take(c, COP_SYNC) /\ coming' = coming
      /\ conn' = conn /\ wanted' = wanted /\ driver' = c
      /\ last' = [u \in Units |-> rx[c][3]]
  BY DEF Sync, ReadSync, Issue, Order, Drive
<1>3. PICK uu, r : uu = unserved[c] /\ uu \in Seq(Sendable) /\ r = Head(uu)
  BY DEF SessionInv
<1>4. rx[c] # <<>> /\ r[1] = COP_SYNC
  BY <1>1, <1>2, <1>3, OneRead
<1>5. \A i \in 1..3 : rx[c][i] = r[i]
  BY <1>1, <1>2, <1>3, OneRead, ZenonT(30)
<1>6. unserved' = [unserved EXCEPT ![c] = Tail(uu)]
  BY <1>1, <1>2, <1>3, SessionReads
<1>7. uu # <<>> /\ r \in Syncs
  BY <1>3, <1>4, AtFront DEF Syncs
<1>8. LastDrive(uu, wanted[c])
  BY <1>3
<1>9. /\ LastDrive(Tail(uu), wanted[c])
      /\ NoneIn(Tail(uu), Syncs) => r[3] = wanted[c]
  BY <1>3, <1>7, <1>8, LastDriveChanges
<1>10. rx[c][3] = r[3]
  <2>1. 3 \in 1..3
    OBVIOUS
  <2> QED
    BY <1>5, <2>1, Zenon
<1>11. unserved \in [Clients -> Seq(Sendable)]
  BY DEF SessionInv
<1>12. ASSUME NEW d \in Clients PROVE LastDrive(unserved'[d], wanted'[d])
  <2>1. unserved'[d] = IF d = c THEN Tail(uu) ELSE unserved[d]
    BY <1>6, <1>11
  <2> QED
    BY <1>2, <1>9, <2>1
<1>13. ASSUME NEW d \in Clients, conn'[d] = "none" PROVE unserved'[d] = <<>>
  <2>1. d # c /\ unserved[d] = <<>>
    BY <1>2, <1>3, <1>7, <1>13
  <2> QED
    BY <1>6, <1>11, <2>1
<1>14. conn'[c] # "none"
  BY <1>2, <1>3, <1>7
<1>15. NoneIn(unserved'[c], Syncs) => last' = [u \in Units |-> wanted'[c]]
  <2>1. unserved'[c] = Tail(uu)
    BY <1>6, <1>11
  <2> QED
    BY <1>2, <1>9, <1>10, <2>1
<1>16. \A d \in Clients : LastDrive(unserved[d], wanted[d])'
                             = LastDrive(unserved'[d], wanted'[d])
  BY DEF LastDrive, NoneIn, LastIn
<1>17. NoneIn(unserved[driver], Syncs)' = NoneIn(unserved'[c], Syncs)
  BY <1>2 DEF NoneIn
<1> QED
  BY <1>2, <1>12, <1>13, <1>14, <1>15, <1>16, <1>17

LEMMA DriveStep ==
    ASSUME DriveInv, SessionInv, BytesOK', [VehicleNext]_vehicleVars
    PROVE  DriveInv'
<1> USE DEF inVars, outVars, sessionVars, busVars, exitVars
<1>0. ASSUME UNCHANGED <<conn, unserved, wanted, driver, last>>,
             phase' = "run" => phase = "run"
      PROVE  DriveInv'
  BY <1>0 DEF DriveInv, LastDrive, NoneIn, LastIn, Linked
<1>1. ASSUME NEW c \in Clients
      PROVE  /\ conn \in [Clients -> {"none", "open", "left", "closed"}]
             /\ wanted \in [Clients -> Int] /\ wanted[c] \in Int
             /\ unserved \in [Clients -> Seq(Sendable)]
             /\ unserved[c] \in Seq(Sendable)
             /\ LastDrive(unserved[c], wanted[c])
             /\ conn[c] = "none" => unserved[c] = <<>>
  BY DEF DriveInv, SessionInv
<1>2. LastDrive(<<>>, 0) /\ \A w : LastDrive(<<>>, w)
  BY DEF LastDrive, NoneIn
<1>3. ASSUME NEW c \in Clients, phase = "run", phase' = phase, driver' = driver,
             last' = last, Close(c)
      PROVE  DriveInv'
  <2>1. PICK w, s, k : w \in Int /\ w = wanted[c] /\ s = <<>> /\ k = "closed"
    BY <1>1
  <2>2. /\ conn' = [conn EXCEPT ![c] = k] /\ unserved' = [unserved EXCEPT ![c] = s]
        /\ wanted' = [wanted EXCEPT ![c] = w] /\ LastDrive(s, w)
        /\ k \in {"open", "left", "closed"}
    BY <1>1, <1>2, <1>3, <2>1 DEF Close
  <2>3. unserved \in [Clients -> Seq(Sendable)]
    BY <1>1
  <2> QED
    BY <1>3, <2>1, <2>2, <2>3, OneDrive
<1>4. ASSUME NEW c \in Clients, phase = "run", phase' = phase, driver' = driver,
             last' = last, NEW r \in Requests[c], ClientSends(c, r)
      PROVE  DriveInv'
  <2>1. /\ r \in Sendable
        /\ wanted' = IF r[1] = COP_SYNC THEN [wanted EXCEPT ![c] = r[3]] ELSE wanted
        /\ conn[c] = "open" /\ conn' = conn
        /\ unserved' = [unserved EXCEPT ![c] = Append(@, r)]
    BY <1>4, SendableRequests DEF ClientSends
  <2>2. PICK s, k : s = Append(unserved[c], r) /\ k = "open"
    OBVIOUS
  <2>3. PICK w \in Int :
           /\ wanted' = [wanted EXCEPT ![c] = w] /\ LastDrive(s, w)
           /\ NoneIn(s, Syncs) => NoneIn(unserved[c], Syncs) /\ w = wanted[c]
    <3>1. CASE r \in Syncs
      <4>1. r[1] = COP_SYNC /\ r[3] \in Int
        <5>1. r[1] = COP_SYNC /\ Len(r) = 3 /\ r \in Seq(0..255)
          BY <2>1, <3>1, Sizes DEF Syncs, COP_SYNC, COP_KEEPALIVE
        <5>2. \A i \in 1..Len(r) : r[i] \in 0..255
          BY ONLY <5>1, ElementOfSeq
        <5>3. 3 \in 1..Len(r)
          BY ONLY <5>1
        <5>4. r[3] \in 0..255
          BY <5>2, <5>3, Zenon
        <5>5. \A i \in 0..255 : i \in Int
          OBVIOUS
        <5> QED
          BY <5>1, <5>4, <5>5, Zenon
      <4> QED
        BY <1>1, <2>1, <2>2, <3>1, <4>1, LastDriveChanges
    <3>2. CASE r \notin Syncs
      <4>1. r[1] # COP_SYNC /\ r \in Sendable \ Syncs
        BY <2>1, <3>2 DEF Syncs
      <4>2. wanted' = [wanted EXCEPT ![c] = wanted[c]]
        BY <1>1, <2>1, <4>1
      <4> QED
        BY <1>1, <2>2, <4>1, <4>2, LastDriveChanges
    <3> QED
      BY <3>1, <3>2
  <2>4. /\ conn' = [conn EXCEPT ![c] = k] /\ unserved' = [unserved EXCEPT ![c] = s]
        /\ k \in {"open", "left", "closed"} /\ Linked(c)
    BY <1>1, <2>1, <2>2 DEF Linked
  <2>5. unserved \in [Clients -> Seq(Sendable)]
    BY <1>1
  <2> QED
    BY <1>4, <2>3, <2>4, <2>5, OneDrive
<1>5. ASSUME NEW c \in Clients, phase = "run", phase' = phase, driver' = driver,
             last' = last, ReadKeepalive(c) \/ ReadReport(c)
      PROVE  DriveInv'
  <2>1. PICK op \in Opcodes : /\ Readable(c, op) /\ Take(c, op) /\ op # COP_SYNC
                              /\ coming' = coming /\ conn' = conn
                              /\ wanted' = wanted
    BY <1>5 DEF ReadKeepalive, ReadReport, Opcodes, COP_SYNC, COP_REPORT,
       COP_KEEPALIVE
  <2>2. PICK s, k, w : /\ s = Tail(unserved[c]) /\ k = conn[c]
                      /\ w = wanted[c] /\ w \in Int
    BY <1>1
  <2>3. unserved' = [unserved EXCEPT ![c] = s]
    BY <2>1, <2>2, SessionReads
  <2>4. rx[c] # <<>> /\ Head(unserved[c])[1] = op
    BY <2>1, OneRead
  <2>5. unserved[c] # <<>> /\ Head(unserved[c]) \notin Syncs
    BY <2>1, <2>4, AtFront DEF Syncs
  <2>6. LastDrive(s, w) /\ (NoneIn(s, Syncs) => NoneIn(unserved[c], Syncs))
    BY <1>1, <2>2, <2>5, LastDriveChanges
  <2>7. /\ conn' = [conn EXCEPT ![c] = k] /\ wanted' = [wanted EXCEPT ![c] = w]
        /\ k \in {"open", "left", "closed"} /\ (k # "closed" => Linked(c))
    BY <1>1, <2>1, <2>2, <2>5 DEF Linked
  <2>8. unserved \in [Clients -> Seq(Sendable)]
    BY <1>1
  <2> QED
    BY <1>5, <2>2, <2>3, <2>6, <2>7, <2>8, OneDrive
<1>6. ASSUME NEW c \in Clients, phase = "run", phase' = phase, driver' = driver,
             last' = last, Connect(c) \/ ClientLeaves(c)
      PROVE  DriveInv'
  <2>1. PICK s, w : s = unserved[c] /\ w = wanted[c] /\ w \in Int
    BY <1>1
  <2>2. PICK k \in {"open", "left"} : /\ conn' = [conn EXCEPT ![c] = k]
                                      /\ k = "open" => conn[c] = "none"
                                      /\ k = "left" => conn[c] = "open"
    BY <1>6 DEF Connect, ClientLeaves
  <2>3. /\ unserved' = [unserved EXCEPT ![c] = s] /\ LastDrive(s, w)
        /\ wanted' = [wanted EXCEPT ![c] = w]
    BY <1>1, <1>6, <2>1 DEF Connect, ClientLeaves
  <2>4. driver # NoDriver /\ driver = c => Linked(c)
    BY <1>1, <1>6, <2>2 DEF DriveInv, Linked
  <2>5. unserved \in [Clients -> Seq(Sendable)] /\ k \in {"open", "left", "closed"}
    BY <1>1
  <2> QED
    BY <1>6, <2>1, <2>2, <2>3, <2>4, <2>5, OneDrive
<1>7. ASSUME NEW c \in Clients, phase = "run", Peer(c) \/ Handler(c),
             UNCHANGED <<busVars, exitVars, driver>>
      PROVE  DriveInv'
  <2>1. CASE Peer(c)
    BY <1>0, <1>4, <1>6, <1>7, <2>1 DEF Peer, Deliver, ClientReads
  <2>2. CASE Handler(c)
    BY <1>3, <1>5, <1>6, <1>7, <2>2
       DEF Handler, Gone, InvalidOpcode, InvalidSize, RefuseReport
  <2> QED
    BY <1>7, <2>1, <2>2
<1>8. ASSUME NEW c \in Clients, phase = "run", Sync(c) PROVE DriveInv'
  BY <1>8, DriveSync DEF Sync
<1>9. ASSUME NEW line \in Typed, Stop(line) PROVE DriveInv'
  <2>1. /\ conn' = [c \in Clients |-> "none"] /\ unserved' = [c \in Clients |-> <<>>]
        /\ wanted' = wanted /\ driver' = driver /\ phase' = "exit"
    BY <1>9 DEF Stop, Return
  <2>2. \A c \in Clients : LastDrive(unserved[c], wanted[c])'
                              = LastDrive(unserved'[c], wanted'[c])
    BY DEF LastDrive, NoneIn, LastIn
  <2>3. driver' # NoDriver => ~Linked(driver)'
    BY <2>1 DEF DriveInv, Linked
  <2> QED
    BY <1>2, <2>1, <2>2, <2>3 DEF DriveInv
<1>10. ASSUME NEW line \in Typed, Hang(line) PROVE DriveInv'
  BY <1>0, <1>10 DEF Hang
<1>11. CASE Obeying
  BY <1>0, <1>11 DEF Obeying, Follow
<1>12. CASE Exiting
  <2>1. phase' # "run"
    BY <1>12 DEF Exiting, ExitNext, DeleteNext, DeleteRest, DeleteQueueAgain,
       Finish, Delete
  <2> QED
    BY <1>0, <1>12, <2>1 DEF Exiting
<1>13. CASE UNCHANGED vehicleVars
  BY <1>0, <1>13 DEF vehicleVars
<1> QED
  BY <1>7, <1>8, <1>9, <1>10, <1>11, <1>12, <1>13 DEF VehicleNext, Running

\* From a client's socket to the wheels: once the client that drove last has no
\* request outstanding and nothing is on its way to a unit, every unit does what
\* that client's last sync request asked (carma::read_sync, mainboard.cpp).
THEOREM DrivenCorrect == VehicleSpec => []Driven
<1>1. VehicleInit => DriveInv
  BY DEF VehicleInit, SessionInit, DriveInv, LastDrive, NoneIn, Undriven
<1>2. DriveInv /\ Converged => Driven
  <2> SUFFICES ASSUME DriveInv, Converged, driver # NoDriver, Linked(driver),
                      unserved[driver] = <<>>, \A u \in Units : pending[u] = <<>>,
                      NEW u \in Units
               PROVE  obeyed[u] = wanted[driver]
    BY DEF Driven
  <2>1. NoneIn(unserved[driver], Syncs)
    BY DEF NoneIn
  <2>2. obeyed = last /\ last = [v \in Units |-> wanted[driver]]
    BY <2>1 DEF DriveInv, Converged
  <2> QED
    BY <2>2
<1> QED
  BY <1>1, <1>2, DriveStep, SessionInvariant, BytesCorrect, ConvergedCorrect, PTL
     DEF VehicleSpec
==============================================================================
