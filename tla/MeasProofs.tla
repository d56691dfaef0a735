----------------------------- MODULE MeasProofs -----------------------------
(* Proofs about Meas: what holds of its buffer whatever the device sends and *)
(* however the reads cut it.                                                 *)
EXTENDS Meas, StreamLemmas

\* A reading is made of characters.
LEMMA ReadingType ==
    ASSUME NEW r \in Sent PROVE Reading(r) \in Seq(Chars)
<1>0. 0 \in Magnitudes
  BY DEF Magnitudes
<1> USE SentAssumption, LineAssumption
<1>1. r[1] \in Axes /\ r[2] \in Signs /\ r[3] \in Magnitudes
  OBVIOUS
<1>2. Magnitude(r[3]) \in Seq(Chars)
  <2>1. Digits \in Nat /\ \A i \in 1..Digits : i \in 0..7
    OBVIOUS
  <2>2. \A i \in 1..Digits : Digit(r[3], i) \in Chars
    BY ONLY <1>1, <2>1, Zenon DEF Digit, Chars
  <2> QED
    BY ONLY <2>1, <2>2 DEF Magnitude
<1>3. /\ Char(r[1]) \in Chars /\ Char("=") \in Chars /\ Char(r[2]) \in Chars
      /\ Char("newline") \in Chars
  BY <1>0, <1>1 DEF Char, Chars
<1>4. /\ <<Char(r[1]), Char("="), Char(r[2])>> \in Seq(Chars)
      /\ <<Char("newline")>> \in Seq(Chars)
  BY <1>3
<1> QED
  BY <1>2, <1>4, ConcatProperties DEF Reading

\* A piece of a sequence is a sequence of the same elements, and is as long
\* as its bounds say.
LEMMA Piece ==
    ASSUME NEW S, NEW s \in Seq(S), NEW m \in 1..Len(s) + 1, NEW n \in m-1..Len(s)
    PROVE  SubSeq(s, m, n) \in Seq(S) /\ Len(SubSeq(s, m, n)) = n - m + 1
BY SubSeqProperties

\* After the sign at least one character is popped and at most seven.
LEMMA PoppedType == ASSUME NEW b PROVE Popped(b) \in 1..7
<1> DEFINE E == Ends(b)
<1>1. CASE E = {}
  BY <1>1 DEF Popped
<1>2. CASE E # {}
  <2>1. E \subseteq 1..7
    BY DEF Ends
  <2>2. \E i \in E : \A j \in E : i <= j
    <3> DEFINE P(k) == k \in E
    <3>1. CASE 1 \in E BY <2>1, <3>1
    <3>2. CASE 1 \notin E /\ 2 \in E BY <2>1, <3>2
    <3>3. CASE 1 \notin E /\ 2 \notin E /\ 3 \in E BY <2>1, <3>3
    <3>4. CASE 1 \notin E /\ 2 \notin E /\ 3 \notin E /\ 4 \in E BY <2>1, <3>4
    <3>5. CASE E \subseteq 5..7
      BY <1>2, <2>1, <3>5
    <3> QED BY <2>1, <3>1, <3>2, <3>3, <3>4, <3>5
  <2> QED
    BY <1>2, <2>1, <2>2 DEF Popped
<1> QED
  BY <1>1, <1>2

\* A read appends characters, or nothing, within the size of the buffer.
LEMMA Pushed ==
    ASSUME TypeOK, NEW k \in 1..Len(line), Push(SubSeq(line, 1, k))
    PROVE  /\ buffer' \in Seq(Chars) /\ Len(buffer') <= MEAS_BUFFER_SIZE
           /\ SubSeq(line, k + 1, Len(line)) \in Seq(Chars)
<1>1. /\ SubSeq(line, 1, k) \in Seq(Chars) /\ Len(SubSeq(line, 1, k)) = k
      /\ SubSeq(line, k + 1, Len(line)) \in Seq(Chars)
  BY LenProperties, Piece DEF TypeOK
<1> QED
  BY <1>1, ConcatProperties, LenProperties DEF TypeOK, Push, MEAS_BUFFER_SIZE

\* Type correctness: in particular the buffer of 32 characters, whose size
\* push_data checks, is never overrun by what the device sends.
THEOREM TypeCorrect == Spec => []TypeOK
<1>1. Init => TypeOK
  <2> SUFFICES ASSUME Init PROVE TypeOK
    OBVIOUS
  <2> USE LineAssumption
  <2>1. ASSUME NEW r \in Sent, NEW n \in 1..Digits + 4
        PROVE  SubSeq(Reading(r), n + 1, Digits + 4) \in Seq(Chars)
    <3>1. Reading(r) \in Seq(Chars)
      BY ReadingType
    <3>2. Len(Reading(r)) = Digits + 4
      BY DEF Reading, Magnitude
    <3> QED
      BY <3>1, <3>2, SubSeqProperties
  <2>2. line \in Seq(Chars)
    BY <2>1 DEF Init
  <2> QED
    BY <2>2 DEF Init, TypeOK, MEAS_BUFFER_SIZE, Values, Unset
<1>2. TypeOK /\ [Next]_vars => TypeOK'
  <2> SUFFICES ASSUME TypeOK, [Next]_vars PROVE TypeOK'
    OBVIOUS
  <2>1. ASSUME NEW k \in 1..Len(line), Read(k)
        PROVE  TypeOK'
    BY <2>1, Pushed DEF Read, TypeOK
  <2>2. CASE Skip
    <3>1. buffer \in Seq(Chars) /\ buffer # <<>>
      BY <2>2 DEF Skip, TypeOK, Shortest
    <3>2. Tail(buffer) \in Seq(Chars) /\ Len(Tail(buffer)) = Len(buffer) - 1
      BY <3>1, HeadTailProperties
    <3> QED
      BY <2>2, <3>1, <3>2, LenProperties DEF Skip, TypeOK, MEAS_BUFFER_SIZE
  <2>3. CASE Parse
    <3>1. CASE Popped(buffer) + 3 > Len(buffer)
      BY <2>3, <3>1 DEF Parse, TypeOK
    <3>2. CASE ~(Popped(buffer) + 3 > Len(buffer))
      <4>1. /\ buffer' = SubSeq(buffer, Popped(buffer) + 4, Len(buffer))
            /\ \E v \in Parsed(buffer) : Measured(Head(buffer)[1], v)
            /\ UNCHANGED <<pc, line, sent>>
        BY <2>3, <3>2 DEF Parse
      <4>2. buffer' \in Seq(Chars) /\ Len(buffer') <= Len(buffer)
        <5>1. Popped(buffer) \in 1..7 /\ Len(buffer) \in Nat
          BY PoppedType, LenProperties DEF TypeOK
        <5>2. /\ Popped(buffer) + 4 \in 1..Len(buffer) + 1
              /\ Len(buffer) \in Popped(buffer) + 4 - 1 .. Len(buffer)
          BY <3>2, <5>1
        <5>3. buffer' \in Seq(Chars)
              /\ Len(buffer') = Len(buffer) - (Popped(buffer) + 4) + 1
          BY <4>1, <5>2, Piece DEF TypeOK
        <5> QED
          BY <5>1, <5>3
      <4>3. axis' \in [Axes -> Values] /\ gyro' \in [Axes -> SUBSET Values]
        <5>1. Parsed(buffer) \subseteq Values
          BY DEF Parsed, Known, Values, Signs
        <5>2. axis' \in [Axes -> Values]
          BY <4>1, <5>1 DEF Measured, TypeOK
        <5>3. gyro' = gyro \/ gyro' = [a \in Axes |-> {axis'[a]}]
          BY <4>1 DEF Measured, GyroEvent
        <5> QED
          BY <5>2, <5>3 DEF TypeOK
      <4> QED
        BY <4>1, <4>2, <4>3, LenProperties DEF TypeOK, MEAS_BUFFER_SIZE
    <3> QED
      BY <3>1, <3>2
  <2>4. CASE EndLoop
    BY <2>4 DEF EndLoop, TypeOK
  <2>5. ASSUME NEW r \in Sent, DeviceSends(r)
        PROVE  TypeOK'
    <3>1. line' \in Seq(Chars)
      BY <2>5, ReadingType, ConcatProperties DEF DeviceSends, TypeOK
    <3>2. sent' \in [Axes -> SUBSET Known]
      <4>1. r[2] \in Signs /\ Signed(r[2], r[3]) \in Known
        BY SentAssumption DEF Known
      <4> QED
        BY <2>5, <4>1 DEF DeviceSends, TypeOK
    <3> QED
      BY <2>5, <3>1, <3>2 DEF DeviceSends, TypeOK
  <2>6. CASE ClientJoins
    BY <2>6 DEF ClientJoins, Unset, TypeOK
  <2>7. CASE UNCHANGED vars
    BY <2>7 DEF vars, TypeOK
  <2> QED
    BY <2>1, <2>2, <2>3, <2>4, <2>5, <2>6, <2>7 DEF Next, DataAvailable
<1> QED
  BY <1>1, <1>2, PTL DEF Spec

\* Between two reads fewer than 9 characters are buffered, however much noise
\* or whatever part of a reading the buffer was given.
THEOREM LeftoverCorrect == Spec => []LeftoverShort
<1>1. Init => LeftoverShort
  BY EmptySeq, LenProperties DEF Init, LeftoverShort, Shortest
<1>2. TypeOK /\ LeftoverShort /\ [Next]_vars => LeftoverShort'
  BY LenProperties
     DEF LeftoverShort, Next, DataAvailable, Read, Skip, Parse, EndLoop,
         DeviceSends, ClientJoins, vars
<1> QED
  BY <1>1, <1>2, TypeCorrect, PTL DEF Spec

\* Where at most 24 characters arrive between two reads, push_data never finds
\* its buffer too full and throws nothing away.
THEOREM NothingDroppedCorrect ==
    ASSUME MaxChunk + Shortest - 1 <= MEAS_BUFFER_SIZE
    PROVE  Spec => NothingDropped
<1>1. TypeOK /\ LeftoverShort /\ [Next]_vars =>
        [line' # line /\ Len(line') < Len(line) =>
           buffer' = buffer \o SubSeq(line, 1, Len(line) - Len(line'))]_vars
  <2> SUFFICES ASSUME TypeOK, LeftoverShort, [Next]_vars,
                      line' # line, Len(line') < Len(line)
               PROVE  buffer' = buffer \o SubSeq(line, 1, Len(line) - Len(line'))
    BY DEF vars
  <2> USE LineAssumption
  <2>1. ASSUME NEW r \in Sent, DeviceSends(r)
        PROVE  FALSE
    <3>1. Len(line') = Len(line) + Len(Reading(r))
      BY <2>1, ReadingType, ConcatProperties DEF DeviceSends, TypeOK
    <3> QED
      BY <3>1, ReadingType, LenProperties DEF TypeOK
  <2>2. PICK k \in 1..Len(line) : Read(k)
    BY <2>1 DEF Next, DataAvailable, Skip, Parse, EndLoop, ClientJoins, vars
  <2>3. /\ Len(SubSeq(line, 1, k)) = k
        /\ Len(line') = Len(line) - k
    BY <2>2, Piece, LenProperties DEF Read, TypeOK
  <2>4. k <= MaxChunk /\ Len(buffer) < Shortest
    BY <2>2 DEF Read, LeftoverShort
  <2>5. Len(buffer) + Len(SubSeq(line, 1, k)) <= MEAS_BUFFER_SIZE
    BY <2>3, <2>4, LenProperties DEF TypeOK, MEAS_BUFFER_SIZE, Shortest
  <2>6. buffer' = buffer \o SubSeq(line, 1, k)
    BY <2>2, <2>3, <2>5, LenProperties DEF Read, Push, TypeOK, MEAS_BUFFER_SIZE
  <2> QED
    BY <2>3, <2>6, LenProperties DEF TypeOK
<1> QED
  BY <1>1, TypeCorrect, LeftoverCorrect, PTL DEF Spec, NothingDropped
-----------------------------------------------------------------------------
(* One reading *)

\* A reading is an axis, what is none, and digits up to its end.
LEMMA ReadingShape ==
    ASSUME NEW r \in Sent
    PROVE  LET R == Reading(r) IN
           /\ Len(R) = Digits + 4 /\ Len(Magnitude(r[3])) = Digits
           /\ R[1] = Char(r[1]) /\ R[3] = Char(r[2]) /\ IsAxis(R[1])
           /\ \A i \in 2..Digits + 4 : ~IsAxis(R[i])
           /\ \A i \in 1..Digits : R[i + 3] = Magnitude(r[3])[i] /\ IsDigit(R[i + 3])
           /\ ~IsDigit(R[Digits + 4])
<1> DEFINE m == Magnitude(r[3])
           f == <<Char(r[1]), Char("="), Char(r[2])>>
           e == <<Char("newline")>>
           R == Reading(r)
<1>0. Digits \in 1..7
  BY LineAssumption
<1>1. r[1] \in Axes /\ r[2] \in Signs /\ r[3] \in Magnitudes
  BY SentAssumption
<1>2. Len(m) = Digits /\ \A i \in 1..Digits : m[i] = Digit(r[3], i)
  BY <1>0 DEF Magnitude
<1>3. /\ Len(R) = Digits + 4 /\ R[1] = f[1] /\ R[2] = f[2] /\ R[3] = f[3]
      /\ \A i \in 1..Digits : R[i + 3] = m[i]
      /\ R[Digits + 4] = e[1]
  <2>1. f \in Seq(Chars) /\ m \in Seq(Chars) /\ e \in Seq(Chars)
    <3>1. m \in Seq(Chars)
      BY <1>0, <1>1 DEF Magnitude, Digit, Chars
    <3>2. 0 \in Magnitudes
      BY DEF Magnitudes
    <3> QED
      BY <1>1, <3>1, <3>2 DEF Char, Chars
  <2>2. Len(f) = 3 /\ Len(e) = 1
    OBVIOUS
  <2>3. R = (f \o m) \o e
    BY DEF Reading
  <2> HIDE DEF f, m, e, R
  <2>4. /\ f \o m \in Seq(Chars) /\ Len(f \o m) = Digits + 3
        /\ \A i \in 1..Digits + 3 :
              (f \o m)[i] = IF i <= 3 THEN f[i] ELSE m[i - 3]
    <3>1. /\ f \o m \in Seq(Chars) /\ Len(f \o m) = Len(f) + Len(m)
          /\ \A i \in 1..Len(f) + Len(m) :
                (f \o m)[i] = IF i <= Len(f) THEN f[i] ELSE m[i - Len(f)]
      BY ONLY <2>1, ConcatProperties
    <3>2. Len(f) + Len(m) = Digits + 3 /\ Len(f) = 3
      BY ONLY <1>0, <1>2, <2>2
    <3> QED
      BY ONLY <3>1, <3>2
  <2>5. /\ Len(R) = Digits + 4
        /\ \A i \in 1..Digits + 4 :
              R[i] = IF i <= Digits + 3 THEN (f \o m)[i] ELSE e[i - (Digits + 3)]
    <3> DEFINE g == f \o m
    <3>1. g \in Seq(Chars) /\ Len(g) = Digits + 3 /\ R = g \o e
      BY <2>3, <2>4
    <3> HIDE DEF g
    <3>2. /\ Len(R) = Len(g) + Len(e)
          /\ \A i \in 1..Len(g) + Len(e) :
                R[i] = IF i <= Len(g) THEN g[i] ELSE e[i - Len(g)]
      BY ONLY <2>1, <3>1, ConcatProperties
    <3>3. Len(g) + Len(e) = Digits + 4
      BY ONLY <1>0, <2>2, <3>1
    <3> QED
      BY <3>1, <3>2, <3>3 DEF g
  <2>6. \A i \in 1..Digits + 3 : R[i] = IF i <= 3 THEN f[i] ELSE m[i - 3]
    BY <1>0, <2>4, <2>5
  <2>7. R[1] = f[1] /\ R[2] = f[2] /\ R[3] = f[3]
    BY <1>0, <2>6
  <2>8. \A i \in 1..Digits : i + 3 \in 1..Digits + 3 /\ ~(i + 3 <= 3) /\ i + 3 - 3 = i
    BY <1>0
  <2>9. \A i \in 1..Digits : R[i + 3] = m[i]
    BY <2>6, <2>8
  <2>10. R[Digits + 4] = e[1]
    <3>1. PICK i \in 1..Digits + 4 : i = Digits + 4
      BY <1>0
    <3>2. ~(i <= Digits + 3) /\ i - (Digits + 3) = 1
      BY ONLY <1>0, <3>1
    <3>3. R[i] = IF i <= Digits + 3 THEN (f \o m)[i] ELSE e[i - (Digits + 3)]
      BY <2>5, Zenon
    <3> QED
      BY ONLY <3>1, <3>2, <3>3
  <2> QED
    BY <2>5, <2>7, <2>9, <2>10
<1>4. \A i \in 1..Digits : IsDigit(m[i]) /\ ~IsAxis(m[i])
  BY <1>2 DEF Digit, IsDigit, IsAxis, Axes
<1>5. /\ f[1] = Char(r[1]) /\ f[3] = Char(r[2]) /\ IsAxis(f[1])
      /\ ~IsAxis(f[2]) /\ ~IsAxis(f[3]) /\ ~IsAxis(e[1]) /\ ~IsDigit(e[1])
  BY <1>1 DEF Char, IsAxis, IsDigit, Axes, Signs
<1>6. \A i \in 2..Digits + 4 : ~IsAxis(R[i])
  <2> SUFFICES ASSUME NEW i \in 2..Digits + 4 PROVE ~IsAxis(R[i])
    OBVIOUS
  <2>1. i = 2 \/ i = 3 \/ i = Digits + 4 \/ (i - 3 \in 1..Digits /\ i - 3 + 3 = i)
    BY <1>0
  <2> HIDE DEF f, m, e, R
  <2>2. i - 3 \in 1..Digits /\ i - 3 + 3 = i => R[i] = m[i - 3]
    BY <1>3
  <2> QED
    BY <1>3, <1>4, <1>5, <2>1, <2>2
<1> QED
  BY <1>2, <1>3, <1>4, <1>5, <1>6
\* A reading that is in the buffer as a whole is popped as a whole, and says
\* what the device measured.
LEMMA WholeReading ==
    ASSUME Digits <= 5, NEW r \in Sent, NEW b \in Seq(Chars),
           Digits + 4 <= Len(b), \A i \in 1..Digits + 4 : b[i] = Reading(r)[i]
    PROVE  Popped(b) = Digits + 1 /\ Parsed(b) = {Signed(r[2], r[3])}
<1> DEFINE m == Magnitude(r[3])
<1>0. Digits \in 1..5 /\ Len(b) \in Nat
  BY LineAssumption, LenProperties
<1>1. /\ Len(m) = Digits /\ b[3] = Char(r[2]) /\ ~IsDigit(b[Digits + 4])
      /\ \A i \in 1..Digits : b[i + 3] = m[i] /\ IsDigit(b[i + 3])
  <2>1. /\ 3 \in 1..Digits + 4 /\ Digits + 4 \in 1..Digits + 4
        /\ \A i \in 1..Digits : i + 3 \in 1..Digits + 4
    BY <1>0
  <2> QED
    BY <2>1, ReadingShape
<1>2. Popped(b) = Digits + 1
  <2> DEFINE E == Ends(b)
  <2>1. Digits + 1 \in E
    BY <1>0, <1>1 DEF Ends
  <2>2. \A i \in E : i \in 1..7 /\ Digits + 1 <= i
    BY <1>0, <1>1 DEF Ends
  <2> HIDE DEF E
  <2>3. \A i \in E : (\A j \in E : i <= j) => i = Digits + 1
    BY <1>0, <2>1, <2>2
  <2>4. E # {} /\ Popped(b) = CHOOSE i \in E : \A j \in E : i <= j
    BY <2>1 DEF Popped, E
  <2> QED
    BY <2>1, <2>2, <2>3, <2>4
<1>3. SubSeq(b, 4, Digits + 3) = m
  <2> DEFINE s == SubSeq(b, 4, Digits + 3)
  <2>1. \A i \in 4..Digits + 3 : b[i] \in Chars
    <3>1. \A i \in 4..Digits + 3 : i \in 1..Len(b)
      BY <1>0
    <3> QED
      BY <3>1, ElementOfSeq
  <2>2. /\ s \in Seq(Chars) /\ Len(s) = Digits
        /\ \A i \in 1..Digits : s[i] = b[4 + i - 1]
    BY <1>0, <2>1, SubSeqProperties
  <2>3. \A i \in 1..Digits : s[i] = m[i]
    <3>1. \A i \in 1..Digits : 4 + i - 1 = i + 3
      BY <1>0
    <3> QED
      BY <1>1, <2>2, <3>1
  <2>4. m \in Seq(Chars)
    BY <1>0, SentAssumption DEF Magnitude, Digit, Chars
  <2> HIDE DEF s, m
  <2> QED
    BY <1>1, <2>2, <2>3, <2>4, SeqEqual DEF s
<1>4. \A q \in Sent : Magnitude(q[3]) = m <=> q[3] = r[3]
  <2>1. \A q \in Sent : Magnitude(q[3])[1] = Digit(q[3], 1)
    BY <1>0 DEF Magnitude
  <2> QED
    BY <2>1 DEF Digit
<1>5. {q \in Sent : SubSeq(b, 4, Popped(b) + 2) = Magnitude(q[3])}
        = {q \in Sent : q[3] = r[3]}
  <2>1. Popped(b) + 2 = Digits + 3
    BY <1>0, <1>2
  <2> QED
    BY <1>3, <1>4, <2>1
<1>6. (IF b[3] = Char("-") THEN "-" ELSE "+") = r[2]
  BY <1>1, SentAssumption DEF Char, Signs
<1> HIDE DEF m
<1>7. Parsed(b) = {Signed(r[2], q[3]) : q \in {q \in Sent : q[3] = r[3]}}
  BY <1>5, <1>6 DEF Parsed
<1> QED
  BY <1>2, <1>7
-----------------------------------------------------------------------------
(* The stream *)

\* The number of characters a read may bring, so that they fit behind what the
\* last one left, and the length of a reading, so that the loop which waits for
\* the shortest waits for a whole one.
Fits == MaxChunk + Shortest - 1 <= MEAS_BUFFER_SIZE /\ Digits <= 5

\* What is left of a reading begun before the line was opened is noise.
Noise == {<<c>> : c \in {x \in Chars : ~IsAxis(x)}}
Bits  == Noise \cup {Reading(r) : r \in Sent}

\* The buffer and the line hold noise and whole readings, from a first
\* character on, and the loop pops no more than it pushed.
StreamInv == unread \in Seq(Bits) /\ StreamIntact /\ LeftoverShort /\ NoUnderrun

\* What a turn of the loop, or the device, does to the stream.
Takes(p) == unread # <<>> /\ p = Head(unread) /\ unread' = Tail(unread)
TakesNoise(p) == Takes(p) /\ UNCHANGED <<axis, gyro, sent>>
TakesReading(r) == /\ Takes(Reading(r)) /\ Measured(r[1], Signed(r[2], r[3]))
                   /\ UNCHANGED sent
SendsReading(r) == /\ unread' = Append(unread, Reading(r))
                   /\ sent' = [sent EXCEPT ![r[1]] = {Signed(r[2], r[3])}]
                   /\ UNCHANGED <<axis, gyro>>
StreamStep == \/ \E p \in Noise : TakesNoise(p)
              \/ \E r \in Sent : TakesReading(r) \/ SendsReading(r)
              \/ UNCHANGED <<unread, axis, sent>> /\ gyro' \in {gyro, Unset}

LEMMA BitTypes ==
    /\ Noise \subseteq Seq(Chars) /\ Bits \subseteq Seq(Chars)
    /\ Seq(Bits) \subseteq Seq(Seq(Chars))
    /\ \A p \in Noise : Len(p) = 1 /\ ~IsAxis(p[1])
    /\ \A p \in Bits : Len(p) # 0
<1>1. ASSUME NEW c \in Chars, ~IsAxis(c)
      PROVE  <<c>> \in Seq(Chars) /\ Len(<<c>>) = 1 /\ <<c>>[1] = c
  OBVIOUS
<1>2. \A p \in Noise : p \in Seq(Chars) /\ Len(p) = 1 /\ ~IsAxis(p[1])
  BY <1>1 DEF Noise
<1>3. \A r \in Sent : Reading(r) \in Seq(Chars) /\ Len(Reading(r)) # 0
  <2>1. Digits + 4 # 0
    BY LineAssumption
  <2> QED
    BY <2>1, ReadingType, ReadingShape
<1>4. Bits \subseteq Seq(Chars) /\ \A p \in Bits : Len(p) # 0
  BY <1>2, <1>3 DEF Bits
<1> QED
  BY <1>2, <1>4, SeqMonotonic

\* The front of the buffer is the front of the next bit of the stream.
LEMMA NextBit ==
    ASSUME TypeOK, StreamInv, Len(buffer) >= Shortest
    PROVE  /\ unread # <<>> /\ Head(unread) \in Bits
           /\ Tail(unread) \in Seq(Bits)
           /\ Head(unread)[1] = Head(buffer) /\ Head(buffer) = buffer[1]
           /\ \A i \in 1..Len(buffer) :
                 i <= Len(Head(unread)) => buffer[i] = Head(unread)[i]
           /\ Len(Head(unread)) <= Len(buffer) =>
                 SubSeq(buffer, Len(Head(unread)) + 1, Len(buffer)) \o line
                    = FlattenSeq(Tail(unread))
<1> DEFINE p == Head(unread)
           q == FlattenSeq(Tail(unread))
<1>1. /\ buffer \in Seq(Chars) /\ line \in Seq(Chars) /\ unread \in Seq(Bits)
      /\ unread \in Seq(Seq(Chars))
      /\ Len(buffer) \in Nat /\ Len(line) \in Nat /\ Len(buffer) >= 9
  BY BitTypes, LenProperties DEF TypeOK, StreamInv, Shortest
<1>2. unread # <<>>
  <2>1. Len(buffer \o line) = Len(buffer) + Len(line)
    BY <1>1, ConcatProperties
  <2>2. Len(buffer \o line) # 0
    BY ONLY <1>1, <2>1
  <2> SUFFICES ASSUME unread = <<>> PROVE FALSE
    OBVIOUS
  <2>3. buffer \o line = <<>>
    BY FlattenEmpty DEF StreamInv, StreamIntact
  <2> QED
    BY <2>2, <2>3
<1>3. p \in Bits /\ Tail(unread) \in Seq(Bits)
  BY <1>1, <1>2, HeadTailProperties
<1>4. /\ p \in Seq(Chars) /\ q \in Seq(Chars) /\ Len(p) \in Nat \ {0}
      /\ buffer \o line = p \o q
  <2>1. p \in Seq(Chars) /\ Tail(unread) \in Seq(Seq(Chars)) /\ Len(p) # 0
    BY <1>3, BitTypes
  <2>2. q \in Seq(Chars)
    BY <2>1, FlattenType
  <2>3. FlattenSeq(unread) = p \o q
    BY <1>1, <1>2, FlattenTail
  <2> QED
    BY <2>1, <2>2, <2>3, LenProperties DEF StreamInv, StreamIntact
<1> HIDE DEF p, q
<1>5. \A i \in 1..Len(buffer) : i <= Len(p) => buffer[i] = p[i]
  <2>1. buffer \in Seq(Chars) /\ line \in Seq(Chars)
    BY <1>1
  <2> QED
    BY ONLY <1>4, <2>1, FrontsAgree
<1>6. Len(p) <= Len(buffer) => SubSeq(buffer, Len(p) + 1, Len(buffer)) \o line = q
  <2>1. buffer \in Seq(Chars) /\ line \in Seq(Chars)
    BY <1>1
  <2> QED
    BY ONLY <1>4, <2>1, FrontTaken
<1>7. Head(buffer) = buffer[1] /\ buffer[1] = p[1]
  <2>1. 1 \in 1..Len(buffer) /\ 1 <= Len(p)
    BY <1>1, <1>4
  <2> QED
    BY <1>5, <2>1
<1> QED
  BY <1>2, <1>3, <1>5, <1>6, <1>7 DEF p, q

LEMMA StreamSteps ==
    ASSUME Fits, TypeOK, StreamInv, [Next]_vars
    PROVE  StreamInv' /\ StreamStep
<1> DEFINE p == Head(unread)
<1>0. /\ buffer \in Seq(Chars) /\ line \in Seq(Chars) /\ Len(buffer) \in Nat
      /\ Len(line) \in Nat /\ unread \in Seq(Bits) /\ unread \in Seq(Seq(Chars))
      /\ buffer \o line = FlattenSeq(unread)
  BY BitTypes, LenProperties DEF TypeOK, StreamInv, StreamIntact
<1>1. ASSUME NEW k \in 1..Len(line), Read(k) PROVE StreamInv' /\ StreamStep
  <2> DEFINE bytes == SubSeq(line, 1, k)
             rest  == SubSeq(line, k + 1, Len(line))
  <2>1. k \in 0..Len(line)
    BY <1>0
  <2>2. /\ bytes \in Seq(Chars) /\ Len(bytes) = k /\ rest \in Seq(Chars)
        /\ line = bytes \o rest
    BY <1>0, <2>1, Cut
  <2>3. /\ k <= MaxChunk /\ Len(buffer) < Shortest /\ line' = rest
        /\ pc' = "parse" /\ UNCHANGED <<axis, gyro, sent, unread>> /\ Push(bytes)
    BY <1>1 DEF Read, StreamInv, LeftoverShort
  <2> HIDE DEF bytes, rest
  <2>4. ~(Len(buffer) + Len(bytes) > MEAS_BUFFER_SIZE)
    BY <1>0, <2>2, <2>3, LineAssumption DEF Fits, MEAS_BUFFER_SIZE, Shortest
  <2>5. buffer' = buffer \o bytes
    BY <2>3, <2>4 DEF Push
  <2>6. buffer' \o line' = buffer \o line
    <3>1. buffer \in Seq(Chars) /\ bytes \in Seq(Chars) /\ rest \in Seq(Chars)
      BY <1>0, <2>2
    <3>2. (buffer \o bytes) \o rest = buffer \o (bytes \o rest)
      BY ONLY <3>1, ConcatAssociative, SMTT(30)
    <3> QED
      BY <2>2, <2>3, <2>5, <3>2
  <2> QED
    BY <1>0, <2>3, <2>6
       DEF StreamInv, StreamIntact, LeftoverShort, NoUnderrun, StreamStep
<1>2. CASE Skip
  <2>1. /\ Len(buffer) >= Shortest /\ ~IsAxis(Head(buffer)) /\ buffer' = Tail(buffer)
        /\ UNCHANGED <<line, pc, axis, gyro, sent>> /\ pc = "parse"
    BY <1>2 DEF Skip
  <2>2. p \in Noise
    <3>1. p \in Bits /\ ~IsAxis(p[1])
      BY <2>1, NextBit
    <3> QED
      BY <3>1, ReadingShape DEF Bits
  <2> HIDE DEF p
  <2>3. Len(p) = 1 /\ Len(p) <= Len(buffer)
    <3>1. Len(p) = 1
      BY <2>2, BitTypes
    <3>2. Len(buffer) \in Nat /\ Len(buffer) >= 9
      BY <1>0, <2>1 DEF Shortest
    <3> QED
      BY ONLY <3>1, <3>2
  <2>4. Tail(buffer) = SubSeq(buffer, Len(p) + 1, Len(buffer))
    <3>1. Len(buffer) # 0 /\ Len(p) + 1 = 2
      BY <1>0, <2>3
    <3>2. buffer # <<>>
      BY <3>1, NotEmpty, Zenon
    <3> QED
      BY <1>0, <3>1, <3>2, TailIsSubSeq
  <2>5. /\ unread # <<>> /\ Tail(unread) \in Seq(Bits)
        /\ buffer' \o line' = FlattenSeq(Tail(unread))
    BY <2>1, <2>3, <2>4, NextBit DEF p
  <2>6. unread' = Tail(unread)
    BY <1>2, <2>5 DEF Skip
  <2> QED
    BY <2>1, <2>2, <2>5, <2>6
       DEF StreamInv, StreamIntact, LeftoverShort, NoUnderrun, StreamStep,
           TakesNoise, Takes, p
<1>3. CASE Parse
  <2>1. /\ Len(buffer) >= Shortest /\ IsAxis(Head(buffer)) /\ pc = "parse"
        /\ UNCHANGED <<line, sent>>
    BY <1>3 DEF Parse
  <2>2. PICK r \in Sent : p = Reading(r)
    <3>1. p \in Bits /\ IsAxis(p[1])
      BY <2>1, NextBit
    <3> QED
      BY <3>1, BitTypes DEF Bits
  <2>3. Digits \in 1..5 /\ Len(p) = Digits + 4 /\ Digits + 4 <= Len(buffer)
    BY <1>0, <2>1, <2>2, ReadingShape, LineAssumption DEF Fits, Shortest
  <2>4. \A i \in 1..Digits + 4 : buffer[i] = Reading(r)[i]
    <3>1. \A i \in 1..Digits + 4 : i \in 1..Len(buffer) /\ i <= Len(p)
      BY <1>0, <2>3
    <3> QED
      BY <2>1, <2>2, <3>1, NextBit
  <2>5. Popped(buffer) = Digits + 1 /\ Parsed(buffer) = {Signed(r[2], r[3])}
    BY <1>0, <2>3, <2>4, WholeReading
  <2>6. Head(buffer)[1] = r[1]
    BY <2>1, <2>2, NextBit, ReadingShape DEF Char
  <2>7. /\ Measured(r[1], Signed(r[2], r[3])) /\ pc' = pc
        /\ buffer' = SubSeq(buffer, Len(p) + 1, Len(buffer))
        /\ unread' = IF unread = <<>> THEN <<>> ELSE Tail(unread)
    <3>1. ~(Popped(buffer) + 3 > Len(buffer)) /\ Popped(buffer) + 4 = Len(p) + 1
      BY <1>0, <2>3, <2>5
    <3> QED
      BY <1>3, <2>5, <2>6, <3>1 DEF Parse
  <2>8. /\ unread # <<>> /\ Tail(unread) \in Seq(Bits)
        /\ buffer' \o line' = FlattenSeq(Tail(unread))
    BY <2>1, <2>3, <2>7, NextBit
  <2> QED
    BY <2>1, <2>2, <2>7, <2>8
       DEF StreamInv, StreamIntact, LeftoverShort, NoUnderrun, StreamStep,
           TakesReading, Takes
<1>4. CASE EndLoop
  BY <1>4 DEF EndLoop, StreamInv, StreamIntact, LeftoverShort, NoUnderrun, StreamStep
<1>5. ASSUME NEW r \in Sent, DeviceSends(r) PROVE StreamInv' /\ StreamStep
  <2>1. Reading(r) \in Bits /\ Reading(r) \in Seq(Chars)
    BY ReadingType DEF Bits
  <2>2. /\ line' = line \o Reading(r) /\ unread' = Append(unread, Reading(r))
        /\ sent' = [sent EXCEPT ![r[1]] = {Signed(r[2], r[3])}]
        /\ UNCHANGED <<buffer, pc, axis, gyro>>
    BY <1>5 DEF DeviceSends
  <2>3. FlattenSeq(unread') = FlattenSeq(unread) \o Reading(r)
    BY <1>0, <2>1, <2>2, FlattenAppend
  <2>4. (buffer \o line) \o Reading(r) = buffer \o (line \o Reading(r))
    <3>1. buffer \in Seq(Chars) /\ line \in Seq(Chars)
      BY <1>0
    <3> QED
      BY ONLY <2>1, <3>1, ConcatAssociative, SMTT(30)
  <2>5. unread' \in Seq(Bits)
    BY <1>0, <2>1, <2>2, AppendProperties
  <2> QED
    BY <1>0, <2>2, <2>3, <2>4, <2>5
       DEF StreamInv, StreamIntact, LeftoverShort, NoUnderrun, StreamStep,
           SendsReading
<1>6. CASE ClientJoins \/ UNCHANGED vars
  BY <1>6 DEF ClientJoins, vars, StreamInv, StreamIntact, LeftoverShort,
              NoUnderrun, StreamStep
<1> QED
  BY <1>1, <1>2, <1>3, <1>4, <1>5, <1>6 DEF Next, DataAvailable

\* What is left of the first reading is noise, and nothing is buffered.
LEMMA StreamStart == Init => StreamInv
<1> SUFFICES ASSUME Init PROVE StreamInv
  OBVIOUS
<1>1. PICK r \in Sent, n \in 1..Digits + 4 :
         line = SubSeq(Reading(r), n + 1, Digits + 4)
  BY DEF Init
<1>2. /\ line \in Seq(Chars) /\ DOMAIN line = 1..Len(line) /\ Len(line) \in Nat
      /\ \A i \in DOMAIN line : line[i] \in Chars /\ ~IsAxis(line[i])
  <2> DEFINE R == Reading(r)
  <2>1. /\ R \in Seq(Chars) /\ Len(R) = Digits + 4 /\ Digits \in 1..7
        /\ \A i \in 2..Digits + 4 : ~IsAxis(R[i])
    BY ReadingType, ReadingShape, LineAssumption
  <2> HIDE DEF R
  <2>2. \A i \in n + 1..Digits + 4 : R[i] \in Chars
    <3>1. \A i \in n + 1..Digits + 4 : i \in 1..Len(R)
      BY <2>1
    <3> QED
      BY <2>1, <3>1, ElementOfSeq
  <2>3. PICK lo \in Int, hi \in Int : lo = n + 1 /\ hi = Digits + 4
    BY <2>1
  <2>4. /\ line \in Seq(Chars)
        /\ Len(line) = IF lo <= hi THEN hi - lo + 1 ELSE 0
        /\ \A i \in 1..hi - lo + 1 : line[i] = R[lo + i - 1]
    <3>1. line = SubSeq(R, lo, hi)
      BY <1>1, <2>3 DEF R
    <3>2. \A i \in lo..hi : R[i] \in Chars
      BY <2>2, <2>3
    <3>3. /\ SubSeq(R, lo, hi) \in Seq(Chars)
          /\ Len(SubSeq(R, lo, hi)) = IF lo <= hi THEN hi - lo + 1 ELSE 0
          /\ \A i \in 1..hi - lo + 1 : SubSeq(R, lo, hi)[i] = R[lo + i - 1]
      BY <3>2, SubSeqProperties
    <3> QED
      BY <3>1, <3>3
  <2>5. /\ Len(line) = Digits + 4 - n
        /\ \A i \in 1..Digits + 4 - n :
              /\ line[i] = R[n + i] /\ n + i \in 2..Digits + 4
              /\ n + i \in n + 1..Digits + 4
    <3>1. hi - lo + 1 = Digits + 4 - n /\ \A i \in Int : lo + i - 1 = n + i
      BY <2>1, <2>3
    <3>2. \A i \in 1..Digits + 4 - n :
             n + i \in 2..Digits + 4 /\ n + i \in n + 1..Digits + 4
      BY <2>1
    <3>3. Len(line) = Digits + 4 - n
      BY <2>1, <2>3, <2>4
    <3>4. \A i \in 1..Digits + 4 - n : line[i] = R[n + i]
      <4> SUFFICES ASSUME NEW i \in 1..Digits + 4 - n PROVE line[i] = R[n + i]
        OBVIOUS
      <4>1. i \in 1..hi - lo + 1 /\ lo + i - 1 = n + i
        BY <3>1
      <4>2. line[i] = R[lo + i - 1]
        BY <2>4, <4>1
      <4> QED
        BY <4>1, <4>2
    <3> QED
      BY <3>2, <3>3, <3>4
  <2> QED
    BY <2>1, <2>2, <2>4, <2>5, LenProperties
<1>3. unread = [i \in DOMAIN line |-> <<line[i]>>] /\ buffer = <<>> /\ pc = "idle"
  BY DEF Init
<1>4. unread \in Seq(Bits)
  <2>1. \A i \in 1..Len(line) : <<line[i]>> \in Bits
    BY <1>2 DEF Bits, Noise
  <2> QED
    BY <1>2, <1>3, <2>1
<1>5. buffer \o line = FlattenSeq(unread)
  BY <1>2, <1>3, FlattenSingles, ConcatEmptySeq
<1> QED
  BY <1>3, <1>4, <1>5, EmptySeq
     DEF StreamInv, StreamIntact, LeftoverShort, NoUnderrun, Shortest

LEMMA StreamInvariant == ASSUME Fits PROVE Spec => [](TypeOK /\ StreamInv)
<1>1. StreamInv /\ TypeOK /\ [Next]_vars => StreamInv'
  BY StreamSteps
<1> QED
  BY <1>1, StreamStart, TypeCorrect, PTL DEF Spec

\* Where what may arrive between two reads fits behind what is left of the
\* last one, and a reading has at most 9 characters, the buffer and the line
\* hold exactly what was not parsed, wherever the line was opened.
THEOREM StreamCorrect == ASSUME Fits PROVE Spec => []StreamIntact
<1>1. StreamInv => StreamIntact
  BY DEF StreamInv
<1> QED
  BY <1>1, StreamInvariant, PTL

\* There pop_data never takes what was not pushed: that it compares with the
\* size of the buffer and not with what it holds matters only to readings that
\* are torn or too long.
THEOREM UnderrunExcluded == ASSUME Fits PROVE Spec => []NoUnderrun
<1>1. StreamInv => NoUnderrun
  BY DEF StreamInv
<1> QED
  BY <1>1, StreamInvariant, PTL

-----------------------------------------------------------------------------
(* What the clients know *)

ReadingsOf(a) == {Reading(r) : r \in {x \in Sent : x[1] = a}}
Saying(a, v)  == {Reading(r) : r \in {x \in Sent : /\ x[1] = a
                                                 /\ Signed(x[2], x[3]) = v}}

\* The last value sent for an axis is on its way, or the controller's is near.
Near(a, unr, ax, s) ==
    \/ /\ NoneIn(unr, ReadingsOf(a))
       /\ \A v \in s[a] : Distance(ax[a], v) <= MEAS_THRESHOLD
    \/ \E v \in Known : s[a] = {v} /\ LastIn(unr, ReadingsOf(a), Saying(a, v))
NearInv == \A a \in Axes : Near(a, unread, axis, sent)

\* A client was told what the controller has, or nothing.
HeldInv == \A a \in Axes : gyro[a] \subseteq {axis[a]}

LEMMA SignedType ==
    /\ \A r \in Sent : \A s : Signed(s, r[3]) \in Int
    /\ Values \subseteq Int
<1>1. ASSUME NEW r \in Sent, NEW s PROVE Signed(s, r[3]) \in Int
  <2>1. r[3] \in Magnitudes
    BY SentAssumption
  <2>2. \A m \in Magnitudes : m \in Int /\ -m \in Int
    <3>1. Magnitudes \subseteq Nat
      BY ONLY DEF Magnitudes
    <3>2. \A m \in Nat : m \in Int /\ -m \in Int
      OBVIOUS
    <3> QED
      BY ONLY <3>1, <3>2, Zenon
  <2> QED
    BY <2>1, <2>2 DEF Signed
<1>2. Known \subseteq Int
  BY <1>1 DEF Known
<1> QED
  BY <1>1, <1>2, GarbageAssumption DEF Values

LEMMA NearStep ==
    ASSUME TypeOK, unread \in Seq(Bits), NearInv, StreamStep
    PROVE  NearInv'
<1>0. /\ axis \in [Axes -> Values] /\ sent \in [Axes -> SUBSET Known]
      /\ Values \subseteq Int
      /\ \A r \in Sent : r[1] \in Axes
  BY SignedType, SentAssumption DEF TypeOK
<1>1. ASSUME NEW r \in Sent, NEW a \in Axes, Reading(r) \in ReadingsOf(a)
      PROVE  r[1] = a
  <2>1. PICK x \in Sent : x[1] = a /\ Reading(r) = Reading(x)
    BY <1>1 DEF ReadingsOf
  <2>2. Char(r[1]) = Char(x[1])
    BY <2>1, ReadingShape
  <2> QED
    BY <2>1, <2>2 DEF Char
<1>2. ASSUME NEW r \in Sent, NEW a \in Axes, NEW v, Reading(r) \in Saying(a, v)
      PROVE  r[1] = a /\ Signed(r[2], r[3]) = v
  <2>1. PICK x \in Sent : /\ x[1] = a /\ Signed(x[2], x[3]) = v
                          /\ Reading(r) = Reading(x)
    BY <1>2 DEF Saying
  <2>2. /\ Char(r[1]) = Char(x[1]) /\ Char(r[2]) = Char(x[2])
        /\ Magnitude(r[3])[1] = Magnitude(x[3])[1]
    <3>1. 1 \in 1..Digits
      BY LineAssumption
    <3>2. /\ Reading(r)[1 + 3] = Magnitude(r[3])[1]
          /\ Reading(x)[1 + 3] = Magnitude(x[3])[1]
      BY <3>1, ReadingShape
    <3> QED
      BY <2>1, <3>2, ReadingShape
  <2>3. r[3] = x[3]
    <3>1. \A y : Magnitude(y)[1] = Digit(y, 1)
      BY LineAssumption DEF Magnitude
    <3> QED
      BY <2>2, <3>1 DEF Digit
  <2> QED
    BY <2>1, <2>2, <2>3 DEF Char
<1>3. ASSUME NEW r \in Sent, TakesReading(r) PROVE NearInv'
  <2>0. /\ unread # <<>> /\ Reading(r) = Head(unread) /\ unread' = Tail(unread)
        /\ sent' = sent /\ Measured(r[1], Signed(r[2], r[3]))
    BY <1>3 DEF TakesReading, Takes
  <2>1. \A a \in Axes : a # r[1] => axis'[a] = axis[a]
    BY <1>0, <2>0 DEF Measured
  <2>2. Distance(axis'[r[1]], Signed(r[2], r[3])) <= MEAS_THRESHOLD
    <3>1. Signed(r[2], r[3]) \in Int
      BY SignedType
    <3>2. r[1] \in Axes /\ axis[r[1]] \in Int
      BY <1>0
    <3>3. \/ axis'[r[1]] = Signed(r[2], r[3])
          \/ /\ axis'[r[1]] = axis[r[1]]
             /\ ~(Distance(axis[r[1]], Signed(r[2], r[3])) > MEAS_THRESHOLD)
      BY <1>0, <2>0 DEF Measured
    <3> QED
      BY ONLY <3>1, <3>2, <3>3 DEF Distance, MEAS_THRESHOLD
  <2> SUFFICES ASSUME NEW a \in Axes PROVE Near(a, unread', axis', sent')
    BY DEF NearInv, Near, ReadingsOf, Saying
  <2>3. CASE /\ NoneIn(unread, ReadingsOf(a))
             /\ \A v \in sent[a] : Distance(axis[a], v) <= MEAS_THRESHOLD
    <3>1. Reading(r) \notin ReadingsOf(a) /\ NoneIn(unread', ReadingsOf(a))
      BY <2>0, <2>3, LastTail
    <3>2. a # r[1]
      BY <3>1 DEF ReadingsOf
    <3> QED
      BY <2>0, <2>1, <2>3, <3>1, <3>2 DEF Near
  <2>4. ASSUME NEW v \in Known, sent[a] = {v},
               LastIn(unread, ReadingsOf(a), Saying(a, v))
        PROVE  Near(a, unread', axis', sent')
    <3>1. \/ LastIn(unread', ReadingsOf(a), Saying(a, v))
          \/ Reading(r) \in Saying(a, v) /\ NoneIn(unread', ReadingsOf(a))
      BY <2>0, <2>4, LastTail
    <3>2. Reading(r) \in Saying(a, v) => r[1] = a /\ Signed(r[2], r[3]) = v
      BY <1>2
    <3> QED
      BY <2>0, <2>2, <2>4, <3>1, <3>2 DEF Near
  <2> QED
    BY <2>3, <2>4 DEF NearInv, Near
<1>4. ASSUME NEW p \in Noise, TakesNoise(p) PROVE NearInv'
  <2>0. /\ unread # <<>> /\ p = Head(unread) /\ unread' = Tail(unread)
        /\ sent' = sent /\ axis' = axis
    BY <1>4 DEF TakesNoise, Takes
  <2>1. \A a, v : p \notin Saying(a, v)
    BY BitTypes, ReadingShape DEF Saying
  <2> SUFFICES ASSUME NEW a \in Axes PROVE Near(a, unread', axis', sent')
    BY DEF NearInv, Near, ReadingsOf, Saying
  <2>2. Near(a, unread, axis, sent)
    BY DEF NearInv
  <2>3. ASSUME NoneIn(unread, ReadingsOf(a)) PROVE NoneIn(unread', ReadingsOf(a))
    BY <2>0, <2>3, LastTail
  <2>4. ASSUME NEW v, LastIn(unread, ReadingsOf(a), Saying(a, v))
        PROVE  LastIn(unread', ReadingsOf(a), Saying(a, v))
    BY <2>0, <2>1, <2>4, LastTail
  <2> QED
    BY <2>0, <2>2, <2>3, <2>4 DEF Near
<1>5. ASSUME NEW r \in Sent, SendsReading(r) PROVE NearInv'
  <2>0. /\ unread' = Append(unread, Reading(r)) /\ axis' = axis
        /\ sent' = [sent EXCEPT ![r[1]] = {Signed(r[2], r[3])}]
        /\ Reading(r) \in Bits
    BY <1>5 DEF SendsReading, Bits
  <2> SUFFICES ASSUME NEW a \in Axes PROVE Near(a, unread', axis', sent')
    BY DEF NearInv, Near, ReadingsOf, Saying
  <2>1. CASE a = r[1]
    <3> DEFINE v == Signed(r[2], r[3])
    <3>1. sent'[a] = {v} /\ v \in Known
      <4>1. r[2] \in Signs
        BY SentAssumption
      <4>2. v \in Known
        BY ONLY <4>1, r \in Sent DEF Known
      <4> QED
        BY <1>0, <2>0, <2>1, <4>2
    <3>2. Reading(r) \in Saying(a, v)
      BY <2>1 DEF Saying
    <3> HIDE DEF v
    <3> QED
      BY <2>0, <3>1, <3>2, LastAppend DEF Near
  <2>2. CASE a # r[1]
    <3>1. sent'[a] = sent[a] /\ Reading(r) \notin ReadingsOf(a)
      BY <1>0, <1>1, <2>0, <2>2
    <3>2. Near(a, unread, axis, sent)
      BY DEF NearInv
    <3>3. ASSUME NoneIn(unread, ReadingsOf(a)) PROVE NoneIn(unread', ReadingsOf(a))
      BY <2>0, <3>1, <3>3, LastAppend
    <3>4. ASSUME NEW v, LastIn(unread, ReadingsOf(a), Saying(a, v))
          PROVE  LastIn(unread', ReadingsOf(a), Saying(a, v))
      BY <2>0, <3>1, <3>4, LastAppend
    <3> QED
      BY <2>0, <3>1, <3>2, <3>3, <3>4 DEF Near
  <2> QED
    BY <2>1, <2>2
<1>6. CASE UNCHANGED <<unread, axis, sent>>
  BY <1>6 DEF NearInv, Near, ReadingsOf, Saying
<1> QED
  BY <1>3, <1>4, <1>5, <1>6 DEF StreamStep

\* A broadcast tells both axes as they are, also one that was never measured.
LEMMA HeldStep == ASSUME TypeOK, HeldInv, StreamStep PROVE HeldInv'
<1>1. CASE UNCHANGED <<axis, gyro>>
  BY <1>1 DEF HeldInv
<1>2. CASE gyro' = Unset
  BY <1>2 DEF HeldInv, Unset
<1>3. CASE gyro' = [a \in Axes |-> {axis'[a]}]
  BY <1>3 DEF HeldInv
<1> QED
  BY <1>1, <1>2, <1>3 DEF StreamStep, TakesNoise, TakesReading, SendsReading,
                          Measured, GyroEvent

\* There, when all is parsed, what a client was told of an axis is within the
\* threshold of the last value measured on it, whatever came in between,
\* whenever the client joined and whatever the axis held at first.
THEOREM GyroCorrect == ASSUME Fits PROVE Spec => []GyroTracks
<1>1. Init => NearInv /\ HeldInv
  <2> SUFFICES ASSUME Init, NEW a \in Axes
               PROVE  NoneIn(unread, ReadingsOf(a)) /\ sent[a] = {} /\ gyro[a] = {}
    BY DEF NearInv, Near, HeldInv
  <2>1. sent[a] = {} /\ gyro[a] = {}
    BY DEF Init, Unset
  <2>2. \A i \in DOMAIN unread : Len(unread[i]) = 1
    BY DEF Init
  <2>3. \A p \in ReadingsOf(a) : Len(p) # 1
    BY ReadingShape, LineAssumption DEF ReadingsOf
  <2> QED
    BY <2>1, <2>2, <2>3 DEF NoneIn
<1>2. Fits /\ TypeOK /\ StreamInv /\ NearInv /\ HeldInv /\ [Next]_vars
        => NearInv' /\ HeldInv'
  BY StreamSteps, NearStep, HeldStep DEF StreamInv
<1>3. TypeOK /\ StreamInv /\ NearInv /\ HeldInv => GyroTracks
  <2> SUFFICES ASSUME StreamInv, NearInv, HeldInv, line = <<>>, buffer = <<>>,
                      NEW a \in Axes, NEW g \in gyro[a], NEW v \in sent[a]
               PROVE  Distance(g, v) <= MEAS_THRESHOLD
    BY DEF GyroTracks
  <2>1. FlattenSeq(unread) = <<>>
    BY DEF StreamInv, StreamIntact
  <2>2. unread = <<>>
    <3>1. unread \in Seq(Seq(Chars)) /\ \A i \in DOMAIN unread : unread[i] \in Bits
      BY BitTypes, LenProperties, ElementOfSeq DEF StreamInv
    <3>2. \A i \in DOMAIN unread : Len(unread[i]) # 0
      BY <3>1, BitTypes
    <3> QED
      BY <2>1, <3>1, <3>2, FlattenNothing
  <2>3. \A A, B : ~LastIn(unread, A, B)
    BY <2>2 DEF LastIn
  <2>4. Distance(axis[a], v) <= MEAS_THRESHOLD
    BY <2>3 DEF NearInv, Near
  <2>5. g = axis[a]
    BY DEF HeldInv
  <2> QED
    BY <2>4, <2>5
<1> QED
  BY <1>1, <1>2, <1>3, StreamInvariant, PTL DEF Spec
=============================================================================
