-------------------------------- MODULE Meas --------------------------------
(***************************************************************************)
(* The accelerometer on the second serial line (meas.cpp): the characters  *)
(* a read appends to a buffer of 32, the loop that cuts readings such as   *)
(*                                                                         *)
(*        X=+0.123<newline>                                                *)
(*                                                                         *)
(* out of it while it holds at least 9, and the values broadcast to the    *)
(* clients when they have moved enough.  One client stands for all: each   *)
(* is sent every broadcast from the time it joins.                         *)
(*                                                                         *)
(* A digit (or the point) keeps the value it belongs to and its place in   *)
(* it, so that digits of two readings that run together can be told from   *)
(* those of one.  Values are in thousandths, as the code multiplies them   *)
(* by 1000.                                                                *)
(***************************************************************************)
EXTENDS Integers, SequencesExt

CONSTANTS
    Sent,        \* readings the device may send: <<axis, sign, magnitude>>
    Digits,      \* characters of a magnitude, its point included
    MaxChunk,    \* the most characters that arrive between two reads
    MaxLine,     \* bound: characters sent and not yet read
    Garbage      \* what meas::axis, which nothing sets, may start as

MEAS_BUFFER_SIZE == 32
MEAS_THRESHOLD   == 20
Shortest == 9                \* while(buflen >= 9)

Axes == {"X", "Y"}
Signs == {"+", "-"}
Magnitudes == 0..32767                       \* of an int16_t

ASSUME SentAssumption == Sent \subseteq Axes \X Signs \X Magnitudes
ASSUME GarbageAssumption == Garbage \subseteq Int
ASSUME LineAssumption   == /\ Digits \in 1..7 /\ MaxChunk \in Nat
                           /\ MaxLine \in Nat

VARIABLES
    line,        \* characters sent and not yet read
    buffer,      \* meas::buffer, up to buflen; bufpos is 0 between readings
    pc,          \* "idle", "parse": in the loop, "crashed"
    axis,        \* meas::axis
    gyro,        \* response.gyro of a client, as a set: {} while it is unset
    sent,        \* history: the last value sent for each axis, {} if none
    unread       \* history: the readings not yet parsed

vars == <<line, buffer, pc, axis, gyro, sent, unread>>

-----------------------------------------------------------------------------
(* Characters *)

Char(k)     == <<k, 0, 0>>
Digit(v, i) == <<"digit", v, i>>
Chars == (Axes \cup Signs \cup {"=", "digit", "newline"})
            \X Magnitudes \X (0..7)

Magnitude(v) == [i \in 1..Digits |-> Digit(v, i)]
Reading(r) ==
    <<Char(r[1]), Char("="), Char(r[2])>> \o Magnitude(r[3])
        \o <<Char("newline")>>

Signed(s, v) == IF s = "-" THEN -v ELSE v
Known == {Signed(s, r[3]) : s \in Signs, r \in Sent}
Values == Known \cup Garbage
Unset == [a \in Axes |-> {}]

IsAxis(c)  == c[1] \in Axes
IsDigit(c) == c[1] = "digit"

-----------------------------------------------------------------------------
\* Neither meas::axis, nor the response of a client, nor the place in the
\* stream where the line is opened is determined.
Init ==
    /\ buffer = <<>> /\ pc = "idle"
    /\ axis \in [Axes -> Garbage] /\ gyro = Unset /\ sent = Unset
    /\ \E r \in Sent, n \in 1..Digits + 4 :
          line = SubSeq(Reading(r), n + 1, Digits + 4)
    /\ unread = [i \in DOMAIN line |-> <<line[i]>>]

\* Mutant: the terminator that data_available adds is pushed too.
PushTerminator(data) ==
    buffer' = IF Len(buffer) + Len(data) + 1 > MEAS_BUFFER_SIZE
              THEN buffer
              ELSE buffer \o data \o <<Char("nul")>>

\* meas::push_data
Push(data) ==
    buffer' = IF Len(buffer) + Len(data) > MEAS_BUFFER_SIZE
              THEN buffer              \* "Buffer overflow while writing"
              ELSE buffer \o data

\* meas::data_available up to its loop, when k characters have arrived.
Read(k) ==
    /\ pc = "idle" /\ k <= Len(line) /\ k <= MaxChunk
    /\ Push(SubSeq(line, 1, k))
    /\ line' = SubSeq(line, k + 1, Len(line))
    /\ pc' = "parse"
    /\ UNCHANGED <<axis, gyro, sent, unread>>

\* The places after the sign where the digits end.
Ends(b)   == {i \in 1..7 : i + 3 <= Len(b) /\ ~IsDigit(b[i + 3])}

\* Mutant: the loop over the digits stops before the character that ends them.
PoppedDigits(b) == IF Ends(b) = {} THEN 7
                   ELSE (CHOOSE i \in Ends(b) : \A j \in Ends(b) : i <= j) - 1

\* How many characters are popped after the sign: up to and including the
\* first that is no digit, and at most 7.
Popped(b) == IF Ends(b) = {} THEN 7
             ELSE CHOOSE i \in Ends(b) : \A j \in Ends(b) : i <= j

\* What the digits say.  Digits of several readings that ran together, or
\* none at all, may give any value.
Parsed(b) ==
    LET n == Popped(b)
        s == IF b[3] = Char("-") THEN "-" ELSE "+"
        whole == {r \in Sent : SubSeq(b, 4, n + 2) = Magnitude(r[3])}
    IN  IF whole = {} THEN Known ELSE {Signed(s, r[3]) : r \in whole}

Distance(a, b) == IF a < b THEN b - a ELSE a - b

\* carma::gyro_event: both axes are sent, measured or not.
GyroEvent(ax) == gyro' = [a \in Axes |-> {ax[a]}]

\* Mutant: every reading is compared with the first axis.
MeasuredAgainstX(a, v) ==
    IF Distance(axis["X"], v) > MEAS_THRESHOLD
    THEN axis' = [axis EXCEPT ![a] = v] /\ GyroEvent(axis')
    ELSE UNCHANGED <<axis, gyro>>

\* A value near the last one broadcast, or near the one the axis started as,
\* is not broadcast.
Measured(a, v) ==
    IF Distance(axis[a], v) > MEAS_THRESHOLD
    THEN axis' = [axis EXCEPT ![a] = v] /\ GyroEvent(axis')
    ELSE UNCHANGED <<axis, gyro>>

\* One turn of the loop on a character that starts no reading: tidy_buffer.
Skip ==
    /\ pc = "parse" /\ Len(buffer) >= Shortest /\ ~IsAxis(Head(buffer))
    /\ buffer' = Tail(buffer)
    /\ unread' = IF unread = <<>> THEN <<>> ELSE Tail(unread)
    /\ UNCHANGED <<line, pc, axis, gyro, sent>>

\* One turn of the loop on a reading.  pop_data compares with the size of the
\* buffer, not with buflen: where the tenth of nine characters is taken, buflen
\* becomes -1 and tidy_buffer copies SIZE_MAX bytes.
Parse ==
    /\ pc = "parse" /\ Len(buffer) >= Shortest /\ IsAxis(Head(buffer))
    /\ IF Popped(buffer) + 3 > Len(buffer)
       THEN pc' = "crashed" /\ UNCHANGED <<buffer, axis, gyro, unread>>
       ELSE /\ \E v \in Parsed(buffer) : Measured(Head(buffer)[1], v)
            /\ buffer' = SubSeq(buffer, Popped(buffer) + 4, Len(buffer))
            /\ unread' = IF unread = <<>> THEN <<>> ELSE Tail(unread)
            /\ pc' = pc
    /\ UNCHANGED <<line, sent>>

\* Mutant: the loop asks for a character more than the shortest reading has.
EndLoopEarly ==
    /\ pc = "parse" /\ Len(buffer) <= Shortest
    /\ pc' = "idle"
    /\ UNCHANGED <<line, buffer, axis, gyro, sent, unread>>

EndLoop ==
    /\ pc = "parse" /\ Len(buffer) < Shortest
    /\ pc' = "idle"
    /\ UNCHANGED <<line, buffer, axis, gyro, sent, unread>>

\* The device sends a reading.
DeviceSends(r) ==
    /\ Len(line) + Digits + 4 <= MaxLine
    /\ line' = line \o Reading(r)
    /\ sent' = [sent EXCEPT ![r[1]] = {Signed(r[2], r[3])}]
    /\ unread' = Append(unread, Reading(r))
    /\ UNCHANGED <<buffer, pc, axis, gyro>>

\* A client that joins has a carma object of its own, whose response nothing
\* sets; the loop is not in a handler of meas then.
ClientJoins ==
    /\ pc = "idle"
    /\ gyro' = Unset
    /\ UNCHANGED <<line, buffer, pc, axis, sent, unread>>

DataAvailable == \/ \E k \in 1..Len(line) : Read(k)
                 \/ Skip \/ Parse \/ EndLoop

Next == \/ DataAvailable
        \/ \E r \in Sent : DeviceSends(r)
        \/ ClientJoins

Spec == Init /\ [][Next]_vars

-----------------------------------------------------------------------------
(* Properties *)

\* The values each variable may take.
TypeOK ==
    /\ line \in Seq(Chars)
    /\ buffer \in Seq(Chars) /\ Len(buffer) <= MEAS_BUFFER_SIZE
    /\ pc \in {"idle", "parse", "crashed"}
    /\ axis \in [Axes -> Values] /\ gyro \in [Axes -> SUBSET Values]
    /\ sent \in [Axes -> SUBSET Known]

\* Between two reads the buffer holds fewer characters than the shortest
\* reading: whatever it was filled with, no read finds it half full.
LeftoverShort == pc = "idle" => Len(buffer) < Shortest

\* No characters are thrown away: a read appends all it took.
NothingDropped ==
    [][line' # line /\ Len(line') < Len(line) =>
         buffer' = buffer \o SubSeq(line, 1, Len(line) - Len(line'))]_vars

\* Wherever in a reading the line is opened, and however reads cut the
\* stream, what is buffered and what is still to come are exactly the
\* readings not yet parsed, from the first character of one.
StreamIntact == buffer \o line = FlattenSeq(unread)

\* When all is parsed, what a client was told of an axis is within the
\* threshold of the last value the device measured on it, however often small
\* moves were kept from it and whenever it joined.  A client may have been
\* told nothing yet (gyro_event only follows a move from the value the axis
\* started as); it then holds what its response held when it was made.
GyroTracks ==
    pc = "idle" /\ line = <<>> /\ buffer = <<>> =>
       \A a \in Axes : \A g \in gyro[a], v \in sent[a] :
          Distance(g, v) <= MEAS_THRESHOLD

\* pop_data never takes more than was pushed: "Buffer overflow while reading"
\* is what its check is for.
NoUnderrun == pc # "crashed"

=============================================================================
