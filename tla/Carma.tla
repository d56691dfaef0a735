-------------------------------- MODULE Carma --------------------------------
(***************************************************************************)
(* Sessions of CARMA clients (protocols/carma.cpp, client.cpp): the bytes  *)
(* of requests, which TCP delivers cut and joined as it likes; the readers *)
(* that take one request at a time by its size; and the answers.           *)
(*                                                                         *)
(* Requests are scaled: an opcode, then for a sync request whether to      *)
(* calibrate and how to drive, for a report its thresholds, and padding.   *)
(* What writing costs is left to EventLoop, as are broadcasts, which tell  *)
(* a client of sensors between its answers; the packets a sync request     *)
(* sends to the board are left to whoever composes this module.            *)
(***************************************************************************)
EXTENDS Integers, SequencesExt, FiniteSets

CONSTANTS
    Clients,      \* connections, each made at most once
    Requests,     \* what each of them sends: sequences of bytes
    MaxFlight,    \* bound: bytes a client has sent that are not yet read
    MaxAnswers    \* bound: answers a client waits for

\* carma.h
COP_OK        == 1
COP_SYNC      == 2
COP_REPORT    == 3
COP_KEEPALIVE == 4
Opcodes == {COP_SYNC, COP_REPORT, COP_KEEPALIVE}
Size(op) == IF op = COP_KEEPALIVE THEN 2 ELSE 3
Calibrate == 255

\* An unknown opcode stands for any request the protocol does not have.
ASSUME RequestsAssumption ==
    \A c \in Clients : \A r \in Requests[c] :
       r \in Seq(0..255) /\ Len(r) = IF r[1] \in Opcodes THEN Size(r[1]) ELSE 3
ASSUME FlightAssumption == MaxFlight \in Nat /\ MaxAnswers \in Nat

VARIABLES
    clients,      \* client::clients and their place in event_loop::files
    conn,         \* "none", "open", "left": the client closed its side,
                  \* "closed": ufile::fd is -1
    coming,       \* bytes on their way
    rx,           \* bytes in the socket, not yet read
    answers,      \* answers the client has yet to read
    unserved,     \* history: requests sent and not served
    expected,     \* history: answers those and earlier requests ask for
    wanted        \* history: how the last sync request asks to drive

inVars  == <<coming, rx, unserved>>
outVars == <<answers, expected>>
sessionVars == <<clients, conn, inVars, outVars, wanted>>

-----------------------------------------------------------------------------
\* The answer a request asks for.
AnswersTo(r) == CASE r[1] = COP_SYNC -> IF r[2] = Calibrate THEN <<COP_OK>>
                                                            ELSE <<>>
                  [] r[1] \in {COP_REPORT, COP_KEEPALIVE} -> <<r[1]>>
                  [] OTHER -> <<>>

Undriven == -1

SessionInit ==
    /\ clients = <<>>
    /\ conn     = [c \in Clients |-> "none"]
    /\ coming   = [c \in Clients |-> <<>>]
    /\ rx       = [c \in Clients |-> <<>>]
    /\ answers  = [c \in Clients |-> <<>>]
    /\ unserved = [c \in Clients |-> <<>>]
    /\ expected = [c \in Clients |-> <<>>]
    /\ wanted   = [c \in Clients |-> Undriven]

Drop(s, n) == SubSeq(s, n + 1, Len(s))

-----------------------------------------------------------------------------
(* The clients and TCP *)

Connect(c) ==
    /\ conn[c] = "none"
    /\ conn' = [conn EXCEPT ![c] = "open"]
    /\ clients' = Append(clients, c)
    /\ UNCHANGED <<inVars, outVars, wanted>>

ClientSends(c, r) ==
    /\ conn[c] = "open"
    /\ Len(rx[c]) + Len(coming[c]) + Len(r) <= MaxFlight
    /\ Len(expected[c]) + Len(AnswersTo(r)) <= MaxAnswers
    /\ coming'   = [coming EXCEPT ![c] = @ \o r]
    /\ unserved' = [unserved EXCEPT ![c] = Append(@, r)]
    /\ expected' = [expected EXCEPT ![c] = @ \o AnswersTo(r)]
    /\ wanted'   = IF r[1] = COP_SYNC THEN [wanted EXCEPT ![c] = r[3]]
                                      ELSE wanted
    /\ UNCHANGED <<clients, conn, rx, answers>>

\* A segment of k bytes arrives: a part of a request, or several.
Deliver(c, k) ==
    /\ k <= Len(coming[c])
    /\ rx'     = [rx EXCEPT ![c] = @ \o SubSeq(coming[c], 1, k)]
    /\ coming' = [coming EXCEPT ![c] = Drop(@, k)]
    /\ UNCHANGED <<clients, conn, unserved, outVars, wanted>>

ClientReads(c) ==
    /\ answers[c] # <<>>
    /\ answers'  = [answers EXCEPT ![c] = Tail(@)]
    /\ expected' = [expected EXCEPT ![c] = IF @ = <<>> THEN @ ELSE Tail(@)]
    /\ UNCHANGED <<clients, conn, inVars, wanted>>

ClientLeaves(c) ==
    /\ conn[c] = "open"
    /\ conn' = [conn EXCEPT ![c] = "left"]
    /\ UNCHANGED <<clients, inVars, outVars, wanted>>

-----------------------------------------------------------------------------
(* client::data_available and carma::start_reading *)

\* ufile::close, which drops what was not read.
Close(c) ==
    /\ conn' = [conn EXCEPT ![c] = "closed"]
    /\ coming'   = [coming EXCEPT ![c] = <<>>]
    /\ rx'       = [rx EXCEPT ![c] = <<>>]
    /\ unserved' = [unserved EXCEPT ![c] = <<>>]
    /\ expected' = [expected EXCEPT ![c] = answers[c]]
    /\ UNCHANGED <<clients, answers, wanted>>

Gone(c) ==
    /\ conn[c] = "left" /\ coming[c] = <<>> /\ rx[c] = <<>>
    /\ Close(c)

Opcode(c) == Head(rx[c])

\* "Invalid opcode"
InvalidOpcode(c) ==
    /\ rx[c] # <<>> /\ Opcode(c) \notin Opcodes
    /\ Close(c)

\* Mutant: the socket must hold the request and nothing behind it.
InvalidSizeUnlessExact(c) ==
    /\ rx[c] # <<>> /\ Opcode(c) \in Opcodes
    /\ Len(rx[c]) # Size(Opcode(c))
    /\ Close(c)

\* "Invalid packet size": the rest of a request is still on its way.
InvalidSize(c) ==
    /\ rx[c] # <<>> /\ Opcode(c) \in Opcodes
    /\ Len(rx[c]) < Size(Opcode(c))
    /\ Close(c)

Readable(c, op) == rx[c] # <<>> /\ Opcode(c) = op /\ Len(rx[c]) >= Size(op)

\* Mutant: all that the socket holds is read at once.
TakeAll(c, op) == /\ rx'       = [rx EXCEPT ![c] = <<>>]
                  /\ unserved' = [unserved EXCEPT ![c] = Tail(@)]

\* A read of the size of the request's structure.
Take(c, op) == /\ rx'       = [rx EXCEPT ![c] = Drop(@, Size(op))]
               /\ unserved' = [unserved EXCEPT ![c] =
                                  IF @ = <<>> THEN @ ELSE Tail(@)]

Answer(c, a) == answers' = [answers EXCEPT ![c] = Append(@, a)]

\* carma::read_keepalive: the request is echoed.
ReadKeepalive(c) ==
    /\ Readable(c, COP_KEEPALIVE)
    /\ Take(c, COP_KEEPALIVE)
    /\ Answer(c, COP_KEEPALIVE)
    /\ UNCHANGED <<clients, conn, coming, expected, wanted>>

\* carma::read_report: thresholds are not implemented, sounds are listed.
ReadReport(c) ==
    /\ Readable(c, COP_REPORT)
    /\ Take(c, COP_REPORT)
    /\ Answer(c, COP_REPORT)
    /\ UNCHANGED <<clients, conn, coming, expected, wanted>>

\* "Unable to open sound directory"
RefuseReport(c) ==
    /\ Readable(c, COP_REPORT)
    /\ Close(c)

\* Mutant: a calibration that worked is not answered.
ReadSyncSilently(c) ==
    /\ Readable(c, COP_SYNC)
    /\ Take(c, COP_SYNC)
    /\ UNCHANGED <<clients, conn, coming, outVars, wanted>>

\* carma::read_sync; mainboard::calibrate always returns 0.
ReadSync(c) ==
    /\ Readable(c, COP_SYNC)
    /\ Take(c, COP_SYNC)
    /\ IF rx[c][2] = Calibrate THEN Answer(c, COP_OK) ELSE UNCHANGED answers
    /\ UNCHANGED <<clients, conn, coming, expected, wanted>>

\* How the request at the front asks to drive.
Drive(c) == rx[c][3]

-----------------------------------------------------------------------------
(* Properties *)

Linked(c) == conn[c] \in {"open", "left"}

\* The bytes of a connection are exactly those of the requests not yet served,
\* from the first byte of one: whatever the segments, no read stops in the
\* middle of a request or takes a part of the next.
RequestsIntact ==
    \A c \in Clients :
       Linked(c) => rx[c] \o coming[c] = FlattenSeq(unserved[c])

\* Each client gets the answers it waits for, each once, in the order of its
\* requests.
AnswersExpected ==
    \A c \in Clients :
       LET owed == [i \in DOMAIN unserved[c] |-> AnswersTo(unserved[c][i])]
       IN  Linked(c) => answers[c] \o FlattenSeq(owed) = expected[c]

\* The socket holds whole requests only, one or several.
Whole(c) == \E n \in 0..Len(unserved[c]) :
               rx[c] = FlattenSeq(SubSeq(unserved[c], 1, n))

\* "Protocol error. Disconnecting client.": a client that has not left is
\* only disconnected for a request the protocol does not have, for a report
\* that cannot be made, or where TCP has cut one of its requests in two.
CutForCause ==
    [][\A c \in Clients :
          conn[c] = "open" /\ conn'[c] = "closed" /\ Whole(c) =>
             /\ unserved[c] # <<>>
             /\ Head(unserved[c])[1] \notin {COP_SYNC, COP_KEEPALIVE}]_sessionVars

=============================================================================
