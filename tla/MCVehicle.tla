------------------------------ MODULE MCVehicle ------------------------------
(* Vehicle on a small instance. *)
EXTENDS Vehicle

CONSTANTS k1, k2

TwoClients == {k1, k2}

TwoUnits == {2, 7}
Bytes == 0..255
OrdersOfAll == {[u \in TwoUnits |-> d] : d \in Bytes}
AtRest == [u \in TwoUnits |-> 0]

\* One client drives in two ways, once with calibration, asks for a report,
\* keeps its connection alive and sends what the protocol does not have;
\* another drives as well.
WhatTheySend ==
    (k1 :> {<<COP_SYNC, 0, 1>>, <<COP_SYNC, Calibrate, 2>>,
            <<COP_REPORT, 0, 0>>, <<COP_KEEPALIVE, 0>>, <<9, 9, 9>>})
      @@ (k2 :> {<<COP_SYNC, 0, 2>>})

\* The whole word, a part of it, another word, and an empty line.
Lines == {<<"e", "x", "i", "t", "newline">>, <<"e", "x", "newline">>,
          <<"s", "t", "o", "p", "newline">>, <<"newline">>, <<"s">>}
==============================================================================
