----------------------------- MODULE MCEventLoop -----------------------------
(* EventLoop on small instances: what its configurations need in common. *)
EXTENDS EventLoop

CONSTANTS c1, c2

TwoObjs == {c1, c2}

\* Addresses are interchangeable; descriptors are not (accept takes the
\* lowest).  Used by the safety runs only.
Addresses2 == Permutations(TwoObjs)

\* For liveness, the request whose answer may block.
FewRequests   == {"keepalive"}
\* With two connections: "report" is refused as "bad" is, or answered as
\* "keepalive" and "calibrate" are.
TwoRequests   == {"sync", "report"}

AllDevices     == {Mainboard, Meas, Stdin}
SensorAndStdin == {Meas, Stdin}
OneSensor      == {Mainboard}
==============================================================================
