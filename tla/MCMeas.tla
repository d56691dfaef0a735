------------------------------- MODULE MCMeas -------------------------------
(* Meas on small instances. *)
EXTENDS Meas

\* The threshold tells 15 and -15 apart, and no other two of 5, 15 and -15.
Readings == {<<"X", "+", 5>>, <<"X", "-", 15>>, <<"Y", "+", 15>>}
\* Near all of them, and far from all.
Heap == {0, 300}
OneReading == {<<"X", "+", 5>>}
=============================================================================
