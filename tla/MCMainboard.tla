---------------------------- MODULE MCMainboard ----------------------------
(* Mainboard on small instances. *)
EXTENDS Mainboard

\* Two hosts, two addresses: a lower, a higher and an equal second offer.
TwoOffers   == {<<1, 3>>, <<1, 9>>, <<2, 3>>}
OneOffer    == {<<1, 3>>}
OneReading  == {<<11, 12>>}
TwoReadings == {<<11, 12>>, <<13, 11>>}
NoSyncs     == {}
TwoSyncs    == {[left |-> 100, right |-> -128, io |-> 1],
                [left |-> -5, right |-> 127, io |-> 0]}
NoJunk      == {}
ZeroJunk    == {0}
BackOnly    == {BACK}
=============================================================================
