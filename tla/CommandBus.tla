----------------------------- MODULE CommandBus -----------------------------
(***************************************************************************)
(* What the bus of the vehicle promises to whoever drives it: an order is  *)
(* given to all units at once, and each unit gets its part of every order, *)
(* the units of one order in a fixed sequence and the orders one after the *)
(* other.  Mainboard implements it packet by packet (mainboard.cpp,        *)
(* set_throttle and set_digital_outputs); Vehicle is built upon it.        *)
(***************************************************************************)
EXTENDS Integers, Sequences

CONSTANTS
    Units,        \* the device types that obey, in the order they are told
    Values,       \* what a unit may be told
    Orders,       \* what a sync request may ask of all of them
    Rest,         \* what they do before the first order
    MaxPending    \* the most orders a unit may lag behind

ASSUME UnitsAssumption   == Units \subseteq Int
ASSUME OrdersAssumption  == Orders \subseteq [Units -> Values]
ASSUME RestAssumption    == Rest \in [Units -> Values]
ASSUME PendingAssumption == MaxPending \in Nat

VARIABLES
    pending,      \* for each unit, its parts of the orders it has yet to get
    obeyed,       \* what each unit does
    last          \* the last order given

busVars == <<pending, obeyed, last>>

BusInit == /\ pending = [u \in Units |-> <<>>]
           /\ obeyed = Rest /\ last = Rest

\* Mutant: writes do not wait; what the line has no room for is dropped.
IssueNoWait(o) ==
    /\ pending' = [u \in Units |-> IF Len(pending[u]) < MaxPending
                                   THEN Append(pending[u], o[u])
                                   ELSE pending[u]]
    /\ last' = o
    /\ UNCHANGED obeyed

\* An order is taken as a whole, however long its packets take.
Issue(o) ==
    /\ \A u \in Units : Len(pending[u]) < MaxPending
    /\ pending' = [u \in Units |-> Append(pending[u], o[u])]
    /\ last' = o
    /\ UNCHANGED obeyed

\* The units before u have their part of the order that u gets next, and
\* those behind it do not.
Turn(u) == /\ pending[u] # <<>>
           /\ \A v \in Units : Len(pending[v]) = IF v < u
                                                  THEN Len(pending[u]) - 1
                                                  ELSE Len(pending[u])

Follow(u) ==
    /\ Turn(u)
    /\ obeyed' = [obeyed EXCEPT ![u] = Head(pending[u])]
    /\ pending' = [pending EXCEPT ![u] = Tail(@)]
    /\ UNCHANGED last

BusNext == \/ \E o \in Orders : Issue(o)
           \/ \E u \in Units : Follow(u)

BusSpec == BusInit /\ [][BusNext]_busVars

-----------------------------------------------------------------------------
\* The values each variable may take.
BusTypeOK == /\ pending \in [Units -> Seq(Values)]
             /\ obeyed \in [Units -> Values]
             /\ last \in Orders \cup {Rest}

\* When no part of an order is on its way, all units do what the last one
\* asks: none was told another order's part, and none was left out.
Converged == (\A u \in Units : pending[u] = <<>>) => obeyed = last

=============================================================================
