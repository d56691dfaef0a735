--------------------------- MODULE ClientRegistry ---------------------------
(***************************************************************************)
(* What the controller promises about its client objects (client.cpp,      *)
(* server.cpp, gptk/ufile.cpp), without its lists, its queue and its       *)
(* iterator: a connection belongs to one object, is given up once, and the *)
(* object is freed once, after that and only if it asked for it.           *)
(***************************************************************************)
EXTENDS Integers

CONSTANTS
    Objects,      \* the addresses an object may have
    Lines         \* the descriptors a connection may have

None == -1

VARIABLES
    live,         \* objects that exist
    line,         \* the connection each one has
    leaving       \* those that asked to be freed

registryVars == <<live, line, leaving>>

Unused(n) == \A c \in live : line[c] # n

RegistryInit == /\ live = {} /\ leaving = {}
                /\ line = [c \in Objects |-> None]

\* A connection is accepted, or could not be and an object without one is
\* made all the same.
Join(c) ==
    /\ c \in Objects \ live
    /\ \E n \in Lines \cup {None} : /\ n # None => Unused(n)
                                    /\ line' = [line EXCEPT ![c] = n]
    /\ live' = live \cup {c}
    /\ UNCHANGED leaving

\* The connection is given up: the peer left, and the object is of no more
\* use, or it was refused, and the object stays.
Cut(c) ==
    /\ c \in live /\ line[c] # None
    /\ line' = [line EXCEPT ![c] = None]
    /\ leaving' \in {leaving, leaving \cup {c}}
    /\ UNCHANGED live

\* An object without a connection, dispatched again, asks to be freed.
Ask(c) ==
    /\ c \in live /\ line[c] = None
    /\ leaving' = leaving \cup {c}
    /\ UNCHANGED <<live, line>>

Free(c) ==
    /\ c \in leaving /\ line[c] = None
    /\ live' = live \ {c}
    /\ leaving' = leaving \ {c}
    /\ UNCHANGED line

RegistryNext == \E c \in Objects : Join(c) \/ Cut(c) \/ Ask(c) \/ Free(c)

RegistrySpec == RegistryInit /\ [][RegistryNext]_registryVars

=============================================================================
