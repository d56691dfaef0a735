SPECIFICATION VehicleSpec
CONSTANTS
    k1 = k1
    k2 = k2
    Clients <- TwoClients
    Files <- TwoClients
    Requests <- WhatTheySend
    MaxFlight = 5
    MaxAnswers = 2
    Units <- TwoUnits
    Values <- Bytes
    Orders <- OrdersOfAll
    Rest <- AtRest
    MaxPending = 2
    Typed <- Lines
INVARIANT RequestsIntact
INVARIANT AnswersExpected
PROPERTY CutForCause
INVARIANT Converged
INVARIANT Driven
INVARIANT ExitComplete
\* The process ends, crashes or hangs, and clients connect once.
CHECK_DEADLOCK FALSE
