SPECIFICATION VehicleSpec
CONSTANTS
    k1 = k1
    k2 = k2
    Clients <- TwoClients
    Files <- TwoClients
    Requests <- WhatTheySend
    MaxFlight = 6
    MaxAnswers = 1
    Units <- TwoUnits
    Values <- Bytes
    Orders <- OrdersOfAll
    Rest <- AtRest
    MaxPending = 1
    Typed <- Lines
INVARIANT PipePointersLive
\* The process ends, crashes or hangs, and clients connect once.
CHECK_DEADLOCK FALSE
