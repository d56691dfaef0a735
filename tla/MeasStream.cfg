SPECIFICATION Spec
CONSTANTS
    Sent <- Readings
    Digits = 5
    MaxChunk = 24
    MaxLine = 27
    Garbage <- Heap
INVARIANT TypeOK
INVARIANT StreamIntact
INVARIANT GyroTracks
PROPERTY NothingDropped
