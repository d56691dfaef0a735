SPECIFICATION Spec
CONSTANTS
    Sent <- OneReading
    Digits = 5
    MaxChunk = 40
    MaxLine = 45
    Garbage <- Heap
INVARIANT NoUnderrun
\* The bounds, and the crash, end every behaviour.
CHECK_DEADLOCK FALSE
