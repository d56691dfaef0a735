SPECIFICATION Spec
CONSTANTS
    Offers <- TwoOffers
    Readings <- TwoReadings
    Senders <- Drivers
    Syncs <- NoSyncs
    Unplugs = FALSE
    MaxBytes = 20
    MaxOut = 1
    Junk <- NoJunk
INVARIANT StreamIntact
INVARIANT AddressSettled
INVARIANT MotorsSettled
INVARIANT MotorsTold
PROPERTY AddressKept
\* The bounds on what the board sends end every behaviour.
CHECK_DEADLOCK FALSE
