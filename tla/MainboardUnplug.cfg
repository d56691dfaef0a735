SPECIFICATION Spec
CONSTANTS
    Offers <- OneOffer
    Readings <- OneReading
    Senders <- Drivers
    Syncs <- NoSyncs
    Unplugs = TRUE
    MaxBytes = 14
    MaxOut = 2
    Junk <- ZeroJunk
INVARIANT DisconnectRecognised
CHECK_DEADLOCK FALSE
