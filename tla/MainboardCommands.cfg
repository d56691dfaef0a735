SPECIFICATION Spec
CONSTANTS
    Offers <- OneOffer
    Readings <- OneReading
    Senders <- BackOnly
    Syncs <- TwoSyncs
    Unplugs = TRUE
    MaxBytes = 6
    MaxOut = 2
    Junk <- ZeroJunk
PROPERTY BusImplemented
INVARIANT TypeOK
INVARIANT CommandsFollowed
