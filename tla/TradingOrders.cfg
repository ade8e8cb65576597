\* A limit that one full order fits in and a second one does not.
CONSTANTS
    Algos <- BothAlgos
    Prices <- TwoPrices
    PRICE_INVALID = PRICE_INVALID
    Clip = 2
    MaxOrderSize = 2
    MaxPosition = 3
    MaxUpdates = 3
SPECIFICATION FairSpec
INVARIANTS TypeOK AnswersMatchSlot SlotCoversExposure PositionWithinLimit
PROPERTY PendingResolves
