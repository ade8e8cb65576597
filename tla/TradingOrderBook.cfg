\* The incremental stream, without a recovery of a book in use.
CONSTANTS
    ME_MAX_ORDER_IDS = 5
    ME_MAX_PRICE_LEVELS = 4
    Prices <- FourPrices
    NewQty = 2
    Recoveries = FALSE
SPECIFICATION Spec
VIEW NoLeftovers
INVARIANTS TypeOK ListsShowTheBook PoolsAccountForAll EndsOnlyAtItsLimits BboExactOrUnset
CHECK_DEADLOCK FALSE
