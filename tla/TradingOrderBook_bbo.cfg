\* A recovery clears a book in use: the best bid and offer after it.
CONSTANTS
    ME_MAX_ORDER_IDS = 5
    ME_MAX_PRICE_LEVELS = 4
    Prices <- FourPrices
    NewQty = 2
    Recoveries = TRUE
SPECIFICATION Spec
INVARIANT BboExactOrUnset
CHECK_DEADLOCK FALSE
