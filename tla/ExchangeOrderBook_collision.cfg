\* Prices that differ by ME_MAX_PRICE_LEVELS.
CONSTANTS
    c1 = c1
    Clients <- OneClient
    ClientOrderIds <- FourIds
    Prices <- PricesClashing
    Qtys <- Qtys12
    ME_MAX_PRICE_LEVELS = 4
    MaxOrders = 3
    FreshIds = TRUE
SPECIFICATION Spec
INVARIANT LevelsHoldOneSide
CHECK_DEADLOCK FALSE
