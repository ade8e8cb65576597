\* Four orders on three prices, quantity 0 included, adds and cancels in every order.
CONSTANTS
    c1 = c1
    Clients <- OneClient
    ClientOrderIds <- FourIds
    Prices <- PricesApart
    Qtys <- Qtys012
    ME_MAX_PRICE_LEVELS = 4
    MaxOrders = 4
    FreshIds = TRUE
SPECIFICATION FairSpec
INVARIANTS TypeOK NotCrossed LevelsHoldTheirPrice BookCoherent Cancelable
PROPERTIES PriceTimePriority UpdatesTellTheBook AddCompletes
CHECK_DEADLOCK FALSE
