\* A ring that the load, with the slot a late reader still uses, just fills.
CONSTANTS
    a = a
    b = b
    Torn = Torn
    Values <- MCValues
    Capacity = 3
    MaxInFlight = 2
    MaxWrites = 5
    LateReader = TRUE
SPECIFICATION FairSpec
INVARIANTS TypeOK NoSlotRace ReceivedInOrder RereadInOrder ReleaseHasElement
PROPERTIES ImplementsFifoChannel EverythingReceived
CHECK_DEADLOCK FALSE
