\* Good connections, and bad ones.
CONSTANTS
    c1 = c1  c2 = c2
    Clients <- TwoClients
    Loads <- GoodAndBad
    MaxRequests = 3
    MaxRestarts = 2
    StableSize = 16
SPECIFICATION FairSpec
INVARIANTS TypeOK RequestsInOrder NoMisnumbered ResponsesInOrder EndsOnlyOnBurst
PROPERTY RequestsAnswered
CHECK_DEADLOCK FALSE
