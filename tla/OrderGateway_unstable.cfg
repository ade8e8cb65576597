\* More pending requests than std::sort leaves in place.
CONSTANTS
    c1 = c1  c2 = c2
    Clients <- OneClient
    Loads <- Burst
    MaxRequests = 3
    MaxRestarts = 0
    StableSize = 2
SPECIFICATION Spec
INVARIANT RequestsInOrder
