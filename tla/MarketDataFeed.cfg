\* Incremental updates are lost and, on some networks, reordered and repeated.
CONSTANTS
    NewOrders <- OneKind
    Networks <- AllNetworks
    MaxUpdates <- AsFits
    SnapshotLoss = FALSE
SPECIFICATION FairSpec
INVARIANTS TypeOK SnapshotMirrorsBook SyncedBookIsExact
PROPERTIES NeverGoesBack RecoveryEnds
