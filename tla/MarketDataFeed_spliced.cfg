\* Snapshot datagrams are lost too.
CONSTANTS
    NewOrders <- OneKind
    Networks <- InOrder
    MaxUpdates <- ThreeUpdates
    SnapshotLoss = TRUE
SPECIFICATION Spec
INVARIANT SyncedBookIsExact
