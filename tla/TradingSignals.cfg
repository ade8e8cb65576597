\* Two instruments, their fills and books, under either algorithm.
CONSTANTS
    t1 = t1
    t2 = t2
    Tickers <- TwoTickers
    Algos <- BothAlgos
    Bbos <- FewBbos
    FillPrices <- FewPrices
    Qtys <- OneOrTwo
    Threshold = 1
    Garbage <- TwoMemories
    Scale = 288
    MaxFills = 3
    MaxBookUpdates = 2
SPECIFICATION Spec
SYMMETRY EitherTicker
INVARIANTS TypeOK PnlIsCashAndMark AsksOnOwnFeature
