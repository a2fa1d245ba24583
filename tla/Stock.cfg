CONSTANTS
    t1 = t1
    t2 = t2
    i1 = i1
    i2 = i2
    i3 = i3
    Transfers <- MCTransfers
    Items <- MCItems
    TransferOf <- MCTransferOf
    Opening = 4
    Requested <- MCRequested
    Quantities <- MCQuantities
    Outcomes <- MCOutcomes
    ListedTimes <- MCOnce
    Slow <- MCSlow
    RowAllowsNegative = TRUE
    BatchNumbers <- MCNumbers
    ExpiryOf <- MCExpiryOf
    NoExpiry = 3
    DrawQuantities <- MCDraws
    MaxBatches = 3
    MaxUnits = 2
SPECIFICATION MCSpec
SYMMETRY MCSymmetry
INVARIANTS
    SourceTracked
    HeldUntilDispatch
    DestinationTracked
    DrawIsFair
PROPERTIES
    FirstExpiredFirstOut
CHECK_DEADLOCK FALSE
