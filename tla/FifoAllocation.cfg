CONSTANTS
    RowAllowsNegative = FALSE
    BatchNumbers <- MCNumbers
    ExpiryOf <- MCExpiryOf
    NoExpiry <- MCNoExpiry
    DrawQuantities <- MCQuantities
    MaxBatches = 3
    MaxUnits = 2
SPECIFICATION BatchSpec
INVARIANTS
    OneAllocationPerBatch
CHECK_DEADLOCK FALSE
