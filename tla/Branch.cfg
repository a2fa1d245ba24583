CONSTANTS
    Users = {"u1"}
    ByHand = {"BANKING", "ADJUSTMENT"}
    MaxShifts = 2
    MaxMoves = 2
    MaxSales = 1
    MaxExpenses = 1
    Slow = {"approve", "pay", "reverse", "unsettle"}
    Opening = 2
    Shelf = 1
    Quantities <- MCQuantities
    Lines = {"COUNTED"}
    MaxOfKind <- MCMaxOfKind
    MaxDocuments = 2
    MaxTraded = 1
    SlowDocuments = {"approveCount", "postCount", "postAdjustment", "convert"}
SPECIFICATION MCSpec
INVARIANTS
    ExpensesSettledOnce
    ClosedIsCounted
    
    StockFollowsDocuments
PROPERTIES
    CountFindsShelf
CHECK_DEADLOCK FALSE
