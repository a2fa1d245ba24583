CONSTANTS
    OrderQuantities <- MCQuantities
    MaxRequisitions = 1
    MaxOrders = 2
    MaxReceipts = 2
    MaxDocuments = 3
    MaxPosts = 3
    MaxPaid = 1
    SlowPurchases <- MCSlow
    OrderLines <- MCOrderLines
    Amounts = {5, 20, 1000}
    MaxCosts = 2
    Repeated = TRUE
    Lines <- MCLines
    SaleSizes <- MCSaleSizes
    Methods = {"CASH", "MPESA", "STORE_CREDIT"}
    Limits = {0, 1}
    Replacements = {1}
    ExchangeKeys = {"k1"}
    MaxReturns = 1
    MaxRefunds = 1
    MaxReturnDocuments = 2
    SlowReturns <- MCSlowReturns
    l1 = l1
    l2 = l2
    Parts = {"shipments"}
SYMMETRY MCSymmetry
SPECIFICATION MCSpec
INVARIANTS
    AllLinesAllocated
CHECK_DEADLOCK FALSE
