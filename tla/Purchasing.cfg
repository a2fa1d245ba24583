CONSTANTS
    OrderQuantities <- MCQuantities
    MaxRequisitions = 1
    MaxOrders = 2
    MaxReceipts = 2
    MaxDocuments = 3
    MaxPosts = 3
    MaxPaid = 1
    SlowPurchases <- MCSlow
    OrderLines <- MCOrderLines
    Amounts = {5, 20, 1000}
    MaxCosts = 2
    Repeated = TRUE
    Lines <- MCLines
    SaleSizes <- MCSaleSizes
    Methods = {"CASH", "MPESA", "STORE_CREDIT"}
    Limits = {0, 1}
    Replacements = {1}
    ExchangeKeys = {"k1"}
    MaxReturns = 2
    MaxRefunds = 2
    MaxReturnDocuments = 4
    SlowReturns <- MCSlowReturns
    l1 = l1
    l2 = l2
    Parts = {"orders", "shipments", "returns"}
SYMMETRY MCSymmetry
SPECIFICATION MCSpec
INVARIANTS
    ReceivedIsPosted
    OrdersFollowReceipts
    CostsAreAllocated
    
    RefundsFitPaid
    StoreCreditFollowsRefunds
CHECK_DEADLOCK FALSE
