CONSTANTS
    i1 = i1
    i2 = i2
    Items <- MCItems
    Ordered <- MCOrdered
    Opening <- MCOpening
    MaxOrders = 2
    MaxOvertaken = 2
    Slow <- MCSlow
    TillStock = 2
    Adjustments <- MCAdjustments
    Redemptions = {r1}
    SlowTill = {"checkout", "redeem"}
    Price = 2
    Cash = {0, 2}
    Limit = 2
    Keys = {k1, k2}
    MaxSales = 2
    MaxExtras = 1
SYMMETRY MCSymmetry
SPECIFICATION MCSpec
INVARIANTS
    SoldIsShipped
    HoldsFollowOrder
    
    
    PointsFollowSales
CHECK_DEADLOCK FALSE
