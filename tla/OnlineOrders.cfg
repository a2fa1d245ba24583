CONSTANTS
    h1 = h1
    h2 = h2
    Slow <- MCSlow
    Overrides <- MCOverrides
    Holds <- MCHolds
    MaxAttempts = 2
    MaxTasks = 1
    Variants = {a}
    Quantities <- MCQuantities
    Keys = {k1}
    MaxCarts = 2
    MaxRows = 2
    MaxQuantity = 2
    MaxCustomers = 2
    SlowCart = {"add", "place"}
SPECIFICATION MCSpec
SYMMETRY MCSymmetry
INVARIANTS
    CheckoutPostsOnce
    SoldIsPaidOrCash
    
    
    OrdersFollowCarts
CHECK_DEADLOCK FALSE
