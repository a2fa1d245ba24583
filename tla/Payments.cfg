CONSTANTS
    s1 = s1
    c1 = c1
    Sales <- MCSales
    Total <- MCTotal
    Checkouts <- MCCheckouts
    Amounts <- MCAmounts
    Debt = 3
    MaxPayments = 4
    Slow <- MCSlow
SPECIFICATION Spec
INVARIANTS
    PaidIsPosted
    ReversedOnce
    CheckoutPostsOnce
PROPERTIES
    BalanceFollowsPayments
CHECK_DEADLOCK FALSE
