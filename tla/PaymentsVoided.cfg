CONSTANTS
    s1 = s1
    c1 = c1
    Sales <- MCSales
    Total <- MCTotal
    Checkouts <- MCCheckouts
    Amounts <- MCAmounts
    Debt = 3
    MaxPayments = 2
    Slow <- MCNoneSlow
SPECIFICATION Spec
PROPERTIES
    VoidedTakesNoPayment
CHECK_DEADLOCK FALSE
