CONSTANTS
    row1 = row1
    row2 = row2
    res1 = res1
    res2 = res2
    c1 = c1
    c2 = c2
    c3 = c3
    c4 = c4
    Rows <- MCRows
    NegativeAllowed <- MCNegativeAllowed
    Reservations <- MCReservations
    Requests <- MCFourCalls
    Quantities <- MCQuantities
    Opening <- MCOpening
    InFlight = 1
SPECIFICATION Spec
SYMMETRY MCSymmetry
INVARIANTS
    TypeOK
    NoOversell
PROPERTIES
    JournalChained
    
    LedgerImplemented
CHECK_DEADLOCK FALSE
