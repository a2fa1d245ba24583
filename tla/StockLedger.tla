---------------------------- MODULE StockLedger ----------------------------
(***************************************************************************)
(* What the stock writer promises its callers: a stock per row, some of it *)
(* held for somebody or set aside in quarantine, and free stock that is    *)
(* never promised twice.  The free stock is computed here; the code stores *)
(* it in a column, and InventoryWrite shows that the columns add up.       *)
(***************************************************************************)
EXTENDS Integers, Functions

CONSTANTS Rows, NegativeAllowed, Reservations, Quantities, Opening

VARIABLES
    stock,   \* units in the branch
    aside,   \* units of them in quarantine
    holds    \* who holds how many units of which row

Holds == [row: Rows, qty: Nat, active: BOOLEAN]
ledger == <<stock, aside, holds>>

HeldOn(r) ==
    SumFunction([i \in Reservations |->
                   IF holds[i].active /\ holds[i].row = r THEN holds[i].qty ELSE 0])

Free(r) == stock[r] - aside[r] - HeldOn(r)

CanPromise(r, q) == Free(r) >= q \/ r \in NegativeAllowed

Init ==
    /\ stock = Opening
    /\ aside = [r \in Rows |-> 0]
    /\ holds \in [Reservations -> [row: Rows, qty: {0}, active: {FALSE}]]

Arrive(r, q) ==
    /\ stock' = [stock EXCEPT ![r] = stock[r] + q]
    /\ UNCHANGED <<aside, holds>>

Quarantine(r, q) ==
    /\ stock' = [stock EXCEPT ![r] = stock[r] + q]
    /\ aside' = [aside EXCEPT ![r] = aside[r] + q]
    /\ UNCHANGED holds

Sell(r, q) ==
    /\ CanPromise(r, q)
    /\ stock' = [stock EXCEPT ![r] = stock[r] - q]
    /\ UNCHANGED <<aside, holds>>

Hold(i, r, q) ==
    /\ ~holds[i].active
    /\ CanPromise(r, q)
    /\ holds' = [holds EXCEPT ![i] = [row |-> r, qty |-> q, active |-> TRUE]]
    /\ UNCHANGED <<stock, aside>>

LetGo(i) ==
    /\ holds[i].active
    /\ holds' = [holds EXCEPT ![i].active = FALSE]
    /\ UNCHANGED <<stock, aside>>

\* Deliver some of what is held; the hold ends with its last unit.
Deliver(i, q) ==
    LET rest == holds[i].qty - q
    IN  /\ holds[i].active
        /\ stock' = [stock EXCEPT ![holds[i].row] = @ - q]
        /\ holds' = IF rest = 0 THEN [holds EXCEPT ![i].active = FALSE]
                                ELSE [holds EXCEPT ![i].qty = rest]
        /\ UNCHANGED aside

Next ==
    \/ \E r \in Rows, q \in Quantities :
         Arrive(r, q) \/ Quarantine(r, q) \/ Sell(r, q)
           \/ \E i \in Reservations : Hold(i, r, q)
    \/ \E i \in Reservations :
         LetGo(i) \/ \E q \in 1..holds[i].qty : Deliver(i, q)

Spec == Init /\ [][Next]_ledger
=============================================================================
