----------------------------- MODULE MCPurchasing -----------------------------
(***************************************************************************)
(* Instances of Procurement, of ImportShipment and of Returns for TLC:     *)
(* goods that are bought, what their import cost, and goods that customers *)
(* bring back.  A behaviour is of one part, while the others do nothing.   *)
(***************************************************************************)
EXTENDS Procurement, ImportShipment, Returns, TLC

CONSTANTS Repeated, Parts, l1, l2

VARIABLE part

MCQuantities == {2}
MCSlow == {"post", "pay", "convert", "cancelPO", "createReceipt"}
MCSymmetry == Permutations({l1, l2})

\* Three lines, of three variants or, if Repeated, also of two; or four lines
\* of equal shares.
Line(v, q, c) == [variant |-> v, qty |-> q, unitCost |-> c]
MCOrderLines ==
    {<<Line("a", p, 1), Line(v, q, c), Line("c", 2, 2)>> :
       v \in {"b"} \cup IF Repeated THEN {"a"} ELSE {}, p \in 1..2, q \in 1..3, c \in {1, 3}}
      \cup {<<Line("a", 1, 1), Line("b", 1, 1), Line("c", 1, 1), Line("d", 1, 1)>>}

MCLines == {l1, l2}
MCSlowReturns == {"process"}

\* Two lines of one unit, or one line of two units.
MCSaleSizes == {s \in [Lines -> 0..2] : SumFunction(s) = 2}

\* Bounds of a return of two lines: it is refunded as store credit only, and
\* has one document less than a return of one line.
TwoLines == \A i \in Lines : sold[i] > 0
SmallReturn ==
    /\ Len(returns) + Len(refunds) < MaxReturnDocuments
    /\ \A t \in DOMAIN returns : returns[t].method \in {"STORE_CREDIT", "EXCHANGE"}
    /\ \A f \in DOMAIN refunds : refunds[f].method = "STORE_CREDIT"

MCInit ==
    /\ part \in Parts
    /\ PurchaseInit
    /\ ShipmentInit
    /\ part # "shipments" => shipmentLines = CHOOSE l \in OrderLines : TRUE
    /\ ReturnsInit
    /\ part # "returns" => TwoLines

OrderStep ==
    /\ part = "orders"
    /\ PurchaseNext
    /\ UNCHANGED <<part, shipmentVars, returnVars>>

ShipmentStep ==
    /\ part = "shipments"
    /\ ShipmentNext
    /\ UNCHANGED <<part, purchaseVars, returnVars>>

ReturnStep ==
    /\ part = "returns"
    /\ ReturnsNext
    /\ TwoLines => SmallReturn'
    /\ UNCHANGED <<part, purchaseVars, shipmentVars>>

MCNext == OrderStep \/ ShipmentStep \/ ReturnStep

MCSpec == MCInit /\ [][MCNext]_<<part, purchaseVars, shipmentVars, returnVars>>
=============================================================================
