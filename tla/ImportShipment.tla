---------------------------- MODULE ImportShipment ----------------------------
(***************************************************************************)
(* An import shipment of a purchase order, its costs                       *)
(* (shipments.service.ts) and how they are allocated to what was ordered   *)
(* (landed-cost.service.ts).  Amounts are in tenths of a cent, since a     *)
(* cost is converted by its exchange rate; floating point is taken as      *)
(* exact.  Lines carry no weight (recalculateAllocations passes zero), so  *)
(* that BY_WEIGHT, like MANUAL, is BY_QUANTITY.                            *)
(*                                                                         *)
(* addCost updates the shipment's row before it reads the costs, and so    *)
(* runs as one step; updateStatus writes without looking again at the      *)
(* status it read.                                                         *)
(***************************************************************************)
EXTENDS Integers, Sequences, SequencesExt, Functions, FiniteSetsExt

CONSTANTS
    OrderLines,  \* lines an order may have: [variant, qty, unitCost]
    Amounts,     \* amounts of a cost, converted
    MaxCosts     \* bound: costs of the shipment

\* The schemas of createPO and addCost ask for at least one item, and for
\* positive quantities, unit costs and amounts.
ASSUME PositiveAmounts ==
    /\ \A o \in OrderLines :
         /\ Len(o) \in Nat \ {0} /\ DOMAIN o = 1..Len(o)
         /\ \A l \in DOMAIN o : o[l].qty \in Nat \ {0} /\ o[l].unitCost \in Nat \ {0}
    /\ Amounts \subseteq Nat \ {0}

VARIABLES
    shipmentLines,   \* the items of the shipment's purchase order
    shipmentStatus,  \* ImportShipment.status
    costs,           \* its ImportShipmentCosts
    booked,          \* the total of its cost fields, freightCost to otherCosts,
                     \* to which each cost is added in whole cents
    allocations,     \* its ImportShipmentItemAllocations
    moving           \* the status a slow updateStatus will write, if any

shipmentVars == <<shipmentLines, shipmentStatus, costs, booked, allocations, moving>>

CostMethods == {"BY_QUANTITY", "BY_PURCHASE_VALUE"}
ShipmentStatuses == {"PLANNED", "BOOKED", "IN_TRANSIT", "ARRIVED",
                     "UNDER_CUSTOMS_CLEARANCE", "CLEARED", "RECEIVED", "CANCELLED"}

ShippedVariants == {shipmentLines[l].variant : l \in DOMAIN shipmentLines}

ShipmentTypeOK ==
    /\ shipmentLines \in OrderLines
    /\ shipmentStatus \in ShipmentStatuses
    /\ costs \in Seq([amount: Nat, method: CostMethods])
    /\ booked \in Nat
    /\ DOMAIN allocations \in {{}, ShippedVariants}
    /\ \A v \in DOMAIN allocations : allocations[v] \in Int
    /\ moving \in ShipmentStatuses \cup {"NONE"}

ShipmentInit ==
    /\ shipmentLines \in OrderLines
    /\ shipmentStatus = "PLANNED"
    /\ costs = <<>>
    /\ booked = 0
    /\ allocations = <<>>
    /\ moving = "NONE"

-----------------------------------------------------------------------------
(***************************************************************************)
(* landedCostService.allocateCosts.                                        *)
(***************************************************************************)
\* Math.round to whole cents of part / whole: half a cent is rounded up.
Cents(part, whole) == 10 * ((2 * part + 10 * whole) \div (20 * whole))

Measure(l, method) ==
    IF method = "BY_PURCHASE_VALUE" THEN shipmentLines[l].qty * shipmentLines[l].unitCost ELSE shipmentLines[l].qty

Whole(method) == SumFunction([l \in DOMAIN shipmentLines |-> Measure(l, method)])

CostShare(cost, l) == Cents(cost.amount * Measure(l, cost.method), Whole(cost.method))

\* By variant: of two lines of one variant the later share is kept.
CostShares(cost) ==
    [v \in ShippedVariants |-> CostShare(cost, Max({l \in DOMAIN shipmentLines : shipmentLines[l].variant = v}))]

\* The variant that comes first among those with the largest share.
Largest(shares) ==
    LET first(v) == Min({l \in DOMAIN shipmentLines : shipmentLines[l].variant = v})
    IN  CHOOSE v \in DOMAIN shares :
          \A w \in DOMAIN shares :
            \/ shares[w] < shares[v]
            \/ shares[w] = shares[v] /\ first(v) <= first(w)

FaultyAllocated(cost) == CostShares(cost)

\* What the shares miss of the cost goes to the largest.
Allocated(cost) ==
    LET shares == CostShares(cost)
        missed == cost.amount
                    - SumFunction([l \in DOMAIN shipmentLines |-> CostShare(cost, l)])
    IN  IF missed = 0 THEN shares
        ELSE [shares EXCEPT ![Largest(shares)] = Cents(@ + missed, 1)]

\* One share for every line of the variant.
AllocateCosts(all) ==
    [v \in ShippedVariants |->
       SumFunction([c \in DOMAIN all |-> Allocated(all[c])[v]])
         * Cardinality({l \in DOMAIN shipmentLines : shipmentLines[l].variant = v})]

-----------------------------------------------------------------------------
AllowedTransitions ==
    [s \in ShipmentStatuses |->
       CASE s = "PLANNED" -> {"BOOKED", "CANCELLED"}
         [] s = "BOOKED" -> {"IN_TRANSIT", "CANCELLED"}
         [] s = "IN_TRANSIT" -> {"ARRIVED", "CANCELLED"}
         [] s = "ARRIVED" -> {"UNDER_CUSTOMS_CLEARANCE", "CLEARED", "RECEIVED"}
         [] s = "UNDER_CUSTOMS_CLEARANCE" -> {"CLEARED", "CANCELLED"}
         [] s = "CLEARED" -> {"RECEIVED", "CANCELLED"}
         [] OTHER -> {}]

\* The database keeps the converted cost in whole cents.  A cost is added in
\* any status, also after the goods were received, and every allocation is
\* made anew.
AddCost ==
    /\ Len(costs) < MaxCosts
    /\ \E a \in Amounts, t \in CostMethods :
         /\ costs' = Append(costs, [amount |-> a, method |-> t])
         /\ booked' = booked + Cents(a, 1)
    /\ allocations' = AllocateCosts(costs')
    /\ UNCHANGED <<shipmentLines, shipmentStatus, moving>>

UpdateShipmentStatus ==
    /\ shipmentStatus' \in AllowedTransitions[shipmentStatus]
    /\ UNCHANGED <<shipmentLines, costs, booked, allocations, moving>>

\* A second one that has read the status and writes later, or fails.
ReadStatus ==
    /\ moving = "NONE"
    /\ moving' \in AllowedTransitions[shipmentStatus]
    /\ UNCHANGED <<shipmentLines, shipmentStatus, costs, booked, allocations>>

WriteStatus ==
    /\ moving # "NONE"
    /\ moving' = "NONE"
    /\ shipmentStatus' \in {moving, shipmentStatus}
    /\ UNCHANGED <<shipmentLines, costs, booked, allocations>>

ShipmentNext == AddCost \/ UpdateShipmentStatus \/ ReadStatus \/ WriteStatus

ShipmentSpec == ShipmentInit /\ [][ShipmentNext]_shipmentVars

-----------------------------------------------------------------------------
TotalAllocated == SumFunction(allocations)

\* Where no two lines of the order are of one variant, the share of a line is
\* its exact part of the cost, but for half a cent for every line of the order.
\* (So it may be negative: of two cents, four equal lines are given 1, 1, 1
\* and -1.)
CostFits(c, l) ==
    LET whole == Whole(c.method)
        apart == Allocated(c)[shipmentLines[l].variant] * whole
                   - c.amount * Measure(l, c.method)
    IN  /\ apart <= 5 * Len(shipmentLines) * whole
        /\ -apart <= 5 * Len(shipmentLines) * whole

\* However calls overlap, on records of the right type: where no two lines of
\* the order are of one variant, what is allocated to them is to the cent what
\* the shipment's cost fields hold, and each gets its part of every cost
\* (addCost, allocateCosts, recalculateAllocations).
CostsAreAllocated ==
    /\ ShipmentTypeOK
    /\ Cardinality(ShippedVariants) = Len(shipmentLines) =>
         /\ TotalAllocated = booked
         /\ \A c \in DOMAIN costs, l \in DOMAIN shipmentLines : CostFits(costs[c], l)

\* "Allocates shipment-level costs to individual items"
\* (landed-cost.service.ts:18), whatever the lines of the order are.
AllLinesAllocated == TotalAllocated = booked
=============================================================================
