---------------------------- MODULE WholesaleOrder ----------------------------
(***************************************************************************)
(* One wholesale quotation and the orders made from it, sales.service.ts:  *)
(* a quotation is accepted and converted into an order, the order is       *)
(* approved (which reserves its stock), fulfilled part by part, invoiced   *)
(* and perhaps cancelled or voided.                                        *)
(*                                                                         *)
(* Every handler finds its record by the status it wants and writes it by  *)
(* id, without looking again.  A plan holds what was found; a call that    *)
(* runs alone plans and writes in one step, a slow one is overtaken, by    *)
(* calls that run alone, between its read and its write.                   *)
(***************************************************************************)
EXTENDS Integers, Sequences, Functions

CONSTANTS
    Items,      \* the lines of the quotation, each of its own variant
    Ordered,    \* the quantity of each line
    Opening,    \* stock on hand of each variant when the run starts
    MaxOrders,  \* bound: orders made from the quotation
    Slow,       \* the operations that may be overtaken after their read
    MaxOvertaken  \* bound: how many calls are

ASSUME OrderedAssumption == Ordered \in [Items -> Nat \ {0}] /\ Opening \in [Items -> Nat]
ASSUME BoundsAssumption == MaxOrders \in Nat /\ MaxOvertaken \in Nat

VARIABLES
    quotation,  \* WholesaleQuotation.status
    orders,     \* the Sale records made from it
    balance,    \* the balance row of each variant
    slow,       \* the plan of the overtaken call, if any
    overtaken   \* history: how many calls have written after what they had
                \* read was changed

records == <<quotation, orders, balance>>
vars == <<records, slow, overtaken>>

Quotations == {"DRAFT", "ACCEPTED", "REJECTED", "CONVERTED_TO_ORDER"}
Statuses == {"DRAFT", "CONFIRMED", "COMPLETED", "CANCELLED", "VOIDED"}
Holds == [qty: Nat \ {0}, active: BOOLEAN]

\* shipped is the sum of the line's SALE movements, returned what a void put
\* back; invoices are those made for the order, by either operation.
Orders == [status: Statuses, holds: [Items -> Seq(Holds)],
           shipped: [Items -> Nat], returned: [Items -> Nat], invoices: Nat]

NoPlan == [op |-> "none"]

TypeOK ==
    /\ quotation \in Quotations
    /\ orders \in Seq(Orders)
    /\ balance \in [Items -> [onHand: Int, reserved: Int, available: Int]]
    /\ slow.op \in Slow \cup {"none"}
    /\ overtaken \in 0..MaxOvertaken

Init ==
    /\ quotation = "DRAFT"
    /\ orders = <<>>
    /\ balance = [i \in Items |-> [onHand |-> Opening[i], reserved |-> 0,
                                   available |-> Opening[i]]]
    /\ slow = NoPlan
    /\ overtaken = 0

-----------------------------------------------------------------------------
(***************************************************************************)
(* Plans.                                                                  *)
(***************************************************************************)
\* The orders that a handler finds: each names the statuses it wants.
InStatus(wanted) == {o \in DOMAIN orders : orders[o].status \in wanted}

Active(holds) == {h \in DOMAIN holds : holds[h].active}

\* Of a line: nothing (also a quantity that is not positive is skipped), or
\* some of one ACTIVE reservation, and what is left of that.
PartsOf(holds) ==
    {[hold |-> 0, qty |-> 0, left |-> 0]} \cup
    UNION {{[hold |-> h, qty |-> q, left |-> holds[h].qty - q] : q \in 1..holds[h].qty} :
             h \in Active(holds)}

Parts(o) ==
    {f \in [Items -> UNION {PartsOf(orders[o].holds[i]) : i \in Items}] :
       \A i \in Items : f[i] \in PartsOf(orders[o].holds[i])}

QuotationPlans ==
    {[op |-> op] : op \in IF quotation = "DRAFT" THEN {"accept", "reject"}
                          ELSE IF quotation = "ACCEPTED" THEN {"convert"} ELSE {}}

\* reserveStock decides on the available stock it reads before the row lock.
ApprovePlans ==
    {[op |-> "approve", order |-> o] :
       o \in {o \in InStatus({"DRAFT"}) : \A i \in Items : balance[i].available >= Ordered[i]}}

FulfilPlans ==
    UNION {{[op |-> "fulfil", order |-> o, parts |-> f] : f \in Parts(o)} :
             o \in InStatus({"CONFIRMED"})}

NotInvoiced == {o \in InStatus({"COMPLETED"}) : orders[o].invoices = 0}

\* invoiceOrder, and generateInvoice for a sale that happens to be an order.
InvoicePlans == {[op |-> op, order |-> o] : op \in {"invoice", "generate"}, o \in NotInvoiced}

\* Cancelling and voiding find the reservations that are ACTIVE; voiding adds
\* up what was shipped.
EndPlans ==
    {[op |-> op, order |-> o,
      found |-> [i \in Items |-> Active(orders[o].holds[i])],
      shipped |-> orders[o].shipped] :
       op \in {"cancel", "void"}, o \in InStatus({"DRAFT", "CONFIRMED", "COMPLETED"})}

Plans == QuotationPlans \cup ApprovePlans \cup FulfilPlans \cup InvoicePlans \cup EndPlans

-----------------------------------------------------------------------------
(***************************************************************************)
(* Writes.                                                                 *)
(***************************************************************************)
AcceptQuotation(p) ==
    /\ p.op = "accept"
    /\ quotation' = "ACCEPTED"
    /\ UNCHANGED <<orders, balance>>

RejectQuotation(p) ==
    /\ p.op = "reject"
    /\ quotation' = "REJECTED"
    /\ UNCHANGED <<orders, balance>>

NewOrder == [status |-> "DRAFT", holds |-> [i \in Items |-> <<>>],
             shipped |-> [i \in Items |-> 0], returned |-> [i \in Items |-> 0],
             invoices |-> 0]

ConvertQuotation(p) ==
    /\ p.op = "convert"
    /\ Len(orders) < MaxOrders
    /\ orders' = Append(orders, NewOrder)
    /\ quotation' = "CONVERTED_TO_ORDER"
    /\ UNCHANGED balance

ApproveOrder(p) ==
    /\ p.op = "approve"
    /\ orders' = [orders EXCEPT ![p.order].status = "CONFIRMED",
                    ![p.order].holds = [i \in Items |->
                       Append(@[i], [qty |-> Ordered[i], active |-> TRUE])]]
    /\ balance' = [i \in Items |-> [balance[i] EXCEPT !.reserved = @ + Ordered[i],
                                                      !.available = @ - Ordered[i]]]
    /\ UNCHANGED quotation

\* The reservation is written as computed from the read, the row relatively.
Draw(holds, part) ==
    IF part.qty = 0 THEN holds
    ELSE IF part.left = 0 THEN [holds EXCEPT ![part.hold].active = FALSE]
    ELSE [holds EXCEPT ![part.hold].qty = part.left]

FaultyWhole(shipped) == \E i \in Items : shipped[i] >= Ordered[i]
Whole(shipped) == \A i \in Items : shipped[i] >= Ordered[i]

\* The movements are added up anew; a status that is not COMPLETED is written
\* back as it was read.
FulfilOrder(p) ==
    /\ p.op = "fulfil"
    /\ LET shipped == [i \in Items |-> orders[p.order].shipped[i] + p.parts[i].qty]
       IN  orders' = [orders EXCEPT
             ![p.order].shipped = shipped,
             ![p.order].holds = [i \in Items |-> Draw(@[i], p.parts[i])],
             ![p.order].status = IF Whole(shipped) THEN "COMPLETED" ELSE "CONFIRMED"]
    /\ balance' = [i \in Items |-> [balance[i] EXCEPT !.onHand = @ - p.parts[i].qty,
                                                      !.reserved = @ - p.parts[i].qty]]
    /\ UNCHANGED quotation

Invoice(o) ==
    /\ orders' = [orders EXCEPT ![o].invoices = @ + 1]
    /\ UNCHANGED <<quotation, balance>>

InvoiceOrder(p) == p.op = "invoice" /\ Invoice(p.order)
GenerateInvoice(p) == p.op = "generate" /\ Invoice(p.order)

\* releaseReservation looks at each reservation again.
StillActive(p, i) == p.found[i] \cap Active(orders[p.order].holds[i])

Held(holds, S) == SumFunctionOnSet([h \in DOMAIN holds |-> holds[h].qty], S)

Released(p, i) == Held(orders[p.order].holds[i], StillActive(p, i))

Emptied(p, i) ==
    [h \in DOMAIN orders[p.order].holds[i] |->
       [orders[p.order].holds[i][h] EXCEPT !.active = @ /\ h \notin p.found[i]]]

CancelOrder(p) ==
    /\ p.op = "cancel"
    /\ orders' = [orders EXCEPT ![p.order].status = "CANCELLED",
                                ![p.order].holds = [i \in Items |-> Emptied(p, i)]]
    /\ balance' = [i \in Items |-> [balance[i] EXCEPT !.reserved = @ - Released(p, i),
                                                      !.available = @ + Released(p, i)]]
    /\ UNCHANGED quotation

FaultyVoidSale(p) ==
    /\ p.op = "void"
    /\ orders' = [orders EXCEPT ![p.order].status = "VOIDED",
                                ![p.order].returned = [i \in Items |-> @[i] + Ordered[i]],
                                ![p.order].holds = [i \in Items |-> Emptied(p, i)]]
    /\ balance' = [i \in Items |->
                     [balance[i] EXCEPT !.onHand = @ + Ordered[i],
                                        !.reserved = @ - Released(p, i),
                                        !.available = @ + Released(p, i) + Ordered[i]]]
    /\ UNCHANGED quotation

\* cancelSale on a wholesale sale: what was shipped is received back.
VoidSale(p) ==
    /\ p.op = "void"
    /\ orders' = [orders EXCEPT ![p.order].status = "VOIDED",
                                ![p.order].returned = [i \in Items |-> @[i] + p.shipped[i]],
                                ![p.order].holds = [i \in Items |-> Emptied(p, i)]]
    /\ balance' = [i \in Items |->
                     [balance[i] EXCEPT !.onHand = @ + p.shipped[i],
                                        !.reserved = @ - Released(p, i),
                                        !.available = @ + Released(p, i) + p.shipped[i]]]
    /\ UNCHANGED quotation

Write(p) ==
    \/ AcceptQuotation(p) \/ RejectQuotation(p) \/ ConvertQuotation(p)
    \/ ApproveOrder(p) \/ FulfilOrder(p)
    \/ InvoiceOrder(p) \/ GenerateInvoice(p)
    \/ CancelOrder(p) \/ VoidSale(p)

-----------------------------------------------------------------------------
Alone ==
    /\ \E p \in Plans : Write(p)
    /\ UNCHANGED <<slow, overtaken>>

Pause ==
    /\ slow = NoPlan
    /\ overtaken < MaxOvertaken
    /\ slow' \in {p \in Plans : p.op \in Slow}
    /\ UNCHANGED <<records, overtaken>>

\* The slow call writes, or fails.
Resume ==
    /\ slow # NoPlan
    /\ slow' = NoPlan
    /\ \/ Write(slow) /\ overtaken' = overtaken + (IF slow \in Plans THEN 0 ELSE 1)
       \/ UNCHANGED <<records, overtaken>>

Next == Alone \/ Pause \/ Resume

Spec == Init /\ [][Next]_vars

-----------------------------------------------------------------------------
HeldBy(o, i) == Held(orders[o].holds[i], Active(orders[o].holds[i]))

\* However calls overlap, on records of the right type: an order that is
\* COMPLETED or was invoiced has been shipped in full (fulfilOrder,
\* invoiceOrder, generateInvoice), and stock on hand is down by what was
\* shipped and not put back, to the piece.
SoldIsShipped ==
    /\ TypeOK
    /\ \A o \in DOMAIN orders :
         orders[o].status = "COMPLETED" \/ orders[o].invoices > 0
           => \A i \in Items : orders[o].shipped[i] >= Ordered[i]
    /\ \A i \in Items :
         balance[i].onHand = Opening[i] -
           SumFunction([o \in DOMAIN orders |-> orders[o].shipped[i] - orders[o].returned[i]])

\* Unless a call was overtaken: an approved order holds exactly what it still
\* has to ship and any other order nothing, each row's reserved quantity is
\* what the orders hold, a voided order has put back what it shipped, and a
\* quotation becomes one order, an order one invoice.
HoldsFollowOrder ==
    overtaken = 0 =>
      /\ \A o \in DOMAIN orders, i \in Items :
           /\ HeldBy(o, i) = IF orders[o].status = "CONFIRMED"
                               THEN Ordered[i] - orders[o].shipped[i] ELSE 0
           /\ orders[o].returned[i] = IF orders[o].status = "VOIDED"
                                        THEN orders[o].shipped[i] ELSE 0
      /\ \A i \in Items :
           /\ balance[i].reserved = SumFunction([o \in DOMAIN orders |-> HeldBy(o, i)])
           /\ balance[i].onHand = balance[i].reserved + balance[i].available
      /\ Len(orders) <= 1
      /\ \A o \in DOMAIN orders : orders[o].invoices <= 1
=============================================================================
