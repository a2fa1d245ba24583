------------------------------ MODULE Procurement ------------------------------
(***************************************************************************)
(* Buying one variant from one supplier: requisitions, purchase orders     *)
(* (procurement.service.ts), goods receipts (goods-receipts.service.ts)    *)
(* and what the supplier is owed (suppliers.service.ts).  A document has   *)
(* one line, a unit costs one and carries no landed cost; what is received *)
(* and not accepted is rejected; roles are taken as given.                 *)
(*                                                                         *)
(* A plan holds what a handler read; a slow call is overtaken by others    *)
(* that run alone between its read and its write.                          *)
(***************************************************************************)
EXTENDS Integers, Sequences, FiniteSets, Functions

CONSTANTS
    OrderQuantities,  \* quantities that are asked for or ordered
    MaxRequisitions,  \* bound: requisitions
    MaxOrders,        \* bound: purchase orders
    MaxReceipts,      \* bound: goods receipts
    MaxDocuments,     \* bound: documents of these three kinds
    MaxPosts,         \* bound: postings of receipts
    MaxPaid,          \* bound: payments of one unit to the supplier
    SlowPurchases     \* the operations that may be overtaken after their read

ASSUME OrderQuantitiesAssumption == OrderQuantities \subseteq Nat \ {0}

VARIABLES
    requisitions,      \* PurchaseRequisition with its one item
    orders,            \* PurchaseOrder with its one item
    receipts,          \* GoodsReceipt with its one item
    onHand,            \* stock at the destination branch
    balance,           \* Supplier.currentBalance
    paid,              \* total of the SupplierPayments
    slowPurchase,      \* the plan of the overtaken call, if any
    purchaseOvertaken   \* history: a call wrote after what it had read was changed

purchaseRecords == <<requisitions, orders, receipts, onHand, balance, paid>>
purchaseVars == <<purchaseRecords, slowPurchase, purchaseOvertaken>>

Requisitions == [status: {"DRAFT", "SUBMITTED", "APPROVED", "PARTIALLY_APPROVED", "REJECTED",
                          "CONVERTED_TO_PURCHASE_ORDER"},
                 asked: Nat, approved: Nat, converted: BOOLEAN]

\* converts is the requisition it was converted from; an order made directly
\* may name one too, which is then marked as converted.
Orders == [status: {"DRAFT", "PENDING_APPROVAL", "APPROVED", "SENT_TO_SUPPLIER",
                    "PARTIALLY_RECEIVED", "FULLY_RECEIVED", "CANCELLED"},
           ordered: Nat, received: Nat, converts: Nat]

\* posts and crowded are history: how often it was posted, and whether the
\* order had another receipt that was not posted when it was made.
Receipts == [status: {"DRAFT", "POSTED"}, order: Nat, received: Nat, accepted: Nat,
             posts: Nat, crowded: BOOLEAN]

NoPurchasePlan == [op |-> "none"]

PurchaseTypeOK ==
    /\ requisitions \in Seq(Requisitions)
    /\ orders \in Seq(Orders)
    /\ receipts \in Seq(Receipts)
    /\ {onHand, paid} \subseteq Nat
    /\ balance \in Int
    /\ slowPurchase.op \in SlowPurchases \cup {"none"}
    /\ purchaseOvertaken \in BOOLEAN

PurchaseInit ==
    /\ requisitions = <<>>
    /\ orders = <<>>
    /\ receipts = <<>>
    /\ onHand = 0
    /\ balance = 0
    /\ paid = 0
    /\ slowPurchase = NoPurchasePlan
    /\ purchaseOvertaken = FALSE

-----------------------------------------------------------------------------
(***************************************************************************)
(* Plans.                                                                  *)
(***************************************************************************)
RequisitionsIn(S) == {r \in DOMAIN requisitions : requisitions[r].status \in S}
OrdersIn(S) == {o \in DOMAIN orders : orders[o].status \in S}
Drafts == {r \in DOMAIN receipts : receipts[r].status = "DRAFT"}

Approvals(r) ==
    {[op |-> "approveRequisition", requisition |-> r, qty |-> q] : q \in 0..requisitions[r].asked}

ApprovePlans == UNION {Approvals(r) : r \in RequisitionsIn({"SUBMITTED"})}

RequisitionPlans ==
    {[op |-> "createRequisition", qty |-> q] : q \in OrderQuantities}
    \cup {[op |-> "submitRequisition", requisition |-> r] : r \in RequisitionsIn({"DRAFT"})}
    \cup ApprovePlans
    \cup {[op |-> "rejectRequisition", requisition |-> r] : r \in RequisitionsIn({"SUBMITTED"})}

OrderPlans ==
    {[op |-> "createPO", qty |-> q, source |-> r] :
       q \in OrderQuantities, r \in {0} \cup DOMAIN requisitions}
    \cup {[op |-> "convert", requisition |-> r, qty |-> requisitions[r].approved] :
            r \in {r \in RequisitionsIn({"APPROVED", "PARTIALLY_APPROVED"}) :
                     ~requisitions[r].converted}}
    \cup {[op |-> "submitPO", order |-> o] : o \in OrdersIn({"DRAFT"})}
    \cup {[op |-> "approvePO", order |-> o] : o \in OrdersIn({"PENDING_APPROVAL"})}
    \cup {[op |-> "send", order |-> o] : o \in OrdersIn({"APPROVED"})}
    \cup {[op |-> "cancelPO", order |-> o] :
            o \in DOMAIN orders \ OrdersIn({"FULLY_RECEIVED", "CANCELLED"})}

\* An order of any status is received, up to what is left of it.
Receivable(o) ==
    IF orders[o].received < orders[o].ordered THEN orders[o].ordered - orders[o].received ELSE 0

Deliveries(o) ==
    {[op |-> "createReceipt", order |-> o, received |-> n, accepted |-> a] :
       n \in 0..Receivable(o), a \in 0..Receivable(o)}

CreateReceiptPlans == UNION {Deliveries(o) : o \in DOMAIN orders}

ReceiptPlans ==
    CreateReceiptPlans
    \cup {[op |-> "post", receipt |-> r, balance |-> balance] : r \in Drafts}

SupplierPlans == {[op |-> "pay", balance |-> balance]}

PurchasePlans == RequisitionPlans \cup OrderPlans \cup ReceiptPlans \cup SupplierPlans

-----------------------------------------------------------------------------
(***************************************************************************)
(* Writes.                                                                 *)
(***************************************************************************)
Room(docs, most) ==
    /\ Len(docs) < most
    /\ Len(requisitions) + Len(orders) + Len(receipts) < MaxDocuments

CreateRequisition(p) ==
    /\ p.op = "createRequisition"
    /\ Room(requisitions, MaxRequisitions)
    /\ requisitions' = Append(requisitions, [status |-> "DRAFT", asked |-> p.qty,
                                             approved |-> 0, converted |-> FALSE])
    /\ UNCHANGED <<orders, receipts, onHand, balance, paid>>

MoveRequisition(r, status) ==
    /\ requisitions' = [requisitions EXCEPT ![r].status = status]
    /\ UNCHANGED <<orders, receipts, onHand, balance, paid>>

SubmitRequisition(p) ==
    p.op = "submitRequisition" /\ MoveRequisition(p.requisition, "SUBMITTED")

RejectRequisition(p) ==
    p.op = "rejectRequisition" /\ MoveRequisition(p.requisition, "REJECTED")

ApproveRequisition(p) ==
    /\ p.op = "approveRequisition"
    /\ requisitions' =
         [requisitions EXCEPT
            ![p.requisition].approved = p.qty,
            ![p.requisition].status =
               IF p.qty = 0 THEN "REJECTED"
               ELSE IF p.qty < requisitions[p.requisition].asked THEN "PARTIALLY_APPROVED"
               ELSE "APPROVED"]
    /\ UNCHANGED <<orders, receipts, onHand, balance, paid>>

NewOrder(qty, converts) ==
    /\ Room(orders, MaxOrders)
    /\ orders' = Append(orders, [status |-> "DRAFT", ordered |-> qty, received |-> 0,
                                 converts |-> converts])

Convert(S) ==
    requisitions' = [r \in DOMAIN requisitions |->
                       IF r \in S
                         THEN [requisitions[r] EXCEPT !.status = "CONVERTED_TO_PURCHASE_ORDER",
                                                      !.converted = TRUE]
                         ELSE requisitions[r]]

\* The requisition it names is marked as converted, whatever its status.
CreatePO(p) ==
    /\ p.op = "createPO"
    /\ NewOrder(p.qty, 0)
    /\ Convert({p.source})
    /\ UNCHANGED <<receipts, onHand, balance, paid>>

ConvertRequisitionToPO(p) ==
    /\ p.op = "convert"
    /\ NewOrder(p.qty, p.requisition)
    /\ Convert({p.requisition})
    /\ UNCHANGED <<receipts, onHand, balance, paid>>

MoveOrder(o, status) ==
    /\ orders' = [orders EXCEPT ![o].status = status]
    /\ UNCHANGED <<requisitions, receipts, onHand, balance, paid>>

SubmitPO(p) == p.op = "submitPO" /\ MoveOrder(p.order, "PENDING_APPROVAL")
ApprovePO(p) == p.op = "approvePO" /\ MoveOrder(p.order, "APPROVED")
SendToSupplier(p) == p.op = "send" /\ MoveOrder(p.order, "SENT_TO_SUPPLIER")
CancelPO(p) == p.op = "cancelPO" /\ MoveOrder(p.order, "CANCELLED")

CreateReceipt(p) ==
    /\ p.op = "createReceipt"
    /\ p.accepted <= p.received
    /\ Room(receipts, MaxReceipts)
    /\ receipts' = Append(receipts, [status |-> "DRAFT", order |-> p.order,
                                     received |-> p.received, accepted |-> p.accepted,
                                     posts |-> 0,
                                     crowded |-> \E r \in Drafts : receipts[r].order = p.order])
    /\ UNCHANGED <<requisitions, orders, onHand, balance, paid>>

FaultyReceivedStatus(ordered, received) ==
    IF received > 0 THEN "PARTIALLY_RECEIVED"
    ELSE IF received >= ordered THEN "FULLY_RECEIVED" ELSE "SENT_TO_SUPPLIER"

ReceivedStatus(ordered, received) ==
    IF received >= ordered THEN "FULLY_RECEIVED"
    ELSE IF received > 0 THEN "PARTIALLY_RECEIVED" ELSE "SENT_TO_SUPPLIER"

TotalPosts == SumFunction([r \in DOMAIN receipts |-> receipts[r].posts])

FaultyPostReceipt(p) ==
    /\ p.op = "post"
    /\ TotalPosts < MaxPosts
    /\ LET r == receipts[p.receipt]
           o == r.order
           total == orders[o].received + r.received
       IN  /\ receipts' = [receipts EXCEPT ![p.receipt].status = "POSTED",
                                           ![p.receipt].posts = @ + 1]
           /\ orders' = [orders EXCEPT ![o].received = total,
                                       ![o].status = ReceivedStatus(orders[o].ordered, total)]
           /\ onHand' = onHand + r.received
           /\ \E owed \in {p.balance, balance} : balance' = owed + r.accepted
    /\ UNCHANGED <<requisitions, paid>>

\* Quantities are added to what they are by then, and so is the order's
\* status decided; the supplier's balance is written from what was read of
\* it, after the receipt was.
PostReceipt(p) ==
    /\ p.op = "post"
    /\ TotalPosts < MaxPosts
    /\ LET r == receipts[p.receipt]
           o == r.order
           total == orders[o].received + r.received
       IN  /\ receipts' = [receipts EXCEPT ![p.receipt].status = "POSTED",
                                           ![p.receipt].posts = @ + 1]
           /\ orders' = [orders EXCEPT ![o].received = total,
                                       ![o].status = ReceivedStatus(orders[o].ordered, total)]
           /\ onHand' = onHand + r.accepted
           /\ \E owed \in {p.balance, balance} : balance' = owed + r.accepted
    /\ UNCHANGED <<requisitions, paid>>

RecordPayment(p) ==
    /\ p.op = "pay"
    /\ paid < MaxPaid
    /\ paid' = paid + 1
    /\ balance' = p.balance - 1
    /\ UNCHANGED <<requisitions, orders, receipts, onHand>>

PurchaseWrite(p) ==
    \/ CreateRequisition(p) \/ SubmitRequisition(p) \/ ApproveRequisition(p)
    \/ RejectRequisition(p)
    \/ CreatePO(p) \/ ConvertRequisitionToPO(p) \/ SubmitPO(p) \/ ApprovePO(p)
    \/ SendToSupplier(p) \/ CancelPO(p)
    \/ CreateReceipt(p) \/ PostReceipt(p) \/ RecordPayment(p)

-----------------------------------------------------------------------------
PurchaseAlone ==
    /\ \E p \in PurchasePlans : PurchaseWrite(p)
    /\ UNCHANGED <<slowPurchase, purchaseOvertaken>>

PurchasePause ==
    /\ slowPurchase = NoPurchasePlan
    /\ ~purchaseOvertaken
    /\ slowPurchase' \in {p \in PurchasePlans : p.op \in SlowPurchases}
    /\ UNCHANGED <<purchaseRecords, purchaseOvertaken>>

\* The slow call writes, or fails.
PurchaseResume ==
    /\ slowPurchase # NoPurchasePlan
    /\ slowPurchase' = NoPurchasePlan
    /\ \/ PurchaseWrite(slowPurchase) /\ purchaseOvertaken' = (slowPurchase \notin PurchasePlans)
       \/ UNCHANGED <<purchaseRecords, purchaseOvertaken>>

PurchaseNext == PurchaseAlone \/ PurchasePause \/ PurchaseResume

PurchaseSpec == PurchaseInit /\ [][PurchaseNext]_purchaseVars

-----------------------------------------------------------------------------
Of(o) == {r \in DOMAIN receipts : receipts[r].order = o}
Posted == {r \in DOMAIN receipts : receipts[r].status = "POSTED"}

\* What the postings of each receipt have brought to its order and to the
\* stock, and what one posting makes the supplier's due.
Brought == [r \in DOMAIN receipts |-> receipts[r].posts * receipts[r].received]
Stocked == [r \in DOMAIN receipts |-> receipts[r].posts * receipts[r].accepted]
Due == [r \in DOMAIN receipts |-> receipts[r].accepted]

\* However calls overlap, on records of the right type: what an order has
\* received and what is in stock is what its receipts brought each time they
\* were posted (goodsReceipts.post), and an order is FULLY_RECEIVED only with
\* everything it ordered.
ReceivedIsPosted ==
    /\ PurchaseTypeOK
    /\ onHand = SumFunction(Stocked)
    /\ \A o \in DOMAIN orders :
         /\ orders[o].received = SumFunctionOnSet(Brought, Of(o))
         /\ orders[o].status = "FULLY_RECEIVED" => orders[o].received >= orders[o].ordered

\* Unless a call was overtaken: a receipt is posted once and a requisition
\* converted to one order, of the quantity approved; the supplier is owed what
\* was accepted and not paid; an order that has received something says so
\* unless it was cancelled since, and says that it has everything when it has;
\* and no more is received than was ordered unless a receipt was made while
\* another one of the order was not posted yet, since create compares with
\* what was received until then, and post with nothing.
OrdersFollowReceipts ==
    ~purchaseOvertaken =>
      /\ \A r \in DOMAIN receipts :
           receipts[r].posts = IF receipts[r].status = "POSTED" THEN 1 ELSE 0
      /\ balance = SumFunctionOnSet(Due, Posted) - paid
      /\ \A r \in DOMAIN requisitions :
           LET made == {o \in DOMAIN orders : orders[o].converts = r}
           IN  /\ Cardinality(made) <= 1
               /\ \A o \in made : orders[o].ordered = requisitions[r].approved
      /\ \A o \in DOMAIN orders :
           /\ orders[o].received > 0 =>
                orders[o].status \in {"PARTIALLY_RECEIVED", "FULLY_RECEIVED", "CANCELLED"}
           /\ orders[o].received >= orders[o].ordered => orders[o].status = "FULLY_RECEIVED"
           /\ (\A r \in Of(o) : ~receipts[r].crowded) => orders[o].received <= orders[o].ordered
=============================================================================
