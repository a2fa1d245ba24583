---------------------------- MODULE SupplyProofs -----------------------------
(***************************************************************************)
(* Theorems about the two ways stock reaches a branch: Procurement, from a *)
(* supplier, and StockTransfer, from another branch; and about what goods  *)
(* from abroad cost, ImportShipment.  They hold for all quantities and     *)
(* amounts, every set of transfers and items, and any calls that may be    *)
(* overtaken.                                                              *)
(*                                                                         *)
(* Procurement.  PurchaseInv is inductive however calls overlap: an order  *)
(* has received what the postings of its receipts brought.  What the       *)
(* statuses say, PurchaseOrderly, survives only while no call has written  *)
(* a document that had changed since the call read it.                     *)
(*                                                                         *)
(* StockTransfer.  Inv is inductive however calls overlap: it gives        *)
(* SourceTracked.  What the statuses say of the records, Lines, survives   *)
(* only while no call has written a transfer that had changed since the    *)
(* call read it, and so do HeldUntilDispatch and DestinationTracked, which *)
(* rest on it; InOrder adds it to Inv under that condition.                *)
(*                                                                         *)
(* ImportShipment.  ShipmentInv is inductive: with every cost, the         *)
(* allocations are made anew, and come to what was booked because each     *)
(* cost's do (AllocatedIs), summed by cost instead of by variant.          *)
(***************************************************************************)
EXTENDS StockTransfer, Procurement, ImportShipment, Sums

-----------------------------------------------------------------------------
(***************************************************************************)
(* Procurement: what receipts and their postings add to orders and to the  *)
(* stock.                                                                  *)
(***************************************************************************)
\* The numbers of a receipt that add up: what its postings brought to order o
\* and to the stock, and what its posting made the supplier's due.
BroughtTo(o) == [x \in Receipts |-> IF x.order = o THEN x.posts * x.received ELSE 0]
StockedBy == [x \in Receipts |-> x.posts * x.accepted]
DueFor == [x \in Receipts |-> IF x.status = "POSTED" THEN x.accepted ELSE 0]

RequisitionOps == {"submitRequisition", "approveRequisition", "rejectRequisition", "convert"}
OrderOps == {"submitPO", "approvePO", "send", "cancelPO", "createReceipt"}

\* What stays true of a plan: the document it read is there.
PurchasePlanOK(p) ==
    /\ p.op \in RequisitionOps => p.requisition \in DOMAIN requisitions
    /\ p.op \in OrderOps => p.order \in DOMAIN orders
    /\ p.op = "post" => p.receipt \in DOMAIN receipts
    /\ p.op \in {"createRequisition", "createPO"} => p.qty \in Nat \ {0}
    /\ p.op \in {"approveRequisition", "convert"} => p.qty \in Nat
    /\ p.op = "createReceipt" => p.received \in Nat /\ p.accepted \in Nat
    /\ p.op \in {"post", "pay"} => p.balance \in Int

PurchasesTyped ==
    /\ requisitions \in Seq(Requisitions) /\ orders \in Seq(Orders) /\ receipts \in Seq(Receipts)
    /\ onHand \in Nat /\ paid \in Nat /\ balance \in Int

PurchasesGrow ==
    /\ DOMAIN requisitions \subseteq DOMAIN requisitions'
    /\ DOMAIN orders \subseteq DOMAIN orders'
    /\ DOMAIN receipts \subseteq DOMAIN receipts'

\* Order x, of number o, has received what receipts s brought.
OrderBrought(o, x, s) ==
    /\ x.received = SeqSum(BroughtTo(o), s)
    /\ x.status = "FULLY_RECEIVED" => x.received >= x.ordered

OrdersBrought(m, s) == \A o \in DOMAIN m : OrderBrought(o, m[o], s)

ReceiptsPlaced(m, s) == \A r \in DOMAIN s : s[r].order \in DOMAIN m

PurchaseCore ==
    /\ PurchasesTyped
    /\ ReceiptsPlaced(orders, receipts)
    /\ onHand = SeqSum(StockedBy, receipts)
    /\ OrdersBrought(orders, receipts)

LEMMA RequisitionTyped ==
    ASSUME NEW x \in Requisitions
    PROVE  /\ x.asked \in Nat /\ x.approved \in Nat /\ x.converted \in BOOLEAN
           /\ x.status \in {"DRAFT", "SUBMITTED", "APPROVED", "PARTIALLY_APPROVED", "REJECTED",
                            "CONVERTED_TO_PURCHASE_ORDER"}
BY DEF Requisitions

LEMMA OrderTyped ==
    ASSUME NEW x \in Orders
    PROVE  x.ordered \in Nat /\ x.received \in Nat /\ x.converts \in Nat
BY DEF Orders

LEMMA ReceiptTyped ==
    ASSUME NEW x \in Receipts
    PROVE  /\ x.order \in Nat /\ x.received \in Nat /\ x.accepted \in Nat /\ x.posts \in Nat
           /\ x.crowded \in BOOLEAN /\ x.status \in {"DRAFT", "POSTED"}
BY DEF Receipts

LEMMA ReceiptNumbers ==
    /\ \A o : BroughtTo(o) \in [Receipts -> Nat]
    /\ StockedBy \in [Receipts -> Nat] /\ DueFor \in [Receipts -> Nat]
<1>1. ASSUME NEW x \in Receipts
      PROVE  x.posts * x.received \in Nat /\ x.posts * x.accepted \in Nat /\ x.accepted \in Nat
  <2>1. PICK a \in Nat, b \in Nat, c \in Nat : a = x.posts /\ b = x.received /\ c = x.accepted
    BY ReceiptTyped
  <2>2. a * b \in Nat /\ a * c \in Nat
    OBVIOUS
  <2>3. QED
    BY <2>1, <2>2
<1>2. QED
  BY <1>1 DEF BroughtTo, StockedBy, DueFor

LEMMA NumbersInt ==
    /\ \A o : BroughtTo(o) \in [Receipts -> Int]
    /\ StockedBy \in [Receipts -> Int] /\ DueFor \in [Receipts -> Int]
<1>1. \A f : f \in [Receipts -> Nat] => f \in [Receipts -> Int]
  OBVIOUS
<1>2. QED
  BY <1>1, ReceiptNumbers

\* A receipt that is not posted yet adds nothing, whichever order it is of.
LEMMA DraftAddsNothing ==
    ASSUME NEW x \in Receipts, x.posts = 0
    PROVE  (\A o : BroughtTo(o)[x] = 0) /\ StockedBy[x] = 0
<1>1. PICK b \in Nat, c \in Nat : b = x.received /\ c = x.accepted
  BY ReceiptTyped
<1>2. 0 * b = 0 /\ 0 * c = 0
  OBVIOUS
<1>3. QED
  BY <1>1, <1>2 DEF BroughtTo, StockedBy

\* Receipt y is receipt x, posted once more.
PostedAgain(x, y) ==
    /\ x \in Receipts /\ y \in Receipts
    /\ y.status = "POSTED" /\ y.posts = x.posts + 1 /\ y.order = x.order
    /\ y.received = x.received /\ y.accepted = x.accepted /\ y.crowded = x.crowded

LEMMA PostingAdds ==
    ASSUME NEW x, NEW y, PostedAgain(x, y)
    PROVE  /\ \A o : BroughtTo(o)[y] = BroughtTo(o)[x] + IF o = x.order THEN x.received ELSE 0
           /\ StockedBy[y] = StockedBy[x] + x.accepted
<1>1. x \in Receipts /\ y \in Receipts
  BY DEF PostedAgain
<1>2. PICK a \in Nat, b \in Nat, c \in Nat : a = x.posts /\ b = x.received /\ c = x.accepted
  BY <1>1, ReceiptTyped
<1>3. (a + 1) * b = a * b + b /\ (a + 1) * c = a * c + c
  OBVIOUS
<1>4. y.posts = a + 1 /\ y.received = b /\ y.accepted = c /\ y.order = x.order
  BY <1>2 DEF PostedAgain
<1>5. StockedBy[y] = (a + 1) * c /\ StockedBy[x] = a * c
  BY <1>1, <1>2, <1>4 DEF StockedBy
<1>6. ASSUME NEW o
      PROVE BroughtTo(o)[y] = BroughtTo(o)[x] + IF o = x.order THEN x.received ELSE 0
  <2>1. CASE o = x.order
    <3>1. BroughtTo(o)[y] = (a + 1) * b /\ BroughtTo(o)[x] = a * b
      BY <1>1, <1>2, <1>4, <2>1 DEF BroughtTo
    <3>2. QED
      BY <1>2, <1>3, <2>1, <3>1
  <2>2. CASE o # x.order
    BY <1>1, <1>4, <2>2 DEF BroughtTo
  <2>3. QED
    BY <2>1, <2>2
<1>7. QED
  BY <1>2, <1>3, <1>5, <1>6

\* Order y is order x with nothing changed but its status, which does not
\* become FULLY_RECEIVED.
Restated(x, y) ==
    /\ x \in Orders /\ y \in Orders /\ y.ordered = x.ordered /\ y.received = x.received
    /\ y.converts = x.converts /\ y.status # "FULLY_RECEIVED"

LEMMA BroughtRestated ==
    ASSUME NEW m, NEW n, NEW s, NEW o, Replaced(Orders, m, n, o), Restated(m[o], n[o]),
           OrdersBrought(m, s)
    PROVE  OrdersBrought(n, s)
BY DEF Replaced, Restated, OrdersBrought, OrderBrought

\* An order that nothing was received for.
NewOrderOK(x) ==
    x \in Orders /\ x.status = "DRAFT" /\ x.received = 0 /\ x.ordered \in Nat

LEMMA BroughtNewOrder ==
    ASSUME NEW m, NEW n, NEW s \in Seq(Receipts), NEW o, Extended(Orders, m, n, o),
           NewOrderOK(n[o]), OrdersBrought(m, s), ReceiptsPlaced(m, s)
    PROVE  OrdersBrought(n, s) /\ ReceiptsPlaced(n, s)
<1>1. SeqSum(BroughtTo(o), s) = 0
  <2>1. IsFiniteSet(DOMAIN s) /\ \A i \in DOMAIN s : s[i] \in Receipts
    BY SequenceDomain
  <2>2. \A i \in DOMAIN s : s[i].order # o
    BY DEF ReceiptsPlaced, Extended
  <2>3. OverSeq(BroughtTo(o), s) \in [DOMAIN s -> {0}]
    BY <2>1, <2>2 DEF OverSeq, BroughtTo
  <2>4. QED
    BY <2>1, <2>3, TotalZero DEF SeqSum
<1>2. \A u \in DOMAIN n : u \in DOMAIN m \/ u = o
  BY DEF Extended
<1>3. ASSUME NEW u \in DOMAIN n PROVE OrderBrought(u, n[u], s)
  <2>1. CASE u = o
    BY <1>1, <2>1 DEF OrderBrought, NewOrderOK
  <2>2. CASE u \in DOMAIN m
    BY <2>2 DEF OrdersBrought, Extended
  <2>3. QED
    BY <1>2, <2>1, <2>2
<1>4. QED
  BY <1>3 DEF OrdersBrought, ReceiptsPlaced, Extended

\* A receipt is made.
LEMMA BroughtDraft ==
    ASSUME NEW m, NEW s, NEW t, NEW r, Extended(Receipts, s, t, r),
           t[r].posts = 0, t[r].order \in DOMAIN m, OrdersBrought(m, s), ReceiptsPlaced(m, s)
    PROVE  /\ OrdersBrought(m, t) /\ ReceiptsPlaced(m, t)
           /\ SeqSum(StockedBy, t) = SeqSum(StockedBy, s)
<1>1. s \in Seq(Receipts) /\ t \in Seq(Receipts) /\ t[r] \in Receipts
  BY SequenceDomain DEF Extended
<1>2. ASSUME NEW f \in [Receipts -> Int], f[t[r]] = 0
      PROVE  SeqSum(f, t) = SeqSum(f, s)
  <2>1. SeqSum(f, t) = SeqSum(f, s) + f[t[r]]
    BY SeqSumAppend
  <2>2. SeqSum(f, s) \in Int
    BY <1>1, SeqSumInt
  <2>3. QED
    BY <1>2, <2>1, <2>2
<1>3. \A o : SeqSum(BroughtTo(o), t) = SeqSum(BroughtTo(o), s)
  BY <1>1, <1>2, DraftAddsNothing, NumbersInt
<1>4. SeqSum(StockedBy, t) = SeqSum(StockedBy, s)
  BY <1>1, <1>2, DraftAddsNothing, NumbersInt
<1>5. QED
  BY <1>3, <1>4 DEF OrdersBrought, OrderBrought, ReceiptsPlaced, Extended

\* Order y is order x after it received n more.
ReceivedMore(x, y, n) ==
    /\ x \in Orders /\ y \in Orders /\ n \in Nat
    /\ y.ordered = x.ordered /\ y.converts = x.converts /\ y.received = x.received + n
    /\ y.status = ReceivedStatus(x.ordered, x.received + n)

\* A receipt is posted.
LEMMA BroughtPosted ==
    ASSUME NEW m, NEW n, NEW s, NEW t, NEW r, NEW o,
           Replaced(Receipts, s, t, r), PostedAgain(s[r], t[r]), o = s[r].order,
           Replaced(Orders, m, n, o), ReceivedMore(m[o], n[o], s[r].received),
           OrdersBrought(m, s), ReceiptsPlaced(m, s)
    PROVE  /\ OrdersBrought(n, t) /\ ReceiptsPlaced(n, t)
           /\ SeqSum(StockedBy, t) = SeqSum(StockedBy, s) + s[r].accepted
<1>1. /\ s \in Seq(Receipts) /\ t \in Seq(Receipts) /\ s[r] \in Receipts /\ t[r] \in Receipts
      /\ DOMAIN t = DOMAIN s /\ DOMAIN n = DOMAIN m
  BY SequenceDomain DEF Replaced
<1>2. PICK b \in Nat, c \in Nat : b = s[r].received /\ c = s[r].accepted
  BY <1>1, ReceiptTyped
<1>3. ASSUME NEW u PROVE SeqSum(BroughtTo(u), t) = SeqSum(BroughtTo(u), s) + IF u = o THEN b ELSE 0
  <2>1. SeqSum(BroughtTo(u), t) = SeqSum(BroughtTo(u), s) + (BroughtTo(u)[t[r]] - BroughtTo(u)[s[r]])
    BY NumbersInt, SeqSumSet
  <2>2. BroughtTo(u)[t[r]] = BroughtTo(u)[s[r]] + IF u = o THEN b ELSE 0
    BY <1>2, PostingAdds
  <2>3. BroughtTo(u)[s[r]] \in Int /\ BroughtTo(u)[t[r]] \in Int /\ SeqSum(BroughtTo(u), s) \in Int
    BY <1>1, NumbersInt, SeqSumInt
  <2>4. QED
    BY <2>1, <2>2, <2>3
<1>4. SeqSum(StockedBy, t) = SeqSum(StockedBy, s) + c
  <2>1. SeqSum(StockedBy, t) = SeqSum(StockedBy, s) + (StockedBy[t[r]] - StockedBy[s[r]])
    BY NumbersInt, SeqSumSet
  <2>2. StockedBy[t[r]] = StockedBy[s[r]] + c
    BY <1>2, PostingAdds
  <2>3. StockedBy[s[r]] \in Int /\ SeqSum(StockedBy, s) \in Int
    BY <1>1, NumbersInt, SeqSumInt
  <2>4. QED
    BY <2>1, <2>2, <2>3
<1>5. ASSUME NEW u \in DOMAIN n PROVE OrderBrought(u, n[u], t)
  <2>1. OrderBrought(u, m[u], s) /\ SeqSum(BroughtTo(u), s) \in Int
    BY <1>1, NumbersInt, SeqSumInt DEF OrdersBrought
  <2>2. CASE u = o
    <3>1. PICK x, y : x = m[u] /\ y = n[u] /\ ReceivedMore(x, y, b)
      BY <1>2, <2>2
    <3>2. y.received = SeqSum(BroughtTo(u), t)
      BY <1>3, <2>1, <2>2, <3>1 DEF OrderBrought, ReceivedMore
    <3>3. y.status = "FULLY_RECEIVED" => y.received >= y.ordered
      BY <3>1 DEF ReceivedMore, ReceivedStatus
    <3>4. QED
      BY <3>1, <3>2, <3>3 DEF OrderBrought
  <2>3. CASE u # o
    <3>1. n[u] = m[u]
      BY <1>1, <2>3 DEF Replaced
    <3>2. SeqSum(BroughtTo(u), t) = SeqSum(BroughtTo(u), s)
      BY <1>3, <2>1, <2>3
    <3>3. QED
      BY <2>1, <3>1, <3>2 DEF OrderBrought
  <2>4. QED
    BY <2>2, <2>3
<1>6. ReceiptsPlaced(n, t)
  BY <1>1 DEF ReceiptsPlaced, Replaced, PostedAgain
<1>7. QED
  BY <1>2, <1>4, <1>5, <1>6 DEF OrdersBrought

-----------------------------------------------------------------------------
(***************************************************************************)
(* Procurement: writes of requisitions keep the core.                      *)
(***************************************************************************)
\* No write, however stale its plan, loses a document or breaks what the core
\* says.
PurchaseKept == PurchaseCore' /\ PurchasesGrow

LEMMA PurchaseCoreInit == PurchaseInit => PurchaseCore
<1> SUFFICES ASSUME PurchaseInit PROVE PurchaseCore
  OBVIOUS
<1>1. PurchasesTyped
  BY DEF PurchaseInit, PurchasesTyped
<1>2. SeqSum(StockedBy, receipts) = 0
  BY SeqSumEmpty DEF PurchaseInit
<1>3. QED
  BY <1>1, <1>2 DEF PurchaseInit, PurchaseCore, ReceiptsPlaced, OrdersBrought

\* Requisition y takes the place of x, or is new.
LEMMA MoveRequisitionOK ==
    ASSUME PurchaseCore, NEW i \in DOMAIN requisitions, NEW st, MoveRequisition(i, st),
           st \in {"SUBMITTED", "REJECTED"}
    PROVE  /\ PurchaseKept /\ Replaced(Requisitions, requisitions, requisitions', i)
           /\ requisitions'[i] = [requisitions[i] EXCEPT !.status = st]
<1>1. PICK q, x, y, m : /\ q = requisitions /\ m = requisitions' /\ x = q[i]
                        /\ y = [x EXCEPT !.status = st]
  OBVIOUS
<1>2. q \in Seq(Requisitions)
  BY <1>1 DEF PurchaseCore, PurchasesTyped
<1>3. x \in Requisitions
  BY <1>1, <1>2, SequenceDomain
<1>4. y \in Requisitions
  BY ONLY <1>1, <1>3, st \in {"SUBMITTED", "REJECTED"} DEF Requisitions
<1>5. m = [q EXCEPT ![i] = y]
  BY <1>1, <1>2 DEF MoveRequisition
<1>6. i \in DOMAIN q
  BY <1>1
<1>7. /\ m \in Seq(Requisitions) /\ DOMAIN m = DOMAIN q /\ m[i] = y
      /\ \A j \in DOMAIN q \ {i} : m[j] = q[j]
  BY ONLY <1>2, <1>4, <1>5, <1>6, SequenceSet
<1>8. QED
  BY <1>1, <1>2, <1>6, <1>7
     DEF Replaced, PurchaseKept, PurchasesGrow, PurchaseCore, PurchasesTyped, MoveRequisition

\* What an approval decides.
ApprovedBy(x, y, n) ==
    y = [x EXCEPT !.approved = n,
                  !.status = IF n = 0 THEN "REJECTED"
                             ELSE IF n < x.asked THEN "PARTIALLY_APPROVED" ELSE "APPROVED"]

LEMMA ApproveRequisitionOK ==
    ASSUME PurchaseCore, NEW p, PurchasePlanOK(p), ApproveRequisition(p)
    PROVE  /\ PurchaseKept
           /\ Replaced(Requisitions, requisitions, requisitions', p.requisition)
           /\ ApprovedBy(requisitions[p.requisition], requisitions'[p.requisition], p.qty)
<1>1. PICK q, m, i, n : /\ q = requisitions /\ m = requisitions' /\ i = p.requisition
                        /\ n = p.qty
  OBVIOUS
<1>2. q \in Seq(Requisitions) /\ i \in DOMAIN q /\ n \in Nat
  BY <1>1 DEF PurchaseCore, PurchasesTyped, PurchasePlanOK, ApproveRequisition, RequisitionOps
<1>3. PICK x, y : x = q[i] /\ ApprovedBy(x, y, n)
  BY DEF ApprovedBy
<1>4. x \in Requisitions
  BY <1>2, <1>3, SequenceDomain
<1>5. y \in Requisitions
  BY ONLY <1>2, <1>3, <1>4 DEF ApprovedBy, Requisitions
<1>6. m = [q EXCEPT ![i] = y]
  BY <1>1, <1>2, <1>3 DEF ApproveRequisition, ApprovedBy
<1>7. /\ m \in Seq(Requisitions) /\ DOMAIN m = DOMAIN q /\ m[i] = y
      /\ \A j \in DOMAIN q \ {i} : m[j] = q[j]
  BY ONLY <1>2, <1>5, <1>6, SequenceSet
<1>8. Replaced(Requisitions, q, m, i)
  BY <1>2, <1>7 DEF Replaced
<1>9. PurchaseKept
  BY <1>1, <1>7
     DEF PurchaseKept, PurchasesGrow, PurchaseCore, PurchasesTyped, ApproveRequisition
<1>10. QED
  BY <1>1, <1>3, <1>7, <1>8, <1>9

NewRequisition(n) ==
    [status |-> "DRAFT", asked |-> n, approved |-> 0, converted |-> FALSE]

LEMMA CreateRequisitionOK ==
    ASSUME PurchaseCore, NEW p, PurchasePlanOK(p), CreateRequisition(p)
    PROVE  /\ PurchaseKept
           /\ Extended(Requisitions, requisitions, requisitions', Len(requisitions) + 1)
           /\ requisitions'[Len(requisitions) + 1] = NewRequisition(p.qty)
<1>1. PICK q, m, x : q = requisitions /\ m = requisitions' /\ x = NewRequisition(p.qty)
  OBVIOUS
<1>2. q \in Seq(Requisitions) /\ x \in Requisitions
  BY <1>1 DEF PurchaseCore, PurchasesTyped, PurchasePlanOK, CreateRequisition, Requisitions,
              NewRequisition
<1>3. m = Append(q, x)
  BY <1>1 DEF CreateRequisition, NewRequisition
<1>4. Extended(Requisitions, q, m, Len(q) + 1) /\ m[Len(q) + 1] = x
  BY ONLY <1>2, <1>3, SequenceAppend DEF Extended
<1>5. m \in Seq(Requisitions) /\ DOMAIN q \subseteq DOMAIN m
  BY <1>4 DEF Extended
<1>6. PurchaseKept
  BY <1>1, <1>5 DEF PurchaseKept, PurchasesGrow, PurchaseCore, PurchasesTyped, CreateRequisition
<1>7. QED
  BY <1>1, <1>4, <1>6

\* Requisitions m are requisitions q, with those of S marked as converted.
Converted(q, m, S) ==
    /\ q \in Seq(Requisitions) /\ m \in Seq(Requisitions) /\ DOMAIN m = DOMAIN q
    /\ \A i \in DOMAIN q : /\ m[i].approved = q[i].approved
                           /\ i \in S => /\ m[i].converted
                                         /\ m[i].status = "CONVERTED_TO_PURCHASE_ORDER"
                           /\ i \notin S => m[i] = q[i]

LEMMA ConvertMarks ==
    ASSUME PurchaseCore, NEW S, Convert(S)
    PROVE  Converted(requisitions, requisitions', S)
<1>1. PICK q, m : q = requisitions /\ m = requisitions'
  OBVIOUS
<1> DEFINE C(x) == [x EXCEPT !.status = "CONVERTED_TO_PURCHASE_ORDER", !.converted = TRUE]
<1>2. q \in Seq(Requisitions)
  BY <1>1 DEF PurchaseCore, PurchasesTyped
<1>3. ASSUME NEW x \in Requisitions
      PROVE  /\ C(x) \in Requisitions /\ C(x).converted /\ C(x).approved = x.approved
             /\ C(x).status = "CONVERTED_TO_PURCHASE_ORDER"
  BY DEF Requisitions
<1>4. m = [i \in DOMAIN q |-> IF i \in S THEN C(q[i]) ELSE q[i]]
  BY <1>1 DEF Convert
<1> HIDE DEF C
<1>5. DOMAIN q = 1..Len(q) /\ Len(q) \in Nat /\ \A i \in DOMAIN q : q[i] \in Requisitions
  BY <1>2, SequenceDomain
<1>6. \A i \in DOMAIN q : (IF i \in S THEN C(q[i]) ELSE q[i]) \in Requisitions
  BY <1>3, <1>5
<1>7. m \in [1..Len(q) -> Requisitions]
  BY <1>4, <1>5, <1>6
<1>8. m \in Seq(Requisitions)
  BY <1>5, <1>7
<1>9. DOMAIN m = DOMAIN q
  BY <1>4
<1>10. \A i \in DOMAIN q : /\ m[i].approved = q[i].approved
                           /\ i \in S => /\ m[i].converted
                                         /\ m[i].status = "CONVERTED_TO_PURCHASE_ORDER"
                           /\ i \notin S => m[i] = q[i]
  BY <1>3, <1>4, <1>5
<1>11. QED
  BY <1>1, <1>2, <1>8, <1>9, <1>10 DEF Converted

-----------------------------------------------------------------------------
(***************************************************************************)
(* Procurement: writes of orders and receipts keep the core.               *)
(***************************************************************************)
\* The order that a call makes.
MadeOrder(n, x) ==
    [status |-> "DRAFT", ordered |-> n, received |-> 0, converts |-> x]

LEMMA NewOrderAdded ==
    ASSUME PurchaseCore, NEW n \in Nat, NEW x \in Nat, NewOrder(n, x),
           NEW S, Convert(S), UNCHANGED <<receipts, onHand, balance, paid>>
    PROVE  /\ PurchaseKept /\ Converted(requisitions, requisitions', S)
           /\ Extended(Orders, orders, orders', Len(orders) + 1)
           /\ orders'[Len(orders) + 1] = MadeOrder(n, x)
<1>1. PICK q, m, s, y : q = orders /\ m = orders' /\ s = receipts /\ y = MadeOrder(n, x)
  OBVIOUS
<1>2. q \in Seq(Orders) /\ s \in Seq(Receipts) /\ OrdersBrought(q, s) /\ ReceiptsPlaced(q, s)
  BY <1>1 DEF PurchaseCore, PurchasesTyped
<1>3. y \in Orders /\ NewOrderOK(y)
  BY <1>1 DEF MadeOrder, NewOrderOK, Orders
<1>4. m = Append(q, y)
  BY <1>1 DEF NewOrder, MadeOrder
<1>5. Extended(Orders, q, m, Len(q) + 1) /\ m[Len(q) + 1] = y
  BY ONLY <1>2, <1>3, <1>4, SequenceAppend DEF Extended
<1>6. OrdersBrought(m, s) /\ ReceiptsPlaced(m, s)
  BY <1>2, <1>3, <1>5, BroughtNewOrder
<1>7. Converted(requisitions, requisitions', S)
  BY ConvertMarks
<1>8. PurchaseKept
  BY <1>1, <1>5, <1>6, <1>7
     DEF PurchaseKept, PurchasesGrow, PurchaseCore, PurchasesTyped, Extended, Converted
<1>9. QED
  BY <1>1, <1>5, <1>7, <1>8

\* An order is submitted, approved, sent or cancelled.
MoveStatuses == {"PENDING_APPROVAL", "APPROVED", "SENT_TO_SUPPLIER", "CANCELLED"}

LEMMA MoveOrderOK ==
    ASSUME PurchaseCore, NEW o \in DOMAIN orders, NEW st \in MoveStatuses, MoveOrder(o, st)
    PROVE  /\ PurchaseKept /\ Replaced(Orders, orders, orders', o)
           /\ Restated(orders[o], orders'[o]) /\ orders'[o].status = st
<1>1. PICK q, x, y, m, s : /\ q = orders /\ m = orders' /\ s = receipts /\ x = q[o]
                           /\ y = [x EXCEPT !.status = st]
  OBVIOUS
<1>2. q \in Seq(Orders) /\ OrdersBrought(q, s) /\ ReceiptsPlaced(q, s)
  BY <1>1 DEF PurchaseCore, PurchasesTyped
<1>3. x \in Orders
  BY <1>1, <1>2, SequenceDomain
<1>4. y \in Orders /\ Restated(x, y) /\ y.status = st
  BY ONLY <1>1, <1>3, st \in MoveStatuses DEF Orders, Restated, MoveStatuses
<1>5. m = [q EXCEPT ![o] = y]
  BY <1>1, <1>2 DEF MoveOrder
<1>6. o \in DOMAIN q
  BY <1>1
<1>7. /\ m \in Seq(Orders) /\ DOMAIN m = DOMAIN q /\ m[o] = y
      /\ \A j \in DOMAIN q \ {o} : m[j] = q[j]
  BY ONLY <1>2, <1>4, <1>5, <1>6, SequenceSet
<1>8. Replaced(Orders, q, m, o)
  BY <1>2, <1>6, <1>7 DEF Replaced
<1>9. OrdersBrought(m, s)
  BY <1>1, <1>2, <1>4, <1>7, <1>8, BroughtRestated
<1>10. PurchaseKept
  BY <1>1, <1>2, <1>7, <1>9
     DEF PurchaseKept, PurchasesGrow, PurchaseCore, PurchasesTyped, MoveOrder, ReceiptsPlaced
<1>11. QED
  BY <1>1, <1>4, <1>7, <1>8, <1>10

OrderMoves(p) == SubmitPO(p) \/ ApprovePO(p) \/ SendToSupplier(p) \/ CancelPO(p)

LEMMA OrderMovesOK ==
    ASSUME PurchaseCore, NEW p, PurchasePlanOK(p), OrderMoves(p)
    PROVE  /\ PurchaseKept /\ Replaced(Orders, orders, orders', p.order)
           /\ Restated(orders[p.order], orders'[p.order])
           /\ p.op \in {"submitPO", "approvePO", "send", "cancelPO"}
           /\ p.op = "cancelPO" => orders'[p.order].status = "CANCELLED"
           /\ UNCHANGED <<requisitions, receipts, onHand, balance, paid>>
<1>1. PICK st \in MoveStatuses : /\ MoveOrder(p.order, st)
                                 /\ p.op \in {"submitPO", "approvePO", "send", "cancelPO"}
                                 /\ p.op = "cancelPO" => st = "CANCELLED"
  BY DEF OrderMoves, SubmitPO, ApprovePO, SendToSupplier, CancelPO, MoveStatuses
<1>2. p.order \in DOMAIN orders
  BY <1>1 DEF PurchasePlanOK, OrderOps
<1>3. QED
  BY <1>1, <1>2, MoveOrderOK DEF MoveOrder

\* The receipt that a call makes.
MadeReceipt(p, c) ==
    [status |-> "DRAFT", order |-> p.order, received |-> p.received, accepted |-> p.accepted,
     posts |-> 0, crowded |-> c]

Crowds(s, o) == \E r \in DOMAIN s : s[r].status = "DRAFT" /\ s[r].order = o

LEMMA CreateReceiptOK ==
    ASSUME PurchaseCore, NEW p, PurchasePlanOK(p), CreateReceipt(p)
    PROVE  /\ PurchaseKept /\ Extended(Receipts, receipts, receipts', Len(receipts) + 1)
           /\ receipts'[Len(receipts) + 1] = MadeReceipt(p, Crowds(receipts, p.order))
           /\ UNCHANGED <<requisitions, orders, onHand, balance, paid>>
<1>1. PICK s, t, m, c, x, o, n, a :
        /\ s = receipts /\ t = receipts' /\ m = orders /\ o = p.order /\ n = p.received
        /\ a = p.accepted /\ c = Crowds(receipts, p.order)
        /\ x = [status |-> "DRAFT", order |-> o, received |-> n, accepted |-> a,
                posts |-> 0, crowded |-> c]
  OBVIOUS
<1>2. /\ s \in Seq(Receipts) /\ OrdersBrought(m, s) /\ ReceiptsPlaced(m, s)
      /\ o \in DOMAIN m /\ n \in Nat /\ a \in Nat /\ m \in Seq(Orders)
  BY <1>1 DEF PurchaseCore, PurchasesTyped, PurchasePlanOK, CreateReceipt, OrderOps
<1>3. x \in Receipts
  <2>1. o \in Nat
    BY <1>2, SequenceDomain
  <2>2. c \in BOOLEAN
    BY <1>1 DEF Crowds
  <2>3. QED
    BY ONLY <1>1, <1>2, <2>1, <2>2 DEF Receipts
<1>4. t = Append(s, x)
  BY <1>1 DEF CreateReceipt, Crowds, Drafts
<1>5. Extended(Receipts, s, t, Len(s) + 1) /\ t[Len(s) + 1] = x
  BY ONLY <1>2, <1>3, <1>4, SequenceAppend DEF Extended
<1>6. /\ OrdersBrought(m, t) /\ ReceiptsPlaced(m, t)
      /\ SeqSum(StockedBy, t) = SeqSum(StockedBy, s)
  BY <1>1, <1>2, <1>5, BroughtDraft
<1>7. PurchaseKept
  BY <1>1, <1>5, <1>6
     DEF PurchaseKept, PurchasesGrow, PurchaseCore, PurchasesTyped, CreateReceipt, Extended
<1>8. x = MadeReceipt(p, c)
  BY <1>1 DEF MadeReceipt
<1>9. QED
  BY <1>1, <1>5, <1>7, <1>8 DEF CreateReceipt

LEMMA PostReceiptOK ==
    ASSUME PurchaseCore, NEW p, PurchasePlanOK(p), PostReceipt(p)
    PROVE  LET r == p.receipt
               o == receipts[r].order
           IN  /\ PurchaseKept /\ r \in DOMAIN receipts /\ o \in DOMAIN orders
               /\ Replaced(Receipts, receipts, receipts', r)
               /\ PostedAgain(receipts[r], receipts'[r])
               /\ Replaced(Orders, orders, orders', o)
               /\ ReceivedMore(orders[o], orders'[o], receipts[r].received)
               /\ \E owed \in {p.balance, balance} : balance' = owed + receipts[r].accepted
               /\ UNCHANGED <<requisitions, paid>>
<1>1. PICK s, t, m, n, r, x, y, o, v, w, h :
        /\ s = receipts /\ t = receipts' /\ m = orders /\ n = orders' /\ r = p.receipt
        /\ x = s[r] /\ o = x.order /\ v = m[o] /\ h = v.received + x.received
        /\ y = [x EXCEPT !.status = "POSTED", !.posts = @ + 1]
        /\ w = [v EXCEPT !.received = h, !.status = ReceivedStatus(v.ordered, h)]
  BY ZenonT(60)
<1>2. /\ s \in Seq(Receipts) /\ OrdersBrought(m, s) /\ ReceiptsPlaced(m, s)
      /\ r \in DOMAIN s /\ m \in Seq(Orders) /\ p.balance \in Int /\ balance \in Int
  BY <1>1 DEF PurchaseCore, PurchasesTyped, PurchasePlanOK, PostReceipt
<1>3. x \in Receipts /\ o \in DOMAIN m
  BY <1>1, <1>2, SequenceDomain DEF ReceiptsPlaced
<1>4. v \in Orders
  BY <1>1, <1>2, <1>3, SequenceDomain
<1>5. x.received \in Nat /\ x.accepted \in Nat /\ v.received \in Nat /\ v.ordered \in Nat
  BY <1>3, <1>4, ReceiptTyped, OrderTyped
<1>6. h \in Nat
  BY SMTT(30), <1>1, <1>5
<1>7. y \in Receipts /\ PostedAgain(x, y)
  <2>1. PICK a \in Nat : a = x.posts
    BY <1>3, ReceiptTyped
  <2>2. y = [x EXCEPT !.status = "POSTED", !.posts = a + 1]
    BY <1>1, <2>1
  <2>3. QED
    BY ONLY <1>3, <2>1, <2>2, a + 1 \in Nat DEF Receipts, PostedAgain
<1>8. w \in Orders /\ ReceivedMore(v, w, x.received)
  BY ONLY ZenonT(60), <1>1, <1>4, <1>5, <1>6 DEF Orders, ReceivedMore, ReceivedStatus
<1>9. t = [s EXCEPT ![r] = y]
  BY <1>1, <1>2 DEF PostReceipt
<1>10. n = [m EXCEPT ![o] = w]
  BY <1>1, <1>2, <1>3 DEF PostReceipt
<1>11. /\ t \in Seq(Receipts) /\ DOMAIN t = DOMAIN s /\ t[r] = y
       /\ \A j \in DOMAIN s \ {r} : t[j] = s[j]
  BY ONLY <1>2, <1>7, <1>9, SequenceSet
<1>12. /\ n \in Seq(Orders) /\ DOMAIN n = DOMAIN m /\ n[o] = w
       /\ \A j \in DOMAIN m \ {o} : n[j] = m[j]
  BY ONLY <1>2, <1>3, <1>8, <1>10, SequenceSet
<1>13. Replaced(Receipts, s, t, r) /\ Replaced(Orders, m, n, o)
  BY <1>2, <1>3, <1>11, <1>12 DEF Replaced
<1>14. /\ OrdersBrought(n, t) /\ ReceiptsPlaced(n, t)
       /\ SeqSum(StockedBy, t) = SeqSum(StockedBy, s) + x.accepted
  <2>1. s[r] = x /\ t[r] = y /\ m[o] = v /\ n[o] = w /\ o = x.order
    BY <1>1, <1>11, <1>12
  <2>2. PostedAgain(s[r], t[r]) /\ ReceivedMore(m[o], n[o], s[r].received) /\ o = s[r].order
    BY <1>7, <1>8, <2>1
  <2>3. OrdersBrought(m, s) /\ ReceiptsPlaced(m, s)
    BY <1>2
  <2>4. /\ OrdersBrought(n, t) /\ ReceiptsPlaced(n, t)
        /\ SeqSum(StockedBy, t) = SeqSum(StockedBy, s) + s[r].accepted
    BY ONLY <1>13, <2>2, <2>3, BroughtPosted
  <2>5. QED
    BY ONLY <2>1, <2>4
<1>15. /\ onHand' = onHand + x.accepted /\ UNCHANGED <<requisitions, paid>>
       /\ \E owed \in {p.balance, balance} : balance' = owed + x.accepted
  BY <1>1 DEF PostReceipt
<1>16. PurchaseKept
  <2>1. onHand \in Nat /\ paid \in Nat /\ requisitions \in Seq(Requisitions)
        /\ onHand = SeqSum(StockedBy, s)
    BY <1>1 DEF PurchaseCore, PurchasesTyped
  <2>2. onHand' \in Nat /\ paid' \in Nat /\ balance' \in Int
    BY SMTT(30), <1>2, <1>5, <1>15, <2>1
  <2>3. requisitions' = requisitions /\ onHand' = SeqSum(StockedBy, t)
    BY <1>14, <1>15, <2>1
  <2>4. PurchaseCore'
    BY <1>1, <1>11, <1>12, <1>14, <2>1, <2>2, <2>3 DEF PurchaseCore, PurchasesTyped
  <2>5. QED
    BY <1>1, <1>11, <1>12, <2>3, <2>4 DEF PurchaseKept, PurchasesGrow
<1>17. QED
  BY <1>1, <1>2, <1>3, <1>7, <1>8, <1>11, <1>12, <1>13, <1>15, <1>16

-----------------------------------------------------------------------------
(***************************************************************************)
(* Procurement: the core is invariant, however calls overlap.              *)
(***************************************************************************)
\* What is true of a plan when it is made.
PurchaseFresh(p) ==
    /\ p.op = "submitRequisition" => requisitions[p.requisition].status = "DRAFT"
    /\ p.op \in {"approveRequisition", "rejectRequisition"} =>
         requisitions[p.requisition].status = "SUBMITTED"
    /\ p.op = "convert" =>
         /\ requisitions[p.requisition].status \in {"APPROVED", "PARTIALLY_APPROVED"}
         /\ ~requisitions[p.requisition].converted
         /\ p.qty = requisitions[p.requisition].approved
    /\ p.op = "submitPO" => orders[p.order].status = "DRAFT"
    /\ p.op = "approvePO" => orders[p.order].status = "PENDING_APPROVAL"
    /\ p.op = "send" => orders[p.order].status = "APPROVED"
    /\ p.op = "cancelPO" => orders[p.order].status # "FULLY_RECEIVED"
    /\ p.op = "createReceipt" => p.received <= Receivable(p.order)
    /\ p.op = "post" => receipts[p.receipt].status = "DRAFT"
    /\ p.op \in {"post", "pay"} => p.balance = balance

LEMMA RequisitionsPlanned ==
    ASSUME PurchaseCore, NEW p \in RequisitionPlans
    PROVE  PurchasePlanOK(p) /\ PurchaseFresh(p)
<1>1. CASE p \in {[op |-> "createRequisition", qty |-> q] : q \in OrderQuantities}
  BY <1>1, OrderQuantitiesAssumption
     DEF PurchasePlanOK, PurchaseFresh, RequisitionOps, OrderOps
<1>2. CASE \E r \in RequisitionsIn({"DRAFT"}) :
             p = [op |-> "submitRequisition", requisition |-> r]
  BY <1>2 DEF PurchasePlanOK, PurchaseFresh, RequisitionOps, OrderOps, RequisitionsIn
<1>3. CASE \E r \in RequisitionsIn({"SUBMITTED"}) : \E q \in 0..requisitions[r].asked :
             p = [op |-> "approveRequisition", requisition |-> r, qty |-> q]
  <2>1. PICK r \in RequisitionsIn({"SUBMITTED"}) : \E q \in 0..requisitions[r].asked :
               p = [op |-> "approveRequisition", requisition |-> r, qty |-> q]
    BY <1>3
  <2>2. r \in DOMAIN requisitions /\ requisitions[r].status = "SUBMITTED"
    BY DEF RequisitionsIn
  <2>3. PICK q \in Nat : p = [op |-> "approveRequisition", requisition |-> r, qty |-> q]
    BY <2>1
  <2>4. QED
    BY ONLY <2>2, <2>3 DEF PurchasePlanOK, PurchaseFresh, RequisitionOps, OrderOps
<1>4. CASE \E r \in RequisitionsIn({"SUBMITTED"}) :
             p = [op |-> "rejectRequisition", requisition |-> r]
  BY <1>4 DEF PurchasePlanOK, PurchaseFresh, RequisitionOps, OrderOps, RequisitionsIn
<1>5. \A r : p \in Approvals(r) =>
         \E q \in 0..requisitions[r].asked :
           p = [op |-> "approveRequisition", requisition |-> r, qty |-> q]
  BY DEF Approvals
<1>6. CASE p \in ApprovePlans
  BY <1>3, <1>5, <1>6 DEF ApprovePlans
<1>7. QED
  BY <1>1, <1>2, <1>4, <1>6 DEF RequisitionPlans

LEMMA OrdersPlanned ==
    ASSUME PurchaseCore, NEW p \in OrderPlans
    PROVE  PurchasePlanOK(p) /\ PurchaseFresh(p)
<1>1. CASE \E q \in OrderQuantities, r \in {0} \cup DOMAIN requisitions :
             p = [op |-> "createPO", qty |-> q, source |-> r]
  BY <1>1, OrderQuantitiesAssumption
     DEF PurchasePlanOK, PurchaseFresh, RequisitionOps, OrderOps
<1>2. CASE \E r \in {r \in RequisitionsIn({"APPROVED", "PARTIALLY_APPROVED"}) :
                       ~requisitions[r].converted} :
             p = [op |-> "convert", requisition |-> r, qty |-> requisitions[r].approved]
  <2>1. PICK r \in DOMAIN requisitions :
               /\ p = [op |-> "convert", requisition |-> r, qty |-> requisitions[r].approved]
               /\ requisitions[r].status \in {"APPROVED", "PARTIALLY_APPROVED"}
               /\ ~requisitions[r].converted
    BY <1>2 DEF RequisitionsIn
  <2>2. requisitions[r].approved \in Nat
    BY SequenceDomain, RequisitionTyped DEF PurchaseCore, PurchasesTyped
  <2>3. QED
    BY <2>1, <2>2 DEF PurchasePlanOK, PurchaseFresh, RequisitionOps, OrderOps
<1>3. CASE \E o \in OrdersIn({"DRAFT"}) : p = [op |-> "submitPO", order |-> o]
  BY <1>3 DEF PurchasePlanOK, PurchaseFresh, RequisitionOps, OrderOps, OrdersIn
<1>4. CASE \E o \in OrdersIn({"PENDING_APPROVAL"}) : p = [op |-> "approvePO", order |-> o]
  BY <1>4 DEF PurchasePlanOK, PurchaseFresh, RequisitionOps, OrderOps, OrdersIn
<1>5. CASE \E o \in OrdersIn({"APPROVED"}) : p = [op |-> "send", order |-> o]
  BY <1>5 DEF PurchasePlanOK, PurchaseFresh, RequisitionOps, OrderOps, OrdersIn
<1>6. CASE \E o \in DOMAIN orders \ OrdersIn({"FULLY_RECEIVED", "CANCELLED"}) :
             p = [op |-> "cancelPO", order |-> o]
  BY <1>6 DEF PurchasePlanOK, PurchaseFresh, RequisitionOps, OrderOps, OrdersIn
<1>7. QED
  BY <1>1, <1>2, <1>3, <1>4, <1>5, <1>6 DEF OrderPlans

LEMMA ReceiptsPlanned ==
    ASSUME PurchaseCore, NEW p \in ReceiptPlans \cup SupplierPlans
    PROVE  PurchasePlanOK(p) /\ PurchaseFresh(p)
<1>1. CASE \E o \in DOMAIN orders : \E n \in 0..Receivable(o), a \in 0..Receivable(o) :
             p = [op |-> "createReceipt", order |-> o, received |-> n, accepted |-> a]
  <2>1. PICK o \in DOMAIN orders : \E n \in 0..Receivable(o), a \in 0..Receivable(o) :
               p = [op |-> "createReceipt", order |-> o, received |-> n, accepted |-> a]
    BY <1>1
  <2>2. PICK n \in Nat, a \in Nat :
               /\ p = [op |-> "createReceipt", order |-> o, received |-> n, accepted |-> a]
               /\ n <= Receivable(o)
    BY <2>1
  <2>3. QED
    BY <2>1, <2>2 DEF PurchasePlanOK, PurchaseFresh, RequisitionOps, OrderOps
<1>2. CASE \E r \in Drafts : p = [op |-> "post", receipt |-> r, balance |-> balance]
  BY <1>2 DEF PurchasePlanOK, PurchaseFresh, RequisitionOps, OrderOps, Drafts, PurchaseCore,
              PurchasesTyped
<1>3. CASE p = [op |-> "pay", balance |-> balance]
  BY <1>3 DEF PurchasePlanOK, PurchaseFresh, RequisitionOps, OrderOps, PurchaseCore,
              PurchasesTyped
<1>4. \A o : p \in Deliveries(o) =>
         \E n \in 0..Receivable(o), a \in 0..Receivable(o) :
           p = [op |-> "createReceipt", order |-> o, received |-> n, accepted |-> a]
  BY DEF Deliveries
<1>5. CASE p \in CreateReceiptPlans
  BY <1>1, <1>4, <1>5 DEF CreateReceiptPlans
<1>6. QED
  BY <1>2, <1>3, <1>5 DEF ReceiptPlans, SupplierPlans

LEMMA PurchasePlanned ==
    ASSUME PurchaseCore, NEW p \in PurchasePlans
    PROVE  PurchasePlanOK(p) /\ PurchaseFresh(p)
BY RequisitionsPlanned, OrdersPlanned, ReceiptsPlanned DEF PurchasePlans

LEMMA PaymentOK ==
    ASSUME PurchaseCore, NEW p, PurchasePlanOK(p), RecordPayment(p)
    PROVE  PurchaseKept
<1>1. p.balance \in Int
  BY DEF PurchasePlanOK, RecordPayment
<1>2. paid' \in Nat /\ balance' \in Int
  BY <1>1 DEF PurchaseCore, PurchasesTyped, RecordPayment
<1>3. QED
  BY <1>2 DEF PurchaseCore, PurchasesTyped, RecordPayment, PurchaseKept, PurchasesGrow

LEMMA PurchaseWriteOK ==
    ASSUME PurchaseCore, NEW p, PurchasePlanOK(p), PurchaseWrite(p)
    PROVE  PurchaseKept
<1>1. CASE CreateRequisition(p)
  BY <1>1, CreateRequisitionOK
<1>2. CASE SubmitRequisition(p)
  BY <1>2, MoveRequisitionOK DEF SubmitRequisition, PurchasePlanOK, RequisitionOps
<1>3. CASE ApproveRequisition(p)
  BY <1>3, ApproveRequisitionOK
<1>4. CASE RejectRequisition(p)
  BY <1>4, MoveRequisitionOK DEF RejectRequisition, PurchasePlanOK, RequisitionOps
<1>5. CASE CreatePO(p)
  BY <1>5, NewOrderAdded DEF CreatePO, PurchasePlanOK
<1>6. CASE ConvertRequisitionToPO(p)
  <2>1. p.requisition \in Nat
    BY <1>6, SequenceDomain DEF ConvertRequisitionToPO, PurchasePlanOK, RequisitionOps,
                                PurchaseCore, PurchasesTyped
  <2>2. QED
    BY <1>6, <2>1, NewOrderAdded DEF ConvertRequisitionToPO, PurchasePlanOK
<1>7. CASE OrderMoves(p)
  BY <1>7, OrderMovesOK
<1>8. CASE CreateReceipt(p)
  BY <1>8, CreateReceiptOK
<1>9. CASE PostReceipt(p)
  BY <1>9, PostReceiptOK
<1>10. CASE RecordPayment(p)
  BY <1>10, PaymentOK
<1>11. QED
  BY <1>1, <1>2, <1>3, <1>4, <1>5, <1>6, <1>7, <1>8, <1>9, <1>10
     DEF PurchaseWrite, OrderMoves

PurchaseSlowOK ==
    slowPurchase # NoPurchasePlan => PurchasePlanOK(slowPurchase) /\ ~purchaseOvertaken

PurchaseInv == PurchaseTypeOK /\ PurchaseCore /\ PurchaseSlowOK

LEMMA PurchasePlanStays ==
    ASSUME NEW p, PurchasePlanOK(p), PurchasesGrow
    PROVE  PurchasePlanOK(p)'
BY DEF PurchasePlanOK, PurchasesGrow

LEMMA PurchaseRecordsSame ==
    PurchaseCore /\ UNCHANGED purchaseRecords => PurchaseKept
BY DEF PurchaseCore, PurchasesTyped, PurchaseKept, PurchasesGrow, purchaseRecords

LEMMA PurchaseTyped ==
    ASSUME PurchaseCore, slowPurchase.op \in SlowPurchases \cup {"none"},
           purchaseOvertaken \in BOOLEAN
    PROVE  PurchaseTypeOK
BY DEF PurchaseTypeOK, PurchaseCore, PurchasesTyped

LEMMA PurchaseStarts == PurchaseInit => PurchaseInv
<1> SUFFICES ASSUME PurchaseInit PROVE PurchaseInv
  OBVIOUS
<1>1. slowPurchase = NoPurchasePlan /\ slowPurchase.op = "none" /\ purchaseOvertaken \in BOOLEAN
  BY DEF PurchaseInit, NoPurchasePlan
<1>2. PurchaseCore
  BY PurchaseCoreInit
<1>3. QED
  BY <1>1, <1>2, PurchaseTyped DEF PurchaseInv, PurchaseSlowOK

LEMMA PurchaseStep == PurchaseInv /\ [PurchaseNext]_purchaseVars => PurchaseInv'
<1> SUFFICES ASSUME PurchaseInv, [PurchaseNext]_purchaseVars PROVE PurchaseInv'
  OBVIOUS
<1>1. /\ PurchaseCore /\ PurchaseSlowOK
      /\ slowPurchase.op \in SlowPurchases \cup {"none"} /\ purchaseOvertaken \in BOOLEAN
  BY DEF PurchaseInv, PurchaseTypeOK
<1>2. CASE UNCHANGED purchaseVars
  <2>1. PurchaseKept /\ UNCHANGED <<slowPurchase, purchaseOvertaken>>
    BY <1>1, <1>2, PurchaseRecordsSame DEF purchaseVars
  <2>2. PurchaseSlowOK'
    BY <1>1, <2>1, PurchasePlanStays DEF PurchaseSlowOK, PurchaseKept
  <2>3. PurchaseTypeOK'
    BY <1>1, <2>1 DEF PurchaseTypeOK, PurchaseKept, PurchaseCore, PurchasesTyped
  <2>4. QED
    BY <2>1, <2>2, <2>3 DEF PurchaseInv, PurchaseKept
<1>3. CASE PurchaseAlone
  <2>1. PurchaseKept /\ UNCHANGED <<slowPurchase, purchaseOvertaken>>
    BY <1>1, <1>3, PurchasePlanned, PurchaseWriteOK DEF PurchaseAlone
  <2>2. PurchaseSlowOK'
    BY <1>1, <2>1, PurchasePlanStays DEF PurchaseSlowOK, PurchaseKept
  <2>3. PurchaseTypeOK'
    BY <1>1, <2>1 DEF PurchaseTypeOK, PurchaseKept, PurchaseCore, PurchasesTyped
  <2>4. QED
    BY <2>1, <2>2, <2>3 DEF PurchaseInv, PurchaseKept
<1>4. CASE PurchasePause
  <2>1. PurchaseKept
    BY <1>1, <1>4, PurchaseRecordsSame DEF PurchasePause
  <2>2. PICK q \in PurchasePlans : /\ slowPurchase' = q /\ q.op \in SlowPurchases
                                   /\ ~purchaseOvertaken' /\ purchaseOvertaken' \in BOOLEAN
    BY <1>1, <1>4 DEF PurchasePause
  <2>3. PurchasePlanOK(q)'
    BY <1>1, <2>1, PurchasePlanned, PurchasePlanStays DEF PurchaseKept
  <2>4. PurchaseSlowOK'
    BY <2>2, <2>3 DEF PurchaseSlowOK, PurchasePlanOK
  <2>5. PurchaseTypeOK'
    BY <2>1, <2>2 DEF PurchaseTypeOK, PurchaseKept, PurchaseCore, PurchasesTyped
  <2>6. QED
    BY <2>1, <2>4, <2>5 DEF PurchaseInv, PurchaseKept
<1>5. CASE PurchaseResume
  <2>1. PICK q : q = slowPurchase
    OBVIOUS
  <2>2. PurchasePlanOK(q) /\ slowPurchase' = NoPurchasePlan
    BY <1>1, <1>5, <2>1 DEF PurchaseResume, PurchaseSlowOK
  <2>3. PurchaseKept
    BY <1>1, <1>5, <2>1, <2>2, PurchaseWriteOK, PurchaseRecordsSame DEF PurchaseResume
  <2>4. purchaseOvertaken' \in BOOLEAN
    BY <1>1, <1>5 DEF PurchaseResume
  <2>5. PurchaseSlowOK' /\ slowPurchase'.op = "none"
    BY <2>2 DEF PurchaseSlowOK, NoPurchasePlan
  <2>6. PurchaseTypeOK'
    BY <2>3, <2>4, <2>5 DEF PurchaseTypeOK, PurchaseKept, PurchaseCore, PurchasesTyped
  <2>7. QED
    BY <2>3, <2>5, <2>6 DEF PurchaseInv, PurchaseKept
<1>6. QED
  BY <1>2, <1>3, <1>4, <1>5 DEF PurchaseNext

\* The records keep their types and the core holds, however calls overlap.
THEOREM PurchaseInvHolds == PurchaseSpec => []PurchaseInv
BY PurchaseStarts, PurchaseStep, PTL DEF PurchaseSpec

LEMMA PostingSums ==
    ASSUME PurchasesTyped
    PROVE  /\ SumFunction(Stocked) = SeqSum(StockedBy, receipts)
           /\ \A o : SumFunctionOnSet(Brought, Of(o)) = SeqSum(BroughtTo(o), receipts)
           /\ SumFunctionOnSet(Due, Posted) = SeqSum(DueFor, receipts)
<1>1. IsFiniteSet(DOMAIN receipts) /\ \A r \in DOMAIN receipts : receipts[r] \in Receipts
  BY SequenceDomain DEF PurchasesTyped
<1>2. Stocked = OverSeq(StockedBy, receipts)
  BY <1>1 DEF Stocked, OverSeq, StockedBy
<1>3. ASSUME NEW o
      PROVE  SumFunctionOnSet(Brought, Of(o)) = SumFunction(OverSeq(BroughtTo(o), receipts))
  <2>1. PICK g, h, S, R : /\ g = Brought /\ h = OverSeq(BroughtTo(o), receipts)
                          /\ S = DOMAIN receipts /\ R = Of(o)
    OBVIOUS
  <2>2. h \in [S -> Int]
    BY <2>1, NumbersInt, SeqSumInt DEF PurchasesTyped
  <2>3. IsFiniteSet(S) /\ R \subseteq S
    BY <1>1, <2>1 DEF Of
  <2>4. (\A x \in R : h[x] = g[x]) /\ \A x \in S \ R : h[x] = 0
    BY <1>1, <2>1 DEF OverSeq, BroughtTo, Brought, Of
  <2>5. SumFunctionOnSet(g, R) = SumFunction(h)
    BY <2>2, <2>3, <2>4, SumWithin
  <2>6. QED
    BY <2>1, <2>5
<1>4. SumFunctionOnSet(Due, Posted) = SumFunction(OverSeq(DueFor, receipts))
  <2>1. PICK g, h, S, R : /\ g = Due /\ h = OverSeq(DueFor, receipts)
                          /\ S = DOMAIN receipts /\ R = Posted
    OBVIOUS
  <2>2. h \in [S -> Int]
    BY <2>1, NumbersInt, SeqSumInt DEF PurchasesTyped
  <2>3. IsFiniteSet(S) /\ R \subseteq S
    BY <1>1, <2>1 DEF Posted
  <2>4. (\A x \in R : h[x] = g[x]) /\ \A x \in S \ R : h[x] = 0
    BY <1>1, <2>1 DEF OverSeq, DueFor, Due, Posted
  <2>5. SumFunctionOnSet(g, R) = SumFunction(h)
    BY <2>2, <2>3, <2>4, SumWithin
  <2>6. QED
    BY <2>1, <2>5
<1>5. QED
  BY <1>2, <1>3, <1>4 DEF SeqSum

\* However calls overlap, on records of the right type: what an order has
\* received and what is in stock is what its receipts brought each time they
\* were posted, and an order is FULLY_RECEIVED only with everything it ordered
\* (goodsReceipts.post).
THEOREM PostedIsReceived == PurchaseSpec => []ReceivedIsPosted
<1>1. PurchaseInv => ReceivedIsPosted
  <2> SUFFICES ASSUME PurchaseInv PROVE ReceivedIsPosted
    OBVIOUS
  <2>1. PurchaseTypeOK /\ PurchaseCore /\ PurchasesTyped
    BY DEF PurchaseInv, PurchaseCore
  <2>2. QED
    BY <2>1, PostingSums DEF ReceivedIsPosted, PurchaseCore, OrdersBrought, OrderBrought
<1>2. QED
  BY <1>1, PurchaseInvHolds, PTL

-----------------------------------------------------------------------------
(***************************************************************************)
(* Procurement: what holds while no call was overtaken.                    *)
(***************************************************************************)
\* What stays true only while no call was overtaken: of the receipts, of the
\* requisitions and what was made of them, of the orders, and of the receipts of
\* an order none of which was made while another one was not posted.
PostedOnce(s) == \A r \in DOMAIN s : s[r].posts = IF s[r].status = "POSTED" THEN 1 ELSE 0

RequisitionOK(x) ==
    /\ x.converted => x.status = "CONVERTED_TO_PURCHASE_ORDER"
    /\ x.status \in {"APPROVED", "PARTIALLY_APPROVED"} => x.approved > 0

RequisitionsOK(q) == \A i \in DOMAIN q : RequisitionOK(q[i])

ConvertedOnce(q, m) ==
    /\ \A o \in DOMAIN m :
         m[o].converts # 0 => /\ m[o].converts \in DOMAIN q
                              /\ q[m[o].converts].converted
                              /\ m[o].ordered = q[m[o].converts].approved
    /\ \A o, u \in DOMAIN m : m[o].converts # 0 /\ m[o].converts = m[u].converts => o = u

OrderStated(x) ==
    /\ x.ordered > 0
    /\ x.received > 0 => x.status \in {"PARTIALLY_RECEIVED", "FULLY_RECEIVED", "CANCELLED"}
    /\ x.received >= x.ordered => x.status = "FULLY_RECEIVED"

OrdersStated(m) == \A o \in DOMAIN m : OrderStated(m[o])

\* The one receipt of order o that is not posted still fits order x.
OneAtATime(o, x, s) ==
    (\A r \in DOMAIN s : s[r].order = o => ~s[r].crowded) =>
      /\ x.received <= x.ordered
      /\ \A r, t \in DOMAIN s :
           s[r].order = o /\ s[r].status = "DRAFT" =>
             /\ x.received + s[r].received <= x.ordered
             /\ s[t].order = o /\ s[t].status = "DRAFT" => t = r

NoneExceeds(m, s) == \A o \in DOMAIN m : OneAtATime(o, m[o], s)

Owed == balance = SeqSum(DueFor, receipts) - paid

PurchaseOrderly ==
    /\ PostedOnce(receipts) /\ Owed
    /\ RequisitionsOK(requisitions) /\ ConvertedOnce(requisitions, orders)
    /\ OrdersStated(orders) /\ NoneExceeds(orders, receipts)

\* Orders and receipts that a change of a requisition leaves alone.
LEMMA RequisitionReplaced ==
    ASSUME NEW q, NEW n, NEW m, NEW i, Replaced(Requisitions, q, n, i),
           RequisitionsOK(q), ConvertedOnce(q, m), ~q[i].converted, RequisitionOK(n[i])
    PROVE  RequisitionsOK(n) /\ ConvertedOnce(n, m)
BY DEF Replaced, RequisitionsOK, ConvertedOnce

LEMMA RequisitionAdded ==
    ASSUME NEW q, NEW n, NEW m, NEW i, Extended(Requisitions, q, n, i),
           RequisitionsOK(q), ConvertedOnce(q, m), RequisitionOK(n[i])
    PROVE  RequisitionsOK(n) /\ ConvertedOnce(n, m)
BY DEF Extended, RequisitionsOK, ConvertedOnce

\* An order is made, and requisitions S are marked as converted.
LEMMA OrderMade ==
    ASSUME NEW q, NEW n, NEW S, Converted(q, n, S), NEW m, NEW k, NEW o, Extended(Orders, m, k, o),
           RequisitionsOK(q), ConvertedOnce(q, m),
           k[o].converts # 0 => /\ k[o].converts \in S \cap DOMAIN q
                                /\ ~q[k[o].converts].converted
                                /\ k[o].ordered = q[k[o].converts].approved
    PROVE  RequisitionsOK(n) /\ ConvertedOnce(n, k)
<1>1. ASSUME NEW i \in DOMAIN n PROVE RequisitionOK(n[i]) /\ (q[i].converted => n[i].converted)
  BY DEF Converted, RequisitionsOK, RequisitionOK
<1>2. DOMAIN k = DOMAIN m \cup {o} /\ (\A u \in DOMAIN m : k[u] = m[u])
  BY DEF Extended
<1>3. ASSUME NEW u \in DOMAIN k, k[u].converts # 0
      PROVE  /\ k[u].converts \in DOMAIN n /\ n[k[u].converts].converted
             /\ k[u].ordered = n[k[u].converts].approved
  <2>1. k[u].converts \in DOMAIN q /\ k[u].ordered = q[k[u].converts].approved
    BY <1>2, <1>3 DEF ConvertedOnce
  <2>2. k[u].converts \in S \/ q[k[u].converts].converted
    BY <1>2, <1>3 DEF ConvertedOnce
  <2>3. QED
    BY <1>1, <2>1, <2>2 DEF Converted
<1>4. ASSUME NEW u \in DOMAIN k, NEW v \in DOMAIN k, k[u].converts # 0,
             k[u].converts = k[v].converts
      PROVE  u = v
  <2>1. \A w \in DOMAIN m : m[w].converts # 0 => q[m[w].converts].converted
    BY DEF ConvertedOnce
  <2>2. CASE u = o /\ v # o
    BY <1>2, <1>4, <2>1, <2>2
  <2>3. CASE v = o /\ u # o
    BY <1>2, <1>4, <2>1, <2>3
  <2>4. CASE u # o /\ v # o
    BY <1>2, <1>4, <2>4 DEF ConvertedOnce
  <2>5. QED
    BY <2>2, <2>3, <2>4
<1>5. QED
  BY <1>1, <1>3, <1>4 DEF RequisitionsOK, ConvertedOnce

\* An order is replaced by one that orders and converts the same.
LEMMA ConvertedKept ==
    ASSUME NEW q, NEW m, NEW n, NEW o, Replaced(Orders, m, n, o), ConvertedOnce(q, m),
           n[o].ordered = m[o].ordered, n[o].converts = m[o].converts
    PROVE  ConvertedOnce(q, n)
<1>1. \A u \in DOMAIN n : /\ u \in DOMAIN m /\ n[u].converts = m[u].converts
                          /\ n[u].ordered = m[u].ordered
  BY DEF Replaced
<1>2. QED
  BY <1>1 DEF ConvertedOnce

LEMMA StatedReplaced ==
    ASSUME NEW m, NEW n, NEW o, Replaced(Orders, m, n, o), OrdersStated(m), OrderStated(n[o])
    PROVE  OrdersStated(n)
BY DEF Replaced, OrdersStated

LEMMA StatedAdded ==
    ASSUME NEW m, NEW n, NEW o, Extended(Orders, m, n, o), OrdersStated(m), OrderStated(n[o])
    PROVE  OrdersStated(n)
BY DEF Extended, OrdersStated

LEMMA MoreStated ==
    ASSUME NEW x, NEW y, NEW n, ReceivedMore(x, y, n), x.ordered > 0
    PROVE  OrderStated(y)
<1>1. PICK a \in Nat, b \in Nat : a = x.ordered /\ b = x.received
  BY OrderTyped DEF ReceivedMore
<1>2. /\ n \in Nat /\ y.ordered = a /\ y.received = b + n /\ a > 0
      /\ y.status = ReceivedStatus(a, b + n)
  BY <1>1 DEF ReceivedMore
<1>3. QED
  BY <1>2 DEF OrderStated, ReceivedStatus

LEMMA RestatedExceeds ==
    ASSUME NEW m, NEW n, NEW s, NEW o, Replaced(Orders, m, n, o), Restated(m[o], n[o]),
           NoneExceeds(m, s)
    PROVE  NoneExceeds(n, s)
<1>1. \A u \in DOMAIN n : /\ u \in DOMAIN m /\ n[u].received = m[u].received
                          /\ n[u].ordered = m[u].ordered
  BY DEF Replaced, Restated
<1>2. ASSUME NEW u \in DOMAIN n PROVE OneAtATime(u, n[u], s)
  <2>1. OneAtATime(u, m[u], s)
    BY <1>1 DEF NoneExceeds
  <2>2. QED
    BY <1>1, <2>1 DEF OneAtATime
<1>3. QED
  BY <1>2 DEF NoneExceeds

LEMMA NewExceeds ==
    ASSUME NEW m, NEW n, NEW s, NEW o, Extended(Orders, m, n, o), NewOrderOK(n[o]),
           NoneExceeds(m, s), ReceiptsPlaced(m, s)
    PROVE  NoneExceeds(n, s)
<1>1. \A r \in DOMAIN s : s[r].order # o
  BY DEF ReceiptsPlaced, Extended
<1>2. OneAtATime(o, n[o], s)
  BY <1>1 DEF OneAtATime, NewOrderOK
<1>3. \A u \in DOMAIN n : u = o \/ (u \in DOMAIN m /\ n[u] = m[u])
  BY DEF Extended
<1>4. QED
  BY <1>2, <1>3 DEF NoneExceeds

\* A receipt of no more than was left of its order is made.
LEMMA DraftExceeds ==
    ASSUME NEW m \in Seq(Orders), NEW s, NEW t, NEW r, Extended(Receipts, s, t, r),
           NEW o \in DOMAIN m, t[r].order = o, t[r].status = "DRAFT",
           t[r].crowded = Crowds(s, o),
           t[r].received <= IF m[o].received < m[o].ordered
                              THEN m[o].ordered - m[o].received ELSE 0,
           NoneExceeds(m, s)
    PROVE  NoneExceeds(m, t)
<1>1. /\ DOMAIN t = DOMAIN s \cup {r} /\ (\A i \in DOMAIN s : t[i] = s[i])
      /\ t \in Seq(Receipts) /\ r \in DOMAIN t
  BY DEF Extended
<1>2. ASSUME NEW u \in DOMAIN m, u # o PROVE OneAtATime(u, m[u], t)
  <2>1. OneAtATime(u, m[u], s)
    BY DEF NoneExceeds
  <2>2. \A i \in DOMAIN t : t[i].order = u => i \in DOMAIN s /\ t[i] = s[i]
    BY <1>1, <1>2
  <2>3. \A i \in DOMAIN s : i \in DOMAIN t /\ t[i] = s[i]
    BY <1>1
  <2>4. QED
    BY <2>1, <2>2, <2>3 DEF OneAtATime
<1>3. OneAtATime(o, m[o], t)
  <2> SUFFICES ASSUME \A i \in DOMAIN t : t[i].order = o => ~t[i].crowded
               PROVE  /\ m[o].received <= m[o].ordered
                      /\ \A i, j \in DOMAIN t :
                           t[i].order = o /\ t[i].status = "DRAFT" =>
                             /\ m[o].received + t[i].received <= m[o].ordered
                             /\ t[j].order = o /\ t[j].status = "DRAFT" => j = i
    BY DEF OneAtATime
  <2>1. OneAtATime(o, m[o], s)
    BY DEF NoneExceeds
  <2>2. \A i \in DOMAIN s : s[i].order = o => s[i].status # "DRAFT"
    BY <1>1 DEF Crowds
  <2>3. m[o].received <= m[o].ordered
    BY <1>1, <2>1 DEF OneAtATime
  <2>4. PICK a \in Nat, b \in Nat, c \in Nat :
               a = m[o].ordered /\ b = m[o].received /\ c = t[r].received
    BY <1>1, SequenceDomain, OrderTyped, ReceiptTyped
  <2>5. b + c <= a
    <3>1. b <= a /\ c <= IF b < a THEN a - b ELSE 0
      BY <2>3, <2>4
    <3>2. QED
      BY ONLY <3>1, a \in Nat, b \in Nat, c \in Nat
  <2>6. \A i \in DOMAIN t : t[i].order = o /\ t[i].status = "DRAFT" => i = r
    BY <1>1, <2>2
  <2>7. QED
    BY <2>3, <2>4, <2>5, <2>6
<1>4. QED
  BY <1>2, <1>3 DEF NoneExceeds

\* A receipt is posted.
LEMMA PostedExceeds ==
    ASSUME NEW m, NEW n, NEW s, NEW t, NEW r, NEW o,
           Replaced(Receipts, s, t, r), PostedAgain(s[r], t[r]), o = s[r].order,
           s[r].status = "DRAFT",
           Replaced(Orders, m, n, o), ReceivedMore(m[o], n[o], s[r].received),
           NoneExceeds(m, s)
    PROVE  NoneExceeds(n, t)
<1>1. /\ DOMAIN t = DOMAIN s /\ r \in DOMAIN s /\ DOMAIN n = DOMAIN m /\ o \in DOMAIN m
      /\ (\A i \in DOMAIN s : i # r => t[i] = s[i]) /\ \A u \in DOMAIN m : u # o => n[u] = m[u]
  BY DEF Replaced
<1>2. /\ t[r].order = o /\ t[r].status = "POSTED" /\ t[r].crowded = s[r].crowded
      /\ n[o].ordered = m[o].ordered /\ n[o].received = m[o].received + s[r].received
  BY DEF PostedAgain, ReceivedMore
<1>3. ASSUME NEW u \in DOMAIN n, u # o PROVE OneAtATime(u, n[u], t)
  <2>1. OneAtATime(u, m[u], s) /\ n[u] = m[u]
    BY <1>1, <1>3 DEF NoneExceeds
  <2>2. \A i \in DOMAIN t : t[i].order = u => i # r
    BY <1>2, <1>3
  <2>3. \A i \in DOMAIN s : s[i].order = u => i \in DOMAIN t /\ t[i] = s[i]
    BY <1>1, <1>3
  <2>4. \A i \in DOMAIN t : t[i].order = u => i \in DOMAIN s /\ t[i] = s[i]
    BY <1>1, <2>2
  <2>5. QED
    BY <2>1, <2>3, <2>4 DEF OneAtATime
<1>4. OneAtATime(o, n[o], t)
  <2> SUFFICES ASSUME \A i \in DOMAIN t : t[i].order = o => ~t[i].crowded
               PROVE  /\ n[o].received <= n[o].ordered
                      /\ \A i \in DOMAIN t : ~(t[i].order = o /\ t[i].status = "DRAFT")
    BY DEF OneAtATime
  <2>1. OneAtATime(o, m[o], s)
    BY <1>1 DEF NoneExceeds
  <2>2. \A i \in DOMAIN s : s[i].order = o => ~s[i].crowded
    BY <1>1, <1>2
  <2>3. /\ m[o].received + s[r].received <= m[o].ordered
        /\ \A i \in DOMAIN s : s[i].order = o /\ s[i].status = "DRAFT" => i = r
    BY <1>1, <2>1, <2>2 DEF OneAtATime
  <2>4. QED
    BY <1>1, <1>2, <2>3
<1>5. QED
  BY <1>3, <1>4 DEF NoneExceeds

-----------------------------------------------------------------------------
(***************************************************************************)
(* Procurement: every fresh write keeps it.                                *)
(***************************************************************************)
\* What the supplier is owed, and how often receipts are posted.
LEMMA DraftOwes ==
    ASSUME NEW s, NEW t, NEW r, Extended(Receipts, s, t, r), t[r].status = "DRAFT",
           t[r].posts = 0, PostedOnce(s)
    PROVE  PostedOnce(t) /\ SeqSum(DueFor, t) = SeqSum(DueFor, s)
<1>1. s \in Seq(Receipts) /\ t[r] \in Receipts
  BY SequenceDomain DEF Extended
<1>2. SeqSum(DueFor, t) = SeqSum(DueFor, s) + DueFor[t[r]]
  BY NumbersInt, SeqSumAppend
<1>3. DueFor[t[r]] = 0
  BY <1>1 DEF DueFor
<1>4. SeqSum(DueFor, s) \in Int
  BY <1>1, NumbersInt, SeqSumInt
<1>5. PostedOnce(t)
  BY DEF PostedOnce, Extended
<1>6. QED
  BY <1>2, <1>3, <1>4, <1>5

LEMMA PostOwes ==
    ASSUME NEW s, NEW t, NEW r, Replaced(Receipts, s, t, r), PostedAgain(s[r], t[r]),
           s[r].status = "DRAFT", PostedOnce(s)
    PROVE  PostedOnce(t) /\ SeqSum(DueFor, t) = SeqSum(DueFor, s) + s[r].accepted
<1>1. s \in Seq(Receipts) /\ s[r] \in Receipts /\ t[r] \in Receipts /\ r \in DOMAIN s
  BY DEF Replaced, PostedAgain
<1>2. SeqSum(DueFor, t) = SeqSum(DueFor, s) + (DueFor[t[r]] - DueFor[s[r]])
  BY NumbersInt, SeqSumSet
<1>3. DueFor[s[r]] = 0 /\ DueFor[t[r]] = s[r].accepted
  BY <1>1 DEF DueFor, PostedAgain
<1>4. SeqSum(DueFor, s) \in Int /\ s[r].accepted \in Nat
  BY <1>1, NumbersInt, SeqSumInt, ReceiptTyped
<1>5. PostedOnce(t)
  <2>1. s[r].posts = 0 /\ t[r].posts = s[r].posts + 1 /\ t[r].status = "POSTED"
    BY <1>1 DEF PostedOnce, PostedAgain
  <2>2. QED
    BY <2>1 DEF PostedOnce, Replaced
<1>6. QED
  BY <1>2, <1>3, <1>4, <1>5

LEMMA OrderlyRequisitions ==
    ASSUME PurchaseCore, PurchaseOrderly, NEW p, PurchasePlanOK(p), PurchaseFresh(p),
           CreateRequisition(p) \/ SubmitRequisition(p) \/ RejectRequisition(p)
             \/ ApproveRequisition(p)
    PROVE  PurchaseOrderly'
<1>1. PICK q, n, m : q = requisitions /\ n = requisitions' /\ m = orders
  OBVIOUS
<1>2. RequisitionsOK(q) /\ ConvertedOnce(q, m) /\ q \in Seq(Requisitions)
  BY <1>1 DEF PurchaseOrderly, PurchaseCore, PurchasesTyped
<1>3. UNCHANGED <<orders, receipts, onHand, balance, paid>>
  BY DEF CreateRequisition, SubmitRequisition, RejectRequisition, ApproveRequisition,
         MoveRequisition
<1>4. RequisitionsOK(n) /\ ConvertedOnce(n, m)
  <2>1. CASE CreateRequisition(p)
    <3>1. PICK i : i = Len(q) + 1
      OBVIOUS
    <3>2. Extended(Requisitions, q, n, i) /\ n[i] = NewRequisition(p.qty)
      BY <1>1, <2>1, <3>1, CreateRequisitionOK
    <3>3. RequisitionOK(n[i])
      BY <3>2 DEF RequisitionOK, NewRequisition
    <3>4. QED
      BY <1>2, <3>2, <3>3, RequisitionAdded
  <2>2. CASE SubmitRequisition(p) \/ RejectRequisition(p)
    <3>1. PICK i, st :
                 /\ i = p.requisition /\ MoveRequisition(i, st)
                 /\ st \in {"SUBMITTED", "REJECTED"}
                 /\ p.op \in {"submitRequisition", "rejectRequisition"}
      BY <2>2 DEF SubmitRequisition, RejectRequisition
    <3>2. i \in DOMAIN requisitions
      BY <3>1 DEF PurchasePlanOK, RequisitionOps
    <3>3. Replaced(Requisitions, q, n, i) /\ n[i] = [q[i] EXCEPT !.status = st]
      BY <1>1, <3>1, <3>2, MoveRequisitionOK
    <3>4. q[i].status \in {"DRAFT", "SUBMITTED"} /\ RequisitionOK(q[i]) /\ q[i] \in Requisitions
      BY <1>1, <1>2, <3>1, <3>2, SequenceDomain DEF PurchaseFresh, RequisitionsOK
    <3>5. ~q[i].converted
      BY <3>4 DEF RequisitionOK
    <3>6. PICK x, y : x = q[i] /\ y = n[i]
      OBVIOUS
    <3>7. y.status = st /\ y.converted = x.converted
      BY ONLY <3>3, <3>4, <3>6 DEF Requisitions
    <3>8. RequisitionOK(n[i])
      BY <3>1, <3>5, <3>6, <3>7 DEF RequisitionOK
    <3>9. QED
      BY <1>2, <3>3, <3>5, <3>8, RequisitionReplaced
  <2>3. CASE ApproveRequisition(p)
    <3>1. PICK i, k : i = p.requisition /\ k = p.qty
      OBVIOUS
    <3>2. Replaced(Requisitions, q, n, i) /\ ApprovedBy(q[i], n[i], k)
      BY <1>1, <2>3, <3>1, ApproveRequisitionOK
    <3>3. i \in DOMAIN q /\ q[i].status = "SUBMITTED" /\ k \in Nat
      BY <1>1, <2>3, <3>1, <3>2 DEF PurchaseFresh, ApproveRequisition, Replaced, PurchasePlanOK
    <3>4. RequisitionOK(q[i]) /\ q[i] \in Requisitions
      BY <1>2, <3>3, SequenceDomain DEF RequisitionsOK
    <3>5. ~q[i].converted
      BY <3>3, <3>4 DEF RequisitionOK
    <3>6. PICK x, y : x = q[i] /\ y = n[i]
      OBVIOUS
    <3>7. /\ y.converted = x.converted /\ y.approved = k
          /\ k = 0 => y.status = "REJECTED"
      BY ONLY <3>2, <3>3, <3>4, <3>6 DEF Requisitions, ApprovedBy
    <3>8. RequisitionOK(n[i])
      BY <3>3, <3>5, <3>6, <3>7 DEF RequisitionOK
    <3>9. QED
      BY <1>2, <3>2, <3>5, <3>8, RequisitionReplaced
  <2>4. QED
    BY <2>1, <2>2, <2>3
<1>5. QED
  BY <1>1, <1>3, <1>4 DEF PurchaseOrderly, Owed

LEMMA OrderlyNewOrder ==
    ASSUME PurchaseCore, PurchaseOrderly, NEW p, PurchasePlanOK(p), PurchaseFresh(p),
           CreatePO(p) \/ ConvertRequisitionToPO(p)
    PROVE  PurchaseOrderly'
<1>1. PICK q, n, m, k, o : /\ q = requisitions /\ n = requisitions' /\ m = orders /\ k = orders'
                           /\ o = Len(orders) + 1
  OBVIOUS
<1>2. /\ RequisitionsOK(q) /\ ConvertedOnce(q, m) /\ q \in Seq(Requisitions)
      /\ OrdersStated(m) /\ NoneExceeds(m, receipts) /\ ReceiptsPlaced(m, receipts)
  BY <1>1 DEF PurchaseOrderly, PurchaseCore, PurchasesTyped
<1>3. UNCHANGED <<receipts, onHand, balance, paid>>
  BY DEF CreatePO, ConvertRequisitionToPO
<1>4. PICK S, c, h :
             /\ c \in Nat /\ h \in Nat \ {0}
             /\ Converted(q, n, S) /\ Extended(Orders, m, k, o) /\ k[o] = MadeOrder(h, c)
             /\ c # 0 => c \in S \cap DOMAIN q /\ ~q[c].converted /\ h = q[c].approved
  <2>1. CASE CreatePO(p)
    <3>1. p.qty \in Nat \ {0} /\ NewOrder(p.qty, 0) /\ Convert({p.source})
      BY <2>1 DEF CreatePO, PurchasePlanOK
    <3>2. /\ Converted(q, n, {p.source}) /\ Extended(Orders, m, k, o)
          /\ k[o] = MadeOrder(p.qty, 0)
      BY <1>1, <1>3, <3>1, NewOrderAdded
    <3>3. QED
      BY <3>1, <3>2
  <2>2. CASE ConvertRequisitionToPO(p)
    <3>1. PICK i, h : i = p.requisition /\ h = p.qty
      OBVIOUS
    <3>2. /\ i \in DOMAIN q /\ ~q[i].converted /\ h = q[i].approved
          /\ q[i].status \in {"APPROVED", "PARTIALLY_APPROVED"}
          /\ NewOrder(h, i) /\ Convert({i})
      BY <1>1, <2>2, <3>1
         DEF ConvertRequisitionToPO, PurchasePlanOK, PurchaseFresh, RequisitionOps
    <3>3. i \in Nat /\ h \in Nat /\ h > 0
      BY <1>2, <3>2, SequenceDomain, RequisitionTyped DEF RequisitionsOK, RequisitionOK
    <3>4. Converted(q, n, {i}) /\ Extended(Orders, m, k, o) /\ k[o] = MadeOrder(h, i)
      BY <1>1, <1>3, <3>2, <3>3, NewOrderAdded
    <3>5. QED
      BY <3>2, <3>3, <3>4
  <2>3. QED
    BY <2>1, <2>2
<1>5. k[o].converts = c /\ k[o].ordered = h /\ k[o].received = 0 /\ k[o].status = "DRAFT"
  BY <1>4 DEF MadeOrder
<1>6. RequisitionsOK(n) /\ ConvertedOnce(n, k)
  BY <1>2, <1>4, <1>5, OrderMade
<1>7. NewOrderOK(k[o])
  BY <1>4, <1>5, SequenceDomain DEF NewOrderOK, Extended
<1>8. OrdersStated(k)
  BY <1>2, <1>4, <1>5, StatedAdded DEF OrderStated
<1>9. NoneExceeds(k, receipts)
  BY <1>2, <1>4, <1>7, NewExceeds
<1>10. QED
  BY <1>1, <1>3, <1>6, <1>8, <1>9 DEF PurchaseOrderly, Owed

LEMMA OrderlyMoves ==
    ASSUME PurchaseCore, PurchaseOrderly, NEW p, PurchasePlanOK(p), PurchaseFresh(p),
           OrderMoves(p)
    PROVE  PurchaseOrderly'
<1>1. PICK m, n, o : m = orders /\ n = orders' /\ o = p.order
  OBVIOUS
<1>2. /\ Replaced(Orders, m, n, o) /\ Restated(m[o], n[o])
      /\ p.op \in {"submitPO", "approvePO", "send", "cancelPO"}
      /\ p.op = "cancelPO" => n[o].status = "CANCELLED"
      /\ UNCHANGED <<requisitions, receipts, onHand, balance, paid>>
  BY <1>1, OrderMovesOK
<1>3. /\ OrdersStated(m) /\ NoneExceeds(m, receipts) /\ ConvertedOnce(requisitions, m)
  BY <1>1 DEF PurchaseOrderly
<1>4. OrderStated(m[o]) /\ m[o] \in Orders
  BY <1>2, <1>3 DEF OrdersStated, Replaced, Restated
<1>5. n[o].ordered = m[o].ordered /\ n[o].received = m[o].received /\ n[o].converts = m[o].converts
  BY <1>2 DEF Restated
<1>6. m[o].status # "FULLY_RECEIVED"
  BY <1>1, <1>2 DEF PurchaseFresh
<1>7. OrderStated(n[o])
  <2>1. PICK a \in Nat, b \in Nat : a = m[o].ordered /\ b = m[o].received
    BY <1>4, OrderTyped
  <2>2. ~(b >= a) /\ a > 0
    BY <1>4, <1>6, <2>1 DEF OrderStated
  <2>3. b > 0 => p.op = "cancelPO"
    <3>1. p.op # "cancelPO" => m[o].status \in {"DRAFT", "PENDING_APPROVAL", "APPROVED"}
      BY <1>1, <1>2 DEF PurchaseFresh
    <3>2. QED
      BY <1>4, <2>1, <3>1 DEF OrderStated
  <2>4. QED
    BY <1>2, <1>5, <2>1, <2>2, <2>3 DEF OrderStated
<1>8. OrdersStated(n) /\ NoneExceeds(n, receipts) /\ ConvertedOnce(requisitions, n)
  BY <1>2, <1>3, <1>5, <1>7, StatedReplaced, RestatedExceeds, ConvertedKept
<1>9. QED
  BY <1>1, <1>2, <1>8 DEF PurchaseOrderly, Owed

LEMMA OrderlyReceipt ==
    ASSUME PurchaseCore, PurchaseOrderly, NEW p, PurchasePlanOK(p), PurchaseFresh(p),
           CreateReceipt(p)
    PROVE  PurchaseOrderly'
<1>1. PICK m, s, t, r, o, h : /\ m = orders /\ s = receipts /\ t = receipts' /\ o = p.order
                              /\ r = Len(receipts) + 1 /\ h = p.received
  OBVIOUS
<1>2. /\ Extended(Receipts, s, t, r) /\ t[r] = MadeReceipt(p, Crowds(s, o))
      /\ UNCHANGED <<requisitions, orders, onHand, balance, paid>>
  BY <1>1, CreateReceiptOK
<1>3. /\ PostedOnce(s) /\ NoneExceeds(m, s) /\ m \in Seq(Orders)
      /\ balance = SeqSum(DueFor, s) - paid
  BY <1>1 DEF PurchaseOrderly, PurchaseCore, PurchasesTyped, Owed
<1>4. /\ t[r].order = o /\ t[r].status = "DRAFT" /\ t[r].posts = 0 /\ t[r].received = h
      /\ t[r].crowded = Crowds(s, o)
  BY <1>1, <1>2 DEF MadeReceipt
<1>5. o \in DOMAIN m /\ h <= IF m[o].received < m[o].ordered
                               THEN m[o].ordered - m[o].received ELSE 0
  BY <1>1 DEF PurchasePlanOK, PurchaseFresh, CreateReceipt, Receivable, OrderOps
<1>6. PostedOnce(t) /\ SeqSum(DueFor, t) = SeqSum(DueFor, s)
  BY <1>2, <1>3, <1>4, DraftOwes
<1>7. NoneExceeds(m, t)
  BY <1>2, <1>3, <1>4, <1>5, DraftExceeds
<1>8. QED
  BY <1>1, <1>2, <1>3, <1>6, <1>7 DEF PurchaseOrderly, Owed

LEMMA OrderlyPost ==
    ASSUME PurchaseCore, PurchaseOrderly, NEW p, PurchasePlanOK(p), PurchaseFresh(p),
           PostReceipt(p)
    PROVE  PurchaseOrderly'
<1>1. PICK m, n, s, t, r, o : /\ m = orders /\ n = orders' /\ s = receipts /\ t = receipts'
                              /\ r = p.receipt /\ o = s[r].order
  OBVIOUS
<1>2. /\ r \in DOMAIN s /\ o \in DOMAIN m
      /\ Replaced(Receipts, s, t, r) /\ PostedAgain(s[r], t[r])
      /\ Replaced(Orders, m, n, o) /\ ReceivedMore(m[o], n[o], s[r].received)
      /\ \E owed \in {p.balance, balance} : balance' = owed + s[r].accepted
      /\ UNCHANGED <<requisitions, paid>>
  BY <1>1, PostReceiptOK
<1>3. s[r].status = "DRAFT" /\ p.balance = balance
  BY <1>1 DEF PurchaseFresh, PostReceipt
<1>4. /\ PostedOnce(s) /\ NoneExceeds(m, s) /\ OrdersStated(m) /\ ConvertedOnce(requisitions, m)
      /\ balance = SeqSum(DueFor, s) - paid /\ s \in Seq(Receipts) /\ paid \in Nat
  BY <1>1 DEF PurchaseOrderly, PurchaseCore, PurchasesTyped, Owed
<1>5. PostedOnce(t) /\ SeqSum(DueFor, t) = SeqSum(DueFor, s) + s[r].accepted
  BY <1>2, <1>3, <1>4, PostOwes
<1>6. balance' = SeqSum(DueFor, t) - paid'
  <2>1. PICK a \in Int, b \in Int, c \in Int : a = SeqSum(DueFor, s) /\ b = s[r].accepted /\ c = paid
    <3>1. SeqSum(DueFor, s) \in Int
      BY <1>4, NumbersInt, SeqSumInt
    <3>2. s[r].accepted \in Nat
      BY <1>2, <1>4, SequenceDomain, ReceiptTyped
    <3>3. QED
      BY <1>4, <3>1, <3>2
  <2>2. balance' = (a - c) + b /\ SeqSum(DueFor, t) = a + b /\ paid' = c
    BY <1>2, <1>3, <1>4, <1>5, <2>1
  <2>3. (a - c) + b = (a + b) - c
    OBVIOUS
  <2>4. QED
    BY <2>2, <2>3
<1>7. NoneExceeds(n, t)
  BY <1>2, <1>3, <1>4, PostedExceeds, <1>1
<1>8. n[o].ordered = m[o].ordered /\ n[o].converts = m[o].converts /\ OrderStated(n[o])
  <2>1. m[o].ordered > 0
    BY <1>2, <1>4 DEF OrdersStated, OrderStated
  <2>2. QED
    BY <1>2, <2>1, MoreStated DEF ReceivedMore
<1>9. OrdersStated(n) /\ ConvertedOnce(requisitions, n)
  BY <1>2, <1>4, <1>8, StatedReplaced, ConvertedKept
<1>10. QED
  <2>1. requisitions' = requisitions /\ RequisitionsOK(requisitions)
    BY <1>2 DEF PurchaseOrderly
  <2>2. QED
    BY <1>1, <1>5, <1>6, <1>7, <1>9, <2>1 DEF PurchaseOrderly, Owed

LEMMA OrderlyPayment ==
    ASSUME PurchaseCore, PurchaseOrderly, NEW p, PurchaseFresh(p), RecordPayment(p)
    PROVE  PurchaseOrderly'
<1>1. /\ balance' = balance - 1 /\ paid' = paid + 1
      /\ UNCHANGED <<requisitions, orders, receipts, onHand>>
  BY DEF RecordPayment, PurchaseFresh
<1>2. SeqSum(DueFor, receipts) \in Int /\ paid \in Nat
  BY NumbersInt, SeqSumInt DEF PurchaseCore, PurchasesTyped
<1>3. Owed'
  BY <1>1, <1>2 DEF PurchaseOrderly, Owed
<1>4. QED
  BY <1>1, <1>3 DEF PurchaseOrderly

LEMMA PurchaseOrderlyWrite ==
    ASSUME PurchaseCore, PurchaseOrderly, NEW p \in PurchasePlans, PurchaseWrite(p)
    PROVE  PurchaseOrderly'
<1>1. PurchasePlanOK(p) /\ PurchaseFresh(p)
  BY PurchasePlanned
<1>2. CASE CreateRequisition(p) \/ SubmitRequisition(p) \/ RejectRequisition(p)
             \/ ApproveRequisition(p)
  BY <1>1, <1>2, OrderlyRequisitions
<1>3. CASE CreatePO(p) \/ ConvertRequisitionToPO(p)
  BY <1>1, <1>3, OrderlyNewOrder
<1>4. CASE OrderMoves(p)
  BY <1>1, <1>4, OrderlyMoves
<1>5. CASE CreateReceipt(p)
  BY <1>1, <1>5, OrderlyReceipt
<1>6. CASE PostReceipt(p)
  BY <1>1, <1>6, OrderlyPost
<1>7. CASE RecordPayment(p)
  BY <1>1, <1>7, OrderlyPayment
<1>8. QED
  BY <1>2, <1>3, <1>4, <1>5, <1>6, <1>7 DEF PurchaseWrite, OrderMoves

LEMMA PurchaseOrderlySame == PurchaseOrderly /\ UNCHANGED purchaseRecords => PurchaseOrderly'
BY DEF PurchaseOrderly, Owed, purchaseRecords

LEMMA PurchaseOrderlyInit == PurchaseInit => PurchaseOrderly
<1> SUFFICES ASSUME PurchaseInit PROVE PurchaseOrderly
  OBVIOUS
<1>1. /\ requisitions = <<>> /\ orders = <<>> /\ receipts = <<>> /\ balance = 0 /\ paid = 0
  BY DEF PurchaseInit
<1>2. Owed
  BY <1>1, SeqSumEmpty DEF Owed
<1>3. QED
  BY <1>1, <1>2 DEF PurchaseOrderly, PostedOnce, RequisitionsOK, ConvertedOnce, OrdersStated,
                    NoneExceeds

PurchaseConditional == ~purchaseOvertaken => PurchaseOrderly

LEMMA PurchaseConditionalStep ==
    PurchaseInv /\ PurchaseConditional /\ [PurchaseNext]_purchaseVars => PurchaseConditional'
<1> SUFFICES ASSUME PurchaseInv, PurchaseConditional, [PurchaseNext]_purchaseVars,
                    ~purchaseOvertaken'
             PROVE  PurchaseOrderly'
  BY DEF PurchaseConditional
<1>1. PurchaseCore
  BY DEF PurchaseInv
<1>2. CASE UNCHANGED purchaseVars
  BY <1>2, PurchaseOrderlySame DEF purchaseVars, PurchaseConditional
<1>3. CASE PurchaseAlone
  BY <1>1, <1>3, PurchaseOrderlyWrite DEF PurchaseAlone, PurchaseConditional
<1>4. CASE PurchasePause
  BY <1>4, PurchaseOrderlySame DEF PurchasePause, PurchaseConditional
<1>5. CASE PurchaseResume
  <2>1. CASE PurchaseWrite(slowPurchase)
             /\ purchaseOvertaken' = (slowPurchase \notin PurchasePlans)
    <3>1. slowPurchase \in PurchasePlans /\ ~purchaseOvertaken
      BY <1>5, <2>1 DEF PurchaseResume, PurchaseInv, PurchaseSlowOK
    <3>2. PICK q : q = slowPurchase
      OBVIOUS
    <3>3. QED
      BY <1>1, <2>1, <3>1, <3>2, PurchaseOrderlyWrite DEF PurchaseConditional
  <2>2. CASE UNCHANGED <<purchaseRecords, purchaseOvertaken>>
    BY <2>2, PurchaseOrderlySame DEF PurchaseConditional
  <2>3. QED
    BY <1>5, <2>1, <2>2 DEF PurchaseResume
<1>6. QED
  BY <1>2, <1>3, <1>4, <1>5 DEF PurchaseNext

LEMMA AtMostOne ==
    ASSUME NEW S, \A x, y \in S : x = y
    PROVE  Cardinality(S) <= 1
<1>1. CASE S = {}
  BY <1>1, FS_EmptySet
<1>2. CASE S # {}
  <2>1. PICK x : S = {x}
    BY <1>2
  <2>2. QED
    BY <2>1, FS_Singleton
<1>3. QED
  BY <1>1, <1>2

\* Unless a call was overtaken: a receipt is posted once and a requisition
\* converted to one order, of the quantity approved; the supplier is owed what
\* was accepted and not paid; the status of an order says what it has received;
\* and no more is received than was ordered unless a receipt was made while
\* another one of the order was not posted yet (procurement.service and
\* goodsReceipts.post).
THEOREM ReceiptsAreFollowed == PurchaseSpec => []OrdersFollowReceipts
<1>1. PurchaseInv /\ PurchaseConditional => OrdersFollowReceipts
  <2> SUFFICES ASSUME PurchaseInv, PurchaseConditional, ~purchaseOvertaken
               PROVE  OrdersFollowReceipts
    BY DEF OrdersFollowReceipts
  <2>1. PurchaseOrderly /\ PurchasesTyped
    BY DEF PurchaseConditional, PurchaseInv, PurchaseCore
  <2>2. balance = SumFunctionOnSet(Due, Posted) - paid
    BY <2>1, PostingSums DEF PurchaseOrderly, Owed
  <2>3. ASSUME NEW r \in DOMAIN requisitions
        PROVE  LET made == {o \in DOMAIN orders : orders[o].converts = r}
               IN  /\ Cardinality(made) <= 1
                   /\ \A o \in made : orders[o].ordered = requisitions[r].approved
    <3> DEFINE made == {o \in DOMAIN orders : orders[o].converts = r}
    <3>1. r # 0
      BY <2>1, SequenceDomain DEF PurchasesTyped
    <3>2. ConvertedOnce(requisitions, orders)
      BY <2>1 DEF PurchaseOrderly
    <3>3. \A o, u \in made : o = u
      BY <3>1, <3>2 DEF ConvertedOnce
    <3>4. \A o \in made : orders[o].ordered = requisitions[r].approved
      BY <3>1, <3>2 DEF ConvertedOnce
    <3> HIDE DEF made
    <3>5. Cardinality(made) <= 1
      BY <3>3, AtMostOne
    <3>6. QED
      BY <3>4, <3>5 DEF made
  <2>4. ASSUME NEW o \in DOMAIN orders
        PROVE  /\ orders[o].received > 0 =>
                    orders[o].status \in {"PARTIALLY_RECEIVED", "FULLY_RECEIVED", "CANCELLED"}
               /\ orders[o].received >= orders[o].ordered => orders[o].status = "FULLY_RECEIVED"
               /\ (\A r \in Of(o) : ~receipts[r].crowded) =>
                    orders[o].received <= orders[o].ordered
    BY <2>1 DEF PurchaseOrderly, OrdersStated, OrderStated, NoneExceeds, OneAtATime, Of
  <2>5. \A r \in DOMAIN receipts :
          receipts[r].posts = IF receipts[r].status = "POSTED" THEN 1 ELSE 0
    BY <2>1 DEF PurchaseOrderly, PostedOnce
  <2>6. QED
    BY <2>2, <2>3, <2>4, <2>5 DEF OrdersFollowReceipts
<1>2. PurchaseInit => PurchaseConditional
  BY PurchaseOrderlyInit DEF PurchaseConditional
<1>3. QED
  BY <1>1, <1>2, PurchaseConditionalStep, PurchaseInvHolds, PTL DEF PurchaseSpec

-----------------------------------------------------------------------------
\* StockTransfer, from here on.
USE TransferOfAssumption, ItemsAssumption, OpeningAssumption, QuantitiesAssumption,
    OutcomesAssumption, ListedTimesAssumption

-----------------------------------------------------------------------------
(***************************************************************************)
(* Arithmetic that a share of a batch needs.                               *)
(***************************************************************************)
LEMMA DivBounds ==
    ASSUME NEW a \in Int, NEW b \in Nat \ {0}
    PROVE  /\ a \div b \in Int
           /\ b * (a \div b) <= a
           /\ a < b * (a \div b) + b
OBVIOUS

LEMMA DivNat ==
    ASSUME NEW a \in Nat, NEW b \in Nat \ {0}
    PROVE  a \div b \in Nat
OBVIOUS

LEMMA TimesNat ==
    ASSUME NEW a \in Nat, NEW b \in Nat
    PROVE  a * b \in Nat
OBVIOUS

LEMMA Cancels ==
    ASSUME NEW d \in Nat \ {0}, NEW x \in Int, NEW y \in Int, d * x <= d * y
    PROVE  x <= y
OBVIOUS

LEMMA CancelsLess ==
    ASSUME NEW d \in Nat \ {0}, NEW x \in Int, NEW y \in Int, d * x < d * y
    PROVE  x < y
OBVIOUS

-----------------------------------------------------------------------------
(***************************************************************************)
(* The batches of an item, and what a receipt credits for them: the sum    *)
(* of rounded shares, each off by at most half a unit.                     *)
(***************************************************************************)
Units == Nat \ {0}
Parts == Seq(Units)

LEMMA PartsAre ==
    ASSUME NEW ps \in Parts
    PROVE  /\ DOMAIN ps = 1..Len(ps) /\ Len(ps) \in Nat /\ IsFiniteSet(DOMAIN ps)
           /\ \A k \in DOMAIN ps : ps[k] \in Nat \ {0}
           /\ Cardinality(DOMAIN ps) = Len(ps)
           /\ ps = <<>> \/ DOMAIN ps # {}
<1>1. /\ DOMAIN ps = 1..Len(ps) /\ Len(ps) \in Nat /\ IsFiniteSet(DOMAIN ps)
      /\ \A k \in DOMAIN ps : ps[k] \in Units
  BY SequenceDomain DEF Parts
<1>2. Cardinality(1..Len(ps)) = Len(ps)
  BY SMTT(30), <1>1, FS_Interval
<1>3. ps = <<>> \/ 1 \in 1..Len(ps)
  BY <1>1 DEF Parts
<1>4. QED
  BY <1>1, <1>2, <1>3 DEF Units

LEMMA PartsTotal ==
    ASSUME NEW ps \in Parts
    PROVE  Total(ps) \in Nat /\ (Total(ps) = 0 => ps = <<>>)
<1>1. /\ IsFiniteSet(DOMAIN ps) /\ (\A k \in DOMAIN ps : ps[k] \in Nat \ {0})
      /\ ps = <<>> \/ DOMAIN ps # {}
  BY PartsAre
<1>2. PICK S : S = DOMAIN ps
  OBVIOUS
<1>3. ps \in [S -> Nat]
  BY <1>1, <1>2 DEF Parts
<1>4. SumFunction(ps) \in Nat /\ \A k \in S : ps[k] <= SumFunction(ps)
  BY <1>1, <1>2, <1>3, TotalNat
<1>5. QED
  BY <1>1, <1>2, <1>4 DEF Total

LEMMA EmptyParts == <<>> \in Parts /\ Total(<<>>) = 0 /\ Len(<<>>) = 0
<1>1. DOMAIN <<>> = {}
  OBVIOUS
<1>2. QED
  BY <1>1, TotalEmpty DEF Total, Parts

\* What a share is: the fraction, rounded.
LEMMA ShareBounds ==
    ASSUME NEW p \in Nat \ {0}, NEW d \in Nat \ {0}, NEW r \in Nat
    PROVE  /\ Share(p, d, r) \in Nat
           /\ (2 * d) * Share(p, d, r) - (2 * r) * p <= d
           /\ -d <= (2 * d) * Share(p, d, r) - (2 * r) * p
           /\ r = 0 => Share(p, d, r) = 0
           /\ r = d => Share(p, d, r) = p
<1>1. PICK a, b, s, m : /\ a = m + d /\ b = 2 * d /\ s = a \div b /\ m = 2 * p * r
  OBVIOUS
<1>2. m \in Nat
  <2>1. p * r \in Nat
    BY TimesNat
  <2>2. 2 * p * r = 2 * (p * r)
    OBVIOUS
  <2>3. QED
    BY <1>1, <2>1, <2>2
<1>3. a \in Nat /\ b \in Nat \ {0}
  BY <1>1, <1>2
<1>4. s \in Nat /\ b * s <= a /\ a < b * s + b
  <2>1. a \div b \in Nat
    BY ONLY <1>3, DivNat
  <2>2. b * (a \div b) <= a /\ a < b * (a \div b) + b
    BY ONLY <1>3, DivBounds
  <2>3. s = a \div b
    BY ONLY <1>1
  <2>4. QED
    BY ONLY <2>1, <2>2, <2>3
<1>5. PICK x : x = b * s
  OBVIOUS
<1>6. x \in Int
  BY <1>3, <1>4, <1>5, TimesInt
<1>7. x - m <= d /\ -d <= x - m
  BY ONLY <1>1, <1>2, <1>4, <1>5, <1>6, d \in Nat \ {0}
<1>8. m = (2 * r) * p
  BY <1>1
<1>9. Share(p, d, r) = s
  BY <1>1 DEF Share
<1>10. ASSUME r = 0 PROVE s = 0
  <2>1. m = 0
    BY <1>1, <1>10
  <2>2. a = d /\ b * s <= b * 0 + d /\ d < b
    BY <1>1, <1>4, <2>1
  <2>3. b * s < b * 1
    BY <2>2, <1>3, <1>5, <1>6, <1>4
  <2>4. s < 1
    BY <1>3, <1>4, <2>3, CancelsLess
  <2>5. QED
    BY <1>4, <2>4
<1>11. ASSUME r = d PROVE s = p
  <2>1. m = b * p
    BY <1>1, <1>11
  <2>2. PICK y : y = b * p
    OBVIOUS
  <2>3. x <= y + d /\ y + d < x + b /\ y \in Int
    BY <1>1, <1>2, <1>4, <1>5, <1>6, <2>1, <2>2
  <2>4. b * (p + 1) = y + b /\ b * (s + 1) = x + b
    BY <1>3, <1>4, <1>5, <2>2
  <2>5. x < y + b /\ y < x + b
    BY <1>1, <1>6, <2>3
  <2>6. s < p + 1
    BY <1>3, <1>4, <1>5, <2>4, <2>5, CancelsLess
  <2>7. p < s + 1
    BY <1>3, <1>4, <2>2, <2>4, <2>5, CancelsLess
  <2>8. QED
    BY <1>4, <2>6, <2>7
<1>12. QED
  BY <1>1, <1>4, <1>5, <1>7, <1>8, <1>9, <1>10, <1>11

Shares(d, ps, r) == [k \in DOMAIN ps |-> Share(ps[k], d, r)]

LEMMA CreditNat ==
    ASSUME NEW d \in Nat, NEW ps \in Parts, ps = <<>> \/ d > 0, NEW r \in Nat
    PROVE  Credit(d, ps, r) \in Nat
<1>1. IsFiniteSet(DOMAIN ps) /\ \A k \in DOMAIN ps : ps[k] \in Nat \ {0}
  BY PartsAre
<1>2. \A k \in DOMAIN ps : Share(ps[k], d, r) \in Nat
  <2> TAKE k \in DOMAIN ps
  <2>1. d \in Nat \ {0}
    <3>1. ps # <<>>
      OBVIOUS
    <3>2. QED
      BY <3>1
  <2>2. QED
    BY <1>1, <2>1, ShareBounds
<1>3. Shares(d, ps, r) \in [DOMAIN ps -> Nat]
  BY <1>2 DEF Shares
<1>4. SumFunction(Shares(d, ps, r)) \in Nat
  BY <1>1, <1>3, TotalNat
<1>5. QED
  BY <1>4 DEF Credit, Total, Shares

LEMMA CreditNone ==
    ASSUME NEW d \in Nat, NEW r \in Nat
    PROVE  Credit(d, <<>>, r) = 0
<1>1. DOMAIN [k \in DOMAIN <<>> |-> Share(<<>>[k], d, r)] = {}
  OBVIOUS
<1>2. QED
  BY <1>1, TotalEmpty DEF Credit, Total

\* Nothing received, nothing credited; all received, all credited.
LEMMA CreditExact ==
    ASSUME NEW d \in Nat \ {0}, NEW ps \in Parts, Total(ps) = d, NEW r \in Nat
    PROVE  /\ r = 0 => Credit(d, ps, r) = 0
           /\ r = d => Credit(d, ps, r) = d
<1>1. PICK S : S = DOMAIN ps
  OBVIOUS
<1>2. IsFiniteSet(S) /\ \A k \in S : ps[k] \in Nat \ {0}
  BY <1>1, PartsAre
<1>3. Shares(d, ps, r) = [k \in S |-> Share(ps[k], d, r)]
  BY <1>1 DEF Shares
<1>4. ASSUME r = 0 PROVE SumFunction(Shares(d, ps, r)) = 0
  <2>1. \A k \in S : Share(ps[k], d, r) = 0
    <3> TAKE k \in S
    <3>1. PICK p : p = ps[k]
      OBVIOUS
    <3>2. p \in Nat \ {0}
      BY <1>2, <3>1
    <3>3. Share(p, d, r) = 0
      BY ONLY <1>4, <3>2, ShareBounds, d \in Nat \ {0}, r \in Nat
    <3>4. QED
      BY <3>1, <3>3
  <2>2. Shares(d, ps, r) \in [S -> {0}]
    BY <1>3, <2>1
  <2>3. QED
    BY <1>2, <2>2, TotalZero
<1>5. ASSUME r = d PROVE SumFunction(Shares(d, ps, r)) = d
  <2>1. \A k \in S : Share(ps[k], d, r) = ps[k]
    BY <1>2, <1>5, ShareBounds
  <2>2. Shares(d, ps, r) = [k \in S |-> ps[k]]
    BY <1>3, <2>1
  <2>3. [k \in S |-> ps[k]] = ps
    BY <1>1 DEF Parts
  <2>4. QED
    BY <2>2, <2>3 DEF Total
<1>6. Credit(d, ps, r) = SumFunction(Shares(d, ps, r))
  BY DEF Credit, Total, Shares
<1>7. QED
  BY <1>4, <1>5, <1>6

\* Each batch's share is off by at most half a unit.
LEMMA CreditClose ==
    ASSUME NEW d \in Nat \ {0}, NEW ps \in Parts, Total(ps) = d, NEW r \in Nat
    PROVE  /\ 2 * (Credit(d, ps, r) - r) <= Len(ps)
           /\ -Len(ps) <= 2 * (Credit(d, ps, r) - r)
<1>1. PICK S, n, e : S = DOMAIN ps /\ n = Len(ps) /\ e = Shares(d, ps, r)
  OBVIOUS
<1>2. /\ IsFiniteSet(S) /\ (\A k \in S : ps[k] \in Nat \ {0})
      /\ n \in Nat /\ Cardinality(S) = n
  BY <1>1, PartsAre
<1>3. \A k \in S : e[k] = Share(ps[k], d, r)
  BY <1>1 DEF Shares
<1>4. \A k \in S : /\ e[k] \in Nat
                   /\ (2 * d) * e[k] - (2 * r) * ps[k] <= d
                   /\ -d <= (2 * d) * e[k] - (2 * r) * ps[k]
  <2> TAKE k \in S
  <2>1. PICK p, s : p = ps[k] /\ s = e[k]
    OBVIOUS
  <2>2. p \in Nat \ {0} /\ s = Share(p, d, r)
    BY <1>2, <1>3, <2>1
  <2>3. /\ Share(p, d, r) \in Nat
        /\ (2 * d) * Share(p, d, r) - (2 * r) * p <= d
        /\ -d <= (2 * d) * Share(p, d, r) - (2 * r) * p
    BY <2>2, ShareBounds
  <2>4. /\ s \in Nat
        /\ (2 * d) * s - (2 * r) * p <= d
        /\ -d <= (2 * d) * s - (2 * r) * p
    BY ONLY <2>2, <2>3
  <2>5. QED
    BY ONLY <2>1, <2>4
<1>5. PICK c, v : c = 2 * d /\ v = -(2 * r)
  OBVIOUS
<1>6. c \in Int /\ v \in Int
  BY <1>5
<1> DEFINE up == [k \in S |-> c * e[k]]
           down == [k \in S |-> v * ps[k]]
           off == [k \in S |-> c * e[k] + v * ps[k]]
           under == [k \in S |-> -(c * e[k] + v * ps[k])]
<1>7. \A k \in S : c * e[k] \in Int /\ v * ps[k] \in Int
  BY <1>2, <1>4, <1>6, TimesInt
<1>8. \A k \in S : v * ps[k] = -((2 * r) * ps[k])
  BY <1>2, <1>5
<1>9. \A k \in S : off[k] <= d /\ under[k] <= d
  <2> TAKE k \in S
  <2>1. PICK A, B : A = c * e[k] /\ B = (2 * r) * ps[k]
    OBVIOUS
  <2>2. A \in Int /\ B \in Int /\ v * ps[k] = -B
    BY <1>2, <1>7, <1>8, <2>1, TimesInt
  <2>3. A - B <= d /\ -d <= A - B
    BY <1>4, <1>5, <2>1
  <2>4. off[k] = A + (-B) /\ under[k] = -(A + (-B))
    BY <2>1, <2>2
  <2>5. QED
    BY ONLY <2>2, <2>3, <2>4, d \in Nat \ {0}
<1>10. /\ \A k \in S : up[k] \in Int /\ down[k] \in Int /\ off[k] = up[k] + down[k]
       /\ \A k \in S : off[k] \in Int /\ under[k] \in Int /\ under[k] = (-1) * off[k]
  BY <1>7
<1>11. \A k \in S : (e[k] \in Int /\ up[k] = c * e[k]) /\ (ps[k] \in Int /\ down[k] = v * ps[k])
  BY <1>2, <1>4
<1> HIDE DEF up, down, off, under
<1>12. SumFunctionOnSet(up, S) = c * SumFunctionOnSet(e, S)
  BY <1>2, <1>6, <1>11, SumScale
<1>13. SumFunctionOnSet(down, S) = v * SumFunctionOnSet(ps, S)
  BY <1>2, <1>6, <1>11, SumScale
<1>14. SumFunctionOnSet(off, S) = SumFunctionOnSet(up, S) + SumFunctionOnSet(down, S)
  BY <1>2, <1>10, SumPlus
<1>15. SumFunctionOnSet(under, S) = (-1) * SumFunctionOnSet(off, S)
  BY <1>2, <1>10, SumScale
<1>16. SumFunctionOnSet(off, S) <= n * d /\ SumFunctionOnSet(under, S) <= n * d
  <2>1. \A k \in S : off[k] \in Int /\ off[k] <= d
    BY <1>9, <1>10
  <2>2. \A k \in S : under[k] \in Int /\ under[k] <= d
    BY <1>9, <1>10
  <2>3. d \in Int
    OBVIOUS
  <2>4. QED
    BY <1>2, <2>1, <2>2, <2>3, SumAtMost
<1>17. SumFunctionOnSet(e, S) \in Int
  BY <1>2, <1>11, SumInt
<1>18. SumFunctionOnSet(ps, S) = d /\ Credit(d, ps, r) = SumFunctionOnSet(e, S)
  <2>1. DOMAIN Shares(d, ps, r) = DOMAIN ps
    BY DEF Shares
  <2>2. Credit(d, ps, r) = SumFunction(Shares(d, ps, r))
    BY DEF Credit, Total, Shares
  <2>3. QED
    BY <1>1, <2>1, <2>2 DEF Total, SumFunction
<1>19. PICK Z : Z = SumFunctionOnSet(e, S)
  OBVIOUS
<1>20. /\ Z \in Int /\ Credit(d, ps, r) = Z
       /\ c * Z + v * d <= n * d /\ (-1) * (c * Z + v * d) <= n * d
  BY <1>12, <1>13, <1>14, <1>15, <1>16, <1>17, <1>18, <1>19
<1>21. /\ c * Z + v * d = d * (2 * (Z - r)) /\ (-1) * (c * Z + v * d) = d * (-(2 * (Z - r)))
       /\ n * d = d * n
  BY <1>2, <1>5, <1>20
<1>22. d * (2 * (Z - r)) <= d * n /\ d * (-(2 * (Z - r))) <= d * n
  BY <1>20, <1>21
<1>23. PICK w : w = 2 * (Z - r)
  OBVIOUS
<1>24. w \in Int
  BY <1>20, <1>23
<1>25. w <= n /\ -w <= n
  BY ONLY <1>2, <1>22, <1>23, <1>24, d \in Nat \ {0}, Cancels
<1>26. QED
  BY <1>1, <1>2, <1>20, <1>23, <1>24, <1>25

-----------------------------------------------------------------------------
(***************************************************************************)
(* The inductive invariant, and the writes that leave the source's stock   *)
(* alone.                                                                  *)
(***************************************************************************)
ReadTyped(t, read) ==
    /\ read.status \in Statuses
    /\ read.item \in [ItemsOf(t) -> ItemRecords]
    /\ read.holds \in [ItemsOf(t) -> Seq(Holds)]
    /\ read.parts \in [ItemsOf(t) -> Parts]
    /\ \A i \in ItemsOf(t) : read.parts[i] = <<>> \/ read.item[i].dispatched > 0

SlowTyped ==
    slow # NoCall =>
      /\ slow.transfer \in Transfers
      /\ slow.op \in DOMAIN Expected
      /\ status[slow.transfer] # "NONE"
      /\ ReadTyped(slow.transfer, slow.read)

\* Only a dispatched item has batches.
Shapely == \A i \in Items : /\ parts[i] = <<>> \/ item[i].dispatched > 0
                            /\ status[TransferOf[i]] = "NONE" => parts[i] = <<>>

Sent == [i \in Items |-> Total(parts[i])]

Typed ==
    /\ status \in [Transfers -> Statuses]
    /\ item \in [Items -> ItemRecords]
    /\ holds \in [Items -> Seq(Holds)]
    /\ parts \in [Items -> Parts]
    /\ source \in [onHand: Int, reserved: Int, available: Int]
    /\ destination \in [onHand: Nat, transit: Int]

Stock == /\ source.onHand = source.reserved + source.available
         /\ source.onHand = Opening - SumFunction(Sent)

Core == Typed /\ Shapely /\ Stock

Inv == TypeOK /\ Core /\ SlowTyped

\* A step creates no transfer anew.
Lasting == \A t \in Transfers : status[t] # "NONE" => status'[t] # "NONE"

LEMMA ItemsOfTransfer ==
    ASSUME NEW t
    PROVE  IsFiniteSet(ItemsOf(t)) /\ ItemsOf(t) \subseteq Items
<1>1. ItemsOf(t) \subseteq Items
  BY DEF ItemsOf
<1>2. QED
  BY <1>1, FS_Subset

\* Read(t), as the read it is.
LEMMA ReadIs ==
    ASSUME Typed, NEW t \in Transfers
    PROVE  /\ Read(t).status = status[t]
           /\ Read(t).item \in [ItemsOf(t) -> ItemRecords]
           /\ Read(t).holds \in [ItemsOf(t) -> Seq(Holds)]
           /\ Read(t).parts \in [ItemsOf(t) -> Parts]
           /\ \A i \in ItemsOf(t) : /\ Read(t).item[i] = item[i]
                                    /\ Read(t).holds[i] = holds[i]
                                    /\ Read(t).parts[i] = parts[i]
<1>1. ItemsOf(t) \subseteq Items
  BY ItemsOfTransfer
<1>2. /\ Restrict(item, ItemsOf(t)) = [i \in ItemsOf(t) |-> item[i]]
      /\ Restrict(holds, ItemsOf(t)) = [i \in ItemsOf(t) |-> holds[i]]
      /\ Restrict(parts, ItemsOf(t)) = [i \in ItemsOf(t) |-> parts[i]]
  BY DEF Restrict
<1>3. /\ \A i \in ItemsOf(t) : item[i] \in ItemRecords
      /\ \A i \in ItemsOf(t) : holds[i] \in Seq(Holds)
      /\ \A i \in ItemsOf(t) : parts[i] \in Parts
  BY <1>1 DEF Typed
<1>4. QED
  BY <1>2, <1>3 DEF Read

LEMMA ReadOK ==
    ASSUME Typed, Shapely, NEW t \in Transfers
    PROVE  ReadTyped(t, Read(t))
<1>1. ItemsOf(t) \subseteq Items
  BY ItemsOfTransfer
<1>2. status[t] \in Statuses
  BY DEF Typed
<1>3. \A i \in ItemsOf(t) : parts[i] = <<>> \/ item[i].dispatched > 0
  BY <1>1 DEF Shapely
<1>4. QED
  BY <1>2, <1>3, ReadIs DEF ReadTyped

LEMMA SentTyped == Typed => Sent \in [Items -> Nat]
<1> SUFFICES ASSUME Typed PROVE Sent \in [Items -> Nat]
  OBVIOUS
<1>1. \A i \in Items : Total(parts[i]) \in Nat
  BY PartsTotal DEF Typed
<1>2. QED
  BY <1>1 DEF Sent

LEMMA SentThen == (Typed => Sent \in [Items -> Nat])'
BY SentTyped, PTL

LEMMA InitOK == Init => Inv
<1> SUFFICES ASSUME Init PROVE Inv
  OBVIOUS
<1>1. NothingYet \in ItemRecords
  BY DEF NothingYet, ItemRecords
<1>2. item \in [Items -> ItemRecords] /\ status \in [Transfers -> Statuses]
  BY <1>1 DEF Init, Statuses
<1>3. <<>> \in Seq(Holds) /\ <<>> \in Parts
  BY EmptyParts
<1>4. holds \in [Items -> Seq(Holds)] /\ parts \in [Items -> Parts]
  BY <1>3 DEF Init
<1>5. /\ source \in [onHand: Int, reserved: Int, available: Int]
      /\ destination \in [onHand: Nat, transit: Int]
  BY DEF Init
<1>6. Typed
  BY <1>2, <1>4, <1>5 DEF Typed
<1>7. TypeOK
  BY <1>6 DEF Typed, TypeOK, Init, Parts, Units
<1>8. Shapely
  BY DEF Init, Shapely
<1>9. Sent = [i \in Items |-> 0]
  BY EmptyParts DEF Sent, Init
<1>10. Sent \in [Items -> {0}]
  BY <1>9
<1>11. SumFunction(Sent) = 0
  BY <1>10, TotalZero
<1>12. Stock
  BY <1>11 DEF Stock, Init
<1>13. SlowTyped
  BY DEF SlowTyped, Init
<1>14. QED
  BY <1>6, <1>7, <1>8, <1>12, <1>13 DEF Inv, Core

\* Nothing of the stock moves.
LEMMA StockSame ==
    ASSUME Stock, UNCHANGED <<parts, source>>
    PROVE  Stock'
BY DEF Stock, Sent

LEMMA StatusSet ==
    ASSUME Typed, NEW t \in Transfers, NEW st \in Statuses, st # "NONE",
           status' = [status EXCEPT ![t] = st]
    PROVE  /\ status' \in [Transfers -> Statuses]
           /\ status'[t] = st
           /\ \A u \in Transfers : u # t => status'[u] = status[u]
           /\ Lasting
BY DEF Typed, Lasting

LEMMA CreateOK ==
    ASSUME Core, NEW t \in Transfers, Create(t)
    PROVE  Core' /\ Lasting
<1> USE DEF Core
<1>1. \A i \in Items : [NothingYet EXCEPT !.requested = Requested[i]] \in ItemRecords
  BY DEF NothingYet, ItemRecords
<1>2. \A i \in Items : item[i] \in ItemRecords
  BY DEF Typed
<1>3. item' \in [Items -> ItemRecords]
  BY <1>1, <1>2 DEF Create
<1>4. "DRAFT" \in Statuses /\ status' = [status EXCEPT ![t] = "DRAFT"]
  BY DEF Create, Statuses
<1>5. status' \in [Transfers -> Statuses] /\ Lasting /\ status'[t] = "DRAFT"
  BY <1>4, StatusSet
<1>6. UNCHANGED <<holds, parts, source, destination>>
  BY DEF Create, stock
<1>7. Typed'
  BY <1>3, <1>5, <1>6 DEF Typed
<1>8. Stock'
  BY <1>6, StockSame
<1>9. Shapely'
  <2>1. ASSUME NEW i \in Items
        PROVE  /\ parts'[i] = <<>> \/ item'[i].dispatched > 0
               /\ status'[TransferOf[i]] = "NONE" => parts'[i] = <<>>
    <3>1. CASE i \in ItemsOf(t)
      <4>1. TransferOf[i] = t /\ status[t] = "NONE"
        BY <3>1 DEF ItemsOf, Create
      <4>2. parts[i] = <<>>
        BY <4>1 DEF Shapely
      <4>3. QED
        BY <4>2, <1>6
    <3>2. CASE i \notin ItemsOf(t)
      <4>1. item'[i] = item[i] /\ TransferOf[i] \in Transfers
        BY <3>2 DEF Create
      <4>2. QED
        BY <4>1, <1>5, <1>6 DEF Shapely, Lasting
    <3>3. QED
      BY <3>1, <3>2
  <2>2. QED
    BY <2>1 DEF Shapely
<1>10. QED
  BY <1>5, <1>7, <1>8, <1>9

\* A write to the quantities of items that keeps what was dispatched.
LEMMA ItemsWrite ==
    ASSUME Core, NEW t \in Transfers, NEW st \in Statuses, st # "NONE",
           status' = [status EXCEPT ![t] = st],
           item' \in [Items -> ItemRecords],
           \A i \in Items : item'[i].dispatched = item[i].dispatched,
           UNCHANGED <<holds, parts, source>>,
           destination' \in [onHand: Nat, transit: Int]
    PROVE  Core' /\ Lasting
<1> USE DEF Core
<1>1. status' \in [Transfers -> Statuses] /\ Lasting
  BY StatusSet
<1>2. Typed'
  BY <1>1 DEF Typed
<1>3. Stock'
  BY StockSame
<1>4. Shapely'
  <2>1. \A i \in Items : TransferOf[i] \in Transfers
    OBVIOUS
  <2>2. QED
    BY <1>1, <2>1 DEF Shapely, Lasting
<1>5. QED
  BY <1>1, <1>2, <1>3, <1>4

LEMMA SubmitOK ==
    ASSUME Core, NEW t \in Transfers, NEW read, Submit(t, read)
    PROVE  Core' /\ Lasting
<1>1. /\ "REQUESTED" \in Statuses /\ status' = [status EXCEPT ![t] = "REQUESTED"]
      /\ UNCHANGED <<item, holds, parts, source, destination>>
  BY DEF Submit, Statuses, stock
<1>2. /\ item' \in [Items -> ItemRecords] /\ destination' \in [onHand: Nat, transit: Int]
      /\ \A i \in Items : item'[i].dispatched = item[i].dispatched
  BY <1>1 DEF Core, Typed
<1>3. QED
  BY <1>1, <1>2, ItemsWrite

LEMMA ApproveOK ==
    ASSUME Core, NEW t \in Transfers, NEW read, Approve(t, read)
    PROVE  Core' /\ Lasting
<1>1. /\ "APPROVED" \in Statuses /\ status' = [status EXCEPT ![t] = "APPROVED"]
      /\ UNCHANGED <<holds, parts, source, destination>>
  BY DEF Approve, Statuses, stock
<1>2. PICK listed \in SUBSET ItemsOf(t) :
        \E granted \in [listed -> Quantities] :
          /\ \A i \in listed : granted[i] <= read.item[i].requested
          /\ item' = [i \in Items |-> IF i \in listed
                                        THEN [item[i] EXCEPT !.approved = granted[i]]
                                        ELSE item[i]]
  BY DEF Approve
<1>7. PICK granted \in [listed -> Quantities] :
        item' = [i \in Items |-> IF i \in listed
                                    THEN [item[i] EXCEPT !.approved = granted[i]]
                                    ELSE item[i]]
  BY <1>2
<1>3. \A i \in Items : item[i] \in ItemRecords
  BY DEF Core, Typed
<1>4. \A i \in Items : /\ item'[i] \in ItemRecords
                       /\ item'[i].dispatched = item[i].dispatched
  BY <1>3, <1>7 DEF ItemRecords
<1>5. item' \in [Items -> ItemRecords] /\ destination' \in [onHand: Nat, transit: Int]
  <2>1. item' = [i \in Items |-> item'[i]]
    BY <1>7
  <2>2. QED
    BY <1>1, <1>4, <2>1 DEF Core, Typed
<1>6. QED
  BY <1>1, <1>4, <1>5, ItemsWrite

-----------------------------------------------------------------------------
(***************************************************************************)
(* Picking and dispatch, however stale what they read.                     *)
(***************************************************************************)
LEMMA GrantedIs ==
    ASSUME NEW t \in Transfers, NEW read, ReadTyped(t, read)
    PROVE  /\ Granted(t, read) \subseteq ItemsOf(t) /\ Granted(t, read) \subseteq Items
           /\ IsFiniteSet(Granted(t, read))
           /\ \A i \in Granted(t, read) : read.item[i].approved \in Nat \ {0}
           /\ \A i \in ItemsOf(t) : read.item[i] \in ItemRecords
<1>1. ItemsOf(t) \subseteq Items /\ IsFiniteSet(ItemsOf(t))
  BY ItemsOfTransfer
<1>2. Granted(t, read) \subseteq ItemsOf(t)
  BY DEF Granted
<1>3. IsFiniteSet(Granted(t, read))
  BY <1>1, <1>2, FS_Subset
<1>4. \A i \in ItemsOf(t) : read.item[i] \in ItemRecords
  BY DEF ReadTyped
<1>5. \A i \in Granted(t, read) : read.item[i].approved \in Nat \ {0}
  BY <1>2, <1>4 DEF Granted, ItemRecords
<1>6. QED
  BY <1>1, <1>2, <1>3, <1>4, <1>5

Approved(read, G) == [i \in G |-> read.item[i].approved]

LEMMA ApprovedIs ==
    ASSUME NEW t \in Transfers, NEW read, ReadTyped(t, read)
    PROVE  /\ Approved(read, Granted(t, read)) \in [Granted(t, read) -> Units]
           /\ \A i \in Granted(t, read) :
                Approved(read, Granted(t, read))[i] = read.item[i].approved
           /\ SumFunctionOnSet(Approved(read, Granted(t, read)), Granted(t, read)) \in Nat
<1>1. PICK G, a : G = Granted(t, read) /\ a = Approved(read, G)
  OBVIOUS
<1>2. IsFiniteSet(G) /\ \A i \in G : read.item[i].approved \in Nat \ {0}
  BY <1>1, GrantedIs
<1>3. a \in [G -> Units] /\ \A i \in G : a[i] = read.item[i].approved
  BY <1>1, <1>2 DEF Approved, Units
<1>4. \A i \in G : a[i] \in Nat
  BY <1>2, <1>3
<1>5. SumFunctionOnSet(a, G) \in Nat
  BY <1>2, <1>4, SumNat
<1>6. QED
  BY <1>1, <1>3, <1>5

NewHold(q) == [qty |-> q, status |-> "ACTIVE"]

\* What picking does, with its total as a number.
PickShape(t, read, total) ==
    /\ source' = [onHand |-> source.onHand, available |-> source.available - total,
                  reserved |-> source.reserved + total]
    /\ holds' = [i \in Items |-> IF i \in Granted(t, read)
                                   THEN Append(holds[i], NewHold(read.item[i].approved))
                                   ELSE holds[i]]
    /\ status' = [status EXCEPT ![t] = "READY_FOR_DISPATCH"]
    /\ UNCHANGED <<item, parts, destination>>
    /\ total = SumFunctionOnSet(Approved(read, Granted(t, read)), Granted(t, read))
    /\ total \in Nat

LEMMA PickIs ==
    ASSUME Typed, NEW t \in Transfers, NEW read, NEW available, ReadTyped(t, read),
           StartPicking(t, read, available)
    PROVE  \E total : PickShape(t, read, total)
<1>1. PICK total : total = SumFunctionOnSet(Approved(read, Granted(t, read)), Granted(t, read))
  OBVIOUS
<1>2. total \in Nat
  BY <1>1, ApprovedIs
<1>3. source \in [onHand: Int, reserved: Int, available: Int]
  BY DEF Typed
<1>4. source' = [source EXCEPT !.available = @ - total, !.reserved = @ + total]
  BY <1>1 DEF StartPicking, Approved
<1>5. source' = [onHand |-> source.onHand, available |-> source.available - total,
                 reserved |-> source.reserved + total]
  BY <1>3, <1>4
<1>6. holds' = [i \in Items |-> IF i \in Granted(t, read)
                                  THEN Append(holds[i], NewHold(read.item[i].approved))
                                  ELSE holds[i]]
  BY DEF StartPicking, NewHold
<1>7. /\ status' = [status EXCEPT ![t] = "READY_FOR_DISPATCH"]
      /\ UNCHANGED <<item, parts, destination>>
  BY DEF StartPicking
<1>8. QED
  BY <1>1, <1>2, <1>5, <1>6, <1>7 DEF PickShape

LEMMA PickOK ==
    ASSUME Core, NEW t \in Transfers, NEW read, ReadTyped(t, read), NEW total,
           PickShape(t, read, total)
    PROVE  Core' /\ Lasting
<1> USE DEF Core
<1>1. "READY_FOR_DISPATCH" \in Statuses /\ status' = [status EXCEPT ![t] = "READY_FOR_DISPATCH"]
  BY DEF PickShape, Statuses
<1>2. status' \in [Transfers -> Statuses] /\ Lasting
  BY <1>1, StatusSet
<1>3. \A i \in Granted(t, read) : NewHold(read.item[i].approved) \in Holds
  BY GrantedIs DEF NewHold, Holds
<1>4. \A i \in Items : holds[i] \in Seq(Holds)
  BY DEF Typed
<1>5. holds' \in [Items -> Seq(Holds)]
  <2>1. \A i \in Granted(t, read) :
          Append(holds[i], NewHold(read.item[i].approved)) \in Seq(Holds)
    BY <1>3, <1>4, GrantedIs
  <2>2. QED
    BY <1>4, <2>1 DEF PickShape
<1>6. source' \in [onHand: Int, reserved: Int, available: Int]
      /\ source'.onHand = source.onHand
      /\ source'.onHand = source'.reserved + source'.available
  BY DEF PickShape, Typed, Stock
<1>7. Typed'
  BY <1>2, <1>5, <1>6 DEF Typed, PickShape
<1>8. Stock'
  BY <1>6 DEF Stock, Sent, PickShape
<1>9. Shapely'
  <2>1. \A i \in Items : TransferOf[i] \in Transfers
    OBVIOUS
  <2>2. QED
    BY <1>2, <2>1 DEF Shapely, Lasting, PickShape
<1>10. QED
  BY <1>2, <1>7, <1>8, <1>9

-----------------------------------------------------------------------------
LEMMA SeqFrom ==
    ASSUME NEW T, NEW m \in Nat, NEW s \in [1..m -> T]
    PROVE  s \in Seq(T)
OBVIOUS

LEMMA SpreadsAre ==
    ASSUME NEW q \in Units, NEW s \in Spreads(q)
    PROVE  s \in Parts /\ Total(s) = q
<1>1. s \in BoundedSeq(1..q, q) /\ Total(s) = q
  BY DEF Spreads
<1>2. s \in Seq(1..q)
  <2>1. PICK m \in 0..q : s \in [1..m -> 1..q]
    BY <1>1 DEF BoundedSeq, SeqOf
  <2>2. m \in Nat
    BY DEF Units
  <2>3. QED
    BY ONLY <2>1, <2>2, SeqFrom
<1>3. s \in Seq(Units)
  BY <1>2 DEF Units
<1>4. QED
  BY <1>1, <1>3 DEF Parts

LEMMA PartsConcat ==
    ASSUME NEW p \in Parts, NEW s \in Parts
    PROVE  p \o s \in Parts /\ Total(p \o s) = Total(p) + Total(s)
           /\ (p # <<>> => p \o s # <<>>)
<1>1. p \in Seq(Int) /\ s \in Seq(Int)
  BY DEF Parts, Units
<1>2. SumFunction(p \o s) = SumFunction(p) + SumFunction(s)
  BY <1>1, SumConcat
<1>3. p \o s \in Parts
  BY DEF Parts
<1>4. QED
  BY <1>2, <1>3 DEF Total, Parts

LEMMA ActiveIs ==
    ASSUME NEW t, NEW read, ReadTyped(t, read), NEW i \in ItemsOf(t),
           NEW h \in ActiveHold(read, i)
    PROVE  /\ h \in DOMAIN read.holds[i] /\ read.holds[i][h] \in Holds
           /\ read.holds[i][h].status = "ACTIVE" /\ read.holds[i][h].qty \in Units
<1>1. h \in DOMAIN read.holds[i] /\ read.holds[i][h].status = "ACTIVE"
  BY DEF ActiveHold
<1>2. read.holds[i] \in Seq(Holds)
  BY DEF ReadTyped
<1>3. read.holds[i][h] \in Holds
  BY <1>1, <1>2
<1>4. QED
  BY <1>1, <1>3 DEF Holds, Units

\* What a dispatch does: held is what the chosen reservations hold, spread how
\* it leaves the batches, ticks the reservations fulfilled.
DispatchShape(t, read, held, spread, chosen) ==
    LET G == Granted(t, read)
    IN  /\ held \in [G -> Units]
        /\ \A i \in G : /\ chosen[i] \in ActiveHold(read, i)
                        /\ held[i] = read.holds[i][chosen[i]].qty
                        /\ spread[i] \in Parts /\ Total(spread[i]) = held[i]
        /\ source' = [onHand |-> source.onHand - SumFunction(held),
                      reserved |-> source.reserved - SumFunction(held),
                      available |-> source.available]
        /\ holds' = [i \in Items |-> IF i \in G
                                       THEN [holds[i] EXCEPT ![chosen[i]].status = "FULFILLED"]
                                       ELSE holds[i]]
        /\ parts' = [i \in Items |-> IF i \in G THEN parts[i] \o spread[i] ELSE parts[i]]
        /\ item' = [i \in Items |-> IF i \in G
                                      THEN [item[i] EXCEPT !.dispatched = read.item[i].approved]
                                      ELSE item[i]]
        /\ destination' = [destination EXCEPT !.transit =
                             @ + SumFunctionOnSet(Approved(read, G), G)]
        /\ status' = [status EXCEPT ![t] = "DISPATCHED"]

LEMMA DispatchIs ==
    ASSUME Typed, NEW t \in Transfers, NEW read, ReadTyped(t, read), Dispatch(t, read)
    PROVE  \E held, spread, chosen : DispatchShape(t, read, held, spread, chosen)
<1> DEFINE G == Granted(t, read)
<1>2. PICK chosen \in [G -> UNION {ActiveHold(read, i) : i \in G}] :
        /\ \A i \in G : chosen[i] \in ActiveHold(read, i)
        /\ LET held == [i \in G |-> read.holds[i][chosen[i]].qty]
               total == SumFunction([i \in G |-> Taken(held[i], read.item[i].approved)])
           IN  /\ holds' = [i \in Items |->
                              IF i \in G
                                THEN [holds[i] EXCEPT ![chosen[i]].status = "FULFILLED"]
                                ELSE holds[i]]
               /\ source' = [source EXCEPT !.onHand = @ - total, !.reserved = @ - total]
               /\ \E spread \in [G -> UNION {Spreads(held[i]) : i \in G}] :
                    /\ \A i \in G : spread[i] \in Spreads(held[i])
                    /\ parts' = [i \in Items |-> IF i \in G THEN parts[i] \o spread[i]
                                                            ELSE parts[i]]
  BY Zenon DEF Dispatch
<1> DEFINE held == [i \in G |-> read.holds[i][chosen[i]].qty]
<1>3. held = [i \in G |-> read.holds[i][chosen[i]].qty]
  OBVIOUS
<1>4. PICK spread \in [G -> UNION {Spreads(held[i]) : i \in G}] :
        /\ \A i \in G : spread[i] \in Spreads(held[i])
        /\ parts' = [i \in Items |-> IF i \in G THEN parts[i] \o spread[i] ELSE parts[i]]
  BY <1>2, <1>3, Zenon
<1>5. G \subseteq ItemsOf(t)
  BY GrantedIs
<1>6. \A i \in G : held[i] = read.holds[i][chosen[i]].qty /\ held[i] \in Units
  BY <1>2, <1>3, <1>5, ActiveIs
<1>7. held \in [G -> Units]
  BY <1>3, <1>6
<1>8. \A i \in G : spread[i] \in Parts /\ Total(spread[i]) = held[i]
  BY <1>4, <1>6, SpreadsAre
<1>9. [i \in G |-> Taken(held[i], read.item[i].approved)] = held
  BY <1>3 DEF Taken
<1>10. source' = [source EXCEPT !.onHand = @ - SumFunction(held),
                                !.reserved = @ - SumFunction(held)]
  BY <1>2, <1>3, <1>9
<1>11. source' = [onHand |-> source.onHand - SumFunction(held),
                  reserved |-> source.reserved - SumFunction(held),
                  available |-> source.available]
  BY <1>10 DEF Typed
<1>12. /\ item' = [i \in Items |-> IF i \in G
                                     THEN [item[i] EXCEPT !.dispatched = read.item[i].approved]
                                     ELSE item[i]]
       /\ destination' = [destination EXCEPT !.transit =
                            @ + SumFunctionOnSet(Approved(read, G), G)]
       /\ status' = [status EXCEPT ![t] = "DISPATCHED"]
  BY DEF Dispatch, Approved
<1>13. holds' = [i \in Items |-> IF i \in G
                                   THEN [holds[i] EXCEPT ![chosen[i]].status = "FULFILLED"]
                                   ELSE holds[i]]
  BY <1>2
<1>14. DispatchShape(t, read, held, spread, chosen)
  BY <1>2, <1>4, <1>6, <1>7, <1>8, <1>11, <1>12, <1>13 DEF DispatchShape
<1>15. QED
  BY <1>14

LEMMA Fulfil ==
    ASSUME NEW hs \in Seq(Holds), NEW h
    PROVE  [hs EXCEPT ![h].status = "FULFILLED"] \in Seq(Holds)
<1>1. \A x \in Holds : [x EXCEPT !.status = "FULFILLED"] \in Holds
  BY DEF Holds
<1>2. \A k \in DOMAIN hs : hs[k] \in Holds
  OBVIOUS
<1>3. PICK r : r = [hs EXCEPT ![h].status = "FULFILLED"]
  OBVIOUS
<1>4. DOMAIN r = 1..Len(hs) /\ \A k \in 1..Len(hs) : r[k] \in Holds
  BY <1>1, <1>2, <1>3
<1>5. r = [k \in 1..Len(hs) |-> r[k]]
  <2>1. DOMAIN hs = 1..Len(hs)
    OBVIOUS
  <2>2. r = [k \in DOMAIN hs |-> IF k = h THEN [hs[h] EXCEPT !.status = "FULFILLED"] ELSE hs[k]]
    BY <1>3, Zenon
  <2>3. r = [k \in DOMAIN hs |-> r[k]]
    BY <2>2
  <2>4. QED
    BY <2>1, <2>3
<1>6. r \in [1..Len(hs) -> Holds]
  BY <1>4, <1>5
<1>7. r \in Seq(Holds)
  BY SMTT(30), <1>6
<1>8. QED
  BY <1>3, <1>7

LEMMA DispatchOK ==
    ASSUME Core, NEW t \in Transfers, NEW read, ReadTyped(t, read),
           NEW held, NEW spread, NEW chosen,
           DispatchShape(t, read, held, spread, chosen)
    PROVE  Core' /\ Lasting
<1> USE DEF Core
<1>1. PICK G, sum : G = Granted(t, read) /\ sum = SumFunction(held)
  OBVIOUS
<1>2. G \subseteq Items /\ IsFiniteSet(G) /\ \A i \in G : read.item[i].approved \in Nat \ {0}
  BY <1>1, GrantedIs
<1>3. held \in [G -> Units] /\ \A i \in G : spread[i] \in Parts /\ Total(spread[i]) = held[i]
  BY <1>1 DEF DispatchShape
<1>4. parts' = [i \in Items |-> IF i \in G THEN parts[i] \o spread[i] ELSE parts[i]]
  BY <1>1 DEF DispatchShape
<1>5. \A i \in Items : parts[i] \in Parts
  BY DEF Typed
<1>6. \A i \in G : /\ parts[i] \o spread[i] \in Parts
                   /\ Total(parts[i] \o spread[i]) = Total(parts[i]) + held[i]
  BY <1>2, <1>3, <1>5, PartsConcat
<1>7. parts' \in [Items -> Parts]
  BY <1>4, <1>5, <1>6
<1>8. "DISPATCHED" \in Statuses /\ status' = [status EXCEPT ![t] = "DISPATCHED"]
  BY DEF DispatchShape, Statuses
<1>9. status' \in [Transfers -> Statuses] /\ Lasting /\ status'[t] = "DISPATCHED"
  BY <1>8, StatusSet
<1>10. holds' \in [Items -> Seq(Holds)]
  <2>1. \A i \in Items : holds[i] \in Seq(Holds)
    BY DEF Typed
  <2>2. \A i \in Items : [holds[i] EXCEPT ![chosen[i]].status = "FULFILLED"] \in Seq(Holds)
    BY <2>1, Fulfil
  <2>3. QED
    BY <1>1, <2>1, <2>2 DEF DispatchShape
<1>11. /\ item' \in [Items -> ItemRecords]
       /\ \A i \in Items : IF i \in G THEN item'[i].dispatched > 0
                                      ELSE item'[i] = item[i]
  <2>1. \A i \in Items : item[i] \in ItemRecords
    BY DEF Typed
  <2>2. \A i \in G : /\ [item[i] EXCEPT !.dispatched = read.item[i].approved] \in ItemRecords
                     /\ [item[i] EXCEPT !.dispatched = read.item[i].approved].dispatched > 0
    BY <1>2, <2>1 DEF ItemRecords
  <2>3. item' = [i \in Items |-> IF i \in G
                                   THEN [item[i] EXCEPT !.dispatched = read.item[i].approved]
                                   ELSE item[i]]
    BY <1>1 DEF DispatchShape
  <2>4. QED
    BY <2>1, <2>2, <2>3
<1>12. sum \in Nat
  BY <1>1, <1>2, <1>3, TotalNat DEF Units
<1>13. /\ source' \in [onHand: Int, reserved: Int, available: Int]
       /\ source'.onHand = source.onHand - sum
       /\ source'.onHand = source'.reserved + source'.available
  BY <1>1, <1>12 DEF DispatchShape, Typed, Stock
<1>14. destination' \in [onHand: Nat, transit: Int]
  <2>1. PICK a : a = SumFunctionOnSet(Approved(read, G), G)
    OBVIOUS
  <2>2. a \in Nat
    BY <1>1, <2>1, ApprovedIs
  <2>3. destination' = [destination EXCEPT !.transit = @ + a]
    BY <1>1, <2>1 DEF DispatchShape
  <2>4. destination \in [onHand: Nat, transit: Int]
    BY DEF Typed
  <2>5. QED
    BY ONLY <2>2, <2>3, <2>4
<1>15. Typed'
  BY <1>7, <1>9, <1>10, <1>11, <1>13, <1>14 DEF Typed
<1>16. Shapely'
  <2>1. ASSUME NEW i \in Items
        PROVE  /\ parts'[i] = <<>> \/ item'[i].dispatched > 0
               /\ status'[TransferOf[i]] = "NONE" => parts'[i] = <<>>
    <3>1. CASE i \in G
      <4>1. TransferOf[i] = t
        BY <1>1, <3>1, GrantedIs DEF ItemsOf
      <4>2. QED
        BY <1>9, <1>11, <3>1, <4>1
    <3>2. CASE i \notin G
      <4>1. item'[i] = item[i] /\ parts'[i] = parts[i] /\ TransferOf[i] \in Transfers
        BY <3>2, <1>4, <1>11
      <4>2. QED
        BY <4>1, <1>9 DEF Shapely, Lasting
    <3>3. QED
      BY <3>1, <3>2
  <2>2. QED
    BY <2>1 DEF Shapely
<1>17. Stock'
  <2>1. PICK s, z : s = Sent /\ z = Sent'
    OBVIOUS
  <2>2. s \in [Items -> Nat] /\ z \in [Items -> Nat]
    <3>1. Sent' \in [Items -> Nat]
      BY <1>15, SentThen
    <3>2. QED
      BY <2>1, <3>1, SentTyped
  <2> DEFINE d == [i \in Items |-> IF i \in G THEN held[i] ELSE 0]
  <2>3. d \in [Items -> Int] /\ (\A i \in G : d[i] = held[i]) /\ \A i \in Items \ G : d[i] = 0
    BY <1>2, <1>3 DEF Units
  <2>4. \A i \in Items : z[i] = s[i] + d[i]
    <3>1. ASSUME NEW i \in Items PROVE z[i] = s[i] + d[i]
      <4>1. z[i] = Total(parts'[i]) /\ s[i] = Total(parts[i]) /\ s[i] \in Nat
        BY <2>1, <2>2 DEF Sent
      <4>2. CASE i \in G
        BY <4>1, <4>2, <1>4, <1>6, <2>3
      <4>3. CASE i \notin G
        BY <4>1, <4>3, <1>4, <2>3
      <4>4. QED
        BY <4>2, <4>3
    <3>2. QED
      BY <3>1
  <2> HIDE DEF d
  <2>5. SumFunction(d) = sum
    <3>1. SumFunctionOnSet(held, G) = SumFunction(d)
      BY <1>2, <2>3, SumWithin
    <3>2. DOMAIN held = G
      BY <1>3
    <3>3. QED
      BY <1>1, <3>1, <3>2 DEF SumFunction
  <2>6. s \in [Items -> Int] /\ z \in [Items -> Int]
    BY <2>2
  <2>7. SumFunction(z) = SumFunction(s) + SumFunction(d)
    BY <2>3, <2>4, <2>6, TotalPlus
  <2>8. SumFunction(s) \in Int
    BY <2>6, TotalInt
  <2>9. source.onHand = Opening - SumFunction(s) /\ source.onHand \in Int
    BY <2>1 DEF Stock, Typed
  <2>10. source'.onHand = Opening - SumFunction(z)
    <3>1. PICK a, b : a = SumFunction(s) /\ b = SumFunction(z)
      OBVIOUS
    <3>2. b = a + sum /\ a \in Int /\ source.onHand = Opening - a
      BY <2>5, <2>7, <2>8, <2>9, <3>1
    <3>3. source'.onHand = Opening - b
      BY ONLY <3>2, <1>12, <1>13, OpeningAssumption
    <3>4. QED
      BY <3>1, <3>3
  <2>11. QED
    BY <1>13, <2>1, <2>10 DEF Stock
<1>18. QED
  BY <1>9, <1>15, <1>16, <1>17

-----------------------------------------------------------------------------
(***************************************************************************)
(* Receipt, and the first theorem.                                         *)
(***************************************************************************)
Leaves(read, listed, times) == [i \in listed |-> times[i] * read.item[i].dispatched]
Gains(read, listed, times, r) ==
    [i \in listed |-> times[i] * Credit(read.item[i].dispatched, read.parts[i], r[i].received)]

\* What a receipt does: times and r are its lines.
ReceiveShape(t, read, times, r, listed) ==
    /\ times \in [ItemsOf(t) -> ListedTimes] /\ r \in [ItemsOf(t) -> Outcomes]
    /\ listed = {i \in ItemsOf(t) : times[i] > 0}
    /\ destination' = [transit |-> destination.transit
                                     - SumFunctionOnSet(Leaves(read, listed, times), listed),
                       onHand |-> destination.onHand
                                     + SumFunctionOnSet(Gains(read, listed, times, r), listed)]
    /\ item' = [i \in Items |->
                  IF i \in listed
                    THEN [item[i] EXCEPT !.received = r[i].received, !.damaged = r[i].damaged,
                                         !.missing = r[i].missing]
                    ELSE item[i]]
    /\ status' = [status EXCEPT ![t] =
                    IF \E i \in listed : IsDiscrepancy(read.item[i].dispatched, r[i])
                      THEN "DISCREPANCY_REVIEW" ELSE "RECEIVED"]
    /\ UNCHANGED <<holds, parts, source>>

LEMMA ReceiveIs ==
    ASSUME NEW t, NEW read, Receive(t, read)
    PROVE  \E times, r, listed : ReceiveShape(t, read, times, r, listed)
<1>1. PICK times \in [ItemsOf(t) -> ListedTimes], r \in [ItemsOf(t) -> Outcomes] :
         LET listed == {i \in ItemsOf(t) : times[i] > 0}
             shipped(i) == read.item[i].dispatched
         IN  /\ listed # {}
             /\ destination' =
                  [transit |-> destination.transit
                     - SumFunctionOnSet([i \in listed |-> times[i] * shipped(i)], listed),
                   onHand |-> destination.onHand
                     + SumFunctionOnSet([i \in listed |-> times[i] *
                         Credit(shipped(i), read.parts[i], r[i].received)], listed)]
             /\ item' = [i \in Items |->
                  IF i \in listed
                    THEN [item[i] EXCEPT !.received = r[i].received, !.damaged = r[i].damaged,
                                         !.missing = r[i].missing]
                    ELSE item[i]]
             /\ status' = [status EXCEPT ![t] =
                  IF \E i \in listed : IsDiscrepancy(shipped(i), r[i])
                    THEN "DISCREPANCY_REVIEW" ELSE "RECEIVED"]
  BY Zenon DEF Receive
<1> DEFINE listed == {i \in ItemsOf(t) : times[i] > 0}
<1>2. UNCHANGED <<holds, parts, source>>
  BY DEF Receive
<1>3. ReceiveShape(t, read, times, r, listed)
  BY <1>1, <1>2, Zenon DEF ReceiveShape, Leaves, Gains
<1>4. QED
  BY <1>3

LEMMA ListedIs ==
    ASSUME NEW t \in Transfers, NEW read, ReadTyped(t, read), NEW times, NEW r, NEW listed,
           ReceiveShape(t, read, times, r, listed)
    PROVE  /\ listed \subseteq ItemsOf(t) /\ listed \subseteq Items /\ IsFiniteSet(listed)
           /\ \A i \in listed : /\ read.item[i].dispatched \in Nat /\ read.parts[i] \in Parts
                                /\ read.parts[i] = <<>> \/ read.item[i].dispatched > 0
                                /\ times[i] \in Nat
                                /\ r[i] \in [received: Nat, damaged: Nat, missing: Nat]
<1>1. listed \subseteq ItemsOf(t)
  BY DEF ReceiveShape
<1>2. ItemsOf(t) \subseteq Items /\ IsFiniteSet(ItemsOf(t))
  BY ItemsOfTransfer
<1>3. IsFiniteSet(listed)
  BY <1>1, <1>2, FS_Subset
<1>4. \A i \in listed : /\ read.item[i] \in ItemRecords /\ read.parts[i] \in Parts
                        /\ read.parts[i] = <<>> \/ read.item[i].dispatched > 0
  BY <1>1 DEF ReadTyped
<1>5. \A i \in listed : times[i] \in ListedTimes /\ r[i] \in Outcomes
  BY <1>1 DEF ReceiveShape
<1>6. QED
  BY <1>1, <1>2, <1>3, <1>4, <1>5 DEF ItemRecords

LEMMA ReceiveSums ==
    ASSUME NEW t \in Transfers, NEW read, ReadTyped(t, read), NEW times, NEW r, NEW listed,
           ReceiveShape(t, read, times, r, listed)
    PROVE  /\ \A i \in listed : /\ Leaves(read, listed, times)[i] \in Nat
                                /\ Gains(read, listed, times, r)[i] \in Nat
           /\ SumFunctionOnSet(Leaves(read, listed, times), listed) \in Nat
           /\ SumFunctionOnSet(Gains(read, listed, times, r), listed) \in Nat
<1>1. PICK e, g : e = Leaves(read, listed, times) /\ g = Gains(read, listed, times, r)
  OBVIOUS
<1>2. IsFiniteSet(listed)
  BY ListedIs
<1>3. \A i \in listed : e[i] \in Nat /\ g[i] \in Nat
  <2> TAKE i \in listed
  <2>1. PICK n, d, ps, v : /\ n = times[i] /\ d = read.item[i].dispatched
                           /\ ps = read.parts[i] /\ v = r[i].received
    OBVIOUS
  <2>2. n \in Nat /\ d \in Nat /\ ps \in Parts /\ (ps = <<>> \/ d > 0) /\ v \in Nat
    BY <2>1, ListedIs
  <2>3. Credit(d, ps, v) \in Nat
    BY <2>2, CreditNat
  <2>4. n * d \in Nat /\ n * Credit(d, ps, v) \in Nat
    BY <2>2, <2>3, TimesNat
  <2>5. e[i] = n * d /\ g[i] = n * Credit(d, ps, v)
    BY <1>1, <2>1 DEF Leaves, Gains
  <2>6. QED
    BY <2>4, <2>5
<1>4. SumFunctionOnSet(e, listed) \in Nat /\ SumFunctionOnSet(g, listed) \in Nat
  <2>1. (\A i \in listed : e[i] \in Nat) /\ \A i \in listed : g[i] \in Nat
    BY <1>3
  <2>2. QED
    BY ONLY <1>2, <2>1, SumNat
<1>5. QED
  BY <1>1, <1>3, <1>4

LEMMA ReceiveOK ==
    ASSUME Core, NEW t \in Transfers, NEW read, ReadTyped(t, read),
           NEW times, NEW r, NEW listed, ReceiveShape(t, read, times, r, listed)
    PROVE  Core' /\ Lasting
<1>1. PICK st : st = IF \E i \in listed : IsDiscrepancy(read.item[i].dispatched, r[i])
                       THEN "DISCREPANCY_REVIEW" ELSE "RECEIVED"
  OBVIOUS
<1>2. st \in Statuses /\ st # "NONE" /\ status' = [status EXCEPT ![t] = st]
  BY <1>1 DEF ReceiveShape, Statuses
<1>3. PICK a, b : /\ a = SumFunctionOnSet(Leaves(read, listed, times), listed)
                  /\ b = SumFunctionOnSet(Gains(read, listed, times, r), listed)
  OBVIOUS
<1>4. a \in Nat /\ b \in Nat
  BY <1>3, ReceiveSums
<1>5. destination' = [transit |-> destination.transit - a, onHand |-> destination.onHand + b]
  BY <1>3 DEF ReceiveShape
<1>6. destination \in [onHand: Nat, transit: Int] /\ \A i \in Items : item[i] \in ItemRecords
  BY DEF Core, Typed
<1>7. destination' \in [onHand: Nat, transit: Int]
  BY ONLY <1>4, <1>5, <1>6
<1>8. \A i \in listed : r[i] \in [received: Nat, damaged: Nat, missing: Nat]
  BY ListedIs
<1>9. item' = [i \in Items |->
                  IF i \in listed
                    THEN [item[i] EXCEPT !.received = r[i].received, !.damaged = r[i].damaged,
                                         !.missing = r[i].missing]
                    ELSE item[i]]
  BY DEF ReceiveShape
<1>10. item' = [i \in Items |-> item'[i]]
  BY <1>9
<1>11. \A i \in Items : item'[i] \in ItemRecords /\ item'[i].dispatched = item[i].dispatched
  BY <1>6, <1>8, <1>9 DEF ItemRecords
<1>12. item' \in [Items -> ItemRecords]
  BY <1>10, <1>11
<1>13. UNCHANGED <<holds, parts, source>>
  BY DEF ReceiveShape
<1>14. QED
  BY <1>2, <1>7, <1>11, <1>12, <1>13, ItemsWrite

-----------------------------------------------------------------------------
\* Every handler's write, from whatever it has read.
LEMMA WriteOK ==
    ASSUME Core, NEW op, NEW t \in Transfers, NEW read, NEW available,
           ReadTyped(t, read), Handle(op, t, read, available)
    PROVE  Core' /\ Lasting
<1>1. CASE Submit(t, read)
  BY <1>1, SubmitOK
<1>2. CASE Approve(t, read)
  BY <1>2, ApproveOK
<1>3. CASE StartPicking(t, read, available)
  <2>1. PICK total : PickShape(t, read, total)
    BY <1>3, PickIs DEF Core
  <2>2. QED
    BY <2>1, PickOK
<1>4. CASE Dispatch(t, read)
  <2>1. PICK held, spread, chosen : DispatchShape(t, read, held, spread, chosen)
    BY <1>4, DispatchIs DEF Core
  <2>2. QED
    BY <2>1, DispatchOK
<1>5. CASE Receive(t, read)
  <2>1. PICK times, r, listed : ReceiveShape(t, read, times, r, listed)
    BY <1>5, ReceiveIs
  <2>2. QED
    BY <2>1, ReceiveOK
<1>6. QED
  BY <1>1, <1>2, <1>3, <1>4, <1>5 DEF Handle

LEMMA CoreTypes ==
    ASSUME Core, slow = NoCall \/ slow.op \in Slow, overtaken \in BOOLEAN
    PROVE  TypeOK
BY DEF Core, Typed, TypeOK, Parts, Units

LEMMA CoreTypesThen ==
    (Core /\ (slow = NoCall \/ slow.op \in Slow) /\ overtaken \in BOOLEAN => TypeOK)'
BY CoreTypes, PTL

\* A paused call stays valid: its transfer is never created anew.
LEMMA SlowKept ==
    ASSUME SlowTyped, Lasting, UNCHANGED slow
    PROVE  SlowTyped'
BY DEF SlowTyped, Lasting

LEMMA AloneOK == Inv /\ Alone => Inv'
<1> SUFFICES ASSUME Inv, Alone PROVE Inv'
  OBVIOUS
<1>1. Core /\ SlowTyped /\ TypeOK
  BY DEF Inv
<1>2. PICK t \in Transfers :
        Create(t) \/ \E op \in DOMAIN Expected : Handle(op, t, Read(t), source.available)
  BY DEF Alone
<1>3. UNCHANGED <<slow, overtaken>>
  BY DEF Alone
<1>4. Core' /\ Lasting
  <2>1. CASE Create(t)
    BY <1>1, <2>1, CreateOK
  <2>2. CASE \E op \in DOMAIN Expected : Handle(op, t, Read(t), source.available)
    <3>1. PICK op : Handle(op, t, Read(t), source.available)
      BY <2>2
    <3>2. ReadTyped(t, Read(t))
      BY <1>1, ReadOK DEF Core
    <3>3. QED
      BY <1>1, <3>1, <3>2, WriteOK
  <2>3. QED
    BY <1>2, <2>1, <2>2
<1>5. SlowTyped'
  BY <1>1, <1>3, <1>4, SlowKept
<1>6. (slow = NoCall \/ slow.op \in Slow)' /\ overtaken' \in BOOLEAN
  BY <1>1, <1>3 DEF TypeOK
<1>7. QED
  BY <1>4, <1>5, <1>6, CoreTypesThen DEF Inv

LEMMA CoreSame ==
    ASSUME Core, UNCHANGED <<records, stock>>
    PROVE  Core' /\ Lasting
BY DEF Core, Typed, Shapely, Stock, Sent, Lasting, records, stock

LEMMA PauseOK == Inv /\ Pause => Inv'
<1> SUFFICES ASSUME Inv, Pause PROVE Inv'
  OBVIOUS
<1>1. Core /\ SlowTyped /\ TypeOK
  BY DEF Inv
<1>2. PICK op \in Slow, t \in Transfers :
         /\ Accepts(op, status[t])
         /\ slow' = [op |-> op, transfer |-> t, read |-> Read(t),
                   available |-> IF op = "startPicking" THEN source.available ELSE 0]
  BY DEF Pause
<1>3. UNCHANGED <<records, stock, overtaken>>
  BY DEF Pause
<1>4. Core' /\ Lasting
  BY <1>1, <1>3, CoreSame
<1>5. slow'.op = op /\ slow'.transfer = t /\ slow'.read = Read(t)
  BY <1>2
<1>6. ReadTyped(t, Read(t))
  BY <1>1, ReadOK DEF Core
<1>7. status' = status
  BY <1>3 DEF records
<1>8. op \in DOMAIN Expected /\ status[t] # "NONE"
  BY <1>2, SlowAssumption DEF Accepts, Expected
<1>9. SlowTyped'
  BY <1>5, <1>6, <1>7, <1>8 DEF SlowTyped
<1>10. (slow = NoCall \/ slow.op \in Slow)' /\ overtaken' \in BOOLEAN
  BY <1>1, <1>3, <1>5 DEF TypeOK
<1>11. QED
  BY <1>4, <1>9, <1>10, CoreTypesThen DEF Inv

LEMMA ResumeOK == Inv /\ Resume => Inv'
<1> SUFFICES ASSUME Inv, Resume PROVE Inv'
  OBVIOUS
<1>1. Core /\ SlowTyped /\ TypeOK
  BY DEF Inv
<1>2. slow # NoCall /\ slow' = NoCall
  BY DEF Resume
<1>3. slow.transfer \in Transfers /\ ReadTyped(slow.transfer, slow.read)
  BY <1>1, <1>2 DEF SlowTyped
<1>4. Core' /\ overtaken' \in BOOLEAN
  <2>1. CASE UNCHANGED <<records, stock, overtaken>>
    BY <1>1, <2>1, CoreSame DEF TypeOK
  <2>2. CASE /\ Handle(slow.op, slow.transfer, slow.read, slow.available)
             /\ overtaken' = (overtaken \/ slow.read # Read(slow.transfer))
    <3>1. PICK t, read : t = slow.transfer /\ read = slow.read
      OBVIOUS
    <3>2. Core'
      BY <1>1, <1>3, <2>2, <3>1, WriteOK
    <3>3. QED
      BY <1>1, <2>2, <3>2 DEF TypeOK
  <2>3. QED
    BY <2>1, <2>2 DEF Resume
<1>5. SlowTyped'
  BY <1>2 DEF SlowTyped
<1>6. QED
  BY <1>2, <1>4, <1>5, CoreTypesThen DEF Inv

LEMMA NextOK == Inv /\ [Next]_vars => Inv'
<1> SUFFICES ASSUME Inv, [Next]_vars PROVE Inv'
  OBVIOUS
<1>1. CASE UNCHANGED vars
  <2>1. UNCHANGED <<records, stock, slow, overtaken>>
    BY <1>1 DEF vars
  <2>2. Core' /\ Lasting
    BY <2>1, CoreSame DEF Inv
  <2>3. SlowTyped'
    BY <2>1, <2>2, SlowKept DEF Inv
  <2>4. QED
    BY <2>1, <2>2, <2>3, CoreTypesThen DEF Inv, TypeOK
<1>2. QED
  BY <1>1, AloneOK, PauseOK, ResumeOK DEF Next

\* The records keep their types, only a dispatched item has batches, and the
\* source's row shows what the dispatches took, whichever calls are overtaken
\* (all handlers).
THEOREM InvHolds == Spec => []Inv
<1>1. Init => Inv
  BY InitOK
<1>2. Inv /\ [Next]_vars => Inv'
  BY NextOK
<1>3. QED
  BY <1>1, <1>2, PTL DEF Spec

\* However calls overlap, the source has lost exactly what the batch records
\* of the transfers say, and what is reserved and what is available there make
\* up what is on hand (startPicking, dispatch).
THEOREM SourceIsTracked == Spec => []SourceTracked
<1>1. Inv => SourceTracked
  BY DEF Inv, Core, Stock, Sent, SourceTracked
<1>2. QED
  BY <1>1, InvHolds, PTL

-----------------------------------------------------------------------------
(***************************************************************************)
(* What the status of a transfer says of its items.                        *)
(***************************************************************************)
HoldOf(q, state) == IF q = 0 THEN <<>> ELSE <<[qty |-> q, status |-> state]>>
HeldBy(hs) == [h \in DOMAIN hs |-> IF hs[h].status = "ACTIVE" THEN hs[h].qty ELSE 0]
HeldIn(hs) == Total(HeldBy(hs))

Early == {"NONE", "DRAFT", "REQUESTED", "APPROVED"}
Late == {"DISPATCHED", "RECEIVED", "DISCREPANCY_REVIEW"}
Ended == {"RECEIVED", "DISCREPANCY_REVIEW"}

\* What an item of a transfer in a status looks like.
Line(st, it, hs, ps) ==
    /\ st \in Early => hs = <<>> /\ ps = <<>> /\ it.dispatched = 0
    /\ st = "READY_FOR_DISPATCH" =>
         hs = HoldOf(it.approved, "ACTIVE") /\ ps = <<>> /\ it.dispatched = 0
    /\ st \in Late => /\ hs = HoldOf(it.approved, "FULFILLED")
                      /\ Total(ps) = it.dispatched /\ it.dispatched = it.approved
    /\ st \notin Ended => it.received = 0

\* The shape of every item, and the reserved stock as the sum of their holds.
Lines == \A i \in Items : Line(status[TransferOf[i]], item[i], holds[i], parts[i])
Kept == [i \in Items |-> Held(i)]
Reserved == source.reserved = SumFunction(Kept)
Orderly == Lines /\ Reserved

LEMMA OneSum ==
    ASSUME NEW f, DOMAIN f = {1}, f[1] \in Int
    PROVE  SumFunction(f) = f[1]
<1>1. IsFiniteSet({1}) /\ {1} \ {1} = {}
  BY FS_Singleton
<1>2. \A x \in {1} : f[x] \in Int
  OBVIOUS
<1>3. SumFunctionOnSet(f, {1}) = f[1] + SumFunctionOnSet(f, {1} \ {1})
  BY <1>1, <1>2, SumRemove
<1>4. SumFunctionOnSet(f, {}) = 0
  BY SumEmpty
<1>5. QED
  BY <1>1, <1>3, <1>4 DEF SumFunction

LEMMA HoldOfIs ==
    ASSUME NEW q \in Nat
    PROVE  /\ HeldIn(HoldOf(q, "ACTIVE")) = q
           /\ HeldIn(HoldOf(q, "FULFILLED")) = 0
           /\ HeldIn(<<>>) = 0
<1>1. HeldIn(<<>>) = 0
  <2>1. DOMAIN HeldBy(<<>>) = {}
    BY DEF HeldBy
  <2>2. QED
    BY <2>1, TotalEmpty DEF HeldIn, Total
<1>2. ASSUME q # 0
      PROVE  HeldIn(HoldOf(q, "ACTIVE")) = q /\ HeldIn(HoldOf(q, "FULFILLED")) = 0
  <2>1. PICK a, f : a = HoldOf(q, "ACTIVE") /\ f = HoldOf(q, "FULFILLED")
    OBVIOUS
  <2>2. a = <<[qty |-> q, status |-> "ACTIVE"]>> /\ f = <<[qty |-> q, status |-> "FULFILLED"]>>
    BY <1>2, <2>1 DEF HoldOf
  <2>3. /\ DOMAIN a = {1} /\ a[1].status = "ACTIVE" /\ a[1].qty = q
        /\ DOMAIN f = {1} /\ f[1].status = "FULFILLED"
    BY <2>2
  <2>4. DOMAIN HeldBy(a) = {1} /\ HeldBy(a)[1] = q /\ DOMAIN HeldBy(f) = {1} /\ HeldBy(f)[1] = 0
    BY <2>3 DEF HeldBy
  <2>5. SumFunction(HeldBy(a)) = q /\ SumFunction(HeldBy(f)) = 0
    BY <2>4, OneSum
  <2>6. QED
    BY <2>1, <2>5 DEF HeldIn, Total
<1>3. CASE q = 0
  <2>1. HoldOf(q, "ACTIVE") = <<>> /\ HoldOf(q, "FULFILLED") = <<>>
    BY <1>3 DEF HoldOf
  <2>2. HeldIn(HoldOf(q, "ACTIVE")) = 0 /\ HeldIn(HoldOf(q, "FULFILLED")) = 0
    BY ONLY <1>1, <2>1
  <2>3. QED
    BY ONLY <1>1, <1>3, <2>2
<1>4. QED
  BY ONLY <1>1, <1>2, <1>3

LEMMA HeldIs == \A i \in Items : Held(i) = HeldIn(holds[i])
BY DEF Held, HeldIn, HeldBy

LEMMA HeldThen == (\A i \in Items : Held(i) = HeldIn(holds[i]))'
BY HeldIs, PTL

\* What the records show an item to hold.
LEMMA LineHeld ==
    ASSUME NEW st \in Statuses, NEW it \in ItemRecords, NEW hs, NEW ps, Line(st, it, hs, ps)
    PROVE  HeldIn(hs) = IF st = "READY_FOR_DISPATCH" THEN it.approved ELSE 0
<1>1. it.approved \in Nat
  BY DEF ItemRecords
<1>2. CASE st \in Early
  BY <1>1, <1>2, HoldOfIs DEF Line, Early
<1>3. CASE st = "READY_FOR_DISPATCH"
  BY <1>1, <1>3, HoldOfIs DEF Line
<1>4. CASE st \in Late
  BY <1>1, <1>4, HoldOfIs DEF Line, Late
<1>5. QED
  BY <1>2, <1>3, <1>4 DEF Statuses, Early, Late

Waiting(i) == IF status[TransferOf[i]] = "READY_FOR_DISPATCH" THEN item[i].approved ELSE 0

LEMMA KeptIs ==
    ASSUME Typed, Lines
    PROVE  /\ Kept \in [Items -> Nat]
           /\ \A i \in Items : Kept[i] = Waiting(i) /\ Held(i) = Waiting(i)
<1>1. \A i \in Items : Held(i) = Waiting(i) /\ Waiting(i) \in Nat
  <2> TAKE i \in Items
  <2>1. status[TransferOf[i]] \in Statuses /\ item[i] \in ItemRecords
    BY DEF Typed
  <2>2. HeldIn(holds[i]) = Waiting(i)
    BY <2>1, LineHeld DEF Lines, Waiting
  <2>3. Waiting(i) \in Nat
    BY <2>1 DEF Waiting, ItemRecords
  <2>4. QED
    BY <2>2, <2>3, HeldIs
<1>2. QED
  BY <1>1 DEF Kept

LEMMA KeptThen ==
    (Typed /\ Lines => /\ Kept \in [Items -> Nat]
                       /\ \A i \in Items : Kept[i] = Waiting(i) /\ Held(i) = Waiting(i))'
BY KeptIs, PTL

LEMMA LinesInit == Init => Orderly
<1> SUFFICES ASSUME Init PROVE Orderly
  OBVIOUS
<1>1. Lines
  <2>1. ASSUME NEW i \in Items PROVE Line(status[TransferOf[i]], item[i], holds[i], parts[i])
    <3>1. /\ status[TransferOf[i]] = "NONE" /\ item[i].dispatched = 0 /\ item[i].received = 0
          /\ holds[i] = <<>> /\ parts[i] = <<>>
      BY DEF Init, NothingYet
    <3>2. QED
      BY <3>1 DEF Line, Late
  <2>2. QED
    BY <2>1 DEF Lines
<1>2. Typed
  BY InitOK DEF Inv, Core
<1>3. \A i \in Items : Waiting(i) = 0
  BY DEF Waiting, Init
<1>4. \A i \in Items : Held(i) = 0
  BY <1>1, <1>2, <1>3, KeptIs
<1>5. Kept \in [Items -> {0}]
  BY <1>4 DEF Kept
<1>6. SumFunction(Kept) = 0
  BY <1>5, TotalZero
<1>7. Reserved
  BY <1>6 DEF Reserved, Init
<1>8. QED
  BY <1>1, <1>7 DEF Orderly

\* A write to transfer t alone.
Touches(t) ==
    \A i \in Items \ ItemsOf(t) :
      item'[i] = item[i] /\ holds'[i] = holds[i] /\ parts'[i] = parts[i]

LEMMA LinesBy ==
    ASSUME Typed, Lines, NEW t \in Transfers, NEW st, status' = [status EXCEPT ![t] = st],
           Touches(t), \A i \in ItemsOf(t) : Line(st, item'[i], holds'[i], parts'[i])
    PROVE  Lines'
<1>1. ASSUME NEW i \in Items PROVE Line(status'[TransferOf[i]], item'[i], holds'[i], parts'[i])
  <2>1. CASE i \in ItemsOf(t)
    <3>1. status'[TransferOf[i]] = st
      BY <2>1 DEF ItemsOf, Typed
    <3>2. QED
      BY <2>1, <3>1
  <2>2. CASE i \notin ItemsOf(t)
    <3>1. status'[TransferOf[i]] = status[TransferOf[i]]
      BY <2>2 DEF ItemsOf, Typed
    <3>2. QED
      BY <2>2, <3>1 DEF Touches, Lines
  <2>3. QED
    BY <2>1, <2>2
<1>2. QED
  BY <1>1 DEF Lines

LEMMA ReservedSame ==
    ASSUME Reserved, UNCHANGED <<holds, source>>
    PROVE  Reserved'
BY DEF Reserved, Kept, Held

LEMMA LineNow ==
    ASSUME Typed, Lines, NEW t \in Transfers, NEW i \in ItemsOf(t)
    PROVE  /\ Line(status[t], item[i], holds[i], parts[i])
           /\ item[i] \in ItemRecords /\ i \in Items
BY DEF ItemsOf, Lines, Typed

LEMMA CreateOrderly ==
    ASSUME Typed, Orderly, NEW t \in Transfers, Create(t)
    PROVE  Orderly'
<1>1. \A i \in ItemsOf(t) : Line("DRAFT", item'[i], holds'[i], parts'[i])
  <2> TAKE i \in ItemsOf(t)
  <2>1. item'[i].dispatched = 0 /\ item'[i].received = 0
    BY ItemsOfTransfer DEF Create, NothingYet
  <2>2. status[t] = "NONE" /\ holds' = holds /\ parts' = parts
    BY DEF Create
  <2>3. holds[i] = <<>> /\ parts[i] = <<>>
    BY <2>2, LineNow DEF Orderly, Line, Early
  <2>4. QED
    BY <2>1, <2>2, <2>3 DEF Line, Late
<1>2. Touches(t) /\ status' = [status EXCEPT ![t] = "DRAFT"]
  BY DEF Touches, Create
<1>3. Lines'
  BY <1>1, <1>2, LinesBy DEF Orderly
<1>4. Reserved'
  BY ReservedSame DEF Orderly, Create, stock
<1>5. QED
  BY <1>3, <1>4 DEF Orderly

LEMMA SubmitOrderly ==
    ASSUME Typed, Orderly, NEW t \in Transfers, NEW read, status[t] = "DRAFT", Submit(t, read)
    PROVE  Orderly'
<1>1. UNCHANGED <<item, holds, parts, source>> /\ status' = [status EXCEPT ![t] = "REQUESTED"]
  BY DEF Submit, stock
<1>2. \A i \in ItemsOf(t) : Line("REQUESTED", item'[i], holds'[i], parts'[i])
  BY <1>1, LineNow DEF Orderly, Line, Early, Late, Ended
<1>3. Lines'
  BY <1>1, <1>2, LinesBy DEF Orderly, Touches
<1>4. QED
  BY <1>1, <1>3, ReservedSame DEF Orderly

LEMMA ApproveOrderly ==
    ASSUME Typed, Orderly, NEW t \in Transfers, NEW read, status[t] = "REQUESTED",
           Approve(t, read)
    PROVE  Orderly'
<1>1. UNCHANGED <<holds, parts, source>> /\ status' = [status EXCEPT ![t] = "APPROVED"]
  BY DEF Approve, stock
<1>2. PICK listed \in SUBSET ItemsOf(t) :
        \E granted \in [listed -> Quantities] :
          /\ \A i \in listed : granted[i] <= read.item[i].requested
          /\ item' = [i \in Items |-> IF i \in listed
                                        THEN [item[i] EXCEPT !.approved = granted[i]]
                                        ELSE item[i]]
  BY DEF Approve
<1>3. PICK granted \in [listed -> Quantities] :
        item' = [i \in Items |-> IF i \in listed
                                   THEN [item[i] EXCEPT !.approved = granted[i]]
                                   ELSE item[i]]
  BY <1>2
<1>4. ASSUME NEW i \in ItemsOf(t) PROVE Line("APPROVED", item'[i], holds'[i], parts'[i])
  <2>1. Line("REQUESTED", item[i], holds[i], parts[i]) /\ item[i] \in ItemRecords /\ i \in Items
    BY LineNow DEF Orderly
  <2>2. item'[i].dispatched = item[i].dispatched /\ item'[i].received = item[i].received
    BY <1>3, <2>1 DEF ItemRecords
  <2>3. QED
    BY <1>1, <2>1, <2>2 DEF Line, Early, Late, Ended
<1>5. Touches(t)
  BY <1>1, <1>3 DEF Touches
<1>6. Lines'
  BY <1>1, <1>4, <1>5, LinesBy DEF Orderly
<1>7. QED
  BY <1>1, <1>6, ReservedSame DEF Orderly

-----------------------------------------------------------------------------
(***************************************************************************)
(* Picking, dispatch and receipt of a transfer that has not changed since  *)
(* it was read.                                                            *)
(***************************************************************************)
\* A sum over the items of which those of G change by what g says.
LEMMA ItemsGain ==
    ASSUME NEW k \in [Items -> Nat], NEW z \in [Items -> Nat], NEW G, G \subseteq Items,
           NEW g, \A i \in G : g[i] \in Nat /\ z[i] = k[i] + g[i],
           \A i \in Items \ G : z[i] = k[i]
    PROVE  SumFunction(z) = SumFunction(k) + SumFunctionOnSet(g, G)
           /\ SumFunction(k) \in Int /\ SumFunction(z) \in Int
<1> DEFINE h == [i \in Items |-> IF i \in G THEN g[i] ELSE 0]
<1>1. /\ h \in [Items -> Int] /\ (\A i \in G : h[i] = g[i]) /\ (\A i \in Items \ G : h[i] = 0)
      /\ \A i \in Items : z[i] = k[i] + h[i]
  OBVIOUS
<1>2. k \in [Items -> Int] /\ z \in [Items -> Int]
  OBVIOUS
<1> HIDE DEF h
<1>3. SumFunction(z) = SumFunction(k) + SumFunction(h)
  <2>1. \A i \in Items : z[i] = k[i] + h[i]
    BY <1>1
  <2>2. h \in [Items -> Int]
    BY <1>1
  <2>3. QED
    BY ONLY <1>2, <2>1, <2>2, ItemsAssumption, TotalPlus
<1>4. SumFunctionOnSet(g, G) = SumFunction(h)
  BY <1>1, SumWithin
<1>5. SumFunction(k) \in Int /\ SumFunction(z) \in Int
  BY <1>2, TotalInt
<1>6. QED
  BY <1>3, <1>4, <1>5

LEMMA ReadLine ==
    ASSUME Typed, Lines, NEW t \in Transfers, NEW read, read = Read(t), NEW i \in ItemsOf(t)
    PROVE  /\ read.item[i] = item[i] /\ read.holds[i] = holds[i] /\ read.parts[i] = parts[i]
           /\ Line(status[t], item[i], holds[i], parts[i])
           /\ item[i] \in ItemRecords /\ item[i].approved \in Nat /\ i \in Items
           /\ i \in Granted(t, read) <=> item[i].approved # 0
<1>1. read.item[i] = item[i] /\ read.holds[i] = holds[i] /\ read.parts[i] = parts[i]
  BY ReadIs
<1>2. Line(status[t], item[i], holds[i], parts[i]) /\ item[i] \in ItemRecords /\ i \in Items
  BY LineNow
<1>3. item[i].approved \in Nat
  BY <1>2 DEF ItemRecords
<1>4. i \in Granted(t, read) <=> item[i].approved # 0
  BY <1>1, <1>3 DEF Granted
<1>5. QED
  BY <1>1, <1>2, <1>3, <1>4

\* Transfer t alone starts or stops waiting to be dispatched.
LEMMA WaitingElsewhere ==
    ASSUME Typed, NEW t \in Transfers, NEW st, status' = [status EXCEPT ![t] = st],
           Touches(t), NEW i \in Items \ ItemsOf(t)
    PROVE  Waiting(i)' = Waiting(i)
<1>1. status'[TransferOf[i]] = status[TransferOf[i]] /\ item'[i] = item[i]
  BY DEF ItemsOf, Typed, Touches
<1>2. QED
  BY <1>1 DEF Waiting

LEMMA PickOrderly ==
    ASSUME Core, Orderly, NEW t \in Transfers, NEW read, read = Read(t), ReadTyped(t, read),
           status[t] = "APPROVED", NEW total, PickShape(t, read, total)
    PROVE  Orderly'
<1>1. PICK G, a : G = Granted(t, read) /\ a = Approved(read, G)
  OBVIOUS
<1>2. /\ G \subseteq ItemsOf(t) /\ G \subseteq Items
      /\ a \in [G -> Units] /\ \A i \in G : a[i] = read.item[i].approved
  BY <1>1, GrantedIs, ApprovedIs
<1>3. Typed /\ Lines /\ Reserved
  BY DEF Core, Orderly
<1>4. /\ UNCHANGED <<item, parts>> /\ status' = [status EXCEPT ![t] = "READY_FOR_DISPATCH"]
      /\ holds' = [i \in Items |-> IF i \in G
                                     THEN Append(holds[i], NewHold(read.item[i].approved))
                                     ELSE holds[i]]
      /\ source'.reserved = source.reserved + total
      /\ total = SumFunctionOnSet(a, G)
  BY <1>1 DEF PickShape
<1>5. Touches(t)
  BY <1>2, <1>4 DEF Touches
<1>6. ASSUME NEW i \in ItemsOf(t)
      PROVE  Line("READY_FOR_DISPATCH", item'[i], holds'[i], parts'[i])
  <2>1. /\ read.item[i] = item[i] /\ Line("APPROVED", item[i], holds[i], parts[i])
        /\ item[i].approved \in Nat /\ i \in Items /\ (i \in G <=> item[i].approved # 0)
    BY <1>1, <1>3, ReadLine
  <2>2. /\ holds[i] = <<>> /\ parts[i] = <<>> /\ item[i].dispatched = 0 /\ item[i].received = 0
    BY <2>1 DEF Line, Early, Ended
  <2>3. holds'[i] = HoldOf(item[i].approved, "ACTIVE")
    <3>1. CASE i \in G
      <4>1. holds'[i] = Append(<<>>, NewHold(item[i].approved))
        BY <1>4, <2>1, <2>2, <3>1
      <4>2. Append(<<>>, NewHold(item[i].approved)) = <<NewHold(item[i].approved)>>
        OBVIOUS
      <4>3. QED
        BY <2>1, <3>1, <4>1, <4>2 DEF HoldOf, NewHold
    <3>2. CASE i \notin G
      BY <1>4, <2>1, <2>2, <3>2 DEF HoldOf
    <3>3. QED
      BY <3>1, <3>2
  <2>4. QED
    BY <1>4, <2>2, <2>3 DEF Line, Early, Late
<1>7. Lines'
  BY <1>3, <1>4, <1>5, <1>6, LinesBy
<1>8. Typed'
  BY PickOK DEF Core
<1>9. PICK k, z : k = Kept /\ z = Kept'
  OBVIOUS
<1>10. /\ k \in [Items -> Nat] /\ z \in [Items -> Nat]
       /\ \A i \in Items : k[i] = Waiting(i) /\ z[i] = Waiting(i)'
  BY <1>3, <1>7, <1>8, <1>9, KeptIs, KeptThen
<1>11. \A i \in Items \ G : z[i] = k[i]
  <2> TAKE i \in Items \ G
  <2>1. CASE i \in ItemsOf(t)
    <3>1. item[i].approved = 0 /\ item'[i] = item[i]
      BY <1>1, <1>3, <1>4, <2>1, ReadLine
    <3>2. Waiting(i) = 0 /\ Waiting(i)' = 0
      BY <3>1 DEF Waiting
    <3>3. QED
      BY <1>10, <3>2
  <2>2. CASE i \notin ItemsOf(t)
    BY <1>3, <1>4, <1>5, <1>10, <2>2, WaitingElsewhere
  <2>3. QED
    BY <2>1, <2>2
<1>12. \A i \in G : a[i] \in Nat /\ z[i] = k[i] + a[i]
  <2> TAKE i \in G
  <2>1. i \in ItemsOf(t) /\ TransferOf[i] = t /\ i \in Items
    BY <1>2 DEF ItemsOf
  <2>2. a[i] = item[i].approved /\ a[i] \in Nat /\ item'[i] = item[i]
    BY <1>2, <1>3, <1>4, <2>1, ReadLine DEF Units
  <2>3. status'[t] = "READY_FOR_DISPATCH"
    BY <1>3, <1>4 DEF Typed
  <2>4. Waiting(i) = 0 /\ Waiting(i)' = a[i]
    BY <2>1, <2>2, <2>3 DEF Waiting
  <2>5. QED
    BY <1>10, <2>1, <2>2, <2>4
<1>13. SumFunction(z) = SumFunction(k) + SumFunctionOnSet(a, G)
  BY <1>2, <1>10, <1>11, <1>12, ItemsGain
<1>14. Reserved'
  <2>1. source.reserved = SumFunction(k)
    BY <1>3, <1>9 DEF Reserved
  <2>2. source'.reserved = SumFunction(z)
    BY <1>4, <1>13, <2>1
  <2>3. QED
    BY <1>9, <2>2 DEF Reserved
<1>15. QED
  BY <1>7, <1>14 DEF Orderly

\* The reservation that a dispatch finds is the one picking made.
LEMMA HoldFound ==
    ASSUME NEW t, NEW read, ReadTyped(t, read), NEW i \in ItemsOf(t), NEW q \in Units,
           read.holds[i] = HoldOf(q, "ACTIVE"), NEW c \in ActiveHold(read, i)
    PROVE  /\ c = 1 /\ read.holds[i][c].qty = q
           /\ [HoldOf(q, "ACTIVE") EXCEPT ![c].status = "FULFILLED"] = HoldOf(q, "FULFILLED")
<1>1. HoldOf(q, "ACTIVE") = <<[qty |-> q, status |-> "ACTIVE"]>>
      /\ HoldOf(q, "FULFILLED") = <<[qty |-> q, status |-> "FULFILLED"]>>
  BY DEF HoldOf, Units
<1>2. c \in DOMAIN read.holds[i]
  BY ActiveIs
<1>3. c = 1
  BY <1>1, <1>2
<1>4. [<<[qty |-> q, status |-> "ACTIVE"]>> EXCEPT ![1].status = "FULFILLED"]
        = <<[qty |-> q, status |-> "FULFILLED"]>>
  OBVIOUS
<1>5. QED
  BY <1>1, <1>3, <1>4

LEMMA DispatchOrderly ==
    ASSUME Core, Orderly, NEW t \in Transfers, NEW read, read = Read(t), ReadTyped(t, read),
           status[t] = "READY_FOR_DISPATCH",
           NEW held, NEW spread, NEW chosen, DispatchShape(t, read, held, spread, chosen)
    PROVE  Orderly'
<1>1. PICK G : G = Granted(t, read)
  OBVIOUS
<1>2. G \subseteq ItemsOf(t) /\ G \subseteq Items
  BY <1>1, GrantedIs
<1>3. Typed /\ Lines /\ Reserved
  BY DEF Core, Orderly
<1>4. /\ status' = [status EXCEPT ![t] = "DISPATCHED"]
      /\ holds' = [i \in Items |-> IF i \in G
                                     THEN [holds[i] EXCEPT ![chosen[i]].status = "FULFILLED"]
                                     ELSE holds[i]]
      /\ parts' = [i \in Items |-> IF i \in G THEN parts[i] \o spread[i] ELSE parts[i]]
      /\ item' = [i \in Items |-> IF i \in G
                                    THEN [item[i] EXCEPT !.dispatched = read.item[i].approved]
                                    ELSE item[i]]
      /\ source'.reserved = source.reserved - SumFunction(held)
      /\ held \in [G -> Units]
      /\ \A i \in G : /\ chosen[i] \in ActiveHold(read, i)
                      /\ held[i] = read.holds[i][chosen[i]].qty
                      /\ spread[i] \in Parts /\ Total(spread[i]) = held[i]
  BY <1>1 DEF DispatchShape
<1>5. Touches(t)
  BY <1>2, <1>4 DEF Touches
<1>6. ASSUME NEW i \in ItemsOf(t)
      PROVE  /\ Line("DISPATCHED", item'[i], holds'[i], parts'[i])
             /\ item'[i].approved = item[i].approved
             /\ i \in G => held[i] = item[i].approved
  <2>1. /\ read.item[i] = item[i] /\ read.holds[i] = holds[i]
        /\ Line("READY_FOR_DISPATCH", item[i], holds[i], parts[i])
        /\ item[i] \in ItemRecords /\ item[i].approved \in Nat /\ i \in Items
        /\ (i \in G <=> item[i].approved # 0)
    BY <1>1, <1>3, ReadLine
  <2>2. /\ holds[i] = HoldOf(item[i].approved, "ACTIVE") /\ parts[i] = <<>>
        /\ item[i].dispatched = 0 /\ item[i].received = 0
    BY <2>1 DEF Line, Ended
  <2>3. CASE i \in G
    <3>1. PICK q, c, s : q = item[i].approved /\ c = chosen[i] /\ s = spread[i]
      OBVIOUS
    <3>2. q \in Units /\ c \in ActiveHold(read, i) /\ held[i] = read.holds[i][c].qty
          /\ s \in Parts /\ Total(s) = held[i]
      BY <1>4, <2>1, <2>3, <3>1 DEF Units
    <3>3. read.holds[i] = HoldOf(q, "ACTIVE")
      BY <2>1, <2>2, <3>1
    <3>4. /\ held[i] = q
          /\ [HoldOf(q, "ACTIVE") EXCEPT ![c].status = "FULFILLED"] = HoldOf(q, "FULFILLED")
      BY <3>2, <3>3, HoldFound
    <3>5. holds'[i] = [holds[i] EXCEPT ![c].status = "FULFILLED"]
      BY <1>4, <2>1, <2>3, <3>1
    <3>6. holds'[i] = HoldOf(q, "FULFILLED")
      BY <2>2, <3>1, <3>4, <3>5
    <3>7. item'[i] = [item[i] EXCEPT !.dispatched = q]
      BY <1>4, <2>1, <2>3, <3>1
    <3>8. item'[i].dispatched = q /\ item'[i].approved = q /\ item'[i].received = 0
      BY <2>1, <2>2, <3>1, <3>7 DEF ItemRecords
    <3>9. Total(parts'[i]) = q
      <4>1. parts'[i] = <<>> \o s
        BY <1>4, <2>1, <2>2, <2>3, <3>1
      <4>2. Total(<<>> \o s) = Total(<<>>) + Total(s) /\ Total(<<>>) = 0
        BY <3>2, EmptyParts, PartsConcat
      <4>3. QED
        BY <3>2, <3>4, <4>1, <4>2 DEF Units
    <3>10. QED
      BY <3>1, <3>4, <3>6, <3>8, <3>9 DEF Line, Early
  <2>4. CASE i \notin G
    <3>1. item[i].approved = 0 /\ item'[i] = item[i] /\ holds'[i] = holds[i] /\ parts'[i] = parts[i]
      BY <1>4, <2>1, <2>4
    <3>2. holds[i] = HoldOf(0, "FULFILLED")
      BY <2>2, <3>1 DEF HoldOf
    <3>3. Total(parts[i]) = 0
      BY <2>2, EmptyParts
    <3>4. QED
      BY <2>2, <2>4, <3>1, <3>2, <3>3 DEF Line, Early
  <2>5. QED
    BY <2>3, <2>4
<1>7. Lines'
  BY <1>3, <1>4, <1>5, <1>6, LinesBy
<1>8. Typed'
  BY DispatchOK DEF Core
<1>9. PICK k, z : k = Kept /\ z = Kept'
  OBVIOUS
<1>10. /\ k \in [Items -> Nat] /\ z \in [Items -> Nat]
       /\ \A i \in Items : k[i] = Waiting(i) /\ z[i] = Waiting(i)'
  BY <1>3, <1>7, <1>8, <1>9, KeptIs, KeptThen
<1>11. \A i \in ItemsOf(t) : /\ TransferOf[i] = t /\ i \in Items
                             /\ k[i] = item[i].approved /\ z[i] = 0
  <2> TAKE i \in ItemsOf(t)
  <2>1. TransferOf[i] = t /\ i \in Items /\ status'[t] = "DISPATCHED"
    BY <1>3, <1>4 DEF ItemsOf, Typed
  <2>2. Waiting(i) = item[i].approved /\ Waiting(i)' = 0
    BY <2>1 DEF Waiting
  <2>3. QED
    BY <1>10, <2>1, <2>2
<1>12. \A i \in Items \ G : k[i] = z[i]
  <2> TAKE i \in Items \ G
  <2>1. CASE i \in ItemsOf(t)
    <3>1. item[i].approved = 0
      BY <1>1, <1>3, <2>1, ReadLine
    <3>2. QED
      BY <1>11, <2>1, <3>1
  <2>2. CASE i \notin ItemsOf(t)
    BY <1>3, <1>4, <1>5, <1>10, <2>2, WaitingElsewhere
  <2>3. QED
    BY <2>1, <2>2
<1>13. \A i \in G : held[i] \in Nat /\ k[i] = z[i] + held[i]
  <2> TAKE i \in G
  <2>1. i \in ItemsOf(t) /\ held[i] \in Units
    BY <1>2, <1>4
  <2>2. held[i] = item[i].approved
    BY <1>6, <2>1
  <2>3. k[i] = item[i].approved /\ z[i] = 0
    BY <1>11, <2>1
  <2>4. QED
    BY ONLY <2>1, <2>2, <2>3 DEF Units
<1>14. /\ SumFunction(k) = SumFunction(z) + SumFunctionOnSet(held, G)
       /\ SumFunction(k) \in Int /\ SumFunction(z) \in Int
  BY SMTT(30), <1>2, <1>10, <1>12, <1>13, ItemsGain
<1>15. Reserved'
  <2>1. source.reserved = SumFunction(k)
    BY <1>3, <1>9 DEF Reserved
  <2>2. PICK n, K, Z : n = SumFunction(held) /\ K = SumFunction(k) /\ Z = SumFunction(z)
    OBVIOUS
  <2>3. DOMAIN held = G
    BY <1>4
  <2>4. n = SumFunctionOnSet(held, G)
    BY <2>2, <2>3 DEF SumFunction
  <2>5. n \in Int
    <3>1. IsFiniteSet(G) /\ \A i \in G : held[i] \in Int
      BY <1>1, <1>13, GrantedIs
    <3>2. QED
      BY <2>4, <3>1, SumInt
  <2>6. source'.reserved = K - n /\ K = Z + n /\ K \in Int /\ Z \in Int
    BY <1>4, <1>14, <2>1, <2>2, <2>4
  <2>7. source'.reserved = Z
    BY ONLY <2>5, <2>6
  <2>8. QED
    BY <1>9, <2>2, <2>7 DEF Reserved
<1>16. QED
  BY <1>7, <1>15 DEF Orderly

LEMMA ReceiveOrderly ==
    ASSUME Core, Orderly, NEW t \in Transfers, NEW read, ReadTyped(t, read),
           status[t] = "DISPATCHED",
           NEW times, NEW r, NEW listed, ReceiveShape(t, read, times, r, listed)
    PROVE  Orderly'
<1>1. Typed /\ Lines /\ Reserved
  BY DEF Core, Orderly
<1>2. PICK st : st = IF \E i \in listed : IsDiscrepancy(read.item[i].dispatched, r[i])
                       THEN "DISCREPANCY_REVIEW" ELSE "RECEIVED"
  OBVIOUS
<1>3. /\ status' = [status EXCEPT ![t] = st] /\ UNCHANGED <<holds, parts, source>>
      /\ item' = [i \in Items |->
                   IF i \in listed
                     THEN [item[i] EXCEPT !.received = r[i].received, !.damaged = r[i].damaged,
                                          !.missing = r[i].missing]
                     ELSE item[i]]
  BY <1>2 DEF ReceiveShape
<1>4. listed \subseteq ItemsOf(t)
  BY ListedIs
<1>5. Touches(t)
  BY <1>3, <1>4 DEF Touches
<1>6. ASSUME NEW i \in ItemsOf(t) PROVE Line(st, item'[i], holds'[i], parts'[i])
  <2>1. Line("DISPATCHED", item[i], holds[i], parts[i]) /\ item[i] \in ItemRecords /\ i \in Items
    BY <1>1, LineNow
  <2>2. item'[i].dispatched = item[i].dispatched /\ item'[i].approved = item[i].approved
    BY <1>3, <2>1 DEF ItemRecords
  <2>3. QED
    BY <1>2, <1>3, <2>1, <2>2 DEF Line, Early, Late, Ended
<1>7. Lines'
  BY <1>1, <1>3, <1>5, <1>6, LinesBy
<1>8. QED
  BY <1>1, <1>3, <1>7, ReservedSame DEF Orderly

-----------------------------------------------------------------------------
\* Every handler's write, from what the transfer still is.
LEMMA WriteOrderly ==
    ASSUME Core, Orderly, NEW op \in DOMAIN Expected, NEW t \in Transfers, NEW available,
           NEW read, read = Read(t), ReadTyped(t, read), Handle(op, t, read, available)
    PROVE  Orderly'
<1>1. read.status = status[t]
  BY ReadIs DEF Core
<1>2. Accepts(op, status[t])
  BY <1>1 DEF Handle
<1>3. CASE op = "submit" /\ Submit(t, read)
  <2>1. status[t] = "DRAFT"
    BY <1>2, <1>3 DEF Accepts, Expected
  <2>2. QED
    BY <1>3, <2>1, SubmitOrderly DEF Core
<1>4. CASE op = "approve" /\ Approve(t, read)
  <2>1. status[t] = "REQUESTED"
    BY <1>2, <1>4 DEF Accepts, Expected
  <2>2. QED
    BY <1>4, <2>1, ApproveOrderly DEF Core
<1>5. CASE op = "startPicking" /\ StartPicking(t, read, available)
  <2>1. status[t] = "APPROVED"
    BY <1>2, <1>5 DEF Accepts, Expected
  <2>2. PICK total : PickShape(t, read, total)
    BY <1>5, PickIs DEF Core
  <2>3. QED
    BY <2>1, <2>2, PickOrderly
<1>6. CASE op = "dispatch" /\ Dispatch(t, read)
  <2>1. status[t] = "READY_FOR_DISPATCH"
    BY <1>2, <1>6 DEF Accepts, Expected
  <2>2. PICK held, spread, chosen : DispatchShape(t, read, held, spread, chosen)
    BY <1>6, DispatchIs DEF Core
  <2>3. QED
    BY <2>1, <2>2, DispatchOrderly
<1>7. CASE op = "receive" /\ Receive(t, read)
  <2>1. status[t] = "DISPATCHED"
    BY <1>2, <1>7 DEF Accepts, Expected
  <2>2. PICK times, r, listed : ReceiveShape(t, read, times, r, listed)
    BY <1>7, ReceiveIs
  <2>3. QED
    BY <2>1, <2>2, ReceiveOrderly
<1>8. QED
  BY <1>3, <1>4, <1>5, <1>6, <1>7 DEF Handle

-----------------------------------------------------------------------------
(***************************************************************************)
(* What is in transit and what has arrived.                                *)
(***************************************************************************)
Travels(i) == IF status[TransferOf[i]] = "DISPATCHED" THEN item[i].dispatched ELSE 0
Lands(i) == IF status[TransferOf[i]] \in Ended
              THEN Credit(item[i].dispatched, parts[i], item[i].received) ELSE 0
Moving == [i \in Items |-> Travels(i)]
Landed == [i \in Items |-> Lands(i)]
InFull == \A i \in Items :
            status[TransferOf[i]] = "RECEIVED" => item[i].received = item[i].dispatched

Arrivals == /\ destination.transit = SumFunction(Moving)
            /\ destination.onHand = SumFunction(Landed)
            /\ InFull

LEMMA ArrivalsTyped ==
    Typed /\ Shapely => /\ Moving \in [Items -> Nat] /\ Landed \in [Items -> Nat]
                        /\ \A i \in Items : Moving[i] = Travels(i) /\ Landed[i] = Lands(i)
<1> SUFFICES ASSUME Typed, Shapely
             PROVE  /\ Moving \in [Items -> Nat] /\ Landed \in [Items -> Nat]
                    /\ \A i \in Items : Moving[i] = Travels(i) /\ Landed[i] = Lands(i)
  OBVIOUS
<1>1. \A i \in Items : Travels(i) \in Nat /\ Lands(i) \in Nat
  <2> TAKE i \in Items
  <2>1. /\ item[i].dispatched \in Nat /\ item[i].received \in Nat /\ parts[i] \in Parts
        /\ parts[i] = <<>> \/ item[i].dispatched > 0
    BY DEF Typed, Shapely, ItemRecords
  <2>2. Credit(item[i].dispatched, parts[i], item[i].received) \in Nat
    BY <2>1, CreditNat
  <2>3. QED
    BY <2>1, <2>2 DEF Travels, Lands
<1>2. QED
  BY <1>1 DEF Moving, Landed

LEMMA ArrivalsThen ==
    (Typed /\ Shapely => /\ Moving \in [Items -> Nat] /\ Landed \in [Items -> Nat]
                         /\ \A i \in Items : Moving[i] = Travels(i) /\ Landed[i] = Lands(i))'
BY ArrivalsTyped, PTL

LEMMA ArrivalsInit == Init => Arrivals
<1> SUFFICES ASSUME Init PROVE Arrivals
  OBVIOUS
<1>1. Moving \in [Items -> {0}] /\ Landed \in [Items -> {0}]
  BY DEF Moving, Landed, Travels, Lands, Init, Ended
<1>2. SumFunction(Moving) = 0 /\ SumFunction(Landed) = 0
  BY <1>1, TotalZero
<1>3. InFull
  BY DEF InFull, Init
<1>4. QED
  BY <1>2, <1>3 DEF Arrivals, Init

LEMMA Elsewhere ==
    ASSUME Typed, NEW t \in Transfers, NEW st, status' = [status EXCEPT ![t] = st],
           Touches(t), NEW i \in Items \ ItemsOf(t)
    PROVE  /\ Travels(i)' = Travels(i) /\ Lands(i)' = Lands(i)
           /\ status'[TransferOf[i]] = status[TransferOf[i]] /\ item'[i] = item[i]
<1>1. /\ status'[TransferOf[i]] = status[TransferOf[i]]
      /\ item'[i] = item[i] /\ parts'[i] = parts[i]
  BY DEF ItemsOf, Typed, Touches
<1>2. QED
  BY <1>1 DEF Travels, Lands

\* Before a dispatch nothing arrives.
LEMMA ArrivalsAside ==
    ASSUME Typed, Arrivals, NEW t \in Transfers, NEW st, status' = [status EXCEPT ![t] = st],
           Touches(t), status[t] \notin Late, st \notin Late, UNCHANGED destination
    PROVE  Arrivals'
<1>1. ASSUME NEW i \in Items
      PROVE  /\ Travels(i)' = Travels(i) /\ Lands(i)' = Lands(i)
             /\ status'[TransferOf[i]] = "RECEIVED" => item'[i].received = item'[i].dispatched
  <2>1. CASE i \in ItemsOf(t)
    <3>1. TransferOf[i] = t /\ status'[t] = st
      BY <2>1 DEF ItemsOf, Typed
    <3>2. QED
      BY <3>1 DEF Travels, Lands, Late, Ended
  <2>2. CASE i \notin ItemsOf(t)
    BY <2>2, Elsewhere DEF Arrivals, InFull
  <2>3. QED
    BY <2>1, <2>2
<1>2. Moving' = Moving /\ Landed' = Landed
  BY <1>1 DEF Moving, Landed
<1>3. InFull'
  BY <1>1 DEF InFull
<1>4. QED
  BY <1>2, <1>3 DEF Arrivals

LEMMA DispatchArrivals ==
    ASSUME Core, Orderly, Arrivals, Core', Orderly',
           NEW t \in Transfers, NEW read, read = Read(t), ReadTyped(t, read),
           status[t] = "READY_FOR_DISPATCH",
           NEW held, NEW spread, NEW chosen, DispatchShape(t, read, held, spread, chosen)
    PROVE  Arrivals'
<1>1. PICK G, a : G = Granted(t, read) /\ a = Approved(read, G)
  OBVIOUS
<1>2. /\ G \subseteq ItemsOf(t) /\ G \subseteq Items
      /\ a \in [G -> Units] /\ \A i \in G : a[i] = read.item[i].approved
  BY <1>1, GrantedIs, ApprovedIs
<1>3. Typed /\ Lines /\ Shapely /\ Typed' /\ Shapely'
  BY DEF Core, Orderly
<1>4. /\ status' = [status EXCEPT ![t] = "DISPATCHED"]
      /\ holds' = [i \in Items |-> IF i \in G
                                     THEN [holds[i] EXCEPT ![chosen[i]].status = "FULFILLED"]
                                     ELSE holds[i]]
      /\ parts' = [i \in Items |-> IF i \in G THEN parts[i] \o spread[i] ELSE parts[i]]
      /\ item' = [i \in Items |-> IF i \in G
                                    THEN [item[i] EXCEPT !.dispatched = read.item[i].approved]
                                    ELSE item[i]]
      /\ destination' = [destination EXCEPT !.transit = @ + SumFunctionOnSet(a, G)]
  BY <1>1 DEF DispatchShape
<1>5. Touches(t)
  BY <1>2, <1>4 DEF Touches
<1>6. PICK k, z : k = Moving /\ z = Moving'
  OBVIOUS
<1>7. /\ k \in [Items -> Nat] /\ z \in [Items -> Nat]
      /\ \A i \in Items : k[i] = Travels(i) /\ z[i] = Travels(i)'
  BY <1>3, <1>6, ArrivalsTyped, ArrivalsThen
<1>8. ASSUME NEW i \in ItemsOf(t)
      PROVE  /\ TransferOf[i] = t /\ i \in Items /\ Travels(i) = 0 /\ Lands(i)' = Lands(i)
             /\ Travels(i)' = IF i \in G THEN a[i] ELSE 0
             /\ status'[t] = "DISPATCHED"
  <2>1. TransferOf[i] = t /\ status'[t] = "DISPATCHED"
    BY <1>3, <1>4 DEF ItemsOf, Typed
  <2>2. /\ read.item[i] = item[i] /\ Line("READY_FOR_DISPATCH", item[i], holds[i], parts[i])
        /\ item[i] \in ItemRecords /\ i \in Items
    BY <1>3, ReadLine
  <2>3. item[i].dispatched = 0
    BY <2>2 DEF Line
  <2>4. item'[i].dispatched = IF i \in G THEN a[i] ELSE 0
    BY <1>2, <1>4, <2>2, <2>3 DEF ItemRecords
  <2>5. QED
    BY <2>1, <2>2, <2>4 DEF Travels, Lands, Ended
<1>9. \A i \in Items : Lands(i)' = Lands(i)
  <2> TAKE i \in Items
  <2>1. CASE i \in ItemsOf(t)
    BY <1>8, <2>1
  <2>2. CASE i \notin ItemsOf(t)
    BY <1>3, <1>4, <1>5, <2>2, Elsewhere
  <2>3. QED
    BY <2>1, <2>2
<1>10. \A i \in Items \ G : z[i] = k[i]
  <2> TAKE i \in Items \ G
  <2>1. CASE i \in ItemsOf(t)
    <3>1. Travels(i) = 0 /\ Travels(i)' = 0
      BY <1>8, <2>1
    <3>2. QED
      BY <1>7, <3>1
  <2>2. CASE i \notin ItemsOf(t)
    <3>1. Travels(i)' = Travels(i)
      BY <1>3, <1>4, <1>5, <2>2, Elsewhere
    <3>2. QED
      BY <1>7, <3>1
  <2>3. QED
    BY <2>1, <2>2
<1>11. \A i \in G : a[i] \in Nat /\ z[i] = k[i] + a[i]
  <2> TAKE i \in G
  <2>1. i \in ItemsOf(t) /\ i \in Items /\ a[i] \in Nat
    BY <1>2 DEF Units
  <2>2. Travels(i) = 0 /\ Travels(i)' = a[i]
    BY <1>8, <2>1
  <2>3. QED
    BY <1>7, <2>1, <2>2
<1>12. SumFunction(z) = SumFunction(k) + SumFunctionOnSet(a, G)
  BY <1>2, <1>7, <1>10, <1>11, ItemsGain
<1>13. destination'.transit = SumFunction(Moving')
  <2>1. destination.transit = SumFunction(k)
    BY <1>6 DEF Arrivals
  <2>2. destination'.transit = destination.transit + SumFunctionOnSet(a, G)
    BY <1>3, <1>4 DEF Typed
  <2>3. QED
    BY ONLY <1>6, <1>12, <2>1, <2>2
<1>14. Landed' = Landed
  BY <1>9 DEF Landed
<1>15. destination'.onHand = destination.onHand
  BY <1>3, <1>4 DEF Typed
<1>16. InFull'
  <2>1. ASSUME NEW i \in Items, status'[TransferOf[i]] = "RECEIVED"
        PROVE  item'[i].received = item'[i].dispatched
    <3>1. i \notin ItemsOf(t)
      BY <1>8, <2>1
    <3>2. QED
      BY <1>3, <1>4, <1>5, <2>1, <3>1, Elsewhere DEF Arrivals, InFull
  <2>2. QED
    BY <2>1 DEF InFull
<1>17. QED
  BY <1>13, <1>14, <1>15, <1>16 DEF Arrivals

LEMMA ReceiveArrivals ==
    ASSUME ListedTimes \subseteq {1}, Core, Orderly, Arrivals, Core',
           NEW t \in Transfers, NEW read, read = Read(t), ReadTyped(t, read),
           status[t] = "DISPATCHED",
           NEW times, NEW r, NEW listed, ReceiveShape(t, read, times, r, listed)
    PROVE  Arrivals'
<1>1. PICK a, b : a = Leaves(read, listed, times) /\ b = Gains(read, listed, times, r)
  OBVIOUS
<1>2. /\ listed \subseteq ItemsOf(t) /\ listed \subseteq Items
      /\ \A i \in listed : a[i] \in Nat /\ b[i] \in Nat
  BY <1>1, ListedIs, ReceiveSums
<1>3. Typed /\ Lines /\ Shapely /\ Typed' /\ Shapely'
  BY DEF Core, Orderly
<1>4. \A i \in ItemsOf(t) : times[i] = 1
  BY DEF ReceiveShape
<1>5. listed = ItemsOf(t)
  <2>1. listed = {i \in ItemsOf(t) : times[i] > 0}
    BY DEF ReceiveShape
  <2>2. QED
    BY ONLY <1>4, <2>1
<1>6. PICK st : st = IF \E i \in listed : IsDiscrepancy(read.item[i].dispatched, r[i])
                       THEN "DISCREPANCY_REVIEW" ELSE "RECEIVED"
  OBVIOUS
<1>7. /\ status' = [status EXCEPT ![t] = st] /\ UNCHANGED <<holds, parts, source>>
      /\ item' = [i \in Items |->
                   IF i \in listed
                     THEN [item[i] EXCEPT !.received = r[i].received, !.damaged = r[i].damaged,
                                          !.missing = r[i].missing]
                     ELSE item[i]]
      /\ destination' = [transit |-> destination.transit - SumFunctionOnSet(a, listed),
                         onHand |-> destination.onHand + SumFunctionOnSet(b, listed)]
  BY <1>1, <1>6 DEF ReceiveShape
<1>8. Touches(t)
  BY <1>2, <1>7 DEF Touches
<1>9. PICK k, z, l, m : k = Moving /\ z = Moving' /\ l = Landed /\ m = Landed'
  OBVIOUS
<1>10. /\ k \in [Items -> Nat] /\ z \in [Items -> Nat]
       /\ l \in [Items -> Nat] /\ m \in [Items -> Nat]
       /\ \A i \in Items : /\ k[i] = Travels(i) /\ z[i] = Travels(i)'
                           /\ l[i] = Lands(i) /\ m[i] = Lands(i)'
  BY <1>3, <1>9, ArrivalsTyped, ArrivalsThen
<1>11. ASSUME NEW i \in ItemsOf(t)
       PROVE  /\ TransferOf[i] = t /\ i \in Items /\ status'[t] = st
              /\ k[i] = z[i] + a[i] /\ m[i] = l[i] + b[i]
              /\ item'[i].received = r[i].received
              /\ item'[i].dispatched = read.item[i].dispatched
              /\ r[i] \in [received: Nat, damaged: Nat, missing: Nat]
              /\ read.item[i].dispatched \in Nat
  <2>1. TransferOf[i] = t /\ status'[t] = st /\ i \in Items
    BY <1>3, <1>7 DEF ItemsOf, Typed
  <2>2. read.item[i] = item[i] /\ read.parts[i] = parts[i] /\ item[i] \in ItemRecords
    BY <1>3, ReadLine
  <2>3. r[i] \in [received: Nat, damaged: Nat, missing: Nat] /\ a[i] \in Nat /\ b[i] \in Nat
    BY <1>2, <1>5, ListedIs
  <2>4. item'[i].received = r[i].received /\ item'[i].dispatched = item[i].dispatched
    BY <1>5, <1>7, <2>1, <2>2 DEF ItemRecords
  <2>5. PICK d, c : d = item[i].dispatched /\ c = Credit(d, parts[i], r[i].received)
    OBVIOUS
  <2>6. a[i] = 1 * d /\ b[i] = 1 * c /\ d \in Nat
    BY <1>1, <1>4, <1>5, <2>2, <2>5 DEF Leaves, Gains, ItemRecords
  <2>7. c \in Nat
    <3>1. parts[i] \in Parts /\ (parts[i] = <<>> \/ d > 0) /\ r[i].received \in Nat
      BY <1>3, <2>1, <2>3, <2>5 DEF Typed, Shapely
    <3>2. QED
      BY <2>5, <2>6, <3>1, CreditNat
  <2>8. /\ Travels(i) = d /\ Travels(i)' = 0 /\ Lands(i) = 0 /\ Lands(i)' = c
    <3>1. status[TransferOf[i]] = "DISPATCHED"
      BY <2>1
    <3>2. status'[TransferOf[i]] \in Ended /\ status'[TransferOf[i]] # "DISPATCHED"
      BY <1>6, <2>1 DEF Ended
    <3>3. Credit(item'[i].dispatched, parts'[i], item'[i].received) = c
      <4>1. parts' = parts /\ item'[i].received = r[i].received /\ item'[i].dispatched = d
        BY <1>7, <2>4, <2>5
      <4>2. QED
        BY <2>5, <4>1
    <3>4. Travels(i) = d /\ Lands(i) = 0
      BY <2>5, <3>1 DEF Travels, Lands, Ended
    <3>5. QED
      BY <3>2, <3>3, <3>4 DEF Travels, Lands
  <2>9. k[i] = d /\ z[i] = 0 /\ l[i] = 0 /\ m[i] = c
    BY <1>10, <2>1, <2>8
  <2>10. k[i] = z[i] + a[i] /\ m[i] = l[i] + b[i]
    BY ONLY <2>6, <2>7, <2>9
  <2>11. QED
    BY <2>1, <2>2, <2>3, <2>4, <2>5, <2>6, <2>10
<1>12. \A i \in Items \ listed : z[i] = k[i] /\ m[i] = l[i]
  <2> TAKE i \in Items \ listed
  <2>1. Travels(i)' = Travels(i) /\ Lands(i)' = Lands(i)
    BY <1>3, <1>5, <1>7, <1>8, Elsewhere
  <2>2. QED
    BY <1>10, <2>1
<1>13. \A i \in listed : a[i] \in Nat /\ k[i] = z[i] + a[i]
  BY <1>2, <1>5, <1>11
<1>14. \A i \in listed : b[i] \in Nat /\ m[i] = l[i] + b[i]
  BY <1>2, <1>5, <1>11
<1>15. /\ SumFunction(k) = SumFunction(z) + SumFunctionOnSet(a, listed)
       /\ SumFunction(k) \in Int /\ SumFunction(z) \in Int
  <2>1. (\A i \in Items \ listed : k[i] = z[i]) /\ listed \subseteq Items
        /\ k \in [Items -> Nat] /\ z \in [Items -> Nat]
    BY <1>2, <1>10, <1>12
  <2>2. SumFunction(k) = SumFunction(z) + SumFunctionOnSet(a, listed)
    BY ONLY <1>13, <2>1, ItemsGain
  <2>3. SumFunction(k) \in Int /\ SumFunction(z) \in Int
    BY <1>10, TotalInt
  <2>4. QED
    BY ONLY <2>2, <2>3
<1>16. SumFunction(m) = SumFunction(l) + SumFunctionOnSet(b, listed)
  BY <1>2, <1>10, <1>12, <1>14, ItemsGain
<1>17. destination'.transit = SumFunction(Moving')
  <2>1. PICK A, K, Z : A = SumFunctionOnSet(a, listed) /\ K = SumFunction(k) /\ Z = SumFunction(z)
    OBVIOUS
  <2>2. A \in Nat
    BY <1>1, <2>1, ReceiveSums
  <2>3. destination.transit = K /\ destination'.transit = destination.transit - A
    BY <1>7, <1>9, <2>1 DEF Arrivals
  <2>4. K = Z + A /\ Z \in Int
    BY <1>15, <2>1
  <2>5. destination'.transit = Z
    BY ONLY <2>2, <2>3, <2>4
  <2>6. QED
    BY <1>9, <2>1, <2>5
<1>18. destination'.onHand = SumFunction(Landed')
  <2>1. destination.onHand = SumFunction(l)
    BY <1>9 DEF Arrivals
  <2>2. destination'.onHand = destination.onHand + SumFunctionOnSet(b, listed)
    BY <1>7
  <2>3. QED
    BY ONLY <1>9, <1>16, <2>1, <2>2
<1>19. InFull'
  <2>1. ASSUME NEW i \in Items, status'[TransferOf[i]] = "RECEIVED"
        PROVE  item'[i].received = item'[i].dispatched
    <3>1. CASE i \in ItemsOf(t)
      <4>1. st = "RECEIVED"
        BY <1>11, <2>1, <3>1
      <4>2. ~IsDiscrepancy(read.item[i].dispatched, r[i])
        BY <1>5, <1>6, <3>1, <4>1
      <4>3. PICK d, v : d = read.item[i].dispatched /\ v = r[i]
        OBVIOUS
      <4>4. d \in Nat /\ v \in [received: Nat, damaged: Nat, missing: Nat]
        BY <1>11, <3>1, <4>3
      <4>5. v.received = d
        BY <4>2, <4>3, <4>4 DEF IsDiscrepancy
      <4>6. QED
        BY <1>11, <3>1, <4>3, <4>5
    <3>2. CASE i \notin ItemsOf(t)
      BY ZenonT(60), <1>3, <1>7, <1>8, <2>1, <3>2, Elsewhere DEF Arrivals, InFull
    <3>3. QED
      BY <3>1, <3>2
  <2>2. QED
    BY <2>1 DEF InFull
<1>20. QED
  BY <1>17, <1>18, <1>19 DEF Arrivals

-----------------------------------------------------------------------------
(***************************************************************************)
(* What the sums over the items make of one item's rounding.               *)
(***************************************************************************)
Reports(i) == IF item[i].dispatched > 0 THEN item[i].received ELSE 0
Batches(i) == IF item[i].dispatched > 0 /\ item[i].received > 0 THEN Len(parts[i]) ELSE 0

LEMMA ItemLands ==
    ASSUME Core, Orderly, InFull, NEW i \in Items
    PROVE  /\ Lands(i) \in Nat /\ Reports(i) \in Nat /\ Batches(i) \in Nat
           /\ Lands(i) + Lands(i) <= (Reports(i) + Reports(i)) + Batches(i)
           /\ Reports(i) + Reports(i) <= (Lands(i) + Lands(i)) + Batches(i)
           /\ status[TransferOf[i]] = "RECEIVED" => Lands(i) = item[i].dispatched
           /\ status[TransferOf[i]] \notin Ended => Lands(i) = 0
<1>1. PICK st, d, r, ps : /\ st = status[TransferOf[i]] /\ d = item[i].dispatched
                          /\ r = item[i].received /\ ps = parts[i]
  OBVIOUS
<1>2. st \in Statuses /\ d \in Nat /\ r \in Nat /\ ps \in Parts /\ (ps = <<>> \/ d > 0)
  BY <1>1 DEF Core, Typed, Shapely, ItemRecords
<1>3. /\ st \notin Late => d = 0
      /\ st \in Late => Total(ps) = d
      /\ st \notin Ended => r = 0
      /\ st = "RECEIVED" => r = d
  BY <1>1, <1>2 DEF Orderly, Lines, Line, InFull, Statuses, Early, Late
<1>4. Len(ps) \in Nat
  BY <1>2, PartsAre
<1>5. /\ Lands(i) = (IF st \in Ended THEN Credit(d, ps, r) ELSE 0)
      /\ Reports(i) = (IF d > 0 THEN r ELSE 0)
      /\ Batches(i) = (IF d > 0 /\ r > 0 THEN Len(ps) ELSE 0)
  BY <1>1 DEF Lands, Reports, Batches
<1>6. PICK L : L = Lands(i)
  OBVIOUS
<1>7. CASE d = 0
  <2>1. Credit(d, ps, r) = 0
    BY <1>2, <1>7, CreditNone
  <2>2. L = 0 /\ Reports(i) = 0 /\ Batches(i) = 0
    BY <1>5, <1>6, <1>7, <2>1
  <2>3. QED
    BY <1>1, <1>6, <1>7, <2>2
<1>8. CASE d # 0
  <2>1. d \in Nat \ {0} /\ st \in Late /\ Total(ps) = d
    BY <1>2, <1>3, <1>8
  <2>2. CASE st \notin Ended
    <3>1. L = 0 /\ Reports(i) = 0 /\ Batches(i) = 0
      BY <1>3, <1>5, <1>6, <2>2
    <3>2. QED
      BY <1>1, <1>6, <2>2, <3>1 DEF Ended
  <2>3. CASE st \in Ended
    <3>1. /\ L = Credit(d, ps, r) /\ Reports(i) = r
      BY <1>2, <1>5, <1>6, <2>1, <2>3
    <3>2. L \in Nat
      BY <1>2, <3>1, CreditNat
    <3>3. /\ 2 * (L - r) <= Len(ps) /\ -Len(ps) <= 2 * (L - r)
      BY <1>2, <2>1, <3>1, CreditClose
    <3>4. (r = 0 => L = 0) /\ (r = d => L = d)
      BY <1>2, <2>1, <3>1, CreditExact
    <3>5. CASE r = 0
      <4>1. L = 0 /\ Reports(i) = 0 /\ Batches(i) = 0
        BY <1>5, <3>1, <3>4, <3>5
      <4>2. QED
        BY <1>1, <1>3, <1>6, <2>3, <3>5, <4>1
    <3>6. CASE r # 0
      <4>1. Batches(i) = Len(ps)
        BY <1>2, <1>5, <2>1, <3>6
      <4>2. L + L <= (r + r) + Len(ps) /\ r + r <= (L + L) + Len(ps)
        BY ONLY <1>2, <1>4, <3>2, <3>3
      <4>3. QED
        BY <1>1, <1>2, <1>3, <1>4, <1>6, <2>3, <3>1, <3>2, <3>4, <4>1, <4>2
    <3>7. QED
      BY <3>5, <3>6
  <2>4. QED
    BY <2>2, <2>3
<1>9. QED
  BY <1>7, <1>8

LEMMA SumTwice ==
    ASSUME NEW f \in [Items -> Nat], NEW e \in [Items -> Nat], NEW b \in [Items -> Nat],
           \A i \in Items : f[i] + f[i] <= (e[i] + e[i]) + b[i]
    PROVE  /\ SumFunction(f) \in Nat /\ SumFunction(e) \in Nat /\ SumFunction(b) \in Nat
           /\ 2 * SumFunction(f) <= 2 * SumFunction(e) + SumFunction(b)
<1> DEFINE f2 == [i \in Items |-> f[i] + f[i]]
           e2 == [i \in Items |-> e[i] + e[i]]
           eb == [i \in Items |-> e2[i] + b[i]]
<1>1. /\ f \in [Items -> Int] /\ e \in [Items -> Int] /\ b \in [Items -> Int]
      /\ f2 \in [Items -> Int] /\ e2 \in [Items -> Int] /\ eb \in [Items -> Int]
      /\ (\A i \in Items : f2[i] = f[i] + f[i]) /\ (\A i \in Items : e2[i] = e[i] + e[i])
      /\ (\A i \in Items : eb[i] = e2[i] + b[i]) /\ \A i \in Items : f2[i] <= eb[i]
  OBVIOUS
<1> HIDE DEF f2, e2, eb
<1>2. SumFunction(f) \in Nat /\ SumFunction(e) \in Nat /\ SumFunction(b) \in Nat
  BY TotalNat
<1>3. SumFunction(f2) = SumFunction(f) + SumFunction(f)
  BY ONLY <1>1, ItemsAssumption, TotalPlus
<1>4. SumFunction(e2) = SumFunction(e) + SumFunction(e)
  BY ONLY <1>1, ItemsAssumption, TotalPlus
<1>5. SumFunction(eb) = SumFunction(e2) + SumFunction(b)
  BY ONLY <1>1, ItemsAssumption, TotalPlus
<1>6. SumFunction(f2) <= SumFunction(eb)
  BY ONLY <1>1, ItemsAssumption, TotalMonotone
<1>7. QED
  BY ONLY <1>2, <1>3, <1>4, <1>5, <1>6

LEMMA DestinationIs ==
    ASSUME Core, Orderly, Arrivals
    PROVE  DestinationTracked
<1>1. Typed /\ Shapely /\ InFull
  BY DEF Core, Arrivals
<1>2. PICK m, l, r, b : /\ m = Moving /\ l = Landed
                        /\ r = [i \in Items |-> Reports(i)] /\ b = [i \in Items |-> Batches(i)]
  OBVIOUS
<1>3. \A i \in Items : /\ l[i] = Lands(i) /\ r[i] = Reports(i) /\ b[i] = Batches(i)
                       /\ m[i] = Travels(i)
                       /\ l[i] \in Nat /\ r[i] \in Nat /\ b[i] \in Nat /\ m[i] \in Nat
  BY <1>1, <1>2, ArrivalsTyped, ItemLands
<1>4. l \in [Items -> Nat] /\ r \in [Items -> Nat] /\ b \in [Items -> Nat] /\ m \in [Items -> Nat]
  BY <1>2, <1>3 DEF Moving, Landed
<1>5. \A i \in Items : /\ l[i] + l[i] <= (r[i] + r[i]) + b[i]
                       /\ r[i] + r[i] <= (l[i] + l[i]) + b[i]
  BY <1>1, <1>3, ItemLands
<1>6. PICK shippedItems, some :
        /\ shippedItems = {i \in Items : item[i].dispatched > 0}
        /\ some = {i \in shippedItems : item[i].received > 0}
  OBVIOUS
<1>7. PICK rep, len, dis :
        /\ rep = [i \in Items |-> item[i].received] /\ len = [i \in Items |-> Len(parts[i])]
        /\ dis = [i \in Items |-> item[i].dispatched]
  OBVIOUS
<1>8. SumFunctionOnSet(rep, shippedItems) = SumFunction(r)
  <2>1. shippedItems \subseteq Items /\ r \in [Items -> Int]
    BY <1>4, <1>6
  <2>2. (\A i \in shippedItems : r[i] = rep[i]) /\ \A i \in Items \ shippedItems : r[i] = 0
    BY <1>3, <1>6, <1>7 DEF Reports
  <2>3. QED
    BY ONLY <2>1, <2>2, ItemsAssumption, SumWithin
<1>9. SumFunctionOnSet(len, some) = SumFunction(b)
  <2>1. some \subseteq Items /\ b \in [Items -> Int]
    BY <1>4, <1>6
  <2>2. (\A i \in some : b[i] = len[i]) /\ \A i \in Items \ some : b[i] = 0
    BY <1>3, <1>6, <1>7 DEF Batches
  <2>3. QED
    BY ONLY <2>1, <2>2, ItemsAssumption, SumWithin
<1>10. destination.transit = Shipped(InStatus("DISPATCHED"))
  <2>1. PICK R : R = InStatus("DISPATCHED")
    OBVIOUS
  <2>2. R \subseteq Items /\ m \in [Items -> Int]
    BY <1>4, <2>1 DEF InStatus
  <2>3. (\A i \in R : m[i] = dis[i]) /\ \A i \in Items \ R : m[i] = 0
    BY <1>3, <1>7, <2>1 DEF Travels, InStatus
  <2>4. SumFunctionOnSet(dis, R) = SumFunction(m)
    BY ONLY <2>2, <2>3, ItemsAssumption, SumWithin
  <2>5. QED
    BY <1>2, <1>7, <2>1, <2>4 DEF Arrivals, Shipped
<1>11. PICK L, R, B : L = SumFunction(l) /\ R = SumFunction(r) /\ B = SumFunction(b)
  OBVIOUS
<1>12. /\ L \in Nat /\ R \in Nat /\ B \in Nat
       /\ 2 * L <= 2 * R + B /\ 2 * R <= 2 * L + B
  <2>1. L \in Nat /\ R \in Nat /\ B \in Nat /\ 2 * L <= 2 * R + B
    <3>1. \A i \in Items : l[i] + l[i] <= (r[i] + r[i]) + b[i]
      BY <1>5
    <3>2. QED
      BY ONLY <1>4, <1>11, <3>1, SumTwice
  <2>2. 2 * R <= 2 * L + B
    <3>1. \A i \in Items : r[i] + r[i] <= (l[i] + l[i]) + b[i]
      BY <1>5
    <3>2. QED
      BY ONLY <1>4, <1>11, <3>1, SumTwice
  <2>3. QED
    BY <2>1, <2>2
<1>13. destination.onHand = L
  BY <1>2, <1>11 DEF Arrivals
<1>14. 2 * (L - R) \in (-B)..B
  BY ONLY <1>12
<1>15. ASSUME InStatus("DISCREPANCY_REVIEW") = {}
       PROVE  destination.onHand = Shipped(InStatus("RECEIVED"))
  <2>1. PICK S : S = InStatus("RECEIVED")
    OBVIOUS
  <2>2. S \subseteq Items /\ l \in [Items -> Int]
    BY <1>4, <2>1 DEF InStatus
  <2>3. \A i \in S : l[i] = dis[i]
    BY <1>1, <1>3, <1>7, <2>1, ItemLands DEF InStatus
  <2>4. \A i \in Items \ S : l[i] = 0
    <3> TAKE i \in Items \ S
    <3>1. status[TransferOf[i]] \notin Ended
      BY <1>15, <2>1 DEF InStatus, Ended
    <3>2. QED
      BY <1>1, <1>3, <3>1, ItemLands
  <2>5. SumFunctionOnSet(dis, S) = SumFunction(l)
    BY ONLY <2>2, <2>3, <2>4, ItemsAssumption, SumWithin
  <2>6. QED
    BY <1>7, <1>11, <1>13, <2>1, <2>5 DEF Shipped
<1>16. 2 * (destination.onHand - SumFunctionOnSet(rep, shippedItems))
         \in (-SumFunctionOnSet(len, some))..SumFunctionOnSet(len, some)
  BY <1>8, <1>9, <1>11, <1>13, <1>14
<1>17. QED
  BY <1>6, <1>7, <1>10, <1>15, <1>16 DEF DestinationTracked

-----------------------------------------------------------------------------
(***************************************************************************)
(* The remaining theorems.                                                 *)
(***************************************************************************)
LEMMA CreateArrivals ==
    ASSUME Core, Arrivals, NEW t \in Transfers, Create(t)
    PROVE  Arrivals'
<1>1. /\ status[t] \notin Late /\ status' = [status EXCEPT ![t] = "DRAFT"]
      /\ Touches(t) /\ UNCHANGED destination
  BY DEF Create, Late, Touches, stock
<1>2. "DRAFT" \notin Late
  BY DEF Late
<1>3. QED
  BY <1>1, <1>2, ArrivalsAside DEF Core

LEMMA WriteArrivals ==
    ASSUME ListedTimes \subseteq {1}, Core, Orderly, Arrivals, Core', Orderly',
           NEW op \in DOMAIN Expected, NEW t \in Transfers, NEW available,
           NEW read, read = Read(t), ReadTyped(t, read), Handle(op, t, read, available)
    PROVE  Arrivals'
<1>1. read.status = status[t]
  BY ReadIs DEF Core
<1>2. Accepts(op, status[t])
  BY <1>1 DEF Handle
<1>3. Typed
  BY DEF Core
<1>4. CASE op = "submit" /\ Submit(t, read)
  <2>1. status[t] \notin Late /\ "REQUESTED" \notin Late
    BY <1>2, <1>4 DEF Accepts, Expected, Late
  <2>2. status' = [status EXCEPT ![t] = "REQUESTED"] /\ Touches(t) /\ UNCHANGED destination
    BY <1>4 DEF Submit, Touches, stock
  <2>3. QED
    BY <1>3, <2>1, <2>2, ArrivalsAside
<1>5. CASE op = "approve" /\ Approve(t, read)
  <2>1. status[t] \notin Late /\ "APPROVED" \notin Late
    BY <1>2, <1>5 DEF Accepts, Expected, Late
  <2>2. status' = [status EXCEPT ![t] = "APPROVED"] /\ Touches(t) /\ UNCHANGED destination
    BY <1>5 DEF Approve, Touches, stock
  <2>3. QED
    BY <1>3, <2>1, <2>2, ArrivalsAside
<1>6. CASE op = "startPicking" /\ StartPicking(t, read, available)
  <2>1. status[t] \notin Late /\ "READY_FOR_DISPATCH" \notin Late
    BY <1>2, <1>6 DEF Accepts, Expected, Late
  <2>2. PICK total : PickShape(t, read, total)
    BY <1>3, <1>6, PickIs
  <2>3. /\ status' = [status EXCEPT ![t] = "READY_FOR_DISPATCH"] /\ Touches(t)
        /\ UNCHANGED destination
    BY <2>2, GrantedIs DEF PickShape, Touches
  <2>4. QED
    BY <1>3, <2>1, <2>3, ArrivalsAside
<1>7. CASE op = "dispatch" /\ Dispatch(t, read)
  <2>1. status[t] = "READY_FOR_DISPATCH"
    BY <1>2, <1>7 DEF Accepts, Expected
  <2>2. PICK held, spread, chosen : DispatchShape(t, read, held, spread, chosen)
    BY <1>3, <1>7, DispatchIs
  <2>3. QED
    BY <2>1, <2>2, DispatchArrivals
<1>8. CASE op = "receive" /\ Receive(t, read)
  <2>1. status[t] = "DISPATCHED"
    BY <1>2, <1>8 DEF Accepts, Expected
  <2>2. PICK times, r, listed : ReceiveShape(t, read, times, r, listed)
    BY <1>8, ReceiveIs
  <2>3. QED
    BY <2>1, <2>2, ReceiveArrivals
<1>9. QED
  BY <1>4, <1>5, <1>6, <1>7, <1>8 DEF Handle

-----------------------------------------------------------------------------
Ordered == /\ Orderly
           /\ ListedTimes \subseteq {1} => Arrivals

InOrder == Inv /\ (~overtaken => Ordered)

LEMMA OrderedSame ==
    ASSUME Ordered, UNCHANGED <<records, stock>>
    PROVE  Ordered'
<1>1. UNCHANGED <<status, item, holds, parts, source, destination>>
  BY DEF records, stock
<1>2. Lines'
  BY <1>1 DEF Ordered, Orderly, Lines
<1>3. Reserved'
  BY <1>1, ReservedSame DEF Ordered, Orderly
<1>4. Moving' = Moving /\ Landed' = Landed /\ InFull' = InFull
  BY <1>1 DEF Moving, Landed, Travels, Lands, InFull
<1>5. QED
  BY <1>1, <1>2, <1>3, <1>4 DEF Ordered, Orderly, Arrivals

LEMMA WriteOrdered ==
    ASSUME Core, Ordered, NEW op \in DOMAIN Expected, NEW t \in Transfers, NEW available,
           NEW read, read = Read(t), ReadTyped(t, read), Handle(op, t, read, available)
    PROVE  Ordered'
<1>1. Orderly
  BY DEF Ordered
<1>2. Core' /\ Orderly'
  BY <1>1, WriteOK, WriteOrderly
<1>3. ASSUME ListedTimes \subseteq {1} PROVE Arrivals'
  BY <1>1, <1>2, <1>3, WriteArrivals DEF Ordered
<1>4. QED
  BY <1>2, <1>3 DEF Ordered

LEMMA OrderInit == Init => InOrder
BY InitOK, LinesInit, ArrivalsInit DEF InOrder, Ordered

LEMMA OrderAlone ==
    ASSUME InOrder, Alone, ~overtaken
    PROVE  Ordered'
<1>1. Core /\ Ordered
  BY DEF InOrder, Inv
<1>2. PICK t \in Transfers :
        Create(t) \/ \E op \in DOMAIN Expected : Handle(op, t, Read(t), source.available)
  BY DEF Alone
<1>3. CASE Create(t)
  <2>1. Orderly'
    BY <1>1, <1>3, CreateOrderly DEF Ordered, Core
  <2>2. ASSUME ListedTimes \subseteq {1} PROVE Arrivals'
    BY <1>1, <1>3, <2>2, CreateArrivals DEF Ordered
  <2>3. QED
    BY <2>1, <2>2 DEF Ordered
<1>4. CASE \E op \in DOMAIN Expected : Handle(op, t, Read(t), source.available)
  <2>1. PICK op \in DOMAIN Expected : Handle(op, t, Read(t), source.available)
    BY <1>4
  <2>2. ReadTyped(t, Read(t))
    BY <1>1, ReadOK DEF Core
  <2>3. QED
    BY <1>1, <2>1, <2>2, WriteOrdered
<1>5. QED
  BY <1>2, <1>3, <1>4

LEMMA OrderResume ==
    ASSUME InOrder, Resume, ~overtaken'
    PROVE  Ordered'
<1>1. Core /\ SlowTyped /\ (~overtaken => Ordered)
  BY DEF InOrder, Inv
<1>2. CASE UNCHANGED <<records, stock, overtaken>>
  BY <1>1, <1>2, OrderedSame
<1>3. CASE /\ Handle(slow.op, slow.transfer, slow.read, slow.available)
           /\ overtaken' = (overtaken \/ slow.read # Read(slow.transfer))
  <2>1. PICK op, t, read : op = slow.op /\ t = slow.transfer /\ read = slow.read
    OBVIOUS
  <2>2. slow # NoCall
    BY DEF Resume
  <2>3. op \in DOMAIN Expected /\ t \in Transfers /\ ReadTyped(t, read)
    BY <1>1, <2>1, <2>2 DEF SlowTyped
  <2>4. ~overtaken /\ read = Read(t)
    BY <1>3, <2>1
  <2>5. Handle(op, t, read, slow.available)
    BY <1>3, <2>1
  <2>6. QED
    BY <1>1, <2>3, <2>4, <2>5, WriteOrdered
<1>4. QED
  BY <1>2, <1>3 DEF Resume

LEMMA OrderNext == InOrder /\ [Next]_vars => InOrder'
<1> SUFFICES ASSUME InOrder, [Next]_vars PROVE InOrder'
  OBVIOUS
<1>1. Inv'
  BY NextOK DEF InOrder
<1>2. ASSUME ~overtaken' PROVE Ordered'
  <2>1. CASE Alone
    BY <1>2, <2>1, OrderAlone DEF Alone
  <2>2. CASE Pause
    BY <1>2, <2>2, OrderedSame DEF InOrder, Pause
  <2>3. CASE Resume
    BY <1>2, <2>3, OrderResume
  <2>4. CASE UNCHANGED vars
    BY <1>2, <2>4, OrderedSame DEF InOrder, vars
  <2>5. QED
    BY <2>1, <2>2, <2>3, <2>4 DEF Next
<1>3. QED
  BY <1>1, <1>2 DEF InOrder

LEMMA OrderHolds == Spec => []InOrder
<1>1. Init => InOrder
  BY OrderInit
<1>2. InOrder /\ [Next]_vars => InOrder'
  BY OrderNext
<1>3. QED
  BY <1>1, <1>2, PTL DEF Spec

\* While no call has written a transfer that had changed since it was read, an
\* item holds what was approved from picking to dispatch and nothing else, the
\* source reserves what the items hold, and the batches of an item add up to
\* what was dispatched (approve, startPicking, dispatch).
THEOREM StockIsHeld == Spec => []HeldUntilDispatch
<1>1. InOrder => HeldUntilDispatch
  <2> SUFFICES ASSUME InOrder, ~overtaken
               PROVE  /\ \A i \in Items :
                          /\ Held(i) = IF i \in InStatus("READY_FOR_DISPATCH")
                                         THEN item[i].approved ELSE 0
                          /\ Total(parts[i]) = item[i].dispatched
                      /\ source.reserved = SumFunction([i \in Items |-> Held(i)])
    BY DEF HeldUntilDispatch
  <2>1. Typed /\ Lines /\ Reserved
    BY DEF InOrder, Inv, Core, Ordered, Orderly
  <2>2. ASSUME NEW i \in Items
        PROVE  /\ Held(i) = IF i \in InStatus("READY_FOR_DISPATCH")
                              THEN item[i].approved ELSE 0
               /\ Total(parts[i]) = item[i].dispatched
    <3>1. Held(i) = Waiting(i)
      BY <2>1, KeptIs
    <3>2. Waiting(i) = IF i \in InStatus("READY_FOR_DISPATCH") THEN item[i].approved ELSE 0
      BY DEF Waiting, InStatus
    <3>3. /\ Line(status[TransferOf[i]], item[i], holds[i], parts[i])
          /\ status[TransferOf[i]] \in Statuses
      BY <2>1 DEF Lines, Typed
    <3>4. Total(parts[i]) = item[i].dispatched
      <4>1. CASE status[TransferOf[i]] \in Late
        BY <3>3, <4>1 DEF Line
      <4>2. CASE status[TransferOf[i]] \notin Late
        <5>1. parts[i] = <<>> /\ item[i].dispatched = 0
          BY <3>3, <4>2 DEF Line, Statuses, Early, Late
        <5>2. QED
          BY <5>1, EmptyParts
      <4>3. QED
        BY <4>1, <4>2
    <3>5. QED
      BY <3>1, <3>2, <3>4
  <2>3. QED
    BY <2>1, <2>2 DEF Reserved, Kept
<1>2. QED
  BY <1>1, OrderHolds, PTL

\* For clients that list each item once in a receipt, and while no call has
\* written a transfer that had changed since it was read: the destination
\* shows in transit what its DISPATCHED transfers shipped, what it was credited
\* differs from what the receipts report by at most half a unit for each batch,
\* and by nothing while no receipt reported a discrepancy (dispatch, receive).
\* A receipt may list an item more than once: it is then credited each time.
THEOREM DestinationIsTracked ==
    ASSUME ListedTimes \subseteq {1}
    PROVE  Spec => []DestinationTracked
<1>1. InOrder => DestinationTracked
  <2>1. ASSUME InOrder, ~overtaken PROVE DestinationTracked
    BY <2>1, DestinationIs DEF InOrder, Inv, Ordered
  <2>2. ASSUME overtaken PROVE DestinationTracked
    BY <2>2 DEF DestinationTracked
  <2>3. QED
    BY <2>1, <2>2
<1>2. QED
  BY <1>1, OrderHolds, PTL

-----------------------------------------------------------------------------
(***************************************************************************)
(* ImportShipment: rounding.                                               *)
(***************************************************************************)
LEMMA TimesPositive ==
    ASSUME NEW a \in Nat \ {0}, NEW b \in Nat \ {0}
    PROVE  a * b \in Nat \ {0}
<1>1. a * b \in Int
  BY TimesInt
<1>2. a >= 1 /\ b >= 1
  OBVIOUS
<1>3. a * b >= b
  BY <1>2
<1>4. QED
  BY ONLY <1>1, <1>2, <1>3

\* Division by a positive number.
LEMMA Quotient ==
    ASSUME NEW s \in Int, NEW d \in Nat \ {0}
    PROVE  s \div d \in Int /\ d * (s \div d) <= s /\ s < d * (s \div d) + d
OBVIOUS

\* Math.round to whole cents misses by half a cent at most.
LEMMA Rounded ==
    ASSUME NEW p \in Int, NEW w \in Nat \ {0}
    PROVE  \E k \in Int : /\ Cents(p, w) = 10 * k
                          /\ 10 * k * w - p <= 5 * w /\ p - 10 * k * w <= 5 * w
                          /\ p >= 0 => k >= 0
<1>1. PICK s, d : s = 2 * p + 10 * w /\ d = 20 * w
  OBVIOUS
<1>2. s \in Int /\ d \in Nat \ {0}
  BY <1>1
<1>3. PICK k \in Int : k = s \div d /\ d * k <= s /\ s < d * k + d
  BY <1>2, Quotient
<1>4. Cents(p, w) = 10 * k
  BY <1>1, <1>3 DEF Cents
<1>5. PICK m \in Int : m = w * k
  BY TimesInt
<1>6. d * k = 20 * m
  BY ONLY <1>1, <1>3, <1>5, w \in Nat \ {0}
<1>7. 10 * k * w = 10 * m
  BY ONLY <1>3, <1>5, w \in Nat \ {0}
<1>8. 10 * m - p <= 5 * w /\ p - 10 * m <= 5 * w
  BY ONLY <1>1, <1>3, <1>5, <1>6, p \in Int, w \in Nat \ {0}
<1>9. p >= 0 => k >= 0
  <2> SUFFICES ASSUME p >= 0, k < 0 PROVE FALSE
    BY <1>3
  <2>1. w * k <= -w
    <3>1. w * (-k) >= w
      <4>1. -k >= 1 /\ -k \in Int
        BY <1>3
      <4>2. QED
        BY ONLY <4>1, w \in Nat \ {0}
    <3>2. w * (-k) = -(w * k)
      BY <1>3
    <3>3. QED
      BY ONLY <1>5, <3>1, <3>2, w \in Nat \ {0}
  <2>2. QED
    BY ONLY <1>1, <1>3, <1>5, <1>6, <2>1, p \in Int, p >= 0, w \in Nat \ {0}
<1>10. QED
  BY <1>3, <1>4, <1>7, <1>8, <1>9

\* Whole cents of a sum of whole cents and an amount.
LEMMA RoundedWhole ==
    ASSUME NEW a \in Int, NEW k \in Int
    PROVE  /\ Cents(a, 1) \in Int
           /\ Cents(a + 10 * k, 1) = Cents(a, 1) + 10 * k
           /\ Cents(10 * k, 1) = 10 * k
           /\ Cents(a, 1) - a <= 5 /\ a - Cents(a, 1) <= 5
           /\ a >= 0 => Cents(a, 1) >= 0
BY DEF Cents

-----------------------------------------------------------------------------
(***************************************************************************)
(* ImportShipment: the shares of a cost.                                   *)
(***************************************************************************)
CostRecords == [amount: Nat, method: CostMethods]

\* No two lines are of one variant.
OneLineEach == Cardinality(ShippedVariants) = Len(shipmentLines)
LineOf(v) == CHOOSE l \in DOMAIN shipmentLines : shipmentLines[l].variant = v

LEMMA LinesTyped ==
    ASSUME shipmentLines \in OrderLines
    PROVE  /\ Len(shipmentLines) \in Nat \ {0}
           /\ DOMAIN shipmentLines = 1..Len(shipmentLines)
           /\ DOMAIN shipmentLines \subseteq Int /\ 1 \in DOMAIN shipmentLines
           /\ IsFiniteSet(DOMAIN shipmentLines)
           /\ Cardinality(DOMAIN shipmentLines) = Len(shipmentLines)
           /\ \A l \in DOMAIN shipmentLines :
                shipmentLines[l].qty \in Nat \ {0} /\ shipmentLines[l].unitCost \in Nat \ {0}
<1>1. /\ Len(shipmentLines) \in Nat \ {0}
      /\ DOMAIN shipmentLines = 1..Len(shipmentLines)
      /\ \A l \in DOMAIN shipmentLines :
           shipmentLines[l].qty \in Nat \ {0} /\ shipmentLines[l].unitCost \in Nat \ {0}
  BY PositiveAmounts
<1>2. PICK n \in Nat \ {0} : n = Len(shipmentLines)
  BY <1>1
<1>3. IsFiniteSet(1..n) /\ Cardinality(1..n) = n
  <2>1. n \in Int /\ 1 \in Int /\ ~(1 > n)
    OBVIOUS
  <2>2. IsFiniteSet(1..n) /\ Cardinality(1..n) = n - 1 + 1
    BY ONLY <2>1, FS_Interval
  <2>3. QED
    BY ONLY <2>1, <2>2
<1>4. 1..n \subseteq Int /\ 1 \in 1..n
  OBVIOUS
<1>5. QED
  BY ONLY <1>1, <1>2, <1>3, <1>4

LEMMA VariantsFinite ==
    ASSUME shipmentLines \in OrderLines
    PROVE  /\ IsFiniteSet(ShippedVariants)
           /\ \A v \in ShippedVariants :
                LineOf(v) \in DOMAIN shipmentLines /\ shipmentLines[LineOf(v)].variant = v
           /\ \A l \in DOMAIN shipmentLines : shipmentLines[l].variant \in ShippedVariants
           /\ OneLineEach =>
                \A l, m \in DOMAIN shipmentLines :
                  shipmentLines[l].variant = shipmentLines[m].variant => l = m
<1> DEFINE D == DOMAIN shipmentLines
           f == [l \in D |-> shipmentLines[l].variant]
<1>1. f \in Surjection(D, ShippedVariants)
  <2>1. f \in [D -> ShippedVariants] /\ \A v \in ShippedVariants : \E l \in D : f[l] = v
    BY DEF ShippedVariants
  <2> HIDE DEF D, f
  <2>2. QED
    BY ONLY <2>1 DEF Surjection
<1>2. IsFiniteSet(D) /\ Cardinality(D) = Len(shipmentLines)
  BY LinesTyped
<1>3. IsFiniteSet(ShippedVariants)
      /\ (Cardinality(ShippedVariants) = Cardinality(D) <=> f \in Injection(D, ShippedVariants))
  <2> HIDE DEF D, f
  <2>1. QED
    BY <1>1, <1>2, FS_Surjection
<1>4. ASSUME OneLineEach, NEW l \in D, NEW m \in D,
             shipmentLines[l].variant = shipmentLines[m].variant
      PROVE  l = m
  <2>1. f \in Injection(D, ShippedVariants)
    BY <1>2, <1>3, <1>4 DEF OneLineEach
  <2>2. \A a, b \in D : f[a] = f[b] => a = b
    <3> HIDE DEF D, f
    <3>1. QED
      BY ONLY <2>1 DEF Injection, IsInjective
  <2>3. QED
    BY <1>4, <2>2
<1>5. QED
  BY <1>3, <1>4 DEF ShippedVariants, LineOf

LEMMA MeasureTyped ==
    ASSUME shipmentLines \in OrderLines, NEW method
    PROVE  /\ \A l \in DOMAIN shipmentLines : Measure(l, method) \in Nat \ {0}
           /\ Whole(method) \in Nat \ {0}
<1>1. \A l \in DOMAIN shipmentLines : Measure(l, method) \in Nat \ {0}
  <2>1. TAKE l \in DOMAIN shipmentLines
  <2>2. PICK a \in Nat \ {0}, b \in Nat \ {0} : a = shipmentLines[l].qty /\ b = shipmentLines[l].unitCost
    BY LinesTyped
  <2>3. a * b \in Nat \ {0}
    BY TimesPositive
  <2>4. QED
    BY <2>2, <2>3 DEF Measure
<1>2. PICK D, g : D = DOMAIN shipmentLines /\ g = [l \in D |-> Measure(l, method)]
  OBVIOUS
<1>3. IsFiniteSet(D) /\ 1 \in D
  BY <1>2, LinesTyped
<1>4. g \in [D -> Nat] /\ g[1] \in Nat \ {0}
  BY ONLY <1>1, <1>2, <1>3
<1>5. SumFunction(g) \in Nat /\ g[1] <= SumFunction(g)
  BY ONLY <1>3, <1>4, TotalNat
<1>6. SumFunction(g) \in Nat \ {0}
  BY ONLY <1>4, <1>5
<1>7. QED
  BY <1>1, <1>2, <1>6 DEF Whole

\* A share is in whole cents, and misses by half a cent at most.
LEMMA ShareTyped ==
    ASSUME shipmentLines \in OrderLines, NEW c \in CostRecords, NEW l \in DOMAIN shipmentLines
    PROVE  \E k \in Nat : /\ CostShare(c, l) = 10 * k
                          /\ 10 * k * Whole(c.method) - c.amount * Measure(l, c.method)
                               <= 5 * Whole(c.method)
                          /\ c.amount * Measure(l, c.method) - 10 * k * Whole(c.method)
                               <= 5 * Whole(c.method)
<1>1. PICK a, m, w : /\ a = c.amount /\ m = Measure(l, c.method) /\ w = Whole(c.method)
  OBVIOUS
<1>2. a \in Nat /\ m \in Nat \ {0} /\ w \in Nat \ {0}
  BY <1>1, MeasureTyped DEF CostRecords
<1>3. PICK p : p = a * m
  OBVIOUS
<1>4. p \in Nat
  <2>1. p \in Int
    BY <1>2, <1>3, TimesInt
  <2>2. p >= 0
    BY ONLY <1>2, <1>3
  <2>3. QED
    BY ONLY <2>1, <2>2
<1>5. PICK k \in Int : /\ Cents(p, w) = 10 * k
                       /\ 10 * k * w - p <= 5 * w /\ p - 10 * k * w <= 5 * w
                       /\ p >= 0 => k >= 0
  <2>1. p \in Int /\ w \in Nat \ {0}
    BY ONLY <1>2, <1>4
  <2>2. QED
    BY ONLY <2>1, Rounded
<1>6. k \in Nat
  BY ONLY <1>4, <1>5, k \in Int
<1>7. CostShare(c, l) = Cents(p, w)
  BY <1>1, <1>3 DEF CostShare
<1>8. QED
  BY <1>1, <1>3, <1>5, <1>6, <1>7

LEMMA MaxIn ==
    ASSUME NEW S, IsFiniteSet(S), S \subseteq Int, S # {}
    PROVE  Max(S) \in S
<1>1. \E m \in S : \A x \in S : x <= m
  BY MaxSet
<1>2. \E m \in S : \A x \in S : m >= x
  <2>1. PICK m \in S : \A x \in S : x <= m
    BY <1>1
  <2>2. \A x \in S : m >= x
    BY <2>1
  <2>3. QED
    BY <2>2
<1>3. QED
  BY <1>2 DEF Max

\* Every variant has its share, that of a line of it.
LEMMA SharesTyped ==
    ASSUME shipmentLines \in OrderLines, NEW c \in CostRecords
    PROVE  /\ CostShares(c) \in [ShippedVariants -> Nat]
           /\ OneLineEach =>
                \A l \in DOMAIN shipmentLines :
                  CostShares(c)[shipmentLines[l].variant] = CostShare(c, l)
<1>1. ASSUME NEW v \in ShippedVariants
      PROVE  LET S == {l \in DOMAIN shipmentLines : shipmentLines[l].variant = v}
             IN  Max(S) \in S
  <2> DEFINE S == {l \in DOMAIN shipmentLines : shipmentLines[l].variant = v}
  <2>1. S # {} /\ S \subseteq Int
    BY LinesTyped DEF ShippedVariants
  <2>2. IsFiniteSet(S)
    BY LinesTyped, FS_Subset
  <2> HIDE DEF S
  <2>3. Max(S) \in S
    BY <2>1, <2>2, MaxIn
  <2>4. QED
    BY <2>3 DEF S
<1>2. \A l \in DOMAIN shipmentLines : CostShare(c, l) \in Nat
  <2>1. TAKE l \in DOMAIN shipmentLines
  <2>2. PICK k \in Nat : CostShare(c, l) = 10 * k
    BY ShareTyped
  <2>3. QED
    BY <2>2
<1>3. \A v \in ShippedVariants :
        \E l \in DOMAIN shipmentLines : /\ shipmentLines[l].variant = v
                                        /\ CostShares(c)[v] = CostShare(c, l)
  <2>1. TAKE v \in ShippedVariants
  <2>2. PICK l : l = Max({m \in DOMAIN shipmentLines : shipmentLines[m].variant = v})
    OBVIOUS
  <2>3. l \in DOMAIN shipmentLines /\ shipmentLines[l].variant = v
    BY <1>1, <2>2
  <2>4. CostShares(c)[v] = CostShare(c, l)
    BY <2>2 DEF CostShares
  <2>5. QED
    BY <2>3, <2>4
<1>4. CostShares(c) \in [ShippedVariants -> Nat]
  <2>1. \A v \in ShippedVariants : CostShares(c)[v] \in Nat
    BY <1>2, <1>3
  <2>2. QED
    BY <2>1 DEF CostShares
<1>5. ASSUME OneLineEach, NEW l \in DOMAIN shipmentLines
      PROVE  CostShares(c)[shipmentLines[l].variant] = CostShare(c, l)
  <2>1. shipmentLines[l].variant \in ShippedVariants
    BY VariantsFinite
  <2>2. PICK m \in DOMAIN shipmentLines :
          /\ shipmentLines[m].variant = shipmentLines[l].variant
          /\ CostShares(c)[shipmentLines[l].variant] = CostShare(c, m)
    BY <1>3, <2>1
  <2>3. m = l
    BY <1>5, <2>2, VariantsFinite
  <2>4. QED
    BY <2>2, <2>3
<1>6. QED
  BY <1>4, <1>5

\* There is a largest share.
LEMMA LargestIn ==
    ASSUME shipmentLines \in OrderLines, OneLineEach,
           NEW shares \in [ShippedVariants -> Nat]
    PROVE  Largest(shares) \in ShippedVariants
<1> DEFINE V == ShippedVariants
           first(v) == Min({l \in DOMAIN shipmentLines : shipmentLines[l].variant = v})
           Big == {shares[v] : v \in V}
<1>1. IsFiniteSet(V) /\ V # {}
  BY VariantsFinite, LinesTyped DEF ShippedVariants
<1>2. \A v \in V : first(v) = LineOf(v) /\ first(v) \in Int
  <2>1. TAKE v \in V
  <2>2. PICK l : l = LineOf(v)
    OBVIOUS
  <2>3. l \in DOMAIN shipmentLines /\ shipmentLines[l].variant = v /\ l \in Int
    BY <2>2, VariantsFinite, LinesTyped
  <2>4. {m \in DOMAIN shipmentLines : shipmentLines[m].variant = v} = {l}
    BY <2>3, VariantsFinite
  <2>5. Min({l}) = l
    BY ONLY <2>3 DEF Min
  <2>6. QED
    BY <2>2, <2>3, <2>4, <2>5
<1>3. PICK m \in Big : \A x \in Big : x <= m
  <2>1. IsFiniteSet(Big)
    <3>1. PICK f : f = [v \in V |-> shares[v]]
      OBVIOUS
    <3>2. f \in Surjection(V, Big)
      BY <3>1 DEF Surjection
    <3> HIDE DEF V, Big
    <3>3. QED
      BY ONLY <1>1, <3>2, FS_Surjection
  <2>2. Big # {} /\ Big \subseteq Int
    BY <1>1
  <2> HIDE DEF Big
  <2>3. QED
    BY <2>1, <2>2, MaxSet
<1>4. PICK n \in {-LineOf(v) : v \in {u \in V : shares[u] = m}} :
        \A x \in {-LineOf(v) : v \in {u \in V : shares[u] = m}} : x <= n
  <2> DEFINE U == {u \in V : shares[u] = m}
             N == {-LineOf(v) : v \in U}
  <2>1. IsFiniteSet(U)
    BY <1>1, FS_Subset
  <2>2. IsFiniteSet(N)
    <3>1. PICK f : f = [v \in U |-> -LineOf(v)]
      OBVIOUS
    <3>2. f \in Surjection(U, N)
      BY <3>1 DEF Surjection
    <3> HIDE DEF U, N
    <3>3. QED
      BY ONLY <2>1, <3>2, FS_Surjection
  <2>3. N # {}
    BY <1>3
  <2>4. N \subseteq Int
    <3>1. \A v \in U : LineOf(v) \in Int
      BY <1>2
    <3>2. QED
      BY <3>1
  <2>5. \E n \in N : \A x \in N : x <= n
    <3> HIDE DEF N
    <3>1. QED
      BY <2>2, <2>3, <2>4, MaxSet
  <2>6. QED
    BY <2>5
<1>5. PICK v \in V : shares[v] = m /\ n = -LineOf(v)
  BY <1>4
<1>6. \A w \in V : shares[w] < shares[v] \/ (shares[w] = shares[v] /\ first(v) <= first(w))
  <2>1. TAKE w \in V
  <2>2. shares[w] <= m /\ shares[w] \in Nat /\ shares[v] \in Nat
    BY <1>3
  <2>3. ASSUME shares[w] = m PROVE first(v) <= first(w)
    <3>1. -LineOf(w) <= n
      BY <1>4, <2>3
    <3>2. PICK a, b : a = LineOf(v) /\ b = LineOf(w)
      OBVIOUS
    <3>3. a \in Int /\ b \in Int /\ first(v) = a /\ first(w) = b
      BY <1>2, <3>2
    <3>4. a <= b
      BY ONLY <1>5, <3>1, <3>2, <3>3
    <3>5. QED
      BY ONLY <3>3, <3>4
  <2>4. QED
    BY <1>5, <2>2, <2>3
<1>7. DOMAIN shares = V
  OBVIOUS
<1>8. Largest(shares) = CHOOSE u \in V : \A w \in V :
            shares[w] < shares[u] \/ (shares[w] = shares[u] /\ first(u) <= first(w))
  BY <1>7 DEF Largest
<1> HIDE DEF V, first
<1>9. Largest(shares) \in V
  BY ONLY <1>5, <1>6, <1>8, v \in V
<1>10. QED
  BY <1>9 DEF V

ByLine(c) == [l \in DOMAIN shipmentLines |-> CostShare(c, l)]

\* A sum of whole cents is in whole cents.
LEMMA WholeCents ==
    ASSUME NEW S, IsFiniteSet(S), NEW f, \A x \in S : \E k \in Nat : f[x] = 10 * k
    PROVE  \E k \in Nat : SumFunctionOnSet(f, S) = 10 * k
<1> DEFINE e == [x \in S |-> CHOOSE k \in Nat : f[x] = 10 * k]
<1>1. \A x \in S : e[x] \in Nat /\ f[x] = 10 * e[x]
  OBVIOUS
<1>2. \A x \in S : e[x] \in Int /\ f[x] = 10 * e[x]
  <2> HIDE DEF e
  <2>1. QED
    BY <1>1
<1> HIDE DEF e
<1>3. SumFunctionOnSet(f, S) = 10 * SumFunctionOnSet(e, S)
  BY <1>2, SumScale
<1>4. SumFunctionOnSet(e, S) \in Nat
  BY <1>1, SumNat
<1>5. QED
  BY <1>3, <1>4

\* The shares by variant are those by line.
LEMMA SharesTotal ==
    ASSUME shipmentLines \in OrderLines, OneLineEach, NEW c \in CostRecords
    PROVE  /\ SumFunctionOnSet(CostShares(c), ShippedVariants) = SumFunction(ByLine(c))
           /\ \E k \in Nat : SumFunction(ByLine(c)) = 10 * k
<1> DEFINE V == ShippedVariants
           D == DOMAIN shipmentLines
           of == [l \in D |-> shipmentLines[l].variant]
           line == [v \in V |-> LineOf(v)]
<1>1. IsFiniteSet(V) /\ IsFiniteSet(D)
  BY VariantsFinite, LinesTyped
<1>2. PICK f, g : f = ByLine(c) /\ g = CostShares(c)
  OBVIOUS
<1>3. \A l \in D : \E k \in Nat : f[l] = 10 * k
  <2>1. TAKE l \in D
  <2>2. PICK k \in Nat : CostShare(c, l) = 10 * k
    BY ShareTyped
  <2>3. QED
    BY <1>2, <2>2 DEF ByLine
<1>4. \A l \in D : f[l] \in Nat /\ of[l] \in V /\ g[of[l]] = f[l]
  <2>1. TAKE l \in D
  <2>2. f[l] \in Nat
    BY <1>3
  <2>3. of[l] \in V /\ g[of[l]] = f[l]
    BY <1>2, SharesTyped, VariantsFinite DEF ByLine
  <2>4. QED
    BY <2>2, <2>3
<1>5. \A v \in V : g[v] \in Nat /\ line[v] \in D /\ of[line[v]] = v /\ g[v] = f[line[v]]
  <2>1. TAKE v \in V
  <2>2. g[v] \in Nat
    BY <1>2, SharesTyped
  <2>3. line[v] \in D /\ of[line[v]] = v
    BY VariantsFinite
  <2>4. g[v] = f[line[v]]
    <3> HIDE DEF of, line
    <3>1. QED
      BY <1>4, <2>3
  <2>5. QED
    BY <2>2, <2>3, <2>4
<1>6. \A l, m \in D : of[l] = of[m] => l = m
  BY VariantsFinite
<1> HIDE DEF V, D, of, line
<1>7. SumFunctionOnSet(f, D) <= SumFunctionOnSet(g, V)
  <2>1. \A l \in D : f[l] \in Int /\ of[l] \in V /\ f[l] <= g[of[l]]
    BY <1>4
  <2>2. \A v \in V : g[v] \in Nat
    BY <1>5
  <2>3. QED
    BY ONLY <1>1, <1>6, <2>1, <2>2, SumCovered
<1>8. SumFunctionOnSet(g, V) <= SumFunctionOnSet(f, D)
  <2>1. \A v \in V : g[v] \in Int /\ line[v] \in D /\ g[v] <= f[line[v]]
    BY <1>5
  <2>2. \A v, w \in V : line[v] = line[w] => v = w
    BY <1>5
  <2>3. \A l \in D : f[l] \in Nat
    BY <1>4
  <2>4. QED
    BY ONLY <1>1, <2>1, <2>2, <2>3, SumCovered
<1>9. SumFunctionOnSet(g, V) \in Nat /\ SumFunctionOnSet(f, D) \in Nat
  BY <1>1, <1>4, <1>5, SumNat
<1>10. SumFunctionOnSet(g, V) = SumFunctionOnSet(f, D)
  BY ONLY <1>7, <1>8, <1>9
<1>11. \E k \in Nat : SumFunctionOnSet(f, D) = 10 * k
  BY ONLY <1>1, <1>3, WholeCents
<1>12. SumFunction(f) = SumFunctionOnSet(f, D)
  BY <1>2 DEF SumFunction, ByLine, D
<1>13. QED
  BY <1>2, <1>10, <1>11, <1>12 DEF V

\* Whatever the lines are, an allocation is a number for every variant.
LEMMA AllocatedTyped ==
    ASSUME shipmentLines \in OrderLines, NEW c \in CostRecords
    PROVE  Allocated(c) \in [ShippedVariants -> Int]
<1>1. PICK g, f, u, b : /\ g = CostShares(c) /\ f = ByLine(c) /\ u = Largest(g)
                        /\ b = c.amount - SumFunction(f)
  OBVIOUS
<1>2. g \in [ShippedVariants -> Nat]
  BY <1>1, SharesTyped
<1>3. b \in Int
  <2>1. PICK D : D = DOMAIN shipmentLines
    OBVIOUS
  <2>2. IsFiniteSet(D)
    BY <2>1, LinesTyped
  <2>3. f \in [D -> Int]
    <3>1. \A l \in D : CostShare(c, l) \in Int
      <4>1. TAKE l \in D
      <4>2. PICK k \in Nat : CostShare(c, l) = 10 * k
        BY <2>1, ShareTyped
      <4>3. QED
        BY <4>2
    <3>2. QED
      BY <1>1, <2>1, <3>1 DEF ByLine
  <2>4. SumFunction(f) \in Int
    BY ONLY <2>2, <2>3, TotalInt
  <2>5. c.amount \in Int
    BY DEF CostRecords
  <2>6. QED
    BY ONLY <1>1, <2>4, <2>5
<1>4. Allocated(c) = IF b = 0 THEN g ELSE [g EXCEPT ![u] = Cents(@ + b, 1)]
  BY <1>1 DEF Allocated, ByLine
<1>5. \A v \in ShippedVariants : Cents(g[v] + b, 1) \in Int
  <2>1. TAKE v \in ShippedVariants
  <2>2. g[v] + b \in Int
    BY <1>2, <1>3
  <2>3. QED
    BY <2>2, RoundedWhole
<1>6. [g EXCEPT ![u] = Cents(@ + b, 1)] \in [ShippedVariants -> Int]
  <2>1. PICK e : e = [g EXCEPT ![u] = Cents(@ + b, 1)]
    OBVIOUS
  <2>2. PICK k : k = Cents(g[u] + b, 1)
    OBVIOUS
  <2>3. e = [g EXCEPT ![u] = k]
    BY ONLY <2>1, <2>2
  <2>4. u \in ShippedVariants => k \in Int
    BY <1>5, <2>2
  <2>5. e \in [ShippedVariants -> Int]
    <3>1. DOMAIN e = ShippedVariants
      BY ONLY <1>2, <2>3
    <3>2. \A v \in ShippedVariants : e[v] \in Int
      BY ONLY <1>2, <2>3, <2>4
    <3>3. e = [v \in ShippedVariants |-> e[v]]
      BY ONLY <1>2, <2>3
    <3>4. QED
      BY ONLY <3>1, <3>2, <3>3
  <2>6. QED
    BY ONLY <2>1, <2>5
<1>7. g \in [ShippedVariants -> Int]
  BY ONLY <1>2
<1>8. QED
  BY ONLY <1>4, <1>6, <1>7

\* Allocated: the largest share takes what the shares miss of the amount, so
\* that together they are the amount, to the cent.
LEMMA AllocatedIs ==
    ASSUME shipmentLines \in OrderLines, OneLineEach, NEW c \in CostRecords
    PROVE  \E u \in ShippedVariants :
             /\ \A v \in ShippedVariants \ {u} : Allocated(c)[v] = CostShares(c)[v]
             /\ Allocated(c)[u] = CostShares(c)[u]
                                    + (Cents(c.amount, 1) - SumFunction(ByLine(c)))
             /\ SumFunctionOnSet(Allocated(c), ShippedVariants) = Cents(c.amount, 1)
<1>1. PICK g, u, a, t : /\ g = CostShares(c) /\ u = Largest(g) /\ a = c.amount
                        /\ t = SumFunction(ByLine(c))
  OBVIOUS
<1>2. g \in [ShippedVariants -> Nat]
  BY <1>1, SharesTyped
<1>3. u \in ShippedVariants
  BY <1>1, <1>2, LargestIn
<1>4. PICK k \in Nat : t = 10 * k
  BY <1>1, SharesTotal
<1>5. a \in Int
  BY <1>1 DEF CostRecords
<1>6. PICK j \in Nat : g[u] = 10 * j
  <2>1. PICK l \in DOMAIN shipmentLines : shipmentLines[l].variant = u
    BY <1>3, VariantsFinite
  <2>2. g[u] = CostShare(c, l)
    BY <1>1, <2>1, SharesTyped
  <2>3. QED
    BY <2>2, ShareTyped
<1>7. Allocated(c) = IF a - t = 0 THEN g ELSE [g EXCEPT ![u] = Cents(@ + (a - t), 1)]
  BY <1>1 DEF Allocated, ByLine
<1>8. Cents(a, 1) \in Int /\ (a - t = 0 => Cents(a, 1) = t)
      /\ Cents(g[u] + (a - t), 1) = g[u] + (Cents(a, 1) - t)
  <2>1. PICK i \in Int : i = j - k
    OBVIOUS
  <2>2. Cents(a, 1) \in Int /\ Cents(a + 10 * i, 1) = Cents(a, 1) + 10 * i
    BY <1>5, RoundedWhole
  <2>3. Cents(10 * k, 1) = 10 * k
    <3>1. k \in Int
      OBVIOUS
    <3>2. QED
      BY <3>1, RoundedWhole
  <2>4. a + 10 * i = g[u] + (a - t) /\ g[u] + (Cents(a, 1) - t) = Cents(a, 1) + 10 * i
    BY ONLY <1>4, <1>5, <1>6, <2>1, <2>2, j \in Nat, k \in Nat
  <2>5. a - t = 0 => a = 10 * k
    BY ONLY <1>4, <1>5, k \in Nat
  <2>6. QED
    BY ONLY <1>4, <2>2, <2>3, <2>4, <2>5
<1>9. /\ \A v \in ShippedVariants \ {u} : Allocated(c)[v] = g[v]
      /\ Allocated(c)[u] = g[u] + (Cents(a, 1) - t)
  <2>1. PICK n, h : n = Cents(a, 1) /\ h = Cents(g[u] + (a - t), 1)
    OBVIOUS
  <2>2. n \in Int /\ (a - t = 0 => n = t) /\ h = g[u] + (n - t)
    BY <1>8, <2>1
  <2>3. Allocated(c) = IF a - t = 0 THEN g ELSE [g EXCEPT ![u] = h]
    BY <1>7, <2>1
  <2>4. CASE a - t = 0
    <3>1. Allocated(c) = g
      BY ONLY <2>3, <2>4
    <3>2. g[u] = g[u] + (n - t)
      BY ONLY <1>2, <1>3, <2>2, <2>4
    <3>3. QED
      BY ONLY <2>1, <3>1, <3>2
  <2>5. CASE a - t # 0
    <3>1. Allocated(c) = [g EXCEPT ![u] = h]
      BY ONLY <2>3, <2>5
    <3>2. Allocated(c)[u] = h /\ \A v \in ShippedVariants \ {u} : Allocated(c)[v] = g[v]
      BY ONLY <1>2, <1>3, <3>1
    <3>3. QED
      BY ONLY <2>1, <2>2, <3>2
  <2>6. QED
    BY ONLY <2>4, <2>5
<1>10. SumFunctionOnSet(Allocated(c), ShippedVariants) = Cents(a, 1)
  <2>1. PICK h, n : h = Allocated(c) /\ n = Cents(a, 1)
    OBVIOUS
  <2>2. n \in Int /\ h[u] = g[u] + (n - t) /\ \A v \in ShippedVariants : u # v => h[v] = g[v]
    BY <1>8, <1>9, <2>1
  <2>3. IsFiniteSet(ShippedVariants) /\ SumFunctionOnSet(g, ShippedVariants) = t
    BY <1>1, VariantsFinite, SharesTotal
  <2>4. (\A v \in ShippedVariants : g[v] \in Int) /\ g[u] \in Nat /\ t \in Nat
    BY <1>2, <1>3, <1>4
  <2>5. h[u] \in Int
    BY ONLY <2>2, <2>4
  <2>6. SumFunctionOnSet(h, ShippedVariants) = t + (h[u] - g[u])
    BY ONLY <1>3, <2>2, <2>3, <2>4, <2>5, SumUpdate
  <2>7. SumFunctionOnSet(h, ShippedVariants) = n
    BY ONLY <2>2, <2>4, <2>6
  <2>8. QED
    BY ONLY <2>1, <2>7
<1>11. QED
  BY ONLY <1>1, <1>3, <1>9, <1>10

\* A number within d of zero, times w.
LEMMA TimesWithin ==
    ASSUME NEW a \in Int, NEW d \in Nat, a <= d, -a <= d, NEW w \in Nat
    PROVE  a * w \in Int /\ a * w <= d * w /\ -(a * w) <= d * w
<1>1. PICK p, q, b : p = (d - a) * w /\ q = (d + a) * w /\ b = a * w
  OBVIOUS
<1>2. d - a \in Nat /\ d + a \in Nat
  OBVIOUS
<1>3. p >= 0 /\ q >= 0
  BY ONLY <1>1, <1>2, w \in Nat
<1>4. b \in Int /\ d * w \in Int
  BY <1>1, TimesInt
<1>5. p = d * w - b /\ q = d * w + b
  BY <1>1
<1>6. b <= d * w /\ -b <= d * w
  BY ONLY <1>3, <1>4, <1>5
<1>7. QED
  BY ONLY <1>1, <1>4, <1>6

\* How far the shares are from the lines' exact parts, times the whole.
Apart(c) == [l \in DOMAIN shipmentLines |->
               CostShare(c, l) * Whole(c.method) - c.amount * Measure(l, c.method)]

LEMMA ApartTyped ==
    ASSUME shipmentLines \in OrderLines, NEW c \in CostRecords
    PROVE  /\ \A l \in DOMAIN shipmentLines :
                /\ Apart(c)[l] \in Int
                /\ Apart(c)[l] <= 5 * Whole(c.method) /\ -Apart(c)[l] <= 5 * Whole(c.method)
           /\ SumFunctionOnSet(Apart(c), DOMAIN shipmentLines)
                = SumFunction(ByLine(c)) * Whole(c.method) - c.amount * Whole(c.method)
<1> DEFINE D == DOMAIN shipmentLines
<1>1. PICK a, w, f, e, m : /\ a = c.amount /\ w = Whole(c.method) /\ f = ByLine(c) /\ e = Apart(c)
                           /\ m = [l \in D |-> Measure(l, c.method)]
  OBVIOUS
<1>2. a \in Nat /\ w \in Nat \ {0} /\ \A l \in D : m[l] \in Nat \ {0}
  BY <1>1, MeasureTyped DEF CostRecords
<1>3. IsFiniteSet(D)
  BY LinesTyped
<1>4. \A l \in D : f[l] \in Nat
  <2>1. TAKE l \in D
  <2>2. PICK k \in Nat : CostShare(c, l) = 10 * k
    BY ShareTyped
  <2>3. QED
    BY <1>1, <2>2 DEF ByLine
<1>5. \A l \in D : e[l] = f[l] * w - a * m[l]
  BY <1>1 DEF Apart, ByLine
<1>6. \A l \in D : e[l] \in Int /\ e[l] <= 5 * w /\ -e[l] <= 5 * w
  <2>1. TAKE l \in D
  <2>2. PICK k \in Nat : /\ CostShare(c, l) = 10 * k
                         /\ 10 * k * w - a * m[l] <= 5 * w
                         /\ a * m[l] - 10 * k * w <= 5 * w
    BY <1>1, ShareTyped
  <2>3. f[l] = 10 * k
    BY <1>1, <2>2 DEF ByLine
  <2>4. PICK p, q : p = f[l] * w /\ q = a * m[l]
    OBVIOUS
  <2>5. p \in Int /\ q \in Int
    <3>1. f[l] \in Int /\ w \in Int /\ a \in Int /\ m[l] \in Int
      BY <1>2, <1>4
    <3>2. QED
      BY ONLY <2>4, <3>1, TimesInt
  <2>6. p - q <= 5 * w /\ q - p <= 5 * w
    <3>1. 10 * k * w = p
      BY ONLY <2>3, <2>4
    <3>2. QED
      BY ONLY <2>2, <2>4, <3>1
  <2>7. e[l] = p - q
    BY <1>5, <2>4
  <2>8. QED
    BY ONLY <1>2, <2>5, <2>6, <2>7
<1>7. SumFunctionOnSet(e, D) = SumFunctionOnSet(f, D) * w - a * w
  <2> DEFINE x == [l \in D |-> w * f[l]]
             y == [l \in D |-> (-a) * m[l]]
  <2>1. \A l \in D : x[l] \in Int /\ y[l] \in Int /\ e[l] = x[l] + y[l]
                     /\ f[l] \in Int /\ m[l] \in Int
    <3>1. TAKE l \in D
    <3>2. PICK b, n : b = f[l] /\ n = m[l]
      OBVIOUS
    <3>3. b \in Int /\ n \in Int /\ w \in Int /\ a \in Int /\ -a \in Int
      BY <1>2, <1>4, <3>2
    <3>4. w * b \in Int /\ (-a) * n \in Int
      BY ONLY <3>3, TimesInt
    <3>5. b * w - a * n = w * b + (-a) * n
      BY ONLY <3>3
    <3>6. x[l] = w * b /\ y[l] = (-a) * n /\ e[l] = b * w - a * n
      BY <1>5, <3>2
    <3> HIDE DEF x, y
    <3>7. QED
      BY ONLY <3>2, <3>3, <3>4, <3>5, <3>6
  <2>2. (\A l \in D : x[l] = w * f[l]) /\ \A l \in D : y[l] = (-a) * m[l]
    OBVIOUS
  <2>3. w \in Int /\ -a \in Int
    BY <1>2
  <2> HIDE DEF x, y, D
  <2>4. SumFunctionOnSet(e, D) = SumFunctionOnSet(x, D) + SumFunctionOnSet(y, D)
    BY ONLY <1>3, <2>1, SumPlus
  <2>5. SumFunctionOnSet(x, D) = w * SumFunctionOnSet(f, D)
    BY ONLY <1>3, <2>1, <2>2, <2>3, SumScale
  <2>6. SumFunctionOnSet(y, D) = (-a) * SumFunctionOnSet(m, D)
    BY ONLY <1>3, <2>1, <2>2, <2>3, SumScale
  <2>7. SumFunctionOnSet(m, D) = w
    BY <1>1 DEF Whole, SumFunction, D
  <2>8. SumFunctionOnSet(f, D) \in Int
    BY ONLY <1>3, <2>1, SumInt
  <2>9. PICK s : s = SumFunctionOnSet(f, D)
    OBVIOUS
  <2>10. w * s + (-a) * w = s * w - a * w
    BY ONLY <1>2, <2>8, <2>9
  <2>11. QED
    BY ONLY <2>4, <2>5, <2>6, <2>7, <2>9, <2>10
<1>8. SumFunction(f) = SumFunctionOnSet(f, D)
  BY <1>1 DEF SumFunction, ByLine
<1>9. QED
  BY <1>1, <1>6, <1>7, <1>8

\* The share that takes what is missed is within half a cent for every line.
LEMMA LargestFits ==
    ASSUME NEW D, IsFiniteSet(D), NEW n \in Nat, n = Cardinality(D), NEW l \in D,
           NEW e, NEW w \in Nat,
           \A x \in D : e[x] \in Int /\ e[x] <= 5 * w /\ -e[x] <= 5 * w,
           NEW d \in Int, d <= 5 * w, -d <= 5 * w
    PROVE  LET r == d - (SumFunctionOnSet(e, D) - e[l])
           IN  r <= 5 * n * w /\ -r <= 5 * n * w
<1> DEFINE R == D \ {l}
           minus == [x \in D |-> -e[x]]
<1>1. IsFiniteSet(R) /\ Cardinality(R) = n - 1
  BY FS_RemoveElement
<1>2. SumFunctionOnSet(e, D) = e[l] + SumFunctionOnSet(e, R)
  BY SumRemove
<1>3. 5 * w \in Int
  OBVIOUS
<1>4. SumFunctionOnSet(e, R) <= Cardinality(R) * (5 * w) /\ SumFunctionOnSet(e, R) \in Int
  <2>1. \A x \in R : e[x] \in Int /\ e[x] <= 5 * w
    OBVIOUS
  <2> HIDE DEF R
  <2>2. QED
    BY ONLY <1>1, <1>3, <2>1, SumAtMost, SumInt
<1>5. /\ SumFunctionOnSet(minus, R) <= Cardinality(R) * (5 * w)
      /\ SumFunctionOnSet(minus, R) = (-1) * SumFunctionOnSet(e, R)
  <2>1. \A x \in R : e[x] \in Int /\ minus[x] \in Int /\ minus[x] <= 5 * w /\ minus[x] = (-1) * e[x]
    OBVIOUS
  <2>2. -1 \in Int
    OBVIOUS
  <2> HIDE DEF R, minus
  <2>3. QED
    BY ONLY <1>1, <1>3, <2>1, <2>2, SumAtMost, SumScale
<1>6. PICK s, t, p, q : /\ s = SumFunctionOnSet(e, R) /\ t = SumFunctionOnSet(e, D)
                        /\ p = (n - 1) * (5 * w) /\ q = n * w
  OBVIOUS
<1>7. s \in Int /\ s <= p /\ -s <= p /\ t = e[l] + s
  BY ONLY <1>1, <1>2, <1>4, <1>5, <1>6
<1>8. q \in Int
  BY <1>6, TimesInt
<1>9. p = 5 * q - 5 * w /\ 5 * n * w = 5 * q
  BY <1>6
<1>10. e[l] \in Int
  OBVIOUS
<1>11. PICK r : r = d - (t - e[l])
  OBVIOUS
<1>12. r <= 5 * q /\ -r <= 5 * q
  BY ONLY <1>7, <1>8, <1>9, <1>10, <1>11, d \in Int, w \in Nat, d <= 5 * w, -d <= 5 * w
<1>13. QED
  BY ONLY <1>6, <1>9, <1>11, <1>12

LEMMA CostsFit ==
    ASSUME shipmentLines \in OrderLines, OneLineEach, NEW c \in CostRecords,
           NEW l \in DOMAIN shipmentLines
    PROVE  CostFits(c, l)
<1>1. PICK u \in ShippedVariants :
        /\ \A v \in ShippedVariants \ {u} : Allocated(c)[v] = CostShares(c)[v]
        /\ Allocated(c)[u] = CostShares(c)[u]
                               + (Cents(c.amount, 1) - SumFunction(ByLine(c)))
  BY AllocatedIs
<1>2. PICK a, w, m, n, s, D, e :
        /\ a = c.amount /\ w = Whole(c.method) /\ m = Measure(l, c.method)
        /\ n = Len(shipmentLines) /\ s = CostShare(c, l) /\ D = DOMAIN shipmentLines
        /\ e = Apart(c)
  OBVIOUS
<1>3. a \in Nat /\ w \in Nat \ {0} /\ m \in Nat \ {0} /\ n \in Nat \ {0}
  BY <1>2, MeasureTyped, LinesTyped DEF CostRecords
<1>4. IsFiniteSet(D) /\ n = Cardinality(D) /\ l \in D
  BY <1>2, LinesTyped
<1>5. s \in Nat /\ CostShares(c)[shipmentLines[l].variant] = s
  <2>1. PICK k \in Nat : CostShare(c, l) = 10 * k
    BY ShareTyped
  <2>2. QED
    BY <1>2, <2>1, SharesTyped
<1>6. \A x \in D : e[x] \in Int /\ e[x] <= 5 * w /\ -e[x] <= 5 * w
  BY <1>2, ApartTyped
<1>7. e[l] = s * w - a * m
  BY <1>2 DEF Apart
<1>8. shipmentLines[l].variant \in ShippedVariants
  BY VariantsFinite
<1>9. PICK z : z = Allocated(c)[shipmentLines[l].variant]
  OBVIOUS
<1>10. z * w - a * m <= 5 * n * w /\ -(z * w - a * m) <= 5 * n * w
  <2>1. CASE shipmentLines[l].variant # u
    <3>1. z = s
      BY <1>1, <1>5, <1>8, <1>9, <2>1
    <3>2. z * w - a * m <= 5 * w /\ -(z * w - a * m) <= 5 * w
      BY <1>4, <1>6, <1>7, <3>1
    <3>3. PICK q, p : q = n * w /\ p = z * w - a * m
      OBVIOUS
    <3>4. q \in Int /\ q >= w
      BY ONLY <1>3, <3>3, TimesInt
    <3>5. 5 * n * w = 5 * q /\ p \in Int
      BY ONLY <1>3, <1>4, <1>6, <1>7, <3>1, <3>3
    <3>6. p <= 5 * q /\ -p <= 5 * q
      BY ONLY <1>3, <3>2, <3>3, <3>4, <3>5
    <3>7. QED
      BY ONLY <3>3, <3>5, <3>6
  <2>2. CASE shipmentLines[l].variant = u
    <3>1. PICK h, t : h = Cents(a, 1) /\ t = SumFunction(ByLine(c))
      OBVIOUS
    <3>2. z = s + (h - t)
      BY <1>1, <1>2, <1>5, <1>9, <2>2, <3>1
    <3>3. h \in Int /\ h - a <= 5 /\ -(h - a) <= 5
      <4>1. a \in Int
        BY ONLY <1>3
      <4>2. h \in Int /\ h - a <= 5 /\ a - h <= 5
        BY ONLY <3>1, <4>1, RoundedWhole
      <4>3. QED
        BY ONLY <4>1, <4>2
    <3>4. PICK d : d = (h - a) * w
      OBVIOUS
    <3>5. d \in Int /\ d <= 5 * w /\ -d <= 5 * w
      <4>1. h - a \in Int /\ w \in Nat /\ 5 \in Nat
        BY ONLY <1>3, <3>3
      <4>2. QED
        BY ONLY <3>3, <3>4, <4>1, TimesWithin
    <3>6. SumFunctionOnSet(e, D) = t * w - a * w
      BY <1>2, <3>1, ApartTyped
    <3>7. t \in Nat
      BY <3>1, SharesTotal
    <3>8. PICK r : r = d - (SumFunctionOnSet(e, D) - e[l])
      OBVIOUS
    <3>9. r <= 5 * n * w /\ -r <= 5 * n * w
      <4>1. n \in Nat /\ w \in Nat
        BY ONLY <1>3
      <4>2. QED
        BY ONLY <1>4, <1>6, <3>5, <3>8, <4>1, LargestFits
    <3>10. r = z * w - a * m
      <4>1. PICK sw, tw, hw, aw, am : sw = s * w /\ tw = t * w /\ hw = h * w /\ aw = a * w /\ am = a * m
        OBVIOUS
      <4>2. sw \in Int /\ tw \in Int /\ hw \in Int /\ aw \in Int /\ am \in Int
        <5>1. s \in Int /\ t \in Int /\ a \in Int /\ w \in Int /\ m \in Int
          BY ONLY <1>3, <1>5, <3>7
        <5>2. QED
          BY ONLY <3>3, <4>1, <5>1, TimesInt
      <4>3. z * w = sw + hw - tw /\ d = hw - aw
        BY ONLY <1>3, <1>5, <3>2, <3>3, <3>4, <3>7, <4>1
      <4>4. SumFunctionOnSet(e, D) = tw - aw /\ e[l] = sw - am
        BY ONLY <1>7, <3>6, <4>1
      <4>5. QED
        BY ONLY <3>8, <4>1, <4>2, <4>3, <4>4
    <3>11. QED
      BY ONLY <3>9, <3>10
  <2>3. QED
    BY <2>1, <2>2
<1>11. QED
  BY ONLY <1>2, <1>9, <1>10 DEF CostFits

-----------------------------------------------------------------------------
(***************************************************************************)
(* ImportShipment: all costs.                                              *)
(***************************************************************************)
\* What a cost adds to the shipment's cost fields.
BookedFor == [x \in CostRecords |-> Cents(x.amount, 1)]

LEMMA BookedForTyped == BookedFor \in [CostRecords -> Nat]
<1>1. ASSUME NEW x \in CostRecords PROVE Cents(x.amount, 1) \in Nat
  <2>1. PICK a : a = x.amount
    OBVIOUS
  <2>2. a \in Nat /\ a \in Int /\ a >= 0 /\ 0 \in Int
    BY <2>1 DEF CostRecords
  <2>3. Cents(a, 1) \in Int /\ Cents(a, 1) >= 0
    BY ONLY <2>2, RoundedWhole
  <2>4. QED
    BY ONLY <2>1, <2>3
<1>2. QED
  BY <1>1 DEF BookedFor

LEMMA AllocateTyped ==
    ASSUME shipmentLines \in OrderLines, NEW all \in Seq(CostRecords)
    PROVE  AllocateCosts(all) \in [ShippedVariants -> Int]
<1>1. PICK C : C = DOMAIN all
  OBVIOUS
<1>2. IsFiniteSet(C) /\ \A x \in C : all[x] \in CostRecords
  BY <1>1, SequenceDomain
<1>3. ASSUME NEW v \in ShippedVariants
      PROVE  AllocateCosts(all)[v] \in Int
  <2>1. PICK f, n : /\ f = [x \in C |-> Allocated(all[x])[v]]
                    /\ n = Cardinality({l \in DOMAIN shipmentLines : shipmentLines[l].variant = v})
    OBVIOUS
  <2>2. AllocateCosts(all)[v] = SumFunction(f) * n
    BY <1>1, <2>1 DEF AllocateCosts
  <2>3. \A x \in C : Allocated(all[x])[v] \in Int
    BY <1>2, AllocatedTyped
  <2>4. f \in [C -> Int]
    BY ONLY <2>1, <2>3
  <2>5. SumFunction(f) \in Int
    BY ONLY <1>2, <2>4, TotalInt
  <2>6. n \in Int
    <3>1. PICK S : S = {l \in DOMAIN shipmentLines : shipmentLines[l].variant = v}
      OBVIOUS
    <3>2. IsFiniteSet(S)
      BY <3>1, LinesTyped, FS_Subset
    <3>3. Cardinality(S) \in Nat
      BY ONLY <3>2, FS_CardinalityType
    <3>4. QED
      BY ONLY <2>1, <3>1, <3>3
  <2>7. QED
    BY ONLY <2>2, <2>5, <2>6, TimesInt
<1>4. QED
  BY <1>3 DEF AllocateCosts

\* Together the allocations are what was booked.
LEMMA AllocateTotal ==
    ASSUME shipmentLines \in OrderLines, OneLineEach, NEW all \in Seq(CostRecords)
    PROVE  SumFunction(AllocateCosts(all)) = SeqSum(BookedFor, all)
<1> DEFINE V == ShippedVariants
           C == DOMAIN all
           g == [v \in V |-> [x \in C |-> Allocated(all[x])[v]]]
           h == [x \in C |-> [v \in V |-> Allocated(all[x])[v]]]
           row == [v \in V |-> SumFunctionOnSet(g[v], C)]
           col == [x \in C |-> SumFunctionOnSet(h[x], V)]
<1>1. IsFiniteSet(V) /\ IsFiniteSet(C) /\ \A x \in C : all[x] \in CostRecords
  BY VariantsFinite, SequenceDomain
<1>2. \A v \in V : \A x \in C : g[v][x] \in Int /\ h[x][v] = g[v][x]
  <2>1. \A x \in C : \A v \in V : Allocated(all[x])[v] \in Int
    BY <1>1, AllocatedTyped
  <2>2. QED
    BY <2>1
<1>3. SumFunctionOnSet(row, V) = SumFunctionOnSet(col, C)
  <2>1. /\ \A v \in V : row[v] = SumFunctionOnSet(g[v], C)
        /\ \A x \in C : col[x] = SumFunctionOnSet(h[x], V)
    OBVIOUS
  <2>2. PICK G, H, R, K : G = g /\ H = h /\ R = row /\ K = col
    OBVIOUS
  <2> HIDE DEF V, C, g, h, row, col
  <2>3. /\ \A v \in V : \A x \in C : G[v][x] \in Int /\ H[x][v] = G[v][x]
        /\ \A v \in V : R[v] = SumFunctionOnSet(G[v], C)
        /\ \A x \in C : K[x] = SumFunctionOnSet(H[x], V)
    BY ONLY <1>2, <2>1, <2>2
  <2>4. SumFunctionOnSet(R, V) = SumFunctionOnSet(K, C)
    <3>1. Tabled(V, C, G, H, R, K)
      BY ONLY <2>3 DEF Tabled
    <3>2. QED
      BY ONLY <1>1, <3>1, SumSwap
  <2>5. QED
    BY ONLY <2>2, <2>4
<1>4. \A x \in C : col[x] = BookedFor[all[x]]
  <2>1. TAKE x \in C
  <2>2. PICK c \in CostRecords : c = all[x]
    BY <1>1
  <2>3. PICK f, e : f = Allocated(c) /\ e = h[x]
    OBVIOUS
  <2>4. \A v \in V : e[v] = f[v]
    BY <2>2, <2>3
  <2>5. SumFunctionOnSet(e, V) = SumFunctionOnSet(f, V)
    <3> HIDE DEF V
    <3>1. QED
      BY ONLY <1>1, <2>4, SumSame
  <2>6. SumFunctionOnSet(f, V) = Cents(c.amount, 1)
    BY <2>3, AllocatedIs
  <2>7. col[x] = SumFunctionOnSet(e, V)
    BY <2>3
  <2>8. QED
    BY <2>2, <2>5, <2>6, <2>7 DEF BookedFor
<1>5. \A v \in V : AllocateCosts(all)[v] = row[v]
  <2>1. TAKE v \in V
  <2>2. PICK f, n : /\ f = [x \in C |-> Allocated(all[x])[v]]
                    /\ n = Cardinality({l \in DOMAIN shipmentLines : shipmentLines[l].variant = v})
    OBVIOUS
  <2>3. AllocateCosts(all)[v] = SumFunction(f) * n
    BY <2>2 DEF AllocateCosts
  <2>4. n = 1
    <3>1. PICK l \in DOMAIN shipmentLines : shipmentLines[l].variant = v
      BY VariantsFinite
    <3>2. {m \in DOMAIN shipmentLines : shipmentLines[m].variant = v} = {l}
      BY <3>1, VariantsFinite
    <3>3. Cardinality({l}) = 1
      BY FS_Singleton
    <3>4. QED
      BY <2>2, <3>2, <3>3
  <2>5. f \in [C -> Int]
    <3>1. f = g[v]
      BY <2>2
    <3>2. \A x \in C : f[x] \in Int
      BY <1>2, <3>1
    <3>3. QED
      BY <2>2, <3>2
  <2>6. SumFunction(f) \in Int
    <3> HIDE DEF C
    <3>1. QED
      BY ONLY <1>1, <2>5, TotalInt
  <2>7. SumFunction(f) = SumFunctionOnSet(f, C)
    BY <2>2 DEF SumFunction
  <2>8. row[v] = SumFunctionOnSet(f, C)
    BY <2>2
  <2>9. QED
    BY ONLY <2>3, <2>4, <2>6, <2>7, <2>8
<1>6. SumFunction(AllocateCosts(all)) = SumFunctionOnSet(row, V)
  <2>1. PICK a : a = AllocateCosts(all)
    OBVIOUS
  <2>2. DOMAIN a = V /\ \A v \in V : a[v] = row[v]
    BY <1>5, <2>1, AllocateTyped
  <2>3. SumFunctionOnSet(a, V) = SumFunctionOnSet(row, V)
    <3> HIDE DEF V, row
    <3>1. QED
      BY ONLY <1>1, <2>2, SumSame
  <2>4. SumFunction(a) = SumFunctionOnSet(a, V)
    <3> HIDE DEF V
    <3>1. QED
      BY ONLY <2>2 DEF SumFunction
  <2>5. QED
    BY ONLY <2>1, <2>3, <2>4
<1>7. SeqSum(BookedFor, all) = SumFunctionOnSet(col, C)
  <2>1. PICK b : b = OverSeq(BookedFor, all)
    OBVIOUS
  <2>2. DOMAIN b = C /\ \A x \in C : b[x] = BookedFor[all[x]]
    BY <2>1 DEF OverSeq
  <2>3. \A x \in C : b[x] = col[x]
    BY <1>4, <2>2
  <2>4. SumFunctionOnSet(b, C) = SumFunctionOnSet(col, C)
    <3> HIDE DEF C, col
    <3>1. QED
      BY ONLY <1>1, <2>3, SumSame
  <2>5. SeqSum(BookedFor, all) = SumFunctionOnSet(b, C)
    BY <2>1, <2>2 DEF SeqSum, SumFunction
  <2>6. QED
    BY ONLY <2>4, <2>5
<1>8. QED
  BY ONLY <1>3, <1>6, <1>7

-----------------------------------------------------------------------------
(***************************************************************************)
(* ImportShipment: the theorem.                                            *)
(***************************************************************************)
\* The shipment inductive invariant: the cost fields hold what the costs come
\* to and, where no two lines are of one variant, so do the allocations.
ShipmentInv ==
    /\ ShipmentTypeOK
    /\ booked = SeqSum(BookedFor, costs)
    /\ OneLineEach => TotalAllocated = booked

LEMMA ShipmentInvInit ==
    ASSUME ShipmentInit
    PROVE  ShipmentInv
<1>1. /\ shipmentLines \in OrderLines /\ shipmentStatus = "PLANNED" /\ costs = <<>>
      /\ booked = 0 /\ allocations = <<>> /\ moving = "NONE"
  BY DEF ShipmentInit
<1>2. DOMAIN allocations = {}
  BY ONLY <1>1
<1>3. ShipmentTypeOK
  <2>1. costs \in Seq([amount: Nat, method: CostMethods])
    BY ONLY <1>1
  <2>2. QED
    BY ONLY <1>1, <1>2, <2>1 DEF ShipmentTypeOK, ShipmentStatuses
<1>4. SeqSum(BookedFor, costs) = 0
  BY <1>1, SeqSumEmpty
<1>5. TotalAllocated = 0
  BY <1>2, TotalEmpty DEF TotalAllocated
<1>6. QED
  BY ONLY <1>1, <1>3, <1>4, <1>5 DEF ShipmentInv

\* Moving the shipment on leaves its costs as they are.
LEMMA StatusStep ==
    ASSUME ShipmentInv, shipmentStatus' \in ShipmentStatuses,
           moving' \in ShipmentStatuses \cup {"NONE"},
           UNCHANGED <<shipmentLines, costs, booked, allocations>>
    PROVE  ShipmentInv'
<1>1. /\ shipmentLines' = shipmentLines /\ costs' = costs /\ booked' = booked
      /\ allocations' = allocations
  OBVIOUS
<1>2. ShippedVariants' = ShippedVariants
  BY <1>1 DEF ShippedVariants
<1>3. ShipmentTypeOK'
  BY <1>1, <1>2 DEF ShipmentInv, ShipmentTypeOK
<1>4. OneLineEach' = OneLineEach
  BY <1>1, <1>2 DEF OneLineEach
<1>5. TotalAllocated' = TotalAllocated
  BY <1>1 DEF TotalAllocated
<1>6. booked' = SeqSum(BookedFor, costs')
  BY <1>1 DEF ShipmentInv
<1>7. QED
  BY <1>1, <1>3, <1>4, <1>5, <1>6 DEF ShipmentInv

LEMMA AddCostStep ==
    ASSUME ShipmentInv, AddCost
    PROVE  ShipmentInv'
<1>1. /\ shipmentLines \in OrderLines /\ shipmentStatus \in ShipmentStatuses
      /\ costs \in Seq(CostRecords) /\ booked \in Nat
      /\ moving \in ShipmentStatuses \cup {"NONE"}
      /\ booked = SeqSum(BookedFor, costs)
  BY DEF ShipmentInv, ShipmentTypeOK, CostRecords
<1>2. PICK a \in Amounts, t \in CostMethods :
        /\ costs' = Append(costs, [amount |-> a, method |-> t])
        /\ booked' = booked + Cents(a, 1)
  BY DEF AddCost
<1>3. /\ allocations' = AllocateCosts(costs')
      /\ shipmentLines' = shipmentLines /\ shipmentStatus' = shipmentStatus /\ moving' = moving
  BY DEF AddCost
<1>4. PICK c, d : c = [amount |-> a, method |-> t] /\ d = costs'
  OBVIOUS
<1>5. a \in Nat /\ c \in CostRecords
  <2>1. a \in Nat
    BY PositiveAmounts
  <2>2. QED
    BY <1>4, <2>1 DEF CostRecords
<1>6. /\ d \in Seq(CostRecords) /\ Extended(CostRecords, costs, d, Len(costs) + 1)
      /\ d[Len(costs) + 1] = c
  <2>1. d = Append(costs, c)
    BY <1>2, <1>4
  <2>2. /\ d \in Seq(CostRecords) /\ DOMAIN d = DOMAIN costs \cup {Len(costs) + 1}
        /\ Len(d) = Len(costs) + 1 /\ Len(costs) + 1 \notin DOMAIN costs
        /\ \A i \in DOMAIN costs : d[i] = costs[i]
        /\ d[Len(costs) + 1] = c
    BY ONLY <1>1, <1>5, <2>1, SequenceAppend
  <2>3. QED
    BY <1>1, <2>2 DEF Extended
<1>7. BookedFor[c] = Cents(a, 1)
  BY <1>4, <1>5 DEF BookedFor
<1>8. BookedFor \in [CostRecords -> Int] /\ BookedFor[c] \in Nat
  BY <1>5, BookedForTyped
<1>9. SeqSum(BookedFor, d) = SeqSum(BookedFor, costs) + BookedFor[c]
  <2>1. SeqSum(BookedFor, d) = SeqSum(BookedFor, costs) + BookedFor[d[Len(costs) + 1]]
    BY ONLY <1>6, <1>8, SeqSumAppend
  <2>2. QED
    BY <1>6, <2>1
<1>10. booked' = SeqSum(BookedFor, d) /\ booked' \in Nat
  BY <1>1, <1>2, <1>7, <1>8, <1>9
<1>11. allocations' \in [ShippedVariants -> Int]
  BY <1>1, <1>3, <1>4, <1>6, AllocateTyped
<1>12. OneLineEach => SumFunction(allocations') = booked'
  BY <1>1, <1>3, <1>4, <1>6, <1>10, AllocateTotal
<1>13. ShippedVariants' = ShippedVariants
  BY <1>3 DEF ShippedVariants
<1>14. OneLineEach' = OneLineEach
  BY <1>3, <1>13 DEF OneLineEach
<1>15. ShipmentTypeOK'
  <2>1. costs' \in Seq([amount: Nat, method: CostMethods])
    BY <1>4, <1>6 DEF CostRecords
  <2>2. DOMAIN allocations' = ShippedVariants' /\ \A v \in DOMAIN allocations' : allocations'[v] \in Int
    BY <1>11, <1>13
  <2>3. QED
    BY ONLY <1>1, <1>3, <1>10, <2>1, <2>2 DEF ShipmentTypeOK
<1>16. booked' = SeqSum(BookedFor, costs')
  BY <1>4, <1>10
<1>17. OneLineEach' => TotalAllocated' = booked'
  BY <1>12, <1>14 DEF TotalAllocated
<1>18. QED
  BY ONLY <1>15, <1>16, <1>17 DEF ShipmentInv

LEMMA ShipmentInvNext ==
    ASSUME ShipmentInv, [ShipmentNext]_shipmentVars
    PROVE  ShipmentInv'
<1>1. shipmentStatus \in ShipmentStatuses /\ moving \in ShipmentStatuses \cup {"NONE"}
  BY DEF ShipmentInv, ShipmentTypeOK
<1>2. \A s \in ShipmentStatuses : AllowedTransitions[s] \subseteq ShipmentStatuses
  BY DEF AllowedTransitions, ShipmentStatuses
<1>3. CASE AddCost
  BY <1>3, AddCostStep
<1>4. CASE UpdateShipmentStatus
  <2>1. shipmentStatus' \in AllowedTransitions[shipmentStatus] /\ moving' = moving
        /\ UNCHANGED <<shipmentLines, costs, booked, allocations>>
    BY <1>4 DEF UpdateShipmentStatus
  <2>2. QED
    BY <1>1, <1>2, <2>1, StatusStep
<1>5. CASE ReadStatus
  <2>1. moving' \in AllowedTransitions[shipmentStatus] /\ shipmentStatus' = shipmentStatus
        /\ UNCHANGED <<shipmentLines, costs, booked, allocations>>
    BY <1>5 DEF ReadStatus
  <2>2. QED
    BY <1>1, <1>2, <2>1, StatusStep
<1>6. CASE WriteStatus
  <2>1. moving # "NONE" /\ moving' = "NONE" /\ shipmentStatus' \in {moving, shipmentStatus}
        /\ UNCHANGED <<shipmentLines, costs, booked, allocations>>
    BY <1>6 DEF WriteStatus
  <2>2. QED
    BY <1>1, <2>1, StatusStep
<1>7. CASE UNCHANGED shipmentVars
  BY <1>1, <1>7, StatusStep DEF shipmentVars
<1>8. QED
  BY <1>3, <1>4, <1>5, <1>6, <1>7 DEF ShipmentNext

\* However updateStatus overlaps with addCost, a shipment's costs are allocated
\* to its lines to the cent, each cost by the lines' measures but for half a
\* cent for every line, where no two lines are of one variant.
THEOREM CostsAllocatedToLines == ShipmentSpec => []CostsAreAllocated
<1>1. ShipmentInit => ShipmentInv
  BY ShipmentInvInit
<1>2. ShipmentInv /\ [ShipmentNext]_shipmentVars => ShipmentInv'
  BY ShipmentInvNext
<1>3. ShipmentInv => CostsAreAllocated
  <2> SUFFICES ASSUME ShipmentInv PROVE CostsAreAllocated
    OBVIOUS
  <2>1. ShipmentTypeOK /\ (OneLineEach => TotalAllocated = booked)
    BY DEF ShipmentInv
  <2>2. ASSUME OneLineEach, NEW x \in DOMAIN costs, NEW l \in DOMAIN shipmentLines
        PROVE  CostFits(costs[x], l)
    <3>1. shipmentLines \in OrderLines /\ costs \in Seq(CostRecords)
      BY <2>1 DEF ShipmentTypeOK, CostRecords
    <3>2. costs[x] \in CostRecords
      BY <3>1
    <3>3. QED
      BY <2>2, <3>1, <3>2, CostsFit
  <2>3. QED
    BY ONLY <2>1, <2>2 DEF CostsAreAllocated, OneLineEach
<1>4. QED
  BY <1>1, <1>2, <1>3, PTL DEF ShipmentSpec
=============================================================================
