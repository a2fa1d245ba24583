------------------------------- MODULE Returns --------------------------------
(***************************************************************************)
(* What comes back of one paid sale of a known customer: return requests   *)
(* and exchanges (payments.service.ts), and the refunds of the refund      *)
(* workflow (refund-workflow.service.ts), which make return requests of    *)
(* their own.  The sale sold each line at a price of 1 and is paid in      *)
(* full; a document asks for one unit of each line it names.  Roles,       *)
(* return windows, reasons and the FULL_ORDER check are taken as given.    *)
(*                                                                         *)
(* Every handler reads, decides, and writes by id: a plan holds what it    *)
(* read, and a slow call is overtaken between its read and its write.      *)
(***************************************************************************)
EXTENDS Integers, Sequences, FiniteSets, Functions

CONSTANTS
    Lines,               \* SaleItems the sale may have
    SaleSizes,           \* what it may have sold, by line; 0: not in the sale
    Methods,             \* refund methods in use
    Limits,              \* values of maximumGeneralManagerRefund; 0: no limit
    Replacements,        \* totals of the replacement sales of exchanges
    ExchangeKeys,        \* idempotency keys of exchange requests
    MaxReturns,          \* bound: return requests
    MaxRefunds,          \* bound: refunds
    MaxReturnDocuments,  \* bound: both together
    SlowReturns          \* the operations that may be overtaken after their read

ASSUME ReturnsAssumption ==
    /\ IsFiniteSet(Lines)
    /\ SaleSizes \subseteq [Lines -> Nat]
    /\ "STORE_CREDIT" \in Methods /\ "EXCHANGE" \notin Methods
    /\ Replacements \subseteq Nat

VARIABLES
    sold,           \* SaleItem.quantity
    returns,        \* ReturnRequest with its items
    refunds,        \* Refund with its items
    returned,       \* SaleItem.returnedQuantity
    saleStatus,     \* the sale's status and paymentStatus
    storeCredit,    \* the customer's storeCreditBalance
    exchanges,      \* Exchange, with the idempotency key of its replacement sale
    slowReturn,     \* the plan of the overtaken call, if any
    returnOvertaken \* history: a call wrote after what it had read was changed

returnRecords == <<sold, returns, refunds, returned, saleStatus, storeCredit, exchanges>>
returnVars == <<returnRecords, slowReturn, returnOvertaken>>

OpenReturns == {"REQUESTED", "UNDER_REVIEW", "INSPECTED", "APPROVED"}
Reserved == {"PENDING_APPROVAL", "APPROVED", "PROCESSING", "COMPLETED", "REVIEW_REQUIRED"}
Granted == {"APPROVED", "PROCESSING", "COMPLETED"}

\* accepted: the items whose disposition is not REJECT.  method is EXCHANGE
\* for an exchange, else the refund method asked for.
ReturnRequests ==
    [status: OpenReturns \cup {"COMPLETED", "REJECTED"},
     items: SUBSET Lines, accepted: SUBSET Lines, method: Methods \cup {"EXCHANGE"}]
\* approved is 0 and return 0 while there is none.  payouts is history: the
\* times that money or credit was given.
Refunds ==
    [status: Reserved \cup {"DRAFT", "REJECTED", "CANCELLED"}, items: SUBSET Lines,
     amount: Nat, eligible: Nat, approved: Nat, method: Methods, return: Nat, payouts: Nat]

NoReturnPlan == [op |-> "none"]

ReturnsTypeOK ==
    /\ sold \in SaleSizes
    /\ returns \in Seq(ReturnRequests)
    /\ refunds \in Seq(Refunds)
    /\ returned \in [Lines -> Nat]
    /\ saleStatus \in [status: {"COMPLETED", "PARTIALLY_RETURNED", "FULLY_RETURNED"},
                 payment: {"PAID", "PARTIALLY_REFUNDED", "REFUNDED"}]
    /\ storeCredit \in Nat
    /\ exchanges \in Seq([key: ExchangeKeys, return: Nat, value: Nat])
    /\ slowReturn.op \in SlowReturns \cup {"none"}
    /\ returnOvertaken \in BOOLEAN

ReturnsInit ==
    /\ sold \in SaleSizes
    /\ returns = <<>>
    /\ refunds = <<>>
    /\ returned = [i \in Lines |-> 0]
    /\ saleStatus = [status |-> "COMPLETED", payment |-> "PAID"]
    /\ storeCredit = 0
    /\ exchanges = <<>>
    /\ slowReturn = NoReturnPlan
    /\ returnOvertaken = FALSE

-----------------------------------------------------------------------------
(***************************************************************************)
(* What a handler reads.                                                   *)
(***************************************************************************)
ReturnsIn(S) == {t \in DOMAIN returns : returns[t].status \in S}
RefundsIn(S) == {f \in DOMAIN refunds : refunds[f].status \in S}

\* Units of line i that documents of the given sequence and set ask for.
Units(docs, set, i) == Cardinality({d \in set : i \in docs[d].items})

ActiveAmount(f) == IF refunds[f].approved > 0 THEN refunds[f].approved ELSE refunds[f].amount
TotalRefund(set) == SumFunctionOnSet([f \in DOMAIN refunds |-> ActiveAmount(f)], set)

\* The sale's amountPaid.
Paid == SumFunction(sold)

FaultyReturnable(items) == \A i \in items : returned[i] < sold[i]

Returnable(items) ==
    \A i \in items : returned[i] + Units(returns, ReturnsIn(OpenReturns), i) < sold[i]

\* prepareRefundDraft, the quantities: of refund f (0: a new one), whose own
\* documents do not count.  Completed returns count whatever was accepted.
Refundable(items, f) ==
    LET own  == IF f = 0 THEN 0 ELSE refunds[f].return
        back == ReturnsIn(OpenReturns \cup {"COMPLETED"}) \ {own}
    IN  \A i \in items : /\ Units(returns, back, i) < sold[i]
                         /\ Units(refunds, RefundsIn(Reserved) \ {f}, i) < sold[i]

\* prepareRefundDraft, the amounts.
Prepared(items, amount, f) ==
    LET reserved == RefundsIn(Reserved) \ {f}
    IN  /\ Refundable(items, f)
        /\ amount \in 1..Cardinality(items)
        /\ TotalRefund(reserved) + amount <= Paid
        /\ \A g \in reserved : <<ActiveAmount(g), refunds[g].items>> # <<amount, items>>

Subsets == SUBSET Lines \ {{}}

-----------------------------------------------------------------------------
(***************************************************************************)
(* Plans.                                                                  *)
(***************************************************************************)
RequestPlans ==
    {[op |-> "request", items |-> s, method |-> m] :
       s \in {s \in Subsets : saleStatus.status # "FULLY_RETURNED" /\ Returnable(s)},
       m \in Methods \cup {"EXCHANGE"}}
    \cup {[op |-> "review", return |-> t] : t \in ReturnsIn({"REQUESTED"})}
    \cup {[op |-> "inspect", return |-> t, accepted |-> s] :
            t \in ReturnsIn({"UNDER_REVIEW"}), s \in SUBSET Lines}
    \cup {[op |-> "approveReturn", return |-> t, accepted |-> returns[t].accepted,
           makesRefund |-> /\ returns[t].method # "EXCHANGE"
                           /\ \A f \in DOMAIN refunds : refunds[f].return # t] :
            t \in {t \in ReturnsIn({"INSPECTED"}) : returns[t].accepted # {}}}
    \cup {[op |-> "rejectReturn", return |-> t] : t \in ReturnsIn(OpenReturns \ {"APPROVED"})}
    \cup {[op |-> "completeReturn", return |-> t, accepted |-> returns[t].accepted] :
            t \in ReturnsIn({"APPROVED"})}

\* A refund of the exchanged return blocks it unless it was rejected.
ExchangePlans ==
    {[op |-> "exchange", return |-> t, key |-> k, total |-> v] :
       t \in {t \in ReturnsIn({"COMPLETED"}) :
                /\ returns[t].method = "EXCHANGE"
                /\ \A e \in DOMAIN exchanges : exchanges[e].return # t
                /\ \A f \in DOMAIN refunds :
                     refunds[f].return = t => refunds[f].status = "REJECTED"},
       k \in {k \in ExchangeKeys : \A e \in DOMAIN exchanges : exchanges[e].key # k},
       v \in Replacements}

Editable(f) ==
    refunds[f].return # 0 => returns[refunds[f].return].status \in OpenReturns

RefundPlans ==
    {p \in [op : {"createRefund"}, items : Subsets, amount : 1..Cardinality(Lines),
            method : Methods] : Prepared(p.items, p.amount, 0)}
    \cup {p \in [op : {"updateRefund"}, refund : RefundsIn({"DRAFT", "REVIEW_REQUIRED"}),
                 items : Subsets, amount : 1..Cardinality(Lines), method : Methods] :
            Prepared(p.items, p.amount, p.refund) /\ Editable(p.refund)}
    \cup {[op |-> "submit", refund |-> f] :
            f \in {f \in RefundsIn({"DRAFT", "REVIEW_REQUIRED"}) :
                     /\ Prepared(refunds[f].items, refunds[f].amount, f)
                     /\ Editable(f)}}
    \cup {p \in [op : {"approve"}, refund : RefundsIn({"PENDING_APPROVAL"}), amount : 1..Paid] :
            /\ p.amount <= refunds[p.refund].eligible
            /\ TotalRefund(RefundsIn(Granted) \ {p.refund}) + p.amount <= Paid}
    \cup {[op |-> op, refund |-> f] : op \in {"correct", "rejectRefund"},
                                      f \in RefundsIn({"PENDING_APPROVAL", "REVIEW_REQUIRED"})}
    \cup {[op |-> "cancel", refund |-> f] :
            f \in RefundsIn({"DRAFT", "PENDING_APPROVAL", "REVIEW_REQUIRED", "APPROVED"})}
    \cup {[op |-> "process", refund |-> f, amount |-> ActiveAmount(f),
           method |-> refunds[f].method, credit |-> storeCredit] :
            f \in {f \in RefundsIn({"APPROVED"}) :
                     /\ refunds[f].return # 0
                     /\ returns[refunds[f].return].status = "COMPLETED"}}

ReturnsPlans == RequestPlans \cup ExchangePlans \cup RefundPlans

-----------------------------------------------------------------------------
(***************************************************************************)
(* Writes.                                                                 *)
(***************************************************************************)
RoomForReturn ==
    /\ Len(returns) < MaxReturns
    /\ Len(returns) + Len(refunds) < MaxReturnDocuments
RoomForRefund ==
    /\ Len(refunds) < MaxRefunds
    /\ Len(returns) + Len(refunds) < MaxReturnDocuments

NewReturn(items, method) ==
    [status |-> "REQUESTED", items |-> items, accepted |-> items, method |-> method]

CreateReturnRequest(p) ==
    /\ p.op = "request"
    /\ RoomForReturn
    /\ returns' = Append(returns, NewReturn(p.items, p.method))
    /\ UNCHANGED <<sold, refunds, returned, saleStatus, storeCredit, exchanges>>

MoveReturn(t, status) ==
    /\ returns' = [returns EXCEPT ![t].status = status]
    /\ UNCHANGED <<sold, refunds, returned, saleStatus, storeCredit, exchanges>>

ReviewReturn(p) == p.op = "review" /\ MoveReturn(p.return, "UNDER_REVIEW")
RejectReturn(p) == p.op = "rejectReturn" /\ MoveReturn(p.return, "REJECTED")

InspectReturn(p) ==
    /\ p.op = "inspect"
    /\ p.accepted \subseteq returns[p.return].items
    /\ returns' = [returns EXCEPT ![p.return].status = "INSPECTED",
                                  ![p.return].accepted = p.accepted]
    /\ UNCHANGED <<sold, refunds, returned, saleStatus, storeCredit, exchanges>>

\* A refund without items, which waits for approval.
ItemlessRefund(t, amount, method) ==
    [status |-> "PENDING_APPROVAL", items |-> {}, amount |-> amount, eligible |-> amount,
     approved |-> 0, method |-> method, return |-> t, payouts |-> 0]

ApproveReturn(p) ==
    /\ p.op = "approveReturn"
    /\ returns' = [returns EXCEPT ![p.return].status = "APPROVED"]
    /\ IF p.makesRefund
         THEN /\ RoomForRefund
              /\ refunds' = Append(refunds, ItemlessRefund(p.return, Cardinality(p.accepted),
                                                           returns[p.return].method))
         ELSE UNCHANGED refunds
    /\ UNCHANGED <<sold, returned, saleStatus, storeCredit, exchanges>>

\* The goods go back to the shelf, or to a batch in quarantine.
CompleteReturn(p) ==
    /\ p.op = "completeReturn"
    /\ returned' = [i \in Lines |-> returned[i] + IF i \in p.accepted THEN 1 ELSE 0]
    /\ saleStatus' = [saleStatus EXCEPT !.status = IF \A i \in Lines : returned'[i] >= sold[i]
                                         THEN "FULLY_RETURNED" ELSE "PARTIALLY_RETURNED"]
    /\ returns' = [returns EXCEPT ![p.return].status = "COMPLETED"]
    /\ UNCHANGED <<sold, refunds, storeCredit, exchanges>>

FaultyCreateExchange(p) ==
    /\ p.op = "exchange"
    /\ \A e \in DOMAIN exchanges : exchanges[e].key # p.key
    /\ LET value == Cardinality(returns[p.return].accepted)
       IN  /\ exchanges' = Append(exchanges, [key |-> p.key, return |-> p.return,
                                              value |-> IF p.total < value THEN p.total
                                                        ELSE value])
           /\ IF p.total < value
                THEN /\ RoomForRefund
                     /\ refunds' = Append(refunds, ItemlessRefund(p.return, value,
                                                                  "STORE_CREDIT"))
                ELSE UNCHANGED refunds
    /\ UNCHANGED <<sold, returns, returned, saleStatus, storeCredit>>

\* The replacement sale takes what was returned as a payment; what it leaves
\* of it is refunded as store credit.
CreateExchange(p) ==
    /\ p.op = "exchange"
    /\ \A e \in DOMAIN exchanges : exchanges[e].key # p.key   \* unique index
    /\ LET value == Cardinality(returns[p.return].accepted)
       IN  /\ exchanges' = Append(exchanges, [key |-> p.key, return |-> p.return,
                                              value |-> IF p.total < value THEN p.total
                                                        ELSE value])
           /\ IF p.total < value
                THEN /\ RoomForRefund
                     /\ refunds' = Append(refunds, ItemlessRefund(p.return, value - p.total,
                                                                  "STORE_CREDIT"))
                ELSE UNCHANGED refunds
    /\ UNCHANGED <<sold, returns, returned, saleStatus, storeCredit>>

CreateRefundRequest(p) ==
    /\ p.op = "createRefund"
    /\ RoomForRefund
    /\ refunds' = Append(refunds, [status |-> "DRAFT", items |-> p.items, amount |-> p.amount,
                                   eligible |-> Cardinality(p.items), approved |-> 0,
                                   method |-> p.method, return |-> 0, payouts |-> 0])
    /\ UNCHANGED <<sold, returns, returned, saleStatus, storeCredit, exchanges>>

\* The linked return request starts over with the items of the refund.
SyncRefundReturnRequest(t, items, method) ==
    returns' = [returns EXCEPT ![t] = NewReturn(items, method)]

UpdateRefundRequest(p) ==
    /\ p.op = "updateRefund"
    /\ refunds' = [refunds EXCEPT ![p.refund].items = p.items, ![p.refund].amount = p.amount,
                                  ![p.refund].eligible = Cardinality(p.items),
                                  ![p.refund].approved = 0, ![p.refund].method = p.method]
    /\ IF refunds[p.refund].return # 0
         THEN SyncRefundReturnRequest(refunds[p.refund].return, p.items, p.method)
         ELSE UNCHANGED returns
    /\ UNCHANGED <<sold, returned, saleStatus, storeCredit, exchanges>>

\* An amount approved earlier is kept.
SubmitRefundRequest(p) ==
    /\ p.op = "submit"
    /\ LET f == refunds[p.refund]
       IN  IF f.return # 0
             THEN /\ SyncRefundReturnRequest(f.return, f.items, f.method)
                  /\ refunds' = [refunds EXCEPT ![p.refund].status = "PENDING_APPROVAL"]
             ELSE /\ RoomForReturn
                  /\ returns' = Append(returns, NewReturn(f.items, f.method))
                  /\ refunds' = [refunds EXCEPT ![p.refund].status = "PENDING_APPROVAL",
                                                ![p.refund].return = Len(returns) + 1]
    /\ UNCHANGED <<sold, returned, saleStatus, storeCredit, exchanges>>

\* Beyond the manager's authority the refund goes back with the amount.
ApproveRefund(p) ==
    /\ p.op = "approve"
    /\ \E limit \in Limits :
         refunds' = IF limit > 0 /\ p.amount > limit
                    THEN [refunds EXCEPT ![p.refund].status = "REVIEW_REQUIRED",
                                         ![p.refund].approved = p.amount]
                    ELSE [refunds EXCEPT ![p.refund].status = "APPROVED",
                                         ![p.refund].amount = p.amount,
                                         ![p.refund].approved = p.amount]
    /\ UNCHANGED <<sold, returns, returned, saleStatus, storeCredit, exchanges>>

ReturnRefundForCorrection(p) ==
    /\ p.op = "correct"
    /\ refunds' = [refunds EXCEPT ![p.refund].status = "REVIEW_REQUIRED"]
    /\ UNCHANGED <<sold, returns, returned, saleStatus, storeCredit, exchanges>>

\* The return request falls with its refund, unless it was completed.
DropRefund(f, status) ==
    /\ refunds' = [refunds EXCEPT ![f].status = status]
    /\ returns' = [t \in DOMAIN returns |->
                     IF t = refunds[f].return /\ returns[t].status \in OpenReturns
                       THEN [returns[t] EXCEPT !.status = "REJECTED"] ELSE returns[t]]
    /\ UNCHANGED <<sold, returned, saleStatus, storeCredit, exchanges>>

RejectRefund(p) == p.op = "rejectRefund" /\ DropRefund(p.refund, "REJECTED")
CancelRefund(p) == p.op = "cancel" /\ DropRefund(p.refund, "CANCELLED")

FaultyProcessRefund(p) ==
    /\ p.op = "process"
    /\ p.method # "MPESA"
    /\ refunds' = [refunds EXCEPT ![p.refund].payouts = @ + 1]
    /\ storeCredit' = IF p.method = "STORE_CREDIT" THEN p.credit + p.amount ELSE storeCredit
    /\ UNCHANGED <<sold, returns, returned, saleStatus, exchanges>>

\* An M-Pesa refund stays in PROCESSING.  Cash and bank transfers write a
\* payment whose key is the refund's; store credit is written as it was read.
ProcessRefund(p) ==
    /\ p.op = "process"
    /\ IF p.method = "MPESA"
         THEN /\ refunds' = [refunds EXCEPT ![p.refund].status = "PROCESSING"]
              /\ UNCHANGED <<saleStatus, storeCredit>>
         ELSE /\ p.method \in {"CASH", "BANK_TRANSFER"} => refunds[p.refund].payouts = 0
              /\ refunds' = [refunds EXCEPT ![p.refund].status = "COMPLETED",
                                            ![p.refund].payouts = @ + 1]
              /\ storeCredit' = IF p.method = "STORE_CREDIT" THEN p.credit + p.amount
                                ELSE storeCredit
              /\ LET total == TotalRefund(RefundsIn({"COMPLETED"}) \cup {p.refund})
                 IN  saleStatus' = [saleStatus EXCEPT !.payment =
                                      IF total >= Paid THEN "REFUNDED"
                                      ELSE "PARTIALLY_REFUNDED"]
    /\ UNCHANGED <<sold, returns, returned, exchanges>>

ReturnsWrite(p) ==
    \/ CreateReturnRequest(p) \/ ReviewReturn(p) \/ InspectReturn(p) \/ ApproveReturn(p)
    \/ RejectReturn(p) \/ CompleteReturn(p) \/ CreateExchange(p)
    \/ CreateRefundRequest(p) \/ UpdateRefundRequest(p) \/ SubmitRefundRequest(p)
    \/ ApproveRefund(p) \/ ReturnRefundForCorrection(p) \/ RejectRefund(p)
    \/ CancelRefund(p) \/ ProcessRefund(p)

-----------------------------------------------------------------------------
ReturnsAlone ==
    /\ \E p \in ReturnsPlans : ReturnsWrite(p)
    /\ UNCHANGED <<slowReturn, returnOvertaken>>

ReturnsPause ==
    /\ slowReturn = NoReturnPlan
    /\ ~returnOvertaken
    /\ slowReturn' \in {p \in ReturnsPlans : p.op \in SlowReturns}
    /\ UNCHANGED <<returnRecords, returnOvertaken>>

\* The slow call writes, or fails.
ReturnsResume ==
    /\ slowReturn # NoReturnPlan
    /\ slowReturn' = NoReturnPlan
    /\ \/ ReturnsWrite(slowReturn) /\ returnOvertaken' = (slowReturn \notin ReturnsPlans)
       \/ UNCHANGED <<returnRecords, returnOvertaken>>

ReturnsNext == ReturnsAlone \/ ReturnsPause \/ ReturnsResume

ReturnsSpec == ReturnsInit /\ [][ReturnsNext]_returnVars

-----------------------------------------------------------------------------
\* On records of the right type: the open return requests and what was
\* accepted of completed ones never exceed what was sold, by line and whether
\* the request came from a customer or from a refund, unless a call was
\* overtaken (createReturnRequest, prepareRefundDraft).
ReturnsFitSale ==
    /\ ReturnsTypeOK
    /\ ~returnOvertaken =>
         \A i \in Lines : returned[i] + Units(returns, ReturnsIn(OpenReturns), i) <= sold[i]

Given == RefundsIn({"PROCESSING", "COMPLETED"})

Exchanged == SumFunction([e \in DOMAIN exchanges |-> exchanges[e].value])

\* A refund was given for goods that were turned away at inspection.
TurnedAwayRefunded ==
    \E f \in Given : ActiveAmount(f) > Cardinality(returns[refunds[f].return].accepted)

\* Cash and bank refunds are paid out once however calls overlap.  Unless a
\* call was overtaken, the refunds granted are no more than was paid for the
\* sale, and neither is what was given, as refunds and as replacements, except
\* where goods were refunded that had been turned away (approveRefund,
\* createExchange).
RefundsFitPaid ==
    /\ \A f \in DOMAIN refunds :
         refunds[f].method \in {"CASH", "BANK_TRANSFER"} => refunds[f].payouts <= 1
    /\ ~returnOvertaken =>
         /\ TotalRefund(RefundsIn(Granted)) <= Paid
         /\ TurnedAwayRefunded \/ TotalRefund(Given) + Exchanged <= Paid

\* Unless a call was overtaken, the customer's store credit is the sum of the
\* refunds completed to it (processRefund), and none was given for a return
\* that is not completed.
StoreCreditFollowsRefunds ==
    ~returnOvertaken =>
      /\ storeCredit = TotalRefund({f \in RefundsIn({"COMPLETED"}) :
                                refunds[f].method = "STORE_CREDIT"})
      /\ \A f \in RefundsIn({"COMPLETED"}) : returns[refunds[f].return].status = "COMPLETED"
=============================================================================
