------------------------------- MODULE Checkout -------------------------------
(***************************************************************************)
(* Sales at the till to one customer on credit: sales.service.ts, with the *)
(* loyalty points of loyalty.service.ts and the payment of a sale's debt   *)
(* by payments.service.ts.  Every sale is of one unit of one variant, and  *)
(* amounts are in hundreds, so that a sale earns a point for each unit of  *)
(* money paid (the programme is enabled).  Shifts are open, prices and     *)
(* roles as they should be.                                                *)
(*                                                                         *)
(* A plan holds what a handler read before it writes; a slow call is       *)
(* overtaken, by calls that run alone, between its read and its write.     *)
(***************************************************************************)
EXTENDS Integers, Sequences, FiniteSets, Functions

CONSTANTS
    TillStock,     \* stock on hand when the run starts
    Price,         \* of the variant
    Cash,          \* amounts paid in cash at a checkout
    Limit,         \* the customer's creditLimit
    Keys,          \* idempotency keys of checkouts
    Redemptions,   \* idempotency keys of redemptions of points
    Adjustments,   \* points a manager adds or takes
    MaxSales,      \* bound: sales, suspended and invoiced ones included
    MaxExtras,     \* bound: discount requests, notes and adjustments of points
    SlowTill       \* the operations that may be overtaken after their read

ASSUME AmountsAssumption ==
    {TillStock, Price, Limit, MaxExtras} \cup Cash \subseteq Nat /\ Adjustments \subseteq Int
ASSUME RedemptionsAssumption == IsFiniteSet(Redemptions)

VARIABLES
    sales,         \* Sale, with its invoice if it has one
    onHand,        \* the balance row's quantityOnHand
    customer,      \* outstanding balance, loyalty points and store credit
    discounts,     \* DiscountRequests of the cart
    claims,        \* sales that the one M-Pesa receipt, of 1, was used for
    ledger,        \* history: redemptions by key, points adjusted, the debt
                   \* notes made or a balance cut off at 0 forgave, whether a
                   \* note was made, a sale was voided, or a credit was stray:
                   \* a sale was voided or paid while nothing was charged for it
    slowTill,      \* the plan of the overtaken call, if any
    tillOvertaken  \* history: a call wrote after what it had read was changed

tillRecords == <<sales, onHand, customer, discounts, claims, ledger>>
tillVars == <<tillRecords, slowTill, tillOvertaken>>

\* An invoice that is issued is due now or deferred; a pro forma one, which
\* charges nothing, counts as a draft.
Receivable == {"DUE_NOW", "DEFERRED"}
Invoices == {"none", "DRAFT", "VOIDED"} \cup Receivable

\* earned is what the checkout added to the points.
Sales ==
    [key: Keys \cup {"none"}, status: {"COMPLETED", "SUSPENDED", "CANCELLED", "VOIDED"},
     type: {"RETAIL", "WHOLESALE"}, total: Nat, paid: Nat, due: Nat, invoice: Invoices, earned: Nat]
Discounts ==
    [status: {"PENDING", "APPROVED", "REJECTED", "APPLIED"}, uses: Nat]

NoTillPlan == [op |-> "none"]

TillTypeOK ==
    /\ sales \in Seq(Sales)
    /\ onHand \in Nat
    /\ customer \in [outstanding: Nat, points: Int, credit: Nat]
    /\ discounts \in Seq(Discounts)
    /\ claims \in Nat
    /\ ledger \in [redeemed: [Redemptions -> Nat], adjusted: Int, noted: Int, made: 0..MaxExtras,
                   noteMade: BOOLEAN, voided: BOOLEAN, stray: BOOLEAN]
    /\ slowTill.op \in SlowTill \cup {"none"}
    /\ tillOvertaken \in BOOLEAN

TillInit ==
    /\ sales = <<>>
    /\ onHand = TillStock
    /\ customer = [outstanding |-> 0, points |-> 0, credit |-> 0]
    /\ discounts = <<>>
    /\ claims = 0
    /\ ledger = [redeemed |-> [k \in Redemptions |-> 0], adjusted |-> 0, noted |-> 0, made |-> 0,
                 noteMade |-> FALSE, voided |-> FALSE, stray |-> FALSE]
    /\ slowTill = NoTillPlan
    /\ tillOvertaken = FALSE

-----------------------------------------------------------------------------
(***************************************************************************)
(* Plans.                                                                  *)
(***************************************************************************)
SalesIn(S) == {s \in DOMAIN sales : sales[s].status \in S}
KeyUsed(k) == \E s \in DOMAIN sales : sales[s].key = k

WithinCredit(amount) == amount = 0 \/ amount <= Limit - customer.outstanding

\* The approval a checkout may name, unless it has expired: it keeps its
\* status then, and no other is made for the cart.
Usable(d) == discounts[d].status = "APPROVED"

DiscountPlans ==
    {[op |-> "requestDiscount"] :
       x \in {x \in {0} : \A d \in DOMAIN discounts :
                            discounts[d].status \notin {"PENDING", "APPROVED"}}}
    \cup {[op |-> op, discount |-> d] :
            op \in {"approveDiscount", "rejectDiscount"},
            d \in {d \in DOMAIN discounts : discounts[d].status = "PENDING"}}

\* prepareCheckout: an approval takes 1 off; the customer pays cash and the
\* receipt, and the rest within the credit limit.
Prepared(p) ==
    LET due == p.total - p.cash - p.receipt
    IN  /\ p.total = Price - IF p.discount = 0 THEN 0 ELSE 1
        /\ due >= 0
        /\ WithinCredit(due)
        /\ p.receipt = 1 => claims = 0

CheckoutPlans ==
    {p \in [op: {"checkout"}, key: {k \in Keys : ~KeyUsed(k)}, type: {"RETAIL", "WHOLESALE"},
            discount: {0} \cup {d \in DOMAIN discounts : Usable(d)}, total: Price - 1..Price,
            cash: Cash, receipt: 0..1, points: {customer.points}] : Prepared(p)}

SuspendPlans ==
    {[op |-> "suspend"]}
    \cup {[op |-> "discard", sale |-> s] : s \in SalesIn({"SUSPENDED"})}

\* createManualInvoice looks at the credit limit only if the debt is deferred.
ManualInvoicePlans ==
    {[op |-> "invoice", invoice |-> i] :
       i \in {i \in {"DRAFT"} \cup Receivable : i = "DEFERRED" => WithinCredit(Price)}}

CancelPlans ==
    {[op |-> "cancel", sale |-> s, due |-> sales[s].due, paid |-> sales[s].paid,
      restores |-> sales[s].type # "WHOLESALE" /\ sales[s].status = "COMPLETED"] :
       s \in SalesIn({"COMPLETED", "SUSPENDED"})}

PayPlans ==
    {[op |-> "pay", sale |-> s, paid |-> sales[s].paid] :
       s \in {s \in DOMAIN sales : sales[s].due > 0}}

\* createCreditDebitNote names no sale, and nothing bounds a credit.
NotePlans == {[op |-> "note", by |-> n] : n \in {-1, 1}}

LoyaltyPlans ==
    {[op |-> "redeem", key |-> k, points |-> customer.points, credit |-> customer.credit] :
       k \in {k \in Redemptions : ledger.redeemed[k] = 0 /\ customer.points > 0}}
    \cup {[op |-> "adjust", by |-> n, points |-> customer.points] : n \in Adjustments}

TillPlans == DiscountPlans \cup CheckoutPlans \cup SuspendPlans \cup ManualInvoicePlans
           \cup CancelPlans \cup PayPlans \cup NotePlans \cup LoyaltyPlans

-----------------------------------------------------------------------------
(***************************************************************************)
(* Writes.                                                                 *)
(***************************************************************************)
CreateDiscountRequest(p) ==
    /\ p.op = "requestDiscount"
    /\ Len(discounts) + ledger.made < MaxExtras
    /\ discounts' = Append(discounts, [status |-> "PENDING", uses |-> 0])
    /\ UNCHANGED <<sales, onHand, customer, claims, ledger>>

ReviewDiscount(d, status) ==
    /\ discounts' = [discounts EXCEPT ![d].status = status]
    /\ UNCHANGED <<sales, onHand, customer, claims, ledger>>

ApproveDiscountRequest(p) == p.op = "approveDiscount" /\ ReviewDiscount(p.discount, "APPROVED")
RejectDiscountRequest(p) == p.op = "rejectDiscount" /\ ReviewDiscount(p.discount, "REJECTED")

Room == Len(sales) < MaxSales

NotNegative(n) == IF n < 0 THEN 0 ELSE n

\* postCustomerBalanceEntry: the balance, cut off at 0.
Owed(amount) == NotNegative(customer.outstanding + amount)
Forgiven(amount) == Owed(amount) - (customer.outstanding + amount)

Paid(p) == p.cash + p.receipt

\* The debt is added to the balance as it is, the points to what they were.
Charge(p) ==
    [customer EXCEPT !.outstanding = Owed(p.total - Paid(p)),
                     !.points = IF Paid(p) > 0 THEN p.points + Paid(p) ELSE @]

FaultyCheckout(p) ==
    /\ p.op = "checkout"
    /\ Room
    /\ onHand > 0
    /\ sales' = Append(sales,
          [key |-> p.key, status |-> "COMPLETED", type |-> p.type, total |-> p.total,
           paid |-> Paid(p), due |-> p.total - Paid(p), invoice |-> "none",
           earned |-> Paid(p)])
    /\ customer' = Charge(p)
    /\ onHand' = onHand - 1
    /\ discounts' = [d \in DOMAIN discounts |->
                       IF d = p.discount
                         THEN [discounts[d] EXCEPT !.status = "APPLIED", !.uses = @ + 1]
                         ELSE discounts[d]]
    /\ claims' = claims + p.receipt
    /\ UNCHANGED ledger

\* The sale's key is unique.
Checkout(p) ==
    /\ p.op = "checkout"
    /\ Room
    /\ ~KeyUsed(p.key)
    /\ onHand > 0
    /\ sales' = Append(sales,
          [key |-> p.key, status |-> "COMPLETED", type |-> p.type, total |-> p.total,
           paid |-> Paid(p), due |-> p.total - Paid(p), invoice |-> "none",
           earned |-> Paid(p)])
    /\ customer' = Charge(p)
    /\ onHand' = onHand - 1
    /\ discounts' = [d \in DOMAIN discounts |->
                       IF d = p.discount
                         THEN [discounts[d] EXCEPT !.status = "APPLIED", !.uses = @ + 1]
                         ELSE discounts[d]]
    /\ claims' = claims + p.receipt
    /\ UNCHANGED ledger

\* Its type makes no difference to what follows.
SuspendedSale(invoice) ==
    [key |-> "none", status |-> "SUSPENDED", type |-> "RETAIL", total |-> Price, paid |-> 0,
     due |-> Price, invoice |-> invoice, earned |-> 0]

SuspendSale(p) ==
    /\ p.op = "suspend"
    /\ Room
    /\ sales' = Append(sales, SuspendedSale("none"))
    /\ UNCHANGED <<onHand, customer, discounts, claims, ledger>>

\* An invoice made by hand is backed by a suspended sale.
CreateManualInvoice(p) ==
    /\ p.op = "invoice"
    /\ Room
    /\ sales' = Append(sales, SuspendedSale(p.invoice))
    /\ customer' = [customer EXCEPT !.outstanding =
                      Owed(IF p.invoice \in Receivable THEN Price ELSE 0)]
    /\ UNCHANGED <<onHand, discounts, claims, ledger>>

\* An invoice of the sale stays, and so does its debt.
DeleteSuspendedSale(p) ==
    /\ p.op = "discard"
    /\ sales' = [sales EXCEPT ![p.sale].status = "CANCELLED"]
    /\ UNCHANGED <<onHand, customer, discounts, claims, ledger>>

\* History: whether the customer's balance carries the sale's amount due.
Charged(s) ==
    \/ sales[s].status = "COMPLETED"
    \/ sales[s].status # "VOIDED" /\ sales[s].invoice \in Receivable

FaultyCancelSale(p) ==
    /\ p.op = "cancel"
    /\ sales' = [sales EXCEPT ![p.sale].status = "VOIDED"]
    /\ onHand' = onHand + IF p.restores THEN 1 ELSE 0
    /\ customer' = [customer EXCEPT !.points = @ - p.paid]
    /\ ledger' = [ledger EXCEPT !.voided = TRUE,
                                !.stray = @ \/ (p.due > 0 /\ ~Charged(p.sale))]
    /\ UNCHANGED <<discounts, claims>>

\* Whatever the sale's status, its debt is taken off and its points, those of
\* later payments included.  Stock comes back of a completed sale unless it
\* is WHOLESALE: the movement to undo is looked for under another reference.
CancelSale(p) ==
    /\ p.op = "cancel"
    /\ sales' = [sales EXCEPT ![p.sale].status = "VOIDED",
                              ![p.sale].invoice = IF @ = "none" THEN @ ELSE "VOIDED"]
    /\ onHand' = onHand + IF p.restores THEN 1 ELSE 0
    /\ customer' = [customer EXCEPT !.outstanding = Owed(-p.due), !.points = @ - p.paid]
    /\ ledger' = [ledger EXCEPT !.noted = @ + Forgiven(-p.due),
                                !.voided = TRUE,
                                !.stray = @ \/ (p.due > 0 /\ ~Charged(p.sale))]
    /\ UNCHANGED <<discounts, claims>>

\* recordPayment of 1 in cash on the sale, whatever its status.
PaySale(p) ==
    /\ p.op = "pay"
    /\ sales' = [sales EXCEPT ![p.sale].paid = p.paid + 1,
                              ![p.sale].due = NotNegative(sales[p.sale].total - p.paid - 1)]
    /\ customer' = [customer EXCEPT !.outstanding = Owed(-1)]
    /\ ledger' = [ledger EXCEPT !.noted = @ + Forgiven(-1), !.stray = @ \/ ~Charged(p.sale)]
    /\ UNCHANGED <<onHand, discounts, claims>>

CreateCreditDebitNote(p) ==
    /\ p.op = "note"
    /\ Len(discounts) + ledger.made < MaxExtras
    /\ customer' = [customer EXCEPT !.outstanding = Owed(p.by)]
    /\ ledger' = [ledger EXCEPT !.noted = @ + p.by + Forgiven(p.by), !.noteMade = TRUE,
                                !.made = @ + 1]
    /\ UNCHANGED <<sales, onHand, discounts, claims>>

FaultyRedeemPoints(p) ==
    /\ p.op = "redeem"
    /\ customer' = [customer EXCEPT !.credit = p.credit + 1]
    /\ ledger' = [ledger EXCEPT !.redeemed[p.key] = @ + 1]
    /\ UNCHANGED <<sales, onHand, discounts, claims>>

\* One point; both balances are written as they were read.
RedeemPoints(p) ==
    /\ p.op = "redeem"
    /\ customer' = [customer EXCEPT !.points = p.points - 1, !.credit = p.credit + 1]
    /\ ledger' = [ledger EXCEPT !.redeemed[p.key] = @ + 1]
    /\ UNCHANGED <<sales, onHand, discounts, claims>>

\* Points stop at zero.
AdjustPoints(p) ==
    LET after == NotNegative(p.points + p.by)
    IN  /\ p.op = "adjust"
        /\ Len(discounts) + ledger.made < MaxExtras
        /\ customer' = [customer EXCEPT !.points = after]
        /\ ledger' = [ledger EXCEPT !.adjusted = @ + after - p.points,
                                    !.made = @ + 1]
        /\ UNCHANGED <<sales, onHand, discounts, claims>>

TillWrite(p) ==
    \/ CreateDiscountRequest(p) \/ ApproveDiscountRequest(p) \/ RejectDiscountRequest(p)
    \/ Checkout(p) \/ SuspendSale(p) \/ CreateManualInvoice(p) \/ DeleteSuspendedSale(p)
    \/ CancelSale(p) \/ PaySale(p) \/ CreateCreditDebitNote(p)
    \/ RedeemPoints(p) \/ AdjustPoints(p)

-----------------------------------------------------------------------------
TillAlone ==
    /\ \E p \in TillPlans : TillWrite(p)
    /\ UNCHANGED <<slowTill, tillOvertaken>>

TillPause ==
    /\ slowTill = NoTillPlan
    /\ ~tillOvertaken
    /\ slowTill' \in {p \in TillPlans : p.op \in SlowTill}
    /\ UNCHANGED <<tillRecords, tillOvertaken>>

\* The slow call writes, or fails.
TillResume ==
    /\ slowTill # NoTillPlan
    /\ slowTill' = NoTillPlan
    /\ \/ TillWrite(slowTill) /\ tillOvertaken' = (slowTill \notin TillPlans)
       \/ UNCHANGED <<tillRecords, tillOvertaken>>

TillNext == TillAlone \/ TillPause \/ TillResume

TillSpec == TillInit /\ [][TillNext]_tillVars

-----------------------------------------------------------------------------
Completed == SalesIn({"COMPLETED"})

\* What is due of a sale, the points it earned, by sale.
Due == [s \in DOMAIN sales |-> sales[s].due]
Earned == [s \in DOMAIN sales |-> sales[s].earned]

\* On records of the right type: a checkout sells once for its key however
\* calls overlap.  Unless a call was overtaken, a receipt and an approval
\* serve one sale each, and stock on hand is what was not sold, provided no
\* WHOLESALE sale of the till was voided (checkout, cancelSale).
SoldOnce ==
    /\ TillTypeOK
    /\ \A s, t \in DOMAIN sales :
         sales[s].key = sales[t].key /\ sales[s].key # "none" => s = t
    /\ ~tillOvertaken =>
         /\ claims <= 1
         /\ \A d \in DOMAIN discounts : discounts[d].uses <= 1
         /\ \/ \E s \in SalesIn({"VOIDED"}) : sales[s].type = "WHOLESALE"
            \/ onHand + Cardinality(Completed) = TillStock

\* Unless a call was overtaken or a credit was stray (a sale was voided, or
\* paid, while nothing was charged for it), the customer owes what is due of
\* completed sales and of invoices issued by hand, and what notes added or
\* forgave; never more than the credit limit, unless a note was made or an
\* invoice was issued that is due at once.
DebtFollowsSales ==
    ~tillOvertaken /\ ~ledger.stray =>
      /\ customer.outstanding =
           ledger.noted + SumFunctionOnSet(Due, {s \in DOMAIN sales : Charged(s)})
      /\ \/ ledger.noteMade
         \/ \E s \in DOMAIN sales : sales[s].invoice \in {"DUE_NOW", "VOIDED"}
         \/ customer.outstanding <= Limit

\* The points are never negative unless a sale was voided, however calls
\* overlap.  Unless one was overtaken, a redemption gives its credit once,
\* and while no sale was voided the points are those earned and adjusted less
\* those redeemed (checkout, redeemPoints, adjustPoints).
PointsFollowSales ==
    LET redeemed == SumFunction(ledger.redeemed)
    IN  /\ ~ledger.voided => customer.points >= 0
        /\ ~tillOvertaken =>
             /\ customer.credit = redeemed
             /\ \A k \in Redemptions : ledger.redeemed[k] <= 1
             /\ ~ledger.voided =>
                  customer.points = SumFunction(Earned) + ledger.adjusted - redeemed
=============================================================================
