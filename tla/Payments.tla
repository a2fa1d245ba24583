------------------------------ MODULE Payments ------------------------------
(***************************************************************************)
(* What customers owe and pay: payments.service.ts, and the parts of       *)
(* sales.service.ts and customer-ledger.service.ts that touch the same     *)
(* records.  A sale and its invoice each keep an amount paid and an amount *)
(* due, a payment may be allocated to the invoice, and the customer has    *)
(* one outstanding balance, kept under a row lock.                         *)
(*                                                                         *)
(* Handlers read the sale and the invoice without a lock and write amounts *)
(* computed from what they read.  A handler is given what it read: a call  *)
(* that runs alone reads and writes in one step, a slow one is overtaken,  *)
(* between the two, by calls that run alone.                               *)
(*                                                                         *)
(* Any call may be refused, so the checks that only refuse (roles, open    *)
(* shift, reference in use, M-Pesa receipt to be matched) are left out.    *)
(* Amounts count the smallest unit a Decimal(18, 2) column stores, 0.01.   *)
(***************************************************************************)
EXTENDS Integers, Sequences, FiniteSetsExt, Functions

CONSTANTS
    Sales,        \* completed sales of one customer, nothing paid at first
    Total,        \* Sale.totalAmount
    Checkouts,    \* idempotency keys of M-Pesa requests
    Amounts,      \* the amounts a caller may name
    Debt,         \* what the customer owes at first, these sales included
    MaxPayments,  \* bound: Payment records
    Slow          \* the operations that may be overtaken after their read

ASSUME SalesAssumption == IsFiniteSet(Sales)
ASSUME TotalAssumption == Total \in [Sales -> Nat \ {0}]
ASSUME AmountsAssumption == Amounts \subseteq Nat \ {0} /\ Debt \in Nat
ASSUME CheckoutsAssumption == "none" \notin Checkouts
ASSUME BoundAssumption == MaxPayments \in Nat

VARIABLES
    sale,        \* Sale.amountPaid, amountDue and whether it is VOIDED
    invoice,     \* the Invoice of each sale, if any
    payments,    \* Payment records in the order they were created
    stk,         \* MpesaTransaction, by checkoutRequestID
    balance,     \* Customer.currentOutstandingBalance
    writtenOff,  \* the SALE_VOID entry of each sale in the customer's ledger
    slow,        \* the overtaken call, if any, and what it read
    overtaken    \* history: a call has written over a change made after its read

accounts == <<sale, invoice, payments, stk, balance, writtenOff>>
vars == <<accounts, slow, overtaken>>

\* "amount > due + 0.01" is how an amount is refused.
Tolerance == 1

NonNegative(n) == IF n > 0 THEN n ELSE 0
NoCall == [op |-> "none"]
NoInvoice == [status |-> "NONE", paid |-> 0, due |-> 0]
Operations == {"paySale", "recordOnInvoice", "payInvoice", "void", "callback", "reverse"}

SaleRecords == [paid: Nat, due: Int, voided: BOOLEAN]
InvoiceRecords == [status: {"NONE", "SENT", "PARTIALLY_PAID", "PAID", "VOIDED"},
                   paid: Nat, due: Int]
PaymentRecords ==
    [sale: Sales, amount: Amounts, direction: {"INCOMING", "OUTGOING"},
     status: {"COMPLETED", "REVERSED"},
     allocated: Nat,                     \* InvoicePaymentAllocation, 0 if none
     reverses: 0..MaxPayments,           \* idempotencyKey payment-reversal:...
     checkout: Checkouts \cup {"none"}]  \* idempotencyKey mpesa:...
NoRequest == [status |-> "NONE"]
Requests ==
    {NoRequest}
      \cup [status: {"PENDING", "SUCCESS", "FAILED", "REVIEW_REQUIRED"},
            sale: Sales, amount: Amounts]

TypeOK ==
    /\ sale \in [Sales -> SaleRecords]
    /\ invoice \in [Sales -> InvoiceRecords]
    /\ payments \in Seq(PaymentRecords) /\ Len(payments) <= MaxPayments
    /\ stk \in [Checkouts -> Requests]
    /\ balance \in Nat
    /\ writtenOff \in [Sales -> Nat]
    /\ slow = NoCall \/ slow.op \in Slow
    /\ overtaken \in BOOLEAN

Init ==
    /\ sale = [s \in Sales |-> [paid |-> 0, due |-> Total[s], voided |-> FALSE]]
    /\ invoice = [s \in Sales |-> NoInvoice]
    /\ payments = <<>>
    /\ stk = [c \in Checkouts |-> NoRequest]
    /\ balance = Debt
    /\ writtenOff = [s \in Sales |-> 0]
    /\ slow = NoCall
    /\ overtaken = FALSE

-----------------------------------------------------------------------------
\* postCustomerBalanceEntry: a balance below 0 is cut off there.
Owe(amount) == balance' = NonNegative(balance + amount)

NewPayment(s, amount, allocated, checkout) ==
    [sale |-> s, amount |-> amount, direction |-> "INCOMING", status |-> "COMPLETED",
     allocated |-> allocated, reverses |-> 0, checkout |-> checkout]

\* A payment with another status and allocation.
Marked(payment, status, allocated) ==
    [sale |-> payment.sale, amount |-> payment.amount, direction |-> payment.direction,
     status |-> status, allocated |-> allocated, reverses |-> payment.reverses,
     checkout |-> payment.checkout]

Post(list, payment) ==
    /\ Len(payments) < MaxPayments
    /\ payments' = Append(list, payment)

SetSale(s, paid, due) ==
    sale' = [sale EXCEPT ![s] = [paid |-> paid, due |-> due, voided |-> @.voided]]

SetInvoice(s, paid, due, status) ==
    invoice' = [invoice EXCEPT ![s] = [status |-> status, paid |-> paid, due |-> due]]

Unpaid(s, paid) == NonNegative(Total[s] - paid)
PaidStatus(due) == IF due > 0 THEN "PARTIALLY_PAID" ELSE "PAID"

Within(amount, due) == amount <= due + Tolerance

\* recordPayment given the id of a sale.
PaySale(s, read) ==
    \E amount \in Amounts :
      LET paid == read.sale.paid + amount
      IN  /\ Within(amount, read.sale.due)
          /\ SetSale(s, paid, Unpaid(s, paid))
          /\ Post(payments, NewPayment(s, amount, 0, "none"))
          /\ Owe(-amount)
          /\ UNCHANGED <<invoice, stk, writtenOff>>

\* recordPayment given the id of an invoice; its status is not looked at.
RecordOnInvoice(s, read) ==
    /\ read.invoice.status # "NONE"
    /\ \E amount \in Amounts :
         LET paid == read.invoice.paid + amount
             salePaid == read.sale.paid + amount
         IN  /\ Within(amount, read.invoice.due)
             /\ SetInvoice(s, paid, Unpaid(s, paid), PaidStatus(Unpaid(s, paid)))
             /\ SetSale(s, salePaid, Unpaid(s, salePaid))
             /\ Post(payments, NewPayment(s, amount, amount, "none"))
             /\ Owe(-amount)
    /\ UNCHANGED <<stk, writtenOff>>

FaultyPayInvoice(s, read) ==
    /\ read.invoice.status \notin {"NONE", "VOIDED"}
    /\ \E amount \in Amounts :
         LET due == NonNegative(read.invoice.due - amount)
         IN  /\ Within(amount, read.invoice.due)
             /\ SetInvoice(s, read.invoice.paid + amount, due, PaidStatus(due))
             /\ Post(payments, NewPayment(s, amount, amount, "none"))
             /\ Owe(-amount)
    /\ UNCHANGED <<sale, stk, writtenOff>>

PayInvoice(s, read) ==
    /\ read.invoice.status \notin {"NONE", "VOIDED"}
    /\ \E amount \in Amounts :
         LET due == NonNegative(read.invoice.due - amount)
         IN  /\ Within(amount, read.invoice.due)
             /\ SetInvoice(s, read.invoice.paid + amount, due, PaidStatus(due))
             /\ SetSale(s, read.sale.paid + amount, NonNegative(read.sale.due - amount))
             /\ Post(payments, NewPayment(s, amount, amount, "none"))
             /\ Owe(-amount)
    /\ UNCHANGED <<stk, writtenOff>>

\* The invoice copies the sale; every COMPLETED payment of the sale is
\* allocated to it.  A sale that has one keeps it.
GenerateInvoice(s) ==
    /\ ~sale[s].voided
    /\ invoice[s].status = "NONE"
    /\ SetInvoice(s, sale[s].paid, sale[s].due,
                  IF sale[s].due <= 0 THEN "PAID"
                  ELSE IF sale[s].paid > 0 THEN "PARTIALLY_PAID" ELSE "SENT")
    /\ payments' = [p \in DOMAIN payments |->
         IF payments[p].sale = s /\ payments[p].status = "COMPLETED"
           THEN Marked(payments[p], "COMPLETED", payments[p].amount)
           ELSE payments[p]]
    /\ UNCHANGED <<sale, stk, balance, writtenOff>>

FaultyHasNoEntry(s) == TRUE
\* The customer's ledger has one SALE_VOID entry for a sale.
HasNoEntry(s) == writtenOff[s] = 0

\* cancelSale: what is still due is written off, unless the ledger already
\* has the entry.  Amounts stay as they are.
Void(s, read) ==
    /\ ~read.sale.voided
    /\ IF read.sale.due > 0 /\ HasNoEntry(s)
         THEN /\ Owe(-read.sale.due)
              /\ writtenOff' = [writtenOff EXCEPT ![s] = read.sale.due]
         ELSE UNCHANGED <<balance, writtenOff>>
    /\ sale' = [sale EXCEPT ![s] = [paid |-> @.paid, due |-> @.due, voided |-> TRUE]]
    /\ IF invoice[s].status = "NONE"
         THEN UNCHANGED invoice
         ELSE SetInvoice(s, invoice[s].paid, invoice[s].due, "VOIDED")
    /\ UNCHANGED <<payments, stk>>

-----------------------------------------------------------------------------
(***************************************************************************)
(* M-Pesa.                                                                 *)
(***************************************************************************)

\* The caller names the sale or its invoice, and the amount is held against
\* what that one says is due.
InitiateStkPush(c, s) ==
    /\ stk[c].status = "NONE"
    /\ \E amount \in Amounts :
         /\ \/ Within(amount, sale[s].due)
            \/ invoice[s].status # "NONE" /\ Within(amount, invoice[s].due)
         /\ stk' = [stk EXCEPT ![c] = [status |-> "PENDING", sale |-> s, amount |-> amount]]
    /\ UNCHANGED <<sale, invoice, payments, balance, writtenOff>>

FaultyAwaiting(c) == stk[c].status \in {"PENDING", "FAILED", "SUCCESS"}
\* The callback event of a checkout is unique, and so is answered once.
Awaiting(c) == stk[c].status = "PENDING"

SetStk(c, status) ==
    stk' = [stk EXCEPT ![c] = [status |-> status, sale |-> @.sale, amount |-> @.amount]]

\* recordVerifiedMpesaPayment reads the invoice after it has written the
\* sale, whose row lock keeps other payments of it away.
RecordVerifiedMpesaPayment(c, s, read) ==
    LET amount == stk[c].amount
        paid == read.sale.paid + amount
        open == invoice[s].status \notin {"NONE", "VOIDED"} /\ invoice[s].due > 0
        allocated == IF open THEN Min({amount, invoice[s].due}) ELSE 0
        due == invoice[s].due - allocated
    IN  /\ SetSale(s, paid, Unpaid(s, paid))
        /\ Post(payments, NewPayment(s, amount, allocated, c))
        /\ IF open
             THEN SetInvoice(s, invoice[s].paid + allocated, due, PaidStatus(due))
             ELSE UNCHANGED invoice
        /\ Owe(-amount)

MpesaCallback(c, read) ==
    /\ Awaiting(c)
    /\ \/ \* the payment failed, or does not match what was asked for
          \E status \in {"FAILED", "REVIEW_REQUIRED"} :
            SetStk(c, status) /\ UNCHANGED <<sale, invoice, payments, balance>>
       \/ /\ ~Within(stk[c].amount, read.sale.due)
          /\ SetStk(c, "REVIEW_REQUIRED")
          /\ UNCHANGED <<sale, invoice, payments, balance>>
       \/ /\ Within(stk[c].amount, read.sale.due)
          /\ RecordVerifiedMpesaPayment(c, stk[c].sale, read)
          /\ SetStk(c, "SUCCESS")
    /\ UNCHANGED writtenOff

-----------------------------------------------------------------------------
(***************************************************************************)
(* Reversal.                                                               *)
(***************************************************************************)
Opposite(direction) == IF direction = "INCOMING" THEN "OUTGOING" ELSE "INCOMING"

FaultyUnreversed(p) == TRUE
\* The idempotency key of a reversal is unique.
Unreversed(p) == \A q \in DOMAIN payments : payments[q].reverses # p

Undone(payment) == Marked(payment, "REVERSED", 0)

Reversal(payment, p) ==
    [sale |-> payment.sale, amount |-> payment.amount,
     direction |-> Opposite(payment.direction), status |-> "COMPLETED",
     allocated |-> 0, reverses |-> p, checkout |-> "none"]

\* The payment and its allocation are as they were read; the invoice and the
\* sale are read when they are written, and so are the allocations deleted.
Reverse(p, read) ==
    LET s == read.payment.sale
        amount == read.payment.amount
        invoicePaid == NonNegative(invoice[s].paid - read.payment.allocated)
        salePaid == NonNegative(sale[s].paid - amount)
    IN  /\ read.payment.status = "COMPLETED"
        /\ Unreversed(p)
        /\ IF read.payment.allocated > 0
             THEN SetInvoice(s, invoicePaid, Total[s] - invoicePaid,
                             IF invoicePaid = 0 THEN "SENT" ELSE "PARTIALLY_PAID")
             ELSE UNCHANGED invoice
        /\ SetSale(s, salePaid, Total[s] - salePaid)
        /\ Owe(amount)
        /\ Post([payments EXCEPT ![p] = Undone(@)], Reversal(read.payment, p))
        /\ UNCHANGED <<stk, writtenOff>>

-----------------------------------------------------------------------------
\* The calls that read before they write, and what each is about.
Calls ==
    [op: {"paySale", "recordOnInvoice", "payInvoice", "void"}, on: Sales]
      \cup [op: {"callback"}, on: {c \in Checkouts : stk[c].status # "NONE"}]
      \cup [op: {"reverse"}, on: DOMAIN payments]

\* What a call reads.
Read(call) ==
    CASE call.op = "reverse" -> [payment |-> payments[call.on]]
      [] call.op = "callback" -> [sale |-> sale[stk[call.on].sale]]
      [] OTHER -> [sale |-> sale[call.on], invoice |-> invoice[call.on]]

Handle(call, read) ==
    \/ call.op = "paySale" /\ PaySale(call.on, read)
    \/ call.op = "recordOnInvoice" /\ RecordOnInvoice(call.on, read)
    \/ call.op = "payInvoice" /\ PayInvoice(call.on, read)
    \/ call.op = "void" /\ Void(call.on, read)
    \/ call.op = "callback" /\ MpesaCallback(call.on, read)
    \/ call.op = "reverse" /\ Reverse(call.on, read)

\* A slow callback has inserted the event of its checkout: another callback
\* for it waits, and is refused.
Excluded(call) == slow # NoCall /\ slow.op = "callback" /\ slow.call = call

Alone ==
    /\ \/ \E call \in Calls : ~Excluded(call) /\ Handle(call, Read(call))
       \/ \E s \in Sales : GenerateInvoice(s)
       \/ \E c \in Checkouts, s \in Sales : InitiateStkPush(c, s)
    /\ UNCHANGED <<slow, overtaken>>

\* Bound: after a call has been overtaken no other one is.
Pause ==
    /\ slow = NoCall
    /\ ~overtaken
    /\ \E call \in Calls :
         /\ call.op \in Slow
         /\ call.op = "callback" => Awaiting(call.on)
         /\ slow' = [op |-> call.op, call |-> call, read |-> Read(call)]
    /\ UNCHANGED <<accounts, overtaken>>

\* The slow call writes, or is refused.
Resume ==
    /\ slow # NoCall
    /\ slow' = NoCall
    /\ \/ /\ Handle(slow.call, slow.read)
          /\ overtaken' = (overtaken \/ slow.read # Read(slow.call))
       \/ UNCHANGED <<accounts, overtaken>>

Next == Alone \/ Pause \/ Resume

Spec == Init /\ [][Next]_vars

-----------------------------------------------------------------------------
PaymentsOf(s) == {p \in DOMAIN payments : payments[p].sale = s}
Signed(p) == IF payments[p].direction = "INCOMING" THEN payments[p].amount
                                                   ELSE -payments[p].amount
Net(s) == SumFunction([p \in PaymentsOf(s) |-> Signed(p)])
NetPaid == SumFunction([s \in Sales |-> Net(s)])

\* A reversal has itself been reversed; reversePayment does not tell the two
\* directions apart.
ReversalReversed ==
    \E p \in DOMAIN payments : payments[p].direction = "OUTGOING"
                               /\ payments[p].status = "REVERSED"

\* On records of the right type, unless a call has overtaken another: a
\* sale's amount paid is what its payments come to, reversals deducted; its
\* invoice has never been paid more than the sale, so that no debt is settled
\* on the invoice alone; and what the invoice was paid is the sum of the
\* payments allocated to it, if it was generated before any reversal, for
\* generateInvoice allocates the outgoing payment of a reversal like any other
\* (every handler that posts a payment).
PaidIsPosted ==
    /\ TypeOK
    /\ ~overtaken /\ ~ReversalReversed =>
         \A s \in Sales :
           /\ sale[s].paid = Net(s)
           /\ invoice[s].paid <= sale[s].paid
           /\ (\A p \in PaymentsOf(s) :
                 payments[p].direction = "OUTGOING" => payments[p].allocated = 0)
                => invoice[s].paid =
                     SumFunction([p \in PaymentsOf(s) |-> payments[p].allocated])

\* However calls overlap, a payment is reversed once, by one payment of the
\* same amount in the other direction (the unique key of the reversal).
ReversedOnce ==
    \A p \in DOMAIN payments :
      LET reversals == {q \in DOMAIN payments : payments[q].reverses = p}
      IN  /\ Cardinality(reversals) = IF payments[p].status = "REVERSED" THEN 1 ELSE 0
          /\ \A q \in reversals :
               /\ payments[q].sale = payments[p].sale
               /\ Signed(q) = -Signed(p)

\* However calls overlap, an M-Pesa request that succeeded has posted its
\* amount once, and no other request has posted any (the unique event).
CheckoutPostsOnce ==
    \A c \in Checkouts :
      LET posted == {p \in DOMAIN payments : payments[p].checkout = c}
      IN  /\ Cardinality(posted) = IF stk[c].status = "SUCCESS" THEN 1 ELSE 0
          /\ \A p \in posted : payments[p].amount = stk[c].amount

\* However calls overlap, a step changes what the customer owes by what it
\* posts and what it writes off, cut off at 0 (postCustomerBalanceEntry).
BalanceFollowsPayments ==
    [][~ReversalReversed'
         => LET writeOff == SumFunction(writtenOff') - SumFunction(writtenOff)
            IN  balance' = NonNegative(balance - (NetPaid' - NetPaid) - writeOff)
            ]_<<balance, payments, writtenOff>>

\* "Only issued receivable invoices can accept payments": a payment is never
\* allocated to an invoice that is VOIDED (recordPayment).
VoidedTakesNoPayment ==
    [][\A s \in Sales : invoice[s].status = "VOIDED" => invoice'[s].paid <= invoice[s].paid]_vars
=============================================================================
