---------------------------- MODULE PaymentsProofs ----------------------------
(***************************************************************************)
(* Proofs about Payments and Returns.                                      *)
(*                                                                         *)
(* Payments: for every number of sales, M-Pesa requests and payments, and  *)
(* whichever calls are overtaken.                                          *)
(*                                                                         *)
(* Returns: for any lines and sizes of the sale, any number of returns,    *)
(* refunds and exchanges, and whichever calls are overtaken.  ReturnsInv   *)
(* is inductive by itself; ReturnsOrderly rests on it, and says what is    *)
(* true of the records until a call is overtaken.                          *)
(***************************************************************************)
EXTENDS Payments, Returns, Sums

\* What calls read is of the type of what they read it from.
ReadTyped(c, read) ==
    \/ /\ c.op \in {"paySale", "recordOnInvoice", "payInvoice", "void"}
       /\ c.on \in Sales
       /\ read.sale \in SaleRecords /\ read.invoice \in InvoiceRecords
    \/ /\ c.op = "callback" /\ c.on \in Checkouts
       /\ stk[c.on].status # "NONE"
       /\ read.sale \in SaleRecords
    \/ /\ c.op = "reverse" /\ c.on \in DOMAIN payments
       /\ read.payment \in PaymentRecords
       /\ read.payment.sale = payments[c.on].sale
       /\ read.payment.amount = payments[c.on].amount
       /\ read.payment.direction = payments[c.on].direction

SlowTyped == slow # NoCall => ReadTyped(slow.call, slow.read)

AccountsTyped ==
    /\ sale \in [Sales -> SaleRecords]
    /\ invoice \in [Sales -> InvoiceRecords]
    /\ payments \in Seq(PaymentRecords) /\ Len(payments) <= MaxPayments
    /\ stk \in [Checkouts -> Requests]
    /\ balance \in Nat
    /\ writtenOff \in [Sales -> Nat]

-----------------------------------------------------------------------------
LEMMA NonNegativeType ==
    ASSUME NEW n \in Int
    PROVE  NonNegative(n) \in Nat /\ NonNegative(n) >= n
BY DEF NonNegative

LEMMA UnpaidType ==
    ASSUME NEW s \in Sales, NEW n \in Int
    PROVE  Unpaid(s, n) \in Nat
BY TotalAssumption, NonNegativeType DEF Unpaid

LEMMA OweType ==
    ASSUME balance \in Nat, NEW n \in Int, Owe(n)
    PROVE  balance' \in Nat
BY NonNegativeType DEF Owe

LEMMA SetSaleType ==
    ASSUME sale \in [Sales -> SaleRecords], NEW s \in Sales,
           NEW paid \in Nat, NEW due \in Int, SetSale(s, paid, due)
    PROVE  sale' \in [Sales -> SaleRecords]
BY DEF SetSale, SaleRecords

LEMMA SetInvoiceType ==
    ASSUME invoice \in [Sales -> InvoiceRecords], NEW s \in Sales,
           NEW paid \in Nat, NEW due \in Int,
           NEW status \in {"NONE", "SENT", "PARTIALLY_PAID", "PAID", "VOIDED"},
           SetInvoice(s, paid, due, status)
    PROVE  invoice' \in [Sales -> InvoiceRecords]
BY DEF SetInvoice, InvoiceRecords

LEMMA NewPaymentType ==
    ASSUME NEW s \in Sales, NEW amount \in Amounts, NEW allocated \in Nat,
           NEW c \in Checkouts \cup {"none"}
    PROVE  NewPayment(s, amount, allocated, c) \in PaymentRecords
BY BoundAssumption DEF NewPayment, PaymentRecords

LEMMA MarkedType ==
    ASSUME NEW payment \in PaymentRecords, NEW allocated \in Nat,
           NEW status \in {"COMPLETED", "REVERSED"}
    PROVE  Marked(payment, status, allocated) \in PaymentRecords
BY DEF Marked, PaymentRecords

LEMMA ReversalType ==
    ASSUME NEW payment \in PaymentRecords, NEW p \in 0..MaxPayments
    PROVE  Reversal(payment, p) \in PaymentRecords
BY DEF Reversal, Opposite, PaymentRecords

LEMMA PostType ==
    ASSUME NEW list \in Seq(PaymentRecords), Len(list) = Len(payments),
           NEW payment \in PaymentRecords, Post(list, payment)
    PROVE  payments' \in Seq(PaymentRecords) /\ Len(payments') <= MaxPayments
BY BoundAssumption DEF Post

-----------------------------------------------------------------------------
(***************************************************************************)
(* What a handler does to the list of payments.                            *)
(***************************************************************************)
\* A payment at the counter or by transfer.
Pays ==
    /\ stk' = stk
    /\ \E s \in Sales, amount \in Amounts, allocated \in Nat :
         payments' = Append(payments, NewPayment(s, amount, allocated, "none"))

\* A payment by M-Pesa, when its request succeeds.
PaysByMpesa(c) ==
    /\ Awaiting(c)
    /\ SetStk(c, "SUCCESS")
    /\ \E s \in Sales, allocated \in Nat :
         payments' = Append(payments, NewPayment(s, stk[c].amount, allocated, c))

\* A request is made, fails or is set aside.
MovesRequest ==
    /\ payments' = payments
    /\ \/ stk' = stk
       \/ \E c \in Checkouts :
            /\ stk[c].status # "SUCCESS"
            /\ \E request \in Requests :
                 /\ request.status \notin {"NONE", "SUCCESS"}
                 /\ stk' = [stk EXCEPT ![c] = request]

\* An invoice is generated.
Allocates ==
    /\ stk' = stk
    /\ \E S \in SUBSET DOMAIN payments :
         /\ \A p \in S : payments[p].status = "COMPLETED"
         /\ payments' = [p \in DOMAIN payments |->
              IF p \in S THEN Marked(payments[p], "COMPLETED", payments[p].amount)
                         ELSE payments[p]]

ReversesOne(p, payment) ==
    /\ stk' = stk
    /\ p \in DOMAIN payments /\ payment \in PaymentRecords
    /\ payment.sale = payments[p].sale /\ payment.amount = payments[p].amount
    /\ payment.direction = payments[p].direction
    /\ Unreversed(p)
    /\ payments' = Append([payments EXCEPT ![p] = Undone(@)], Reversal(payment, p))

Shapes ==
    \/ Pays
    \/ \E c \in Checkouts : PaysByMpesa(c)
    \/ MovesRequest
    \/ Allocates
    \/ \E p \in DOMAIN payments, payment \in PaymentRecords : ReversesOne(p, payment)

LEMMA PaySaleStep ==
    ASSUME AccountsTyped, NEW s \in Sales, NEW read, read.sale \in SaleRecords,
           PaySale(s, read)
    PROVE  AccountsTyped' /\ Pays
<1>1. PICK amount \in Amounts :
        /\ SetSale(s, read.sale.paid + amount, Unpaid(s, read.sale.paid + amount))
        /\ Post(payments, NewPayment(s, amount, 0, "none"))
        /\ Owe(-amount)
        /\ UNCHANGED <<invoice, stk, writtenOff>>
  BY DEF PaySale
<1>2. amount \in Nat /\ read.sale.paid \in Nat
  BY AmountsAssumption DEF SaleRecords
<1>3. sale' \in [Sales -> SaleRecords]
  <2>1. read.sale.paid + amount \in Nat /\ Unpaid(s, read.sale.paid + amount) \in Int
    BY <1>2, UnpaidType
  <2>2. QED
    BY <2>1, <1>1, SetSaleType DEF AccountsTyped
<1>4. payments' \in Seq(PaymentRecords) /\ Len(payments') <= MaxPayments
  BY <1>1, PostType, NewPaymentType DEF AccountsTyped
<1>5. balance' \in Nat
  BY <1>1, <1>2, OweType DEF AccountsTyped
<1>6. Pays
  BY <1>1 DEF Pays, Post
<1>7. QED
  BY <1>1, <1>3, <1>4, <1>5, <1>6 DEF AccountsTyped

LEMMA RecordOnInvoiceStep ==
    ASSUME AccountsTyped, NEW s \in Sales, NEW read, read.sale \in SaleRecords,
           read.invoice \in InvoiceRecords, RecordOnInvoice(s, read)
    PROVE  AccountsTyped' /\ Pays
<1> DEFINE paid(n) == read.invoice.paid + n
           salePaid(n) == read.sale.paid + n
<1>1. PICK amount \in Amounts :
        /\ SetInvoice(s, paid(amount), Unpaid(s, paid(amount)),
                      PaidStatus(Unpaid(s, paid(amount))))
        /\ SetSale(s, salePaid(amount), Unpaid(s, salePaid(amount)))
        /\ Post(payments, NewPayment(s, amount, amount, "none"))
        /\ Owe(-amount)
  BY DEF RecordOnInvoice
<1>2. amount \in Nat /\ paid(amount) \in Nat /\ salePaid(amount) \in Nat
  BY AmountsAssumption DEF SaleRecords, InvoiceRecords
<1>3. Unpaid(s, paid(amount)) \in Int /\ Unpaid(s, salePaid(amount)) \in Int
  BY <1>2, UnpaidType
<1> HIDE DEF paid, salePaid
<1>4. sale' \in [Sales -> SaleRecords]
  BY <1>1, <1>2, <1>3, SetSaleType DEF AccountsTyped
<1>5. invoice' \in [Sales -> InvoiceRecords]
  BY <1>1, <1>2, <1>3, SetInvoiceType DEF AccountsTyped, PaidStatus
<1>6. payments' \in Seq(PaymentRecords) /\ Len(payments') <= MaxPayments
  BY <1>1, <1>2, PostType, NewPaymentType DEF AccountsTyped
<1>7. balance' \in Nat
  BY <1>1, <1>2, OweType DEF AccountsTyped
<1>8. stk' = stk /\ writtenOff' = writtenOff
  BY DEF RecordOnInvoice
<1>9. Pays
  BY <1>1, <1>2, <1>8 DEF Pays, Post
<1>10. QED
  BY <1>4, <1>5, <1>6, <1>7, <1>8, <1>9 DEF AccountsTyped

LEMMA PayInvoiceStep ==
    ASSUME AccountsTyped, NEW s \in Sales, NEW read, read.sale \in SaleRecords,
           read.invoice \in InvoiceRecords, PayInvoice(s, read)
    PROVE  AccountsTyped' /\ Pays
<1> DEFINE due(n) == NonNegative(read.invoice.due - n)
           saleDue(n) == NonNegative(read.sale.due - n)
<1>1. PICK amount \in Amounts :
        /\ SetInvoice(s, read.invoice.paid + amount, due(amount), PaidStatus(due(amount)))
        /\ SetSale(s, read.sale.paid + amount, saleDue(amount))
        /\ Post(payments, NewPayment(s, amount, amount, "none"))
        /\ Owe(-amount)
  BY DEF PayInvoice
<1>2. /\ amount \in Nat
      /\ read.invoice.paid + amount \in Nat /\ read.sale.paid + amount \in Nat
  BY AmountsAssumption DEF SaleRecords, InvoiceRecords
<1>3. due(amount) \in Int /\ saleDue(amount) \in Int
  <2>1. read.invoice.due - amount \in Int /\ read.sale.due - amount \in Int
    BY <1>2 DEF SaleRecords, InvoiceRecords
  <2>2. QED
    BY <2>1, NonNegativeType
<1> HIDE DEF due, saleDue
<1>4. sale' \in [Sales -> SaleRecords]
  BY <1>1, <1>2, <1>3, SetSaleType DEF AccountsTyped
<1>5. invoice' \in [Sales -> InvoiceRecords]
  BY <1>1, <1>2, <1>3, SetInvoiceType DEF AccountsTyped, PaidStatus
<1>6. payments' \in Seq(PaymentRecords) /\ Len(payments') <= MaxPayments
  BY <1>1, <1>2, PostType, NewPaymentType DEF AccountsTyped
<1>7. balance' \in Nat
  BY <1>1, <1>2, OweType DEF AccountsTyped
<1>8. stk' = stk /\ writtenOff' = writtenOff
  BY DEF PayInvoice
<1>9. Pays
  BY <1>1, <1>2, <1>8 DEF Pays, Post
<1>10. QED
  BY <1>4, <1>5, <1>6, <1>7, <1>8, <1>9 DEF AccountsTyped

LEMMA GenerateInvoiceStep ==
    ASSUME AccountsTyped, NEW s \in Sales, GenerateInvoice(s)
    PROVE  AccountsTyped' /\ Allocates
<1> DEFINE S == {p \in DOMAIN payments :
                   payments[p].sale = s /\ payments[p].status = "COMPLETED"}
<1>1. payments' = [p \in DOMAIN payments |->
        IF p \in S THEN Marked(payments[p], "COMPLETED", payments[p].amount) ELSE payments[p]]
  BY DEF GenerateInvoice
<1>2. \A p \in DOMAIN payments : payments[p] \in PaymentRecords
  BY DEF AccountsTyped
<1>3. \A p \in DOMAIN payments :
        Marked(payments[p], "COMPLETED", payments[p].amount) \in PaymentRecords
  <2>1. TAKE p \in DOMAIN payments
  <2>2. payments[p].amount \in Nat
    BY <1>2, AmountsAssumption DEF PaymentRecords
  <2>3. QED
    BY <1>2, <2>2, MarkedType
<1>4. DOMAIN payments = 1..Len(payments) /\ Len(payments) \in Nat
  BY DEF AccountsTyped
<1>5. payments' \in [1..Len(payments) -> PaymentRecords]
  BY <1>1, <1>2, <1>3, <1>4
<1>6. payments' \in Seq(PaymentRecords) /\ Len(payments') = Len(payments)
  BY <1>4, <1>5
<1>7. invoice' \in [Sales -> InvoiceRecords]
  <2>1. sale[s].paid \in Nat /\ sale[s].due \in Int
    BY DEF AccountsTyped, SaleRecords
  <2>2. QED
    BY <2>1, SetInvoiceType DEF AccountsTyped, GenerateInvoice
<1>8. Allocates
  <2>1. S \in SUBSET DOMAIN payments /\ \A p \in S : payments[p].status = "COMPLETED"
    OBVIOUS
  <2>2. stk' = stk
    BY DEF GenerateInvoice
  <2> HIDE DEF S
  <2>3. QED
    BY <1>1, <2>1, <2>2 DEF Allocates
<1>9. QED
  BY <1>6, <1>7, <1>8 DEF AccountsTyped, GenerateInvoice

LEMMA VoidStep ==
    ASSUME AccountsTyped, NEW s \in Sales, NEW read, read.sale \in SaleRecords,
           Void(s, read)
    PROVE  AccountsTyped' /\ MovesRequest
<1>1. read.sale.due \in Int
  BY DEF SaleRecords
<1>2. balance' \in Nat /\ writtenOff' \in [Sales -> Nat]
  <2>1. CASE read.sale.due > 0 /\ HasNoEntry(s)
    <3>1. Owe(-read.sale.due) /\ writtenOff' = [writtenOff EXCEPT ![s] = read.sale.due]
      BY <2>1 DEF Void
    <3>2. QED
      BY <3>1, <2>1, <1>1, OweType DEF AccountsTyped
  <2>2. CASE ~(read.sale.due > 0 /\ HasNoEntry(s))
    BY <2>2 DEF Void, AccountsTyped
  <2>3. QED
    BY <2>1, <2>2
<1>3. sale' \in [Sales -> SaleRecords]
  BY DEF Void, AccountsTyped, SaleRecords
<1>4. invoice' \in [Sales -> InvoiceRecords]
  <2>1. invoice[s].paid \in Nat /\ invoice[s].due \in Int
    BY DEF AccountsTyped, InvoiceRecords
  <2>2. QED
    BY <2>1, SetInvoiceType DEF Void, AccountsTyped
<1>5. payments' = payments /\ stk' = stk
  BY DEF Void
<1>6. QED
  BY <1>2, <1>3, <1>4, <1>5 DEF AccountsTyped, MovesRequest

LEMMA InitiateStkPushStep ==
    ASSUME AccountsTyped, NEW c \in Checkouts, NEW s \in Sales, InitiateStkPush(c, s)
    PROVE  AccountsTyped' /\ MovesRequest
<1>1. PICK amount \in Amounts :
        stk' = [stk EXCEPT ![c] = [status |-> "PENDING", sale |-> s, amount |-> amount]]
  BY DEF InitiateStkPush
<1>2. [status |-> "PENDING", sale |-> s, amount |-> amount] \in Requests
  BY DEF Requests
<1>3. stk[c].status # "SUCCESS"
  BY DEF InitiateStkPush
<1>4. MovesRequest
  BY <1>1, <1>2, <1>3 DEF MovesRequest, InitiateStkPush
<1>5. stk' \in [Checkouts -> Requests]
  BY <1>1, <1>2 DEF AccountsTyped
<1>6. QED
  BY <1>4, <1>5 DEF AccountsTyped, InitiateStkPush

\* A request that was made has a sale and an amount.
LEMMA MadeRequest ==
    ASSUME AccountsTyped, NEW c \in Checkouts, stk[c].status # "NONE"
    PROVE  stk[c].sale \in Sales /\ stk[c].amount \in Amounts
BY DEF AccountsTyped, Requests, NoRequest

LEMMA MpesaCallbackStep ==
    ASSUME AccountsTyped, NEW c \in Checkouts, NEW read, read.sale \in SaleRecords,
           MpesaCallback(c, read)
    PROVE  AccountsTyped' /\ (PaysByMpesa(c) \/ MovesRequest)
<1>1. Awaiting(c) /\ stk[c].sale \in Sales /\ stk[c].amount \in Amounts
  BY MadeRequest DEF MpesaCallback, Awaiting
<1>2. ASSUME NEW status \in {"SUCCESS", "FAILED", "REVIEW_REQUIRED"}, SetStk(c, status)
      PROVE  /\ [status |-> status, sale |-> stk[c].sale, amount |-> stk[c].amount] \in Requests
             /\ stk' = [stk EXCEPT ![c] =
                  [status |-> status, sale |-> stk[c].sale, amount |-> stk[c].amount]]
             /\ stk' \in [Checkouts -> Requests]
  BY <1>1, <1>2 DEF SetStk, Requests, AccountsTyped
<1>3. CASE \E status \in {"FAILED", "REVIEW_REQUIRED"} :
             SetStk(c, status) /\ UNCHANGED <<sale, invoice, payments, balance>>
  <2>1. PICK status \in {"FAILED", "REVIEW_REQUIRED"} :
             SetStk(c, status) /\ UNCHANGED <<sale, invoice, payments, balance>>
    BY <1>3
  <2>2. MovesRequest
    BY <1>1, <1>2, <2>1 DEF MovesRequest, Awaiting
  <2>3. QED
    BY <1>2, <2>1, <2>2 DEF AccountsTyped, MpesaCallback
<1>4. CASE /\ RecordVerifiedMpesaPayment(c, stk[c].sale, read)
           /\ SetStk(c, "SUCCESS")
  <2> DEFINE s == stk[c].sale
             amount == stk[c].amount
             paid == read.sale.paid + amount
             open == invoice[s].status \notin {"NONE", "VOIDED"} /\ invoice[s].due > 0
             allocated == IF open THEN Min({amount, invoice[s].due}) ELSE 0
             due == invoice[s].due - allocated
  <2>1. /\ SetSale(s, paid, Unpaid(s, paid))
        /\ Post(payments, NewPayment(s, amount, allocated, c))
        /\ IF open
             THEN SetInvoice(s, invoice[s].paid + allocated, due, PaidStatus(due))
             ELSE UNCHANGED invoice
        /\ Owe(-amount)
    BY <1>4 DEF RecordVerifiedMpesaPayment
  <2>2. /\ amount \in Nat /\ paid \in Nat /\ s \in Sales
        /\ invoice[s].paid \in Nat /\ invoice[s].due \in Int
    <3>1. amount \in Nat /\ s \in Sales
      BY <1>1, AmountsAssumption
    <3>2. read.sale.paid \in Nat
      BY DEF SaleRecords
    <3>3. \A t \in Sales : invoice[t].paid \in Nat /\ invoice[t].due \in Int
      BY DEF AccountsTyped, InvoiceRecords
    <3> HIDE DEF s, amount
    <3>4. QED
      BY <3>1, <3>2, <3>3
  <2>3. allocated \in Nat
    <3>1. CASE open
      <4>1. invoice[s].due \in Nat
        BY <2>2, <3>1
      <4>2. Min({amount, invoice[s].due}) \in {amount, invoice[s].due}
        <5>1. \E x \in {amount, invoice[s].due} :
                \A y \in {amount, invoice[s].due} : x <= y
          BY <2>2
        <5>2. QED
          BY <5>1 DEF Min
      <4>3. QED
        BY <2>2, <3>1, <4>1, <4>2
    <3>2. CASE ~open
      BY <3>2
    <3>3. QED
      BY <3>1, <3>2
  <2>4. due \in Int /\ invoice[s].paid + allocated \in Nat /\ Unpaid(s, paid) \in Int
    BY <2>2, <2>3, UnpaidType
  <2> HIDE DEF paid, allocated, due, s, amount, open
  <2>5. sale' \in [Sales -> SaleRecords]
    BY <2>1, <2>2, <2>4, SetSaleType DEF AccountsTyped
  <2>6. invoice' \in [Sales -> InvoiceRecords]
    BY <2>1, <2>2, <2>4, SetInvoiceType DEF AccountsTyped, PaidStatus
  <2>7. amount \in Amounts
    BY <1>1 DEF amount
  <2>8. payments' \in Seq(PaymentRecords) /\ Len(payments') <= MaxPayments
    BY <2>1, <2>2, <2>3, <2>7, PostType, NewPaymentType DEF AccountsTyped
  <2>9. balance' \in Nat
    BY <2>1, <2>2, OweType DEF AccountsTyped
  <2>10. PaysByMpesa(c)
    BY <1>1, <1>4, <2>1, <2>2, <2>3 DEF PaysByMpesa, Post, amount
  <2>11. stk' \in [Checkouts -> Requests] /\ writtenOff' = writtenOff
    BY <1>2, <1>4 DEF MpesaCallback
  <2>12. QED
    BY <2>5, <2>6, <2>8, <2>9, <2>10, <2>11 DEF AccountsTyped
<1>5. QED
  BY <1>3, <1>4 DEF MpesaCallback

LEMMA ReverseStep ==
    ASSUME AccountsTyped, NEW p \in DOMAIN payments, NEW read,
           read.payment \in PaymentRecords,
           read.payment.sale = payments[p].sale,
           read.payment.amount = payments[p].amount,
           read.payment.direction = payments[p].direction,
           Reverse(p, read)
    PROVE  AccountsTyped' /\ ReversesOne(p, read.payment)
<1> DEFINE s == read.payment.sale
           amount == read.payment.amount
           invoicePaid == NonNegative(invoice[s].paid - read.payment.allocated)
           salePaid == NonNegative(sale[s].paid - amount)
<1>1. /\ Unreversed(p)
      /\ IF read.payment.allocated > 0
           THEN SetInvoice(s, invoicePaid, Total[s] - invoicePaid,
                           IF invoicePaid = 0 THEN "SENT" ELSE "PARTIALLY_PAID")
           ELSE UNCHANGED invoice
      /\ SetSale(s, salePaid, Total[s] - salePaid)
      /\ Owe(amount)
      /\ Post([payments EXCEPT ![p] = Undone(@)], Reversal(read.payment, p))
      /\ UNCHANGED <<stk, writtenOff>>
  BY DEF Reverse
<1>2. s \in Sales /\ amount \in Nat /\ read.payment.allocated \in Nat
  BY AmountsAssumption DEF PaymentRecords
<1>3. \A t \in Sales : /\ sale[t].paid \in Nat /\ invoice[t].paid \in Nat
                       /\ Total[t] \in Nat
  BY TotalAssumption DEF AccountsTyped, SaleRecords, InvoiceRecords
<1>4. /\ invoicePaid \in Nat /\ salePaid \in Nat
      /\ Total[s] - invoicePaid \in Int /\ Total[s] - salePaid \in Int
  <2> HIDE DEF s, amount
  <2>1. invoicePaid \in Nat /\ salePaid \in Nat
    BY <1>2, <1>3, NonNegativeType
  <2> HIDE DEF invoicePaid, salePaid
  <2>2. QED
    BY <1>2, <1>3, <2>1
<1> HIDE DEF s, amount, invoicePaid, salePaid
<1>5. sale' \in [Sales -> SaleRecords]
  BY <1>1, <1>2, <1>4, SetSaleType DEF AccountsTyped
<1>6. invoice' \in [Sales -> InvoiceRecords]
  BY <1>1, <1>2, <1>4, SetInvoiceType DEF AccountsTyped
<1>7. balance' \in Nat
  BY <1>1, <1>2, OweType DEF AccountsTyped
<1>8. payments' \in Seq(PaymentRecords) /\ Len(payments') <= MaxPayments
  <2> DEFINE list == [payments EXCEPT ![p] = Undone(@)]
  <2>1. payments \in Seq(PaymentRecords) /\ payments[p] \in PaymentRecords
    BY DEF AccountsTyped
  <2>2. Undone(payments[p]) \in PaymentRecords
    BY <2>1, MarkedType DEF Undone
  <2>3. list \in Seq(PaymentRecords) /\ Len(list) = Len(payments)
    BY <2>1, <2>2
  <2>4. Reversal(read.payment, p) \in PaymentRecords
    <3>1. p \in 0..MaxPayments
      BY <2>1, BoundAssumption DEF AccountsTyped
    <3>2. QED
      BY <3>1, ReversalType
  <2>5. Post(list, Reversal(read.payment, p))
    BY <1>1
  <2> HIDE DEF list
  <2>6. QED
    BY <2>3, <2>4, <2>5, PostType
<1>9. ReversesOne(p, read.payment)
  BY <1>1 DEF ReversesOne, Post
<1>10. QED
  BY <1>1, <1>5, <1>6, <1>7, <1>8, <1>9 DEF AccountsTyped

-----------------------------------------------------------------------------
\* Whatever it read, a handler keeps the types and has one of the shapes.
LEMMA HandleStep ==
    ASSUME AccountsTyped, NEW c, NEW read, ReadTyped(c, read), Handle(c, read)
    PROVE  AccountsTyped' /\ Shapes
<1>1. CASE c.op = "paySale" /\ PaySale(c.on, read)
  BY <1>1, PaySaleStep DEF ReadTyped, Shapes
<1>2. CASE c.op = "recordOnInvoice" /\ RecordOnInvoice(c.on, read)
  BY <1>2, RecordOnInvoiceStep DEF ReadTyped, Shapes
<1>3. CASE c.op = "payInvoice" /\ PayInvoice(c.on, read)
  BY <1>3, PayInvoiceStep DEF ReadTyped, Shapes
<1>4. CASE c.op = "void" /\ Void(c.on, read)
  BY <1>4, VoidStep DEF ReadTyped, Shapes
<1>5. CASE c.op = "callback" /\ MpesaCallback(c.on, read)
  BY <1>5, MpesaCallbackStep DEF ReadTyped, Shapes
<1>6. CASE c.op = "reverse" /\ Reverse(c.on, read)
  BY <1>6, ReverseStep DEF ReadTyped, Shapes
<1>7. QED
  BY <1>1, <1>2, <1>3, <1>4, <1>5, <1>6 DEF Handle

LEMMA ReadType ==
    ASSUME AccountsTyped, NEW c \in Calls
    PROVE  ReadTyped(c, Read(c))
<1>1. CASE c \in [op: {"paySale", "recordOnInvoice", "payInvoice", "void"}, on: Sales]
  <2>1. Read(c) = [sale |-> sale[c.on], invoice |-> invoice[c.on]]
    BY <1>1 DEF Read
  <2>2. QED
    BY <1>1, <2>1 DEF ReadTyped, AccountsTyped
<1>2. CASE c \in [op: {"callback"}, on: {k \in Checkouts : stk[k].status # "NONE"}]
  <2>1. Read(c) = [sale |-> sale[stk[c.on].sale]]
    BY <1>2 DEF Read
  <2>2. stk[c.on].sale \in Sales
    BY <1>2, MadeRequest
  <2>3. QED
    BY <1>2, <2>1, <2>2 DEF ReadTyped, AccountsTyped
<1>3. CASE c \in [op: {"reverse"}, on: DOMAIN payments]
  <2>1. Read(c) = [payment |-> payments[c.on]]
    BY <1>3 DEF Read
  <2>2. payments[c.on] \in PaymentRecords
    BY <1>3 DEF AccountsTyped
  <2>3. QED
    BY <1>3, <2>1, <2>2 DEF ReadTyped
<1>4. QED
  BY <1>1, <1>2, <1>3 DEF Calls

-----------------------------------------------------------------------------
(***************************************************************************)
(* What the shapes preserve.                                               *)
(***************************************************************************)
\* The fields of a payment that never change.
Fixed(p) ==
    /\ payments'[p].sale = payments[p].sale
    /\ payments'[p].amount = payments[p].amount
    /\ payments'[p].direction = payments[p].direction
    /\ payments'[p].reverses = payments[p].reverses
    /\ payments'[p].checkout = payments[p].checkout

Appended(payment) ==
    /\ Len(payments') = Len(payments) + 1
    /\ payments'[Len(payments) + 1] = payment
    /\ \A p \in DOMAIN payments : payments'[p] = payments[p]

LEMMA AppendPayment ==
    ASSUME AccountsTyped, NEW payment, payments' = Append(payments, payment)
    PROVE  Appended(payment)
BY DEF AccountsTyped, Appended

LEMMA AllocatesKeeps ==
    ASSUME AccountsTyped, AccountsTyped', Allocates
    PROVE  /\ Len(payments') = Len(payments)
           /\ \A p \in DOMAIN payments :
                Fixed(p) /\ payments'[p].status = payments[p].status
<1>1. PICK S \in SUBSET DOMAIN payments :
        /\ \A p \in S : payments[p].status = "COMPLETED"
        /\ payments' = [p \in DOMAIN payments |->
              IF p \in S THEN Marked(payments[p], "COMPLETED", payments[p].amount)
                         ELSE payments[p]]
  BY DEF Allocates
<1>2. Len(payments') = Len(payments)
  <2>1. DOMAIN payments' = DOMAIN payments
    BY <1>1
  <2>2. QED
    BY <2>1 DEF AccountsTyped
<1>3. ASSUME NEW p \in DOMAIN payments
      PROVE  Fixed(p) /\ payments'[p].status = payments[p].status
  BY <1>1 DEF Fixed, Marked
<1>4. QED
  BY <1>2, <1>3

LEMMA ReversesKeeps ==
    ASSUME AccountsTyped, NEW p \in DOMAIN payments, NEW payment \in PaymentRecords,
           ReversesOne(p, payment)
    PROVE  /\ Len(payments') = Len(payments) + 1
           /\ payments'[Len(payments) + 1] = Reversal(payment, p)
           /\ \A q \in DOMAIN payments :
                /\ Fixed(q)
                /\ payments'[q].status = IF q = p THEN "REVERSED" ELSE payments[q].status
<1> DEFINE list == [payments EXCEPT ![p] = Undone(@)]
<1>1. payments' = Append(list, Reversal(payment, p))
  BY DEF ReversesOne
<1>2. payments \in Seq(PaymentRecords) /\ payments[p] \in PaymentRecords
  BY DEF AccountsTyped
<1>3. Undone(payments[p]) \in PaymentRecords
  BY <1>2, MarkedType DEF Undone
<1>4. list \in Seq(PaymentRecords) /\ Len(list) = Len(payments)
  BY <1>2, <1>3
<1>5. /\ Len(payments') = Len(payments) + 1
      /\ payments'[Len(payments) + 1] = Reversal(payment, p)
      /\ \A q \in DOMAIN payments : payments'[q] = list[q]
  <2> HIDE DEF list
  <2>1. QED
    BY <1>1, <1>2, <1>4
<1>6. ASSUME NEW q \in DOMAIN payments
      PROVE  /\ Fixed(q)
             /\ payments'[q].status = IF q = p THEN "REVERSED" ELSE payments[q].status
  <2>1. CASE q = p
    <3>1. payments'[q] = Undone(payments[p])
      BY <1>2, <1>5, <2>1
    <3>2. QED
      BY <3>1, <2>1 DEF Fixed, Undone, Marked
  <2>2. CASE q # p
    <3>1. payments'[q] = payments[q]
      BY <1>2, <1>5, <2>2
    <3>2. QED
      BY <3>1, <2>2 DEF Fixed
  <2>3. QED
    BY <2>1, <2>2
<1>7. QED
  BY <1>5, <1>6

Kept ==
    /\ \A p \in DOMAIN payments : p \in DOMAIN payments' /\ Fixed(p)
    /\ \A c \in Checkouts : stk[c].status # "NONE" => stk'[c].status # "NONE"

LEMMA ShapesKeep ==
    ASSUME AccountsTyped, AccountsTyped', Shapes
    PROVE  Kept
<1>1. /\ DOMAIN payments = 1..Len(payments) /\ DOMAIN payments' = 1..Len(payments')
      /\ Len(payments) \in Nat /\ Len(payments') \in Nat
  BY DEF AccountsTyped
<1>2. CASE Pays
  <2>1. PICK payment : payments' = Append(payments, payment)
    BY <1>2 DEF Pays
  <2>2. QED
    BY <1>1, <1>2, <2>1, AppendPayment DEF Pays, Kept, Fixed, Appended
<1>3. ASSUME NEW c \in Checkouts, PaysByMpesa(c) PROVE Kept
  <2>1. PICK payment : payments' = Append(payments, payment)
    BY <1>3 DEF PaysByMpesa
  <2>2. \A k \in Checkouts : stk[k].status # "NONE" => stk'[k].status # "NONE"
    BY <1>3 DEF PaysByMpesa, SetStk, AccountsTyped
  <2>3. QED
    BY <1>1, <2>1, <2>2, AppendPayment DEF Kept, Fixed, Appended
<1>4. CASE MovesRequest
  <2>1. \A k \in Checkouts : stk[k].status # "NONE" => stk'[k].status # "NONE"
    BY <1>4 DEF MovesRequest, AccountsTyped
  <2>2. QED
    BY <1>4, <2>1 DEF MovesRequest, Kept, Fixed
<1>5. CASE Allocates
  BY <1>1, <1>5, AllocatesKeeps DEF Kept, Allocates
<1>6. ASSUME NEW p \in DOMAIN payments, NEW payment \in PaymentRecords,
             ReversesOne(p, payment)
      PROVE  Kept
  BY <1>1, <1>6, ReversesKeeps DEF Kept, ReversesOne
<1>7. QED
  BY <1>2, <1>3, <1>4, <1>5, <1>6 DEF Shapes

-----------------------------------------------------------------------------
(***************************************************************************)
(* Types.                                                                  *)
(***************************************************************************)
Typed == TypeOK /\ SlowTyped

\* What a slow call has read is still of its type after other calls.
LEMMA KeptRead ==
    ASSUME AccountsTyped, AccountsTyped', Kept, NEW c, NEW read, ReadTyped(c, read)
    PROVE  ReadTyped(c, read)'
BY DEF Kept, Fixed, ReadTyped

LEMMA AloneStep ==
    ASSUME AccountsTyped, Alone
    PROVE  AccountsTyped' /\ Shapes
<1>1. CASE \E c \in Calls : ~Excluded(c) /\ Handle(c, Read(c))
  BY <1>1, ReadType, HandleStep
<1>2. CASE \E s \in Sales : GenerateInvoice(s)
  BY <1>2, GenerateInvoiceStep DEF Shapes
<1>3. CASE \E c \in Checkouts, s \in Sales : InitiateStkPush(c, s)
  BY <1>3, InitiateStkPushStep DEF Shapes
<1>4. QED
  BY <1>1, <1>2, <1>3 DEF Alone

\* Every step, a stuttering one included, has one of the shapes.
LEMMA StepShape ==
    ASSUME Typed, [Next]_vars
    PROVE  AccountsTyped' /\ Shapes
<1>1. AccountsTyped
  BY DEF Typed, TypeOK, AccountsTyped
<1>2. CASE Alone
  BY <1>1, <1>2, AloneStep
<1>3. CASE UNCHANGED accounts
  BY <1>1, <1>3 DEF accounts, AccountsTyped, Shapes, MovesRequest
<1>4. CASE Resume /\ Handle(slow.call, slow.read)
  BY <1>1, <1>4, HandleStep DEF Resume, Typed, SlowTyped
<1>5. QED
  BY <1>2, <1>3, <1>4 DEF Next, Pause, Resume, vars, accounts

LEMMA TypedInit == Init => Typed
<1> SUFFICES ASSUME Init PROVE Typed
  OBVIOUS
<1>1. sale \in [Sales -> SaleRecords]
  <2>1. \A s \in Sales : Total[s] \in Int
    BY TotalAssumption
  <2>2. QED
    BY <2>1 DEF Init, SaleRecords
<1>2. invoice \in [Sales -> InvoiceRecords]
  BY DEF Init, NoInvoice, InvoiceRecords
<1>3. payments \in Seq(PaymentRecords) /\ Len(payments) <= MaxPayments
  BY BoundAssumption DEF Init
<1>4. /\ stk \in [Checkouts -> Requests] /\ writtenOff \in [Sales -> Nat]
      /\ balance \in Nat
  BY AmountsAssumption DEF Init, Requests
<1>5. QED
  BY <1>1, <1>2, <1>3, <1>4 DEF Init, Typed, TypeOK, SlowTyped, NoCall

LEMMA TypedStep == Typed /\ [Next]_vars => Typed'
<1> SUFFICES ASSUME Typed, [Next]_vars PROVE Typed'
  OBVIOUS
<1>1. AccountsTyped /\ AccountsTyped' /\ Kept
  BY StepShape, ShapesKeep DEF Typed, TypeOK, AccountsTyped
<1>2. CASE slow' = slow
  <2>1. SlowTyped'
    BY <1>1, <1>2, KeptRead DEF Typed, SlowTyped
  <2>2. overtaken' \in BOOLEAN
    BY DEF Next, Alone, Pause, Resume, vars, Typed, TypeOK
  <2>3. QED
    BY <1>1, <1>2, <2>1, <2>2 DEF Typed, TypeOK, AccountsTyped
<1>3. CASE Pause
  <2>1. PICK c \in Calls :
          /\ c.op \in Slow
          /\ slow' = [op |-> c.op, call |-> c, read |-> Read(c)]
    BY <1>3 DEF Pause
  <2>2. ReadTyped(c, Read(c))
    BY <1>1, ReadType
  <2>3. UNCHANGED <<sale, invoice, payments, stk, overtaken>>
    BY <1>3 DEF Pause, accounts
  <2>4. slow'.op \in Slow /\ slow'.call = c /\ slow'.read = Read(c)
    BY <2>1
  <2> DEFINE read == Read(c)
  <2>5. ReadTyped(c, read)
    BY <2>2
  <2>6. slow'.read = read
    BY <2>4
  <2> HIDE DEF read
  <2>7. SlowTyped'
    BY <2>3, <2>4, <2>5, <2>6 DEF SlowTyped, ReadTyped
  <2>8. QED
    BY <1>1, <2>3, <2>4, <2>7 DEF Typed, TypeOK, AccountsTyped
<1>4. CASE Resume
  BY <1>1, <1>4 DEF Resume, Typed, TypeOK, AccountsTyped, SlowTyped
<1>5. QED
  BY <1>2, <1>3, <1>4 DEF Next, Alone, vars

\* Sales, invoices, payments, M-Pesa requests and the balance keep their
\* types, and the customer never owes less than nothing, whichever calls of
\* PaymentsService and SalesService are overtaken between read and write.
THEOREM PaymentsTypeCorrect == Spec => []TypeOK
<1>1. Typed => TypeOK
  BY DEF Typed
<1>2. QED
  BY <1>1, TypedInit, TypedStep, PTL DEF Spec

-----------------------------------------------------------------------------
(***************************************************************************)
(* A payment is reversed once.                                             *)
(***************************************************************************)
ReversesIt(q, p) ==
    /\ p \in DOMAIN payments /\ payments[p].status = "REVERSED"
    /\ payments[q].sale = payments[p].sale
    /\ payments[q].amount = payments[p].amount
    /\ payments[q].direction = Opposite(payments[p].direction)

Reversals ==
    /\ \A q \in DOMAIN payments :
         payments[q].reverses # 0 => ReversesIt(q, payments[q].reverses)
    /\ \A q, r \in DOMAIN payments :
         payments[q].reverses # 0 /\ payments[q].reverses = payments[r].reverses => q = r
    /\ \A p \in DOMAIN payments :
         payments[p].status = "REVERSED" => \E q \in DOMAIN payments : payments[q].reverses = p

\* No payment changes its status, and a new one reverses none.
Ordinary ==
    /\ \A p \in DOMAIN payments :
         p \in DOMAIN payments' /\ Fixed(p) /\ payments'[p].status = payments[p].status
    /\ \A p \in DOMAIN payments' :
         \/ p \in DOMAIN payments
         \/ payments'[p].reverses = 0 /\ payments'[p].status = "COMPLETED"

LEMMA Lengths ==
    ASSUME AccountsTyped
    PROVE  Len(payments) \in Nat /\ DOMAIN payments = 1..Len(payments)
BY DEF AccountsTyped

LEMMA OrdinaryShapes ==
    ASSUME AccountsTyped, AccountsTyped', Shapes
    PROVE  Ordinary \/ \E p \in DOMAIN payments, payment \in PaymentRecords :
                         ReversesOne(p, payment)
<1>0. /\ Len(payments) \in Nat /\ DOMAIN payments = 1..Len(payments)
      /\ DOMAIN payments' = 1..Len(payments')
  BY Lengths DEF AccountsTyped
<1>1. ASSUME NEW s, NEW amount, NEW allocated, NEW c,
             payments' = Append(payments, NewPayment(s, amount, allocated, c))
      PROVE  Ordinary
  <2>1. Appended(NewPayment(s, amount, allocated, c))
    BY <1>1, AppendPayment
  <2>2. QED
    BY <1>0, <2>1 DEF Appended, Ordinary, Fixed, NewPayment
<1>2. CASE MovesRequest
  BY <1>2 DEF MovesRequest, Ordinary, Fixed
<1>3. CASE Allocates
  BY <1>0, <1>3, AllocatesKeeps DEF Ordinary
<1>4. QED
  BY <1>1, <1>2, <1>3 DEF Shapes, Pays, PaysByMpesa

LEMMA OrdinaryReversals ==
    ASSUME Ordinary, Reversals
    PROVE  Reversals'
<1>1. ASSUME NEW q \in DOMAIN payments',
             payments'[q].reverses # 0 \/ payments'[q].status = "REVERSED"
      PROVE  q \in DOMAIN payments
  BY <1>1 DEF Ordinary
<1>2. ASSUME NEW q \in DOMAIN payments
      PROVE  Fixed(q) /\ payments'[q].status = payments[q].status /\ q \in DOMAIN payments'
  BY DEF Ordinary
<1>3. ASSUME NEW q \in DOMAIN payments', payments'[q].reverses # 0
      PROVE  ReversesIt(q, payments[q].reverses)' /\ payments'[q].reverses = payments[q].reverses
  <2>1. q \in DOMAIN payments
    BY <1>1, <1>3
  <2>2. ReversesIt(q, payments[q].reverses)
    BY <1>2, <1>3, <2>1 DEF Reversals, Fixed
  <2>3. QED
    BY <1>2, <2>1, <2>2 DEF ReversesIt, Fixed
<1>4. ASSUME NEW q \in DOMAIN payments', NEW r \in DOMAIN payments',
             payments'[q].reverses # 0, payments'[q].reverses = payments'[r].reverses
      PROVE  q = r
  BY <1>1, <1>2, <1>4 DEF Reversals, Fixed
<1>5. ASSUME NEW p \in DOMAIN payments', payments'[p].status = "REVERSED"
      PROVE  \E q \in DOMAIN payments' : payments'[q].reverses = p
  BY <1>1, <1>2, <1>5 DEF Reversals, Fixed
<1>6. QED
  BY <1>3, <1>4, <1>5 DEF Reversals

LEMMA ReverseReversals ==
    ASSUME AccountsTyped, AccountsTyped', Reversals,
           NEW p \in DOMAIN payments, NEW payment \in PaymentRecords,
           ReversesOne(p, payment)
    PROVE  Reversals'
<1> DEFINE new == Len(payments) + 1
<1>1. /\ Len(payments) \in Nat /\ DOMAIN payments = 1..Len(payments)
      /\ DOMAIN payments' = 1..Len(payments')
  BY Lengths DEF AccountsTyped
<1>2. /\ DOMAIN payments' = DOMAIN payments \cup {new} /\ new \notin DOMAIN payments
      /\ p # 0
  <2>1. Len(payments') = new
    BY ReversesKeeps
  <2>2. QED
    BY <1>1, <2>1
<1>3. payments'[new] = Reversal(payment, p)
  BY ReversesKeeps
<1>4. ASSUME NEW q \in DOMAIN payments
      PROVE  /\ Fixed(q)
             /\ payments'[q].status = IF q = p THEN "REVERSED" ELSE payments[q].status
  BY ReversesKeeps
<1> HIDE DEF new
<1>5. /\ payments'[new].reverses = p /\ payments'[new].status = "COMPLETED"
      /\ payments'[new].sale = payments[p].sale
      /\ payments'[new].amount = payments[p].amount
      /\ payments'[new].direction = Opposite(payments[p].direction)
  <2>1. /\ payment.sale = payments[p].sale /\ payment.amount = payments[p].amount
        /\ payment.direction = payments[p].direction
    BY DEF ReversesOne
  <2>2. QED
    BY <1>3, <2>1 DEF Reversal
<1>6. \A q \in DOMAIN payments : payments[q].reverses # p
  BY DEF ReversesOne, Unreversed
<1>7. ASSUME NEW q \in DOMAIN payments', payments'[q].reverses # 0
      PROVE  ReversesIt(q, payments[q].reverses)'
  <2>1. CASE q = new
    BY <1>2, <1>4, <1>5, <2>1 DEF ReversesIt, Fixed
  <2>2. CASE q \in DOMAIN payments
    <3>1. ReversesIt(q, payments[q].reverses) /\ payments'[q].reverses = payments[q].reverses
      BY <1>4, <1>7, <2>2 DEF Reversals, Fixed
    <3>2. QED
      BY <1>2, <1>4, <2>2, <3>1 DEF ReversesIt, Fixed
  <2>3. QED
    BY <1>2, <2>1, <2>2
<1>8. ASSUME NEW q \in DOMAIN payments', NEW r \in DOMAIN payments',
             payments'[q].reverses # 0, payments'[q].reverses = payments'[r].reverses
      PROVE  q = r
  <2>1. \A x \in DOMAIN payments : payments'[x].reverses = payments[x].reverses
    BY <1>4 DEF Fixed
  <2>2. QED
    BY <1>2, <1>5, <1>6, <1>8, <2>1 DEF Reversals
<1>9. ASSUME NEW x \in DOMAIN payments', payments'[x].status = "REVERSED"
      PROVE  \E q \in DOMAIN payments' : payments'[q].reverses = x
  <2>1. x \in DOMAIN payments
    BY <1>2, <1>5, <1>9
  <2>2. CASE x = p
    BY <1>2, <1>5, <2>2
  <2>3. CASE x # p
    <3>1. PICK q \in DOMAIN payments : payments[q].reverses = x
      BY <1>4, <1>9, <2>1, <2>3 DEF Reversals
    <3>2. QED
      BY <1>2, <1>4, <3>1 DEF Fixed
  <2>4. QED
    BY <2>2, <2>3
<1>10. QED
  BY <1>7, <1>8, <1>9 DEF Reversals

\* Cardinality of the set of the positions that satisfy what at most one does.
LEMMA OneOrNone ==
    ASSUME NEW S, \A x, y \in S : x = y
    PROVE  Cardinality(S) = IF S = {} THEN 0 ELSE 1
<1>1. CASE S = {}
  BY <1>1, FS_EmptySet
<1>2. CASE S # {}
  <2>1. PICK x : S = {x}
    BY <1>2
  <2>2. QED
    BY <1>2, <2>1, FS_Singleton
<1>3. QED
  BY <1>1, <1>2

LEMMA ReversalsCount ==
    ASSUME AccountsTyped, Reversals
    PROVE  ReversedOnce
<1> SUFFICES ASSUME NEW p \in DOMAIN payments
    PROVE  LET reversals == {q \in DOMAIN payments : payments[q].reverses = p}
           IN  /\ Cardinality(reversals) = IF payments[p].status = "REVERSED" THEN 1 ELSE 0
               /\ \A q \in reversals :
                    /\ payments[q].sale = payments[p].sale
                    /\ Signed(q) = -Signed(p)
  BY DEF ReversedOnce
<1> DEFINE reversals == {q \in DOMAIN payments : payments[q].reverses = p}
<1>1. p # 0
  BY Lengths
<1>2. \A q \in reversals : ReversesIt(q, p)
  BY <1>1 DEF Reversals
<1>3. \A q, r \in reversals : q = r
  BY <1>1 DEF Reversals
<1>4. payments[p].status = "REVERSED" <=> reversals # {}
  BY <1>2 DEF Reversals, ReversesIt
<1>5. Cardinality(reversals) = IF payments[p].status = "REVERSED" THEN 1 ELSE 0
  <2> HIDE DEF reversals
  <2>1. QED
    BY <1>3, <1>4, OneOrNone
<1>6. ASSUME NEW q \in reversals
      PROVE  payments[q].sale = payments[p].sale /\ Signed(q) = -Signed(p)
  <2>1. ReversesIt(q, p)
    BY <1>2
  <2>2. payments[p].amount \in Int /\ payments[p].direction \in {"INCOMING", "OUTGOING"}
    <3>1. payments[p] \in PaymentRecords
      BY DEF AccountsTyped
    <3>2. payments[p].amount \in Amounts /\ payments[p].direction \in {"INCOMING", "OUTGOING"}
      BY <3>1 DEF PaymentRecords
    <3>3. \A n \in Amounts : n \in Int
      BY AmountsAssumption
    <3>4. QED
      BY <3>2, <3>3
  <2>3. QED
    BY <2>1, <2>2 DEF ReversesIt, Signed, Opposite
<1>7. QED
  BY <1>5, <1>6

\* However calls of reversePayment and of the other handlers overlap, a
\* payment is marked REVERSED exactly when one payment reverses it, and that
\* one has its sale, its amount and the other direction.
THEOREM PaymentsReversedOnce == Spec => []ReversedOnce
<1>1. Init => Reversals
  BY DEF Init, Reversals
<1>2. Typed /\ Reversals /\ [Next]_vars => Reversals'
  <2> SUFFICES ASSUME Typed, Reversals, [Next]_vars PROVE Reversals'
    OBVIOUS
  <2>1. AccountsTyped /\ AccountsTyped' /\ Shapes
    BY StepShape DEF Typed, TypeOK, AccountsTyped
  <2>2. QED
    BY <2>1, OrdinaryShapes, OrdinaryReversals, ReverseReversals
<1>3. Typed /\ Reversals => ReversedOnce
  <2>1. Typed => AccountsTyped
    BY DEF Typed, TypeOK, AccountsTyped
  <2>2. QED
    BY <2>1, ReversalsCount
<1>4. QED
  BY <1>1, <1>2, <1>3, TypedInit, TypedStep, PTL DEF Spec

-----------------------------------------------------------------------------
(***************************************************************************)
(* An M-Pesa request posts its amount once.                                *)
(***************************************************************************)
Posted ==
    /\ \A p \in DOMAIN payments : payments[p].checkout \in Checkouts =>
         /\ stk[payments[p].checkout].status = "SUCCESS"
         /\ payments[p].amount = stk[payments[p].checkout].amount
    /\ \A p, q \in DOMAIN payments :
         payments[p].checkout \in Checkouts /\ payments[p].checkout = payments[q].checkout
           => p = q
    /\ \A c \in Checkouts : stk[c].status = "SUCCESS" =>
         \E p \in DOMAIN payments : payments[p].checkout = c

\* A request that has succeeded stays as it is, no other one succeeds, and
\* no payment with a checkout is new.
NonePosted ==
    /\ \A p \in DOMAIN payments : p \in DOMAIN payments' /\ Fixed(p)
    /\ \A p \in DOMAIN payments' : p \in DOMAIN payments \/ payments'[p].checkout = "none"
    /\ \A c \in Checkouts :
         IF stk[c].status = "SUCCESS" THEN stk'[c] = stk[c] ELSE stk'[c].status # "SUCCESS"

LEMMA NonePostedKeeps ==
    ASSUME NonePosted, Posted
    PROVE  Posted'
<1>1. ASSUME NEW p \in DOMAIN payments', payments'[p].checkout \in Checkouts
      PROVE  p \in DOMAIN payments /\ Fixed(p)
  BY <1>1, CheckoutsAssumption DEF NonePosted
<1>2. ASSUME NEW p \in DOMAIN payments', payments'[p].checkout \in Checkouts
      PROVE  /\ stk'[payments'[p].checkout].status = "SUCCESS"
             /\ payments'[p].amount = stk'[payments'[p].checkout].amount
  <2>1. p \in DOMAIN payments /\ Fixed(p)
    BY <1>1, <1>2
  <2>2. QED
    BY <1>2, <2>1 DEF Posted, NonePosted, Fixed
<1>3. ASSUME NEW p \in DOMAIN payments', NEW q \in DOMAIN payments',
             payments'[p].checkout \in Checkouts,
             payments'[p].checkout = payments'[q].checkout
      PROVE  p = q
  BY <1>1, <1>3 DEF Posted, Fixed
<1>4. ASSUME NEW c \in Checkouts, stk'[c].status = "SUCCESS"
      PROVE  \E p \in DOMAIN payments' : payments'[p].checkout = c
  BY <1>4 DEF Posted, NonePosted, Fixed
<1>5. QED
  BY <1>2, <1>3, <1>4 DEF Posted

LEMMA MpesaPosted ==
    ASSUME AccountsTyped, AccountsTyped', NEW c \in Checkouts, PaysByMpesa(c), Posted
    PROVE  Posted'
<1> DEFINE new == Len(payments) + 1
<1>1. PICK s \in Sales, allocated \in Nat :
        payments' = Append(payments, NewPayment(s, stk[c].amount, allocated, c))
  BY DEF PaysByMpesa
<1>2. Appended(NewPayment(s, stk[c].amount, allocated, c))
  BY <1>1, AppendPayment
<1>3. DOMAIN payments' = DOMAIN payments \cup {new} /\ new \notin DOMAIN payments
  <2>1. DOMAIN payments' = 1..Len(payments')
    BY DEF AccountsTyped
  <2>2. QED
    BY <1>2, <2>1, Lengths DEF Appended
<1>4. payments'[new].checkout = c /\ payments'[new].amount = stk[c].amount
  BY <1>2 DEF Appended, NewPayment
<1>5. \A p \in DOMAIN payments : payments'[p] = payments[p]
  BY <1>2 DEF Appended
<1>6. /\ stk[c].status = "PENDING"
      /\ stk'[c].status = "SUCCESS" /\ stk'[c].amount = stk[c].amount
      /\ \A k \in Checkouts : k # c => stk'[k] = stk[k]
  BY DEF PaysByMpesa, Awaiting, SetStk, AccountsTyped
<1> HIDE DEF new
<1>7. \A p \in DOMAIN payments : payments[p].checkout # c
  BY <1>6 DEF Posted
<1>8. ASSUME NEW p \in DOMAIN payments', payments'[p].checkout \in Checkouts
      PROVE  /\ stk'[payments'[p].checkout].status = "SUCCESS"
             /\ payments'[p].amount = stk'[payments'[p].checkout].amount
  <2>1. CASE p = new
    BY <2>1, <1>4, <1>6
  <2>2. CASE p \in DOMAIN payments
    BY <2>2, <1>5, <1>6, <1>7, <1>8 DEF Posted
  <2>3. QED
    BY <1>3, <2>1, <2>2
<1>9. ASSUME NEW p \in DOMAIN payments', NEW q \in DOMAIN payments',
             payments'[p].checkout \in Checkouts,
             payments'[p].checkout = payments'[q].checkout
      PROVE  p = q
  BY <1>3, <1>4, <1>5, <1>7, <1>9 DEF Posted
<1>10. ASSUME NEW k \in Checkouts, stk'[k].status = "SUCCESS"
       PROVE  \E p \in DOMAIN payments' : payments'[p].checkout = k
  BY <1>3, <1>4, <1>5, <1>6, <1>10 DEF Posted
<1>11. QED
  BY <1>8, <1>9, <1>10 DEF Posted

LEMMA ShapesPosted ==
    ASSUME AccountsTyped, AccountsTyped', Shapes, Posted
    PROVE  Posted'
<1>1. /\ Len(payments) \in Nat /\ DOMAIN payments = 1..Len(payments)
      /\ DOMAIN payments' = 1..Len(payments')
  BY Lengths DEF AccountsTyped
<1>2. CASE Pays
  <2>1. PICK s \in Sales, amount \in Amounts, allocated \in Nat :
          payments' = Append(payments, NewPayment(s, amount, allocated, "none"))
    BY <1>2 DEF Pays
  <2>2. Appended(NewPayment(s, amount, allocated, "none")) /\ stk' = stk
    BY <1>2, <2>1, AppendPayment DEF Pays
  <2>3. NonePosted
    BY <1>1, <2>2 DEF Appended, NonePosted, Fixed, NewPayment
  <2>4. QED
    BY <2>3, NonePostedKeeps
<1>3. CASE \E c \in Checkouts : PaysByMpesa(c)
  BY <1>3, MpesaPosted
<1>4. CASE MovesRequest
  <2>1. NonePosted
    BY <1>4 DEF MovesRequest, NonePosted, Fixed, AccountsTyped
  <2>2. QED
    BY <2>1, NonePostedKeeps
<1>5. CASE Allocates
  <2>1. NonePosted
    BY <1>1, <1>5, AllocatesKeeps DEF NonePosted, Allocates
  <2>2. QED
    BY <2>1, NonePostedKeeps
<1>6. ASSUME NEW p \in DOMAIN payments, NEW payment \in PaymentRecords,
             ReversesOne(p, payment)
      PROVE  Posted'
  <2>1. stk' = stk
    BY <1>6 DEF ReversesOne
  <2>2. Reversal(payment, p).checkout = "none"
    BY DEF Reversal
  <2>3. NonePosted
    <3>1. /\ Len(payments') = Len(payments) + 1
          /\ payments'[Len(payments) + 1].checkout = "none"
          /\ \A q \in DOMAIN payments : Fixed(q)
      BY <1>6, <2>2, ReversesKeeps
    <3>2. \A q \in DOMAIN payments' : q \in DOMAIN payments \/ q = Len(payments) + 1
      BY <1>1, <3>1
    <3>3. \A q \in DOMAIN payments : q \in DOMAIN payments'
      BY <1>1, <3>1
    <3>4. \A c \in Checkouts : stk'[c] = stk[c]
      BY <2>1
    <3>5. QED
      BY <3>1, <3>2, <3>3, <3>4 DEF NonePosted
  <2>4. QED
    BY <2>3, NonePostedKeeps
<1>7. QED
  BY <1>2, <1>3, <1>4, <1>5, <1>6 DEF Shapes

LEMMA PostedCount == Posted => CheckoutPostsOnce
<1> SUFFICES ASSUME Posted, NEW c \in Checkouts
    PROVE  LET posted == {p \in DOMAIN payments : payments[p].checkout = c}
           IN  /\ Cardinality(posted) = IF stk[c].status = "SUCCESS" THEN 1 ELSE 0
               /\ \A p \in posted : payments[p].amount = stk[c].amount
  BY DEF CheckoutPostsOnce
<1> DEFINE posted == {p \in DOMAIN payments : payments[p].checkout = c}
<1>1. \A p \in posted : stk[c].status = "SUCCESS" /\ payments[p].amount = stk[c].amount
  BY DEF Posted
<1>2. \A p, q \in posted : p = q
  BY DEF Posted
<1>3. stk[c].status = "SUCCESS" <=> posted # {}
  BY <1>1 DEF Posted
<1>4. Cardinality(posted) = IF stk[c].status = "SUCCESS" THEN 1 ELSE 0
  <2> HIDE DEF posted
  <2>1. QED
    BY <1>2, <1>3, OneOrNone
<1>5. QED
  BY <1>1, <1>4

\* However callbacks of M-Pesa and payments overlap, a request whose status
\* is SUCCESS has posted exactly one payment, of the amount asked for, and a
\* request that is pending, failed or under review has posted none.
THEOREM PaymentsCheckoutOnce == Spec => []CheckoutPostsOnce
<1>1. Init => Posted
  BY DEF Init, Posted, NoRequest
<1>2. Typed /\ Posted /\ [Next]_vars => Posted'
  <2> SUFFICES ASSUME Typed, Posted, [Next]_vars PROVE Posted'
    OBVIOUS
  <2>1. AccountsTyped /\ AccountsTyped' /\ Shapes
    BY StepShape DEF Typed, TypeOK, AccountsTyped
  <2>2. QED
    BY <2>1, ShapesPosted
<1>3. QED
  BY <1>1, <1>2, PostedCount, TypedInit, TypedStep, PTL DEF Spec

-----------------------------------------------------------------------------
(***************************************************************************)
(* What the payments of a sale come to: their net, what came in and        *)
(* stands, and what of that is allocated to the invoice.                   *)
(***************************************************************************)
\* What a payment counts for in the net amount of sale s, in what was paid for
\* it and still stands, and in what was allocated of that.
SignedAmount(r) == IF r.direction = "INCOMING" THEN r.amount ELSE -r.amount
Stands(r) == r.direction = "INCOMING" /\ r.status = "COMPLETED"
InNet(s) == [r \in PaymentRecords |-> IF r.sale = s THEN SignedAmount(r) ELSE 0]
InPaid(s) == [r \in PaymentRecords |-> IF r.sale = s /\ Stands(r) THEN r.amount ELSE 0]
InAllotted(s) ==
    [r \in PaymentRecords |-> IF r.sale = s /\ Stands(r) THEN r.allocated ELSE 0]

NetOf(s) == SeqSum(InNet(s), payments)
PaidOf(s) == SeqSum(InPaid(s), payments)
AllottedOf(s) == SeqSum(InAllotted(s), payments)

LEMMA ValuesTyped ==
    ASSUME NEW s
    PROVE  /\ InNet(s) \in [PaymentRecords -> Int]
           /\ InPaid(s) \in [PaymentRecords -> Nat] /\ InPaid(s) \in [PaymentRecords -> Int]
           /\ InAllotted(s) \in [PaymentRecords -> Nat]
           /\ InAllotted(s) \in [PaymentRecords -> Int]
<1>1. \A r \in PaymentRecords : r.amount \in Nat /\ r.allocated \in Nat
  BY AmountsAssumption DEF PaymentRecords
<1>2. \A r \in PaymentRecords : SignedAmount(r) \in Int
  BY <1>1 DEF SignedAmount
<1>3. QED
  BY <1>1, <1>2 DEF InNet, InPaid, InAllotted

LEMMA SumsTyped ==
    ASSUME AccountsTyped, NEW s
    PROVE  NetOf(s) \in Int /\ PaidOf(s) \in Nat /\ AllottedOf(s) \in Nat
<1>1. payments \in Seq(PaymentRecords)
  BY DEF AccountsTyped
<1>2. QED
  BY <1>1, ValuesTyped, SeqSumInt, SeqSumNat DEF NetOf, PaidOf, AllottedOf

\* The sum over the payments of a sale is the sum over all of them, where the
\* others count for nothing.
LEMMA SumOfSale ==
    ASSUME AccountsTyped, NEW s, NEW f, NEW g \in [PaymentRecords -> Int],
           f = [p \in PaymentsOf(s) |-> g[payments[p]]],
           \A p \in DOMAIN payments \ PaymentsOf(s) : g[payments[p]] = 0
    PROVE  SumFunction(f) = SeqSum(g, payments)
<1> DEFINE h == OverSeq(g, payments)
           S == DOMAIN payments
           R == PaymentsOf(s)
<1>1. payments \in Seq(PaymentRecords)
  BY DEF AccountsTyped
<1>2. IsFiniteSet(S) /\ h \in [S -> Int] /\ R \subseteq S
  BY <1>1, SequenceDomain, SeqSumInt DEF PaymentsOf
<1>3. \A p \in S : h[p] = g[payments[p]]
  BY DEF OverSeq
<1>4. IsFiniteSet(R)
  BY <1>2, FS_Subset
<1>5. DOMAIN f = R /\ \A p \in R : f[p] = h[p]
  BY <1>2, <1>3
<1>6. \A p \in S \ R : h[p] = 0
  BY <1>3
<1> HIDE DEF h, S, R
<1>7. SumFunctionOnSet(f, R) = SumFunctionOnSet(h, R)
  BY <1>4, <1>5, SumSame
<1>8. SumFunctionOnSet(h, S) = SumFunctionOnSet(h, R)
  BY <1>2, <1>6, SumSupport
<1>9. SumFunction(f) = SumFunctionOnSet(f, R) /\ SumFunction(h) = SumFunctionOnSet(h, S)
  BY <1>2, <1>5 DEF SumFunction
<1>10. QED
  BY <1>7, <1>8, <1>9 DEF SeqSum, h

LEMMA NetIs ==
    ASSUME AccountsTyped, NEW s
    PROVE  Net(s) = NetOf(s)
<1> DEFINE f == [p \in PaymentsOf(s) |-> Signed(p)]
<1>1. \A p \in DOMAIN payments : payments[p] \in PaymentRecords
  BY SequenceDomain DEF AccountsTyped
<1>2. f = [p \in PaymentsOf(s) |-> InNet(s)[payments[p]]]
  BY <1>1 DEF PaymentsOf, Signed, SignedAmount, InNet
<1>3. \A p \in DOMAIN payments \ PaymentsOf(s) : InNet(s)[payments[p]] = 0
  BY <1>1 DEF PaymentsOf, InNet
<1> HIDE DEF f
<1>4. SumFunction(f) = SeqSum(InNet(s), payments)
  BY <1>2, <1>3, ValuesTyped, SumOfSale
<1>5. QED
  BY <1>4 DEF Net, NetOf, f

-----------------------------------------------------------------------------
\* The three sums of sale t change by n, a and l.
By(t, n, a, l) ==
    /\ NetOf(t)' = NetOf(t) + n /\ PaidOf(t)' = PaidOf(t) + a
    /\ AllottedOf(t)' = AllottedOf(t) + l
Same(t) ==
    /\ NetOf(t)' = NetOf(t) /\ PaidOf(t)' = PaidOf(t) /\ AllottedOf(t)' = AllottedOf(t)

\* A payment is added, or changes.
LEMMA ListAppend ==
    ASSUME NEW q \in Seq(PaymentRecords), NEW r \in PaymentRecords, NEW p, p = Append(q, r),
           NEW g \in [PaymentRecords -> Int]
    PROVE  p \in Seq(PaymentRecords) /\ SeqSum(g, p) = SeqSum(g, q) + g[r]
<1>1. PICK n : n = Len(q) + 1
  OBVIOUS
<1>2. /\ p \in Seq(PaymentRecords) /\ DOMAIN p = DOMAIN q \cup {n} /\ n \notin DOMAIN q
      /\ p[n] = r /\ \A i \in DOMAIN q : p[i] = q[i]
  BY <1>1, SequenceAppend
<1>3. Extended(PaymentRecords, q, p, n) /\ g \in [PaymentRecords -> Int]
  BY <1>2 DEF Extended
<1>4. SeqSum(g, p) = SeqSum(g, q) + g[p[n]]
  BY ONLY <1>3, SeqSumAppend
<1>5. QED
  BY <1>2, <1>4

LEMMA ListSet ==
    ASSUME NEW q \in Seq(PaymentRecords), NEW r \in PaymentRecords, NEW k \in DOMAIN q,
           NEW p, p = [q EXCEPT ![k] = r], NEW g \in [PaymentRecords -> Int]
    PROVE  p \in Seq(PaymentRecords) /\ SeqSum(g, p) = SeqSum(g, q) + (g[r] - g[q[k]])
<1>2. /\ p \in Seq(PaymentRecords) /\ DOMAIN p = DOMAIN q
      /\ p[k] = r /\ \A i \in DOMAIN q \ {k} : p[i] = q[i]
  BY SequenceSet
<1>3. Replaced(PaymentRecords, q, p, k) /\ g \in [PaymentRecords -> Int]
  BY <1>2 DEF Replaced
<1>4. SeqSum(g, p) = SeqSum(g, q) + (g[p[k]] - g[q[k]])
  BY ONLY <1>3, SeqSumSet
<1>5. QED
  BY <1>2, <1>4

\* A payment comes in.
LEMMA PaymentIn ==
    ASSUME AccountsTyped, NEW s \in Sales, NEW amount \in Amounts, NEW l \in Nat,
           NEW c \in Checkouts \cup {"none"},
           payments' = Append(payments, NewPayment(s, amount, l, c))
    PROVE  By(s, amount, amount, l) /\ \A t \in Sales \ {s} : Same(t)
<1> DEFINE r == NewPayment(s, amount, l, c)
<1>1. payments \in Seq(PaymentRecords) /\ r \in PaymentRecords
  BY NewPaymentType DEF AccountsTyped
<1>2. r.sale = s /\ r.amount = amount /\ r.direction = "INCOMING" /\ r.status = "COMPLETED"
      /\ r.allocated = l
  BY DEF NewPayment
<1>3. InNet(s)[r] = amount /\ InPaid(s)[r] = amount /\ InAllotted(s)[r] = l
      /\ \A t \in Sales \ {s} :
           InNet(t)[r] = 0 /\ InPaid(t)[r] = 0 /\ InAllotted(t)[r] = 0
  BY <1>1, <1>2 DEF InNet, InPaid, InAllotted, Stands, SignedAmount
<1>4. PICK q, p : q = payments /\ p = payments' /\ p = Append(q, r)
  OBVIOUS
<1> HIDE DEF r
<1>5. ASSUME NEW t
      PROVE  By(t, InNet(t)[r], InPaid(t)[r], InAllotted(t)[r])
  <2>1. q \in Seq(PaymentRecords) /\ r \in PaymentRecords /\ p = Append(q, r)
    BY <1>1, <1>4
  <2>2. PICK f, g, h : f = InNet(t) /\ g = InPaid(t) /\ h = InAllotted(t)
    OBVIOUS
  <2>4. /\ f \in [PaymentRecords -> Int] /\ g \in [PaymentRecords -> Int]
        /\ h \in [PaymentRecords -> Int]
    BY <2>2, ValuesTyped
  <2>5. /\ SeqSum(f, p) = SeqSum(f, q) + f[r] /\ SeqSum(g, p) = SeqSum(g, q) + g[r]
        /\ SeqSum(h, p) = SeqSum(h, q) + h[r]
    BY ONLY <2>1, <2>4, ListAppend
  <2>3. QED
    BY <1>4, <2>2, <2>5 DEF By, NetOf, PaidOf, AllottedOf
<1>6. By(s, amount, amount, l)
  BY <1>3, <1>5
<1>7. ASSUME NEW t \in Sales \ {s} PROVE Same(t)
  <2>1. By(t, 0, 0, 0)
    BY <1>3, <1>5
  <2>2. NetOf(t) \in Int /\ PaidOf(t) \in Nat /\ AllottedOf(t) \in Nat
    BY SumsTyped
  <2>3. QED
    BY <2>1, <2>2 DEF By, Same
<1>8. QED
  BY <1>6, <1>7

\* A payment that came in and stands is reversed.
LEMMA PaymentBack ==
    ASSUME AccountsTyped, NEW p \in DOMAIN payments, NEW payment \in PaymentRecords,
           ReversesOne(p, payment), payments[p].direction = "INCOMING",
           payments[p].status = "COMPLETED"
    PROVE  /\ By(payments[p].sale, -payments[p].amount, -payments[p].amount,
                 -payments[p].allocated)
           /\ \A t \in Sales \ {payments[p].sale} : Same(t)
<1> DEFINE a == payments[p]
           u == Undone(a)
           r == Reversal(payment, p)
           list == [payments EXCEPT ![p] = u]
<1>1. payments \in Seq(PaymentRecords)
  BY DEF AccountsTyped
<1>2. a \in PaymentRecords
  BY <1>1, SequenceDomain
<1>3. u \in PaymentRecords /\ a.amount \in Nat /\ a.allocated \in Nat
  BY <1>2, AmountsAssumption, MarkedType DEF Undone, PaymentRecords
<1>4. r \in PaymentRecords
  <2>1. p \in 0..MaxPayments
    BY <1>1, BoundAssumption DEF AccountsTyped
  <2>2. QED
    BY <2>1, ReversalType
<1>5. payments' = Append(list, r) /\ list = [payments EXCEPT ![p] = u]
  BY DEF ReversesOne
<1>6. /\ u.sale = a.sale /\ u.amount = a.amount /\ u.direction = "INCOMING"
      /\ u.status = "REVERSED"
      /\ r.sale = a.sale /\ r.amount = a.amount /\ r.direction = "OUTGOING"
  BY DEF Undone, Marked, Reversal, Opposite, ReversesOne
<1>7. ASSUME NEW t
      PROVE  /\ InNet(t)[u] = InNet(t)[a] /\ InPaid(t)[u] = 0 /\ InAllotted(t)[u] = 0
             /\ InPaid(t)[r] = 0 /\ InAllotted(t)[r] = 0
             /\ t = a.sale => /\ InNet(t)[a] = a.amount /\ InPaid(t)[a] = a.amount
                              /\ InAllotted(t)[a] = a.allocated /\ InNet(t)[r] = -a.amount
             /\ t # a.sale => /\ InNet(t)[a] = 0 /\ InPaid(t)[a] = 0
                              /\ InAllotted(t)[a] = 0 /\ InNet(t)[r] = 0
  BY <1>2, <1>3, <1>4, <1>6 DEF InNet, InPaid, InAllotted, Stands, SignedAmount
<1>8. PICK q0, q1, q2 : q0 = payments /\ q1 = list /\ q2 = payments'
  OBVIOUS
<1>9. q0 \in Seq(PaymentRecords) /\ u \in PaymentRecords /\ r \in PaymentRecords
      /\ p \in DOMAIN q0 /\ q1 = [q0 EXCEPT ![p] = u] /\ q2 = Append(q1, r) /\ a = q0[p]
  BY <1>1, <1>3, <1>4, <1>5, <1>8
<1> HIDE DEF a, u, r, list
<1>10. ASSUME NEW g \in [PaymentRecords -> Int]
       PROVE  SeqSum(g, q2) = SeqSum(g, q0) + (g[u] - g[a]) + g[r]
  <2>1. q1 \in Seq(PaymentRecords) /\ SeqSum(g, q1) = SeqSum(g, q0) + (g[u] - g[q0[p]])
    BY ONLY ZenonT(60), <1>9, <1>10, ListSet
  <2>2. SeqSum(g, q2) = SeqSum(g, q1) + g[r]
    BY ONLY <1>9, <1>10, <2>1, ListAppend
  <2>3. QED
    BY ONLY <1>9, <2>1, <2>2
<1>11. ASSUME NEW t
       PROVE  /\ NetOf(t)' = NetOf(t) + (InNet(t)[u] - InNet(t)[a]) + InNet(t)[r]
              /\ PaidOf(t)' = PaidOf(t) + (InPaid(t)[u] - InPaid(t)[a]) + InPaid(t)[r]
              /\ AllottedOf(t)' = AllottedOf(t) + (InAllotted(t)[u] - InAllotted(t)[a])
                                     + InAllotted(t)[r]
              /\ NetOf(t) \in Int /\ PaidOf(t) \in Int /\ AllottedOf(t) \in Int
  <2>1. PICK f, g, h : f = InNet(t) /\ g = InPaid(t) /\ h = InAllotted(t)
    OBVIOUS
  <2>2. /\ f \in [PaymentRecords -> Int] /\ g \in [PaymentRecords -> Int]
        /\ h \in [PaymentRecords -> Int]
    BY <2>1, ValuesTyped
  <2>3. /\ SeqSum(f, q2) = SeqSum(f, q0) + (f[u] - f[a]) + f[r]
        /\ SeqSum(g, q2) = SeqSum(g, q0) + (g[u] - g[a]) + g[r]
        /\ SeqSum(h, q2) = SeqSum(h, q0) + (h[u] - h[a]) + h[r]
    BY <1>10, <2>2
  <2>4. QED
    BY <1>8, <2>1, <2>3, SumsTyped DEF NetOf, PaidOf, AllottedOf
<1>12. By(a.sale, -a.amount, -a.amount, -a.allocated)
  <2>1. PICK t, x, l : t = a.sale /\ x = a.amount /\ l = a.allocated
    OBVIOUS
  <2>2. /\ InNet(t)[u] = x /\ InNet(t)[a] = x /\ InNet(t)[r] = -x
        /\ InPaid(t)[u] = 0 /\ InPaid(t)[a] = x /\ InPaid(t)[r] = 0
        /\ InAllotted(t)[u] = 0 /\ InAllotted(t)[a] = l /\ InAllotted(t)[r] = 0
        /\ x \in Nat /\ l \in Nat
    BY <1>3, <1>7, <2>1
  <2>3. /\ NetOf(t)' = NetOf(t) + (x - x) + (-x) /\ PaidOf(t)' = PaidOf(t) + (0 - x) + 0
        /\ AllottedOf(t)' = AllottedOf(t) + (0 - l) + 0
        /\ NetOf(t) \in Int /\ PaidOf(t) \in Int /\ AllottedOf(t) \in Int
    BY <1>11, <2>2
  <2>4. By(t, -x, -x, -l)
    BY <2>2, <2>3 DEF By
  <2>5. QED
    BY <2>1, <2>4
<1>13. \A t \in Sales \ {a.sale} : Same(t)
  BY <1>3, <1>7, <1>10, <1>11 DEF Same
<1>14. QED
  BY <1>12, <1>13 DEF a

-----------------------------------------------------------------------------
(***************************************************************************)
(* What a handler does to the sums, where it acts on what it reads now     *)
(* and where it was overtaken.                                             *)
(***************************************************************************)
LEMMA SetSalePaid ==
    ASSUME AccountsTyped, NEW s \in Sales, NEW paid, NEW due, SetSale(s, paid, due)
    PROVE  sale'[s].paid = paid /\ \A t \in Sales \ {s} : sale'[t] = sale[t]
BY DEF AccountsTyped, SetSale

LEMMA SetInvoicePaid ==
    ASSUME AccountsTyped, NEW s \in Sales, NEW paid, NEW due, NEW status,
           SetInvoice(s, paid, due, status)
    PROVE  invoice'[s].paid = paid /\ \A t \in Sales \ {s} : invoice'[t] = invoice[t]
BY DEF AccountsTyped, SetInvoice

\* The accounts change by a and l for sale s only.
Credits(s, a, l) ==
    /\ sale'[s].paid = sale[s].paid + a /\ invoice'[s].paid = invoice[s].paid + l
    /\ \A t \in Sales \ {s} :
         sale'[t].paid = sale[t].paid /\ invoice'[t].paid = invoice[t].paid

\* A payment comes in, and with what was read still in place it is credited.
Enters(fresh) ==
    \E s \in Sales, amount \in Amounts, l \in Nat, c \in Checkouts \cup {"none"} :
      /\ l <= amount
      /\ payments' = Append(payments, NewPayment(s, amount, l, c))
      /\ Owe(-amount) /\ writtenOff' = writtenOff
      /\ fresh => Credits(s, amount, l)

LEMMA CounterEnters ==
    ASSUME AccountsTyped, NEW s \in Sales, NEW read,
           read.sale \in SaleRecords, read.invoice \in InvoiceRecords,
           PaySale(s, read) \/ RecordOnInvoice(s, read) \/ PayInvoice(s, read)
    PROVE  Enters(read.sale = sale[s] /\ read.invoice = invoice[s])
<1> DEFINE fresh == read.sale = sale[s] /\ read.invoice = invoice[s]
<1>1. \A t \in Sales : sale[t].paid \in Nat /\ invoice[t].paid \in Nat
  BY DEF AccountsTyped, SaleRecords, InvoiceRecords
<1>2. \A amount \in Amounts : amount \in Nat
  BY AmountsAssumption
<1>3. CASE PaySale(s, read)
  <2>1. PICK amount, due : /\ amount \in Amounts
                           /\ SetSale(s, read.sale.paid + amount, due)
                           /\ payments' = Append(payments, NewPayment(s, amount, 0, "none"))
                           /\ Owe(-amount)
    BY <1>3 DEF PaySale, Post
  <2>2. invoice' = invoice /\ writtenOff' = writtenOff
    BY <1>3 DEF PaySale
  <2>3. ASSUME fresh PROVE Credits(s, amount, 0)
    <3>1. sale'[s].paid = sale[s].paid + amount
          /\ \A t \in Sales \ {s} : sale'[t] = sale[t]
      BY <2>1, <2>3, SetSalePaid
    <3>2. invoice'[s].paid = invoice[s].paid + 0
      BY <1>1, <2>2
    <3>3. QED
      BY <2>2, <3>1, <3>2 DEF Credits
  <2>4. 0 \in Nat /\ 0 <= amount /\ "none" \in Checkouts \cup {"none"}
    BY <1>2, <2>1
  <2>5. QED
    BY <2>1, <2>2, <2>3, <2>4 DEF Enters
<1>4. CASE RecordOnInvoice(s, read) \/ PayInvoice(s, read)
  <2>1. PICK amount, due, owed, status :
          /\ amount \in Amounts
          /\ SetSale(s, read.sale.paid + amount, due)
          /\ SetInvoice(s, read.invoice.paid + amount, owed, status)
          /\ payments' = Append(payments, NewPayment(s, amount, amount, "none"))
          /\ Owe(-amount)
    BY <1>4 DEF RecordOnInvoice, PayInvoice, Post
  <2>2. writtenOff' = writtenOff
    BY <1>4 DEF RecordOnInvoice, PayInvoice
  <2>3. ASSUME fresh PROVE Credits(s, amount, amount)
    BY <2>1, <2>3, SetSalePaid, SetInvoicePaid DEF Credits
  <2>4. amount \in Nat /\ amount <= amount /\ "none" \in Checkouts \cup {"none"}
    BY <1>2, <2>1
  <2>5. QED
    BY <2>1, <2>2, <2>3, <2>4 DEF Enters
<1>5. QED
  BY <1>3, <1>4

\* Nothing is posted and nothing paid changes.
PaidStays ==
    \A t \in Sales : sale'[t].paid = sale[t].paid /\ invoice'[t].paid = invoice[t].paid
Keeps == payments' = payments /\ UNCHANGED <<balance, writtenOff>> /\ PaidStays

LEMMA CallbackEnters ==
    ASSUME AccountsTyped, NEW c \in Checkouts, NEW read, read.sale \in SaleRecords,
           MpesaCallback(c, read)
    PROVE  Enters(read.sale = sale[stk[c].sale]) \/ Keeps
<1>1. Awaiting(c) /\ stk[c].sale \in Sales /\ stk[c].amount \in Amounts
      /\ writtenOff' = writtenOff
  BY MadeRequest DEF MpesaCallback, Awaiting
<1>2. CASE UNCHANGED <<sale, invoice, payments, balance>>
  BY <1>1, <1>2 DEF Keeps, PaidStays
<1>3. CASE RecordVerifiedMpesaPayment(c, stk[c].sale, read)
  <2> DEFINE s == stk[c].sale
             amount == stk[c].amount
             open == invoice[s].status \notin {"NONE", "VOIDED"} /\ invoice[s].due > 0
             l == IF open THEN Min({amount, invoice[s].due}) ELSE 0
             due == invoice[s].due - l
  <2>1. /\ SetSale(s, read.sale.paid + amount, Unpaid(s, read.sale.paid + amount))
        /\ payments' = Append(payments, NewPayment(s, amount, l, c))
        /\ IF open
             THEN SetInvoice(s, invoice[s].paid + l, due, PaidStatus(due))
             ELSE UNCHANGED invoice
        /\ Owe(-amount)
    BY <1>3 DEF RecordVerifiedMpesaPayment, Post
  <2>2. amount \in Nat /\ invoice[s].due \in Int /\ invoice[s].paid \in Nat /\ s \in Sales
        /\ amount \in Amounts
    BY <1>1, AmountsAssumption DEF AccountsTyped, InvoiceRecords
  <2>3. l \in Nat /\ l <= amount
    <3>1. CASE open
      <4>1. invoice[s].due > 0 /\ invoice[s].due \in Int /\ amount \in Nat
        BY <2>2, <3>1
      <4>2. \A x, y \in Nat : Min({x, y}) \in Nat /\ Min({x, y}) <= x
        <5> SUFFICES ASSUME NEW x \in Nat, NEW y \in Nat
                     PROVE  Min({x, y}) \in Nat /\ Min({x, y}) <= x
          OBVIOUS
        <5>1. \E m \in {x, y} : \A z \in {x, y} : m <= z
          OBVIOUS
        <5>2. Min({x, y}) \in {x, y} /\ \A z \in {x, y} : Min({x, y}) <= z
          BY <5>1 DEF Min
        <5>3. QED
          BY <5>2
      <4>3. invoice[s].due \in Nat
        BY <4>1
      <4>4. QED
        BY <3>1, <4>1, <4>2, <4>3
    <3>2. CASE ~open
      BY <2>2, <3>2
    <3>3. QED
      BY <3>1, <3>2
  <2> HIDE DEF l, open, due, s, amount
  <2>4. invoice'[s].paid = invoice[s].paid + l
        /\ \A t \in Sales \ {s} : invoice'[t] = invoice[t]
    <3>1. CASE open
      BY <2>1, <2>2, <3>1, SetInvoicePaid
    <3>2. CASE ~open
      <4>1. l = 0 /\ invoice' = invoice
        BY <2>1, <3>2 DEF l
      <4>2. QED
        BY <2>2, <4>1
    <3>3. QED
      BY <3>1, <3>2
  <2>5. sale'[s].paid = read.sale.paid + amount /\ \A t \in Sales \ {s} : sale'[t] = sale[t]
    BY <2>1, <2>2, SetSalePaid
  <2>6. read.sale = sale[s] => Credits(s, amount, l)
    BY <2>4, <2>5 DEF Credits
  <2>7. Enters(read.sale = sale[s])
    BY <1>1, <2>1, <2>2, <2>3, <2>6 DEF Enters
  <2>8. QED
    BY <2>7 DEF s
<1>4. QED
  BY <1>2, <1>3 DEF MpesaCallback

\* What is due of a VOIDED sale is written off, at most once.
WritesOff ==
    \E s \in Sales, due \in Nat :
      /\ writtenOff[s] = 0 /\ writtenOff' = [writtenOff EXCEPT ![s] = due]
      /\ Owe(-due) /\ payments' = payments /\ PaidStays

LEMMA VoidWritesOff ==
    ASSUME AccountsTyped, NEW s \in Sales, NEW read, read.sale \in SaleRecords,
           Void(s, read)
    PROVE  Keeps \/ WritesOff
<1>1. payments' = payments
  BY DEF Void
<1>2. PaidStays
  <2>1. \A t \in Sales : sale'[t].paid = sale[t].paid
    BY DEF Void, AccountsTyped
  <2>2. \A t \in Sales : invoice'[t].paid = invoice[t].paid
    <3>1. CASE invoice[s].status = "NONE"
      BY <3>1 DEF Void
    <3>2. CASE invoice[s].status # "NONE"
      BY <3>2, SetInvoicePaid DEF Void
    <3>3. QED
      BY <3>1, <3>2
  <2>3. QED
    BY <2>1, <2>2 DEF PaidStays
<1>3. CASE read.sale.due > 0 /\ HasNoEntry(s)
  <2>1. read.sale.due \in Nat
    BY <1>3 DEF SaleRecords
  <2>2. writtenOff[s] = 0 /\ Owe(-read.sale.due)
        /\ writtenOff' = [writtenOff EXCEPT ![s] = read.sale.due]
    BY <1>3 DEF Void, HasNoEntry
  <2>3. QED
    BY <1>1, <1>2, <2>1, <2>2 DEF WritesOff
<1>4. CASE ~(read.sale.due > 0 /\ HasNoEntry(s))
  <2>1. UNCHANGED <<balance, writtenOff>>
    BY <1>4 DEF Void
  <2>2. QED
    BY <1>1, <1>2, <2>1 DEF Keeps
<1>5. QED
  BY <1>3, <1>4

\* A payment is undone, and with what was read still in place it stood.
Backs(p, payment, fresh) ==
    /\ ReversesOne(p, payment) /\ Owe(payments[p].amount) /\ writtenOff' = writtenOff
    /\ LET s == payments[p].sale
       IN  fresh =>
             /\ payments[p].status = "COMPLETED"
             /\ sale'[s].paid = NonNegative(sale[s].paid - payments[p].amount)
             /\ payments[p].allocated > 0 =>
                  invoice'[s].paid = NonNegative(invoice[s].paid - payments[p].allocated)
             /\ payments[p].allocated = 0 => invoice'[s].paid = invoice[s].paid
             /\ \A t \in Sales \ {s} :
                  sale'[t].paid = sale[t].paid /\ invoice'[t].paid = invoice[t].paid

LEMMA ReverseBacks ==
    ASSUME AccountsTyped, NEW p \in DOMAIN payments, NEW read,
           read.payment \in PaymentRecords,
           read.payment.sale = payments[p].sale,
           read.payment.amount = payments[p].amount,
           read.payment.direction = payments[p].direction,
           Reverse(p, read)
    PROVE  Backs(p, read.payment, read.payment = payments[p])
<1> DEFINE s == read.payment.sale
           l == read.payment.allocated
<1>1. ReversesOne(p, read.payment)
  BY ReverseStep
<1>2. /\ read.payment.status = "COMPLETED"
      /\ SetSale(s, NonNegative(sale[s].paid - read.payment.amount),
                 Total[s] - NonNegative(sale[s].paid - read.payment.amount))
      /\ Owe(read.payment.amount) /\ writtenOff' = writtenOff
      /\ l > 0 => \E due, status :
                    SetInvoice(s, NonNegative(invoice[s].paid - l), due, status)
      /\ ~(l > 0) => invoice' = invoice
  BY DEF Reverse
<1>3. s \in Sales /\ l \in Nat
  BY DEF PaymentRecords
<1>4. /\ sale'[s].paid = NonNegative(sale[s].paid - read.payment.amount)
      /\ \A t \in Sales \ {s} : sale'[t] = sale[t]
  BY <1>2, <1>3, SetSalePaid
<1>5. /\ l > 0 => invoice'[s].paid = NonNegative(invoice[s].paid - l)
      /\ l = 0 => invoice'[s].paid = invoice[s].paid
      /\ \A t \in Sales \ {s} : invoice'[t] = invoice[t]
  <2>1. CASE l > 0
    BY <1>2, <1>3, <2>1, SetInvoicePaid
  <2>2. CASE ~(l > 0)
    BY <1>2, <2>2
  <2>3. QED
    BY <2>1, <2>2
<1>6. QED
  BY <1>1, <1>2, <1>4, <1>5 DEF Backs

\* The sale's payments that stand are allocated to its invoice.
Generates ==
    \E s \in Sales :
      /\ UNCHANGED <<sale, balance, writtenOff>>
      /\ invoice'[s].paid = sale[s].paid /\ \A t \in Sales \ {s} : invoice'[t] = invoice[t]
      /\ payments' = [p \in DOMAIN payments |->
           IF payments[p].sale = s /\ payments[p].status = "COMPLETED"
             THEN Marked(payments[p], "COMPLETED", payments[p].amount)
             ELSE payments[p]]

LEMMA InvoiceGenerates ==
    ASSUME AccountsTyped, NEW s \in Sales, GenerateInvoice(s)
    PROVE  Generates
<1>1. invoice'[s].paid = sale[s].paid /\ \A t \in Sales \ {s} : invoice'[t] = invoice[t]
  BY SetInvoicePaid DEF GenerateInvoice
<1>2. QED
  BY <1>1 DEF GenerateInvoice, Generates

-----------------------------------------------------------------------------
\* What a handler does to the accounts, fresh or not.
Effect(fresh) ==
    \/ Enters(fresh) \/ Keeps \/ WritesOff
    \/ \E p \in DOMAIN payments, payment \in PaymentRecords : Backs(p, payment, fresh)

LEMMA HandleEffect ==
    ASSUME AccountsTyped, NEW c, NEW read, ReadTyped(c, read), Handle(c, read)
    PROVE  Effect(read = Read(c))
<1>1. CASE c.op \in {"paySale", "recordOnInvoice", "payInvoice"}
  <2>1. c.on \in Sales /\ read.sale \in SaleRecords /\ read.invoice \in InvoiceRecords
    BY <1>1 DEF ReadTyped
  <2>2. Enters(read.sale = sale[c.on] /\ read.invoice = invoice[c.on])
    BY <1>1, <2>1, CounterEnters DEF Handle
  <2>3. read = Read(c) => read.sale = sale[c.on] /\ read.invoice = invoice[c.on]
    BY <1>1 DEF Read
  <2>4. QED
    BY <2>2, <2>3 DEF Enters, Effect
<1>2. CASE c.op = "void"
  BY <1>2, VoidWritesOff DEF Handle, ReadTyped, Effect
<1>3. CASE c.op = "callback"
  <2>1. c.on \in Checkouts /\ read.sale \in SaleRecords
    BY <1>3 DEF ReadTyped
  <2>2. Enters(read.sale = sale[stk[c.on].sale]) \/ Keeps
    BY <1>3, <2>1, CallbackEnters DEF Handle
  <2>3. read = Read(c) => read.sale = sale[stk[c.on].sale]
    BY <1>3 DEF Read
  <2>4. QED
    BY <2>2, <2>3 DEF Enters, Effect
<1>4. CASE c.op = "reverse"
  <2>1. /\ c.on \in DOMAIN payments /\ read.payment \in PaymentRecords
        /\ Backs(c.on, read.payment, read.payment = payments[c.on])
    BY <1>4, ReverseBacks DEF Handle, ReadTyped
  <2>2. read = Read(c) => read.payment = payments[c.on]
    BY <1>4 DEF Read
  <2>3. Backs(c.on, read.payment, read = Read(c))
    BY <2>1, <2>2 DEF Backs
  <2>4. QED
    BY <2>1, <2>3 DEF Effect
<1>5. QED
  BY <1>1, <1>2, <1>3, <1>4 DEF ReadTyped

\* Every step: unless it makes overtaken true, it acts on what it reads now.
LEMMA StepEffect ==
    ASSUME Typed, [Next]_vars
    PROVE  /\ Generates \/ Effect(~overtaken')
           /\ ~overtaken' => ~overtaken
<1>1. AccountsTyped
  BY DEF Typed, TypeOK, AccountsTyped
<1>2. CASE Alone
  <2>1. overtaken' = overtaken
    BY <1>2 DEF Alone
  <2>2. CASE \E c \in Calls : Handle(c, Read(c))
    <3>1. PICK c \in Calls : Handle(c, Read(c))
      BY <2>2
    <3>2. PICK read : read = Read(c)
      OBVIOUS
    <3>3. ReadTyped(c, read) /\ Handle(c, read)
      BY <1>1, <3>1, <3>2, ReadType
    <3>4. Effect(read = Read(c))
      BY <1>1, <3>3, HandleEffect
    <3>5. QED
      BY <2>1, <3>2, <3>4 DEF Effect, Enters, Backs
  <2>3. CASE \E s \in Sales : GenerateInvoice(s)
    BY <1>1, <2>1, <2>3, InvoiceGenerates
  <2>4. CASE \E c \in Checkouts, s \in Sales : InitiateStkPush(c, s)
    BY <2>1, <2>4 DEF InitiateStkPush, Effect, Keeps, PaidStays
  <2>5. QED
    BY <1>2, <2>2, <2>3, <2>4 DEF Alone
<1>3. CASE UNCHANGED <<accounts, overtaken>>
  BY <1>3 DEF accounts, Effect, Keeps, PaidStays
<1>4. CASE Resume /\ Handle(slow.call, slow.read)
           /\ overtaken' = (overtaken \/ slow.read # Read(slow.call))
  <2>1. PICK c, read : c = slow.call /\ read = slow.read
    OBVIOUS
  <2>2. ReadTyped(c, read) /\ Handle(c, read)
    BY <1>4, <2>1 DEF Resume, Typed, SlowTyped
  <2>3. Effect(read = Read(c))
    BY <1>1, <2>2, HandleEffect
  <2>4. ~overtaken' => read = Read(c) /\ ~overtaken
    BY <1>4, <2>1
  <2>5. QED
    BY <2>3, <2>4 DEF Effect, Enters, Backs
<1>5. QED
  BY <1>2, <1>3, <1>4 DEF Next, Pause, Resume, vars

-----------------------------------------------------------------------------
(***************************************************************************)
(* What is paid is posted.                                                 *)
(***************************************************************************)
\* A payment is allocated at most its amount, and none of it once it is
\* REVERSED.
Sound ==
    \A p \in DOMAIN payments :
      /\ payments[p].allocated <= payments[p].amount
      /\ payments[p].status = "REVERSED" => payments[p].allocated = 0

\* The accounts of sale t are what its payments come to.
Agree(t) ==
    /\ sale[t].paid = PaidOf(t) /\ NetOf(t) = PaidOf(t)
    /\ invoice[t].paid = AllottedOf(t)

Books ==
    /\ Reversals /\ Sound
    /\ ~overtaken /\ ~ReversalReversed => \A t \in Sales : Agree(t)

\* Payment p of the sequence, in both states.
LEMMA PaymentKept ==
    ASSUME AccountsTyped, NEW r \in PaymentRecords, payments' = Append(payments, r)
    PROVE  /\ DOMAIN payments' = DOMAIN payments \cup {Len(payments) + 1}
           /\ \A p \in DOMAIN payments : payments'[p] = payments[p]
           /\ payments'[Len(payments) + 1] = r
<1>1. payments \in Seq(PaymentRecords)
  BY DEF AccountsTyped
<1>2. PICK q, l : q = payments /\ l = payments'
  OBVIOUS
<1>3. q \in Seq(PaymentRecords) /\ l = Append(q, r) /\ r \in PaymentRecords
  BY <1>1, <1>2
<1>4. DOMAIN l = DOMAIN q \cup {Len(q) + 1} /\ l[Len(q) + 1] = r
      /\ \A p \in DOMAIN q : l[p] = q[p]
  BY ONLY <1>3, SequenceAppend
<1>5. QED
  BY <1>2, <1>4

LEMMA PaymentsAre ==
    ASSUME AccountsTyped
    PROVE  \A p \in DOMAIN payments :
             /\ payments[p] \in PaymentRecords
             /\ payments[p].sale \in Sales /\ payments[p].amount \in Nat
             /\ payments[p].allocated \in Nat
             /\ payments[p].direction \in {"INCOMING", "OUTGOING"}
             /\ payments[p].status \in {"COMPLETED", "REVERSED"}
<1>1. \A p \in DOMAIN payments : payments[p] \in PaymentRecords
  BY SequenceDomain DEF AccountsTyped
<1>2. QED
  BY <1>1, AmountsAssumption DEF PaymentRecords

\* What reversing p leaves in the sequence.
LEMMA ReversalKeeps ==
    ASSUME AccountsTyped, NEW p \in DOMAIN payments, NEW payment \in PaymentRecords,
           ReversesOne(p, payment)
    PROVE  /\ DOMAIN payments' = DOMAIN payments \cup {Len(payments) + 1}
           /\ \A q \in DOMAIN payments \ {p} : payments'[q] = payments[q]
           /\ payments'[p] = Undone(payments[p])
           /\ payments'[Len(payments) + 1] = Reversal(payment, p)
<1> DEFINE list == [payments EXCEPT ![p] = Undone(payments[p])]
           r == Reversal(payment, p)
<1>1. payments \in Seq(PaymentRecords)
  BY DEF AccountsTyped
<1>2. Undone(payments[p]) \in PaymentRecords /\ r \in PaymentRecords
  <2>1. p \in 0..MaxPayments
    BY <1>1, BoundAssumption DEF AccountsTyped
  <2>2. QED
    BY <2>1, PaymentsAre, MarkedType, ReversalType DEF Undone
<1>3. payments' = Append(list, r)
  BY DEF ReversesOne
<1>4. PICK q, l, e, u : q = payments /\ l = list /\ e = payments' /\ u = Undone(payments[p])
  OBVIOUS
<1>5. /\ q \in Seq(PaymentRecords) /\ p \in DOMAIN q /\ l = [q EXCEPT ![p] = u]
      /\ e = Append(l, r) /\ u \in PaymentRecords /\ r \in PaymentRecords
  BY <1>1, <1>2, <1>3, <1>4
<1> HIDE DEF list, r
<1>6. /\ l \in Seq(PaymentRecords) /\ DOMAIN l = DOMAIN q /\ Len(l) = Len(q) /\ l[p] = u
      /\ \A i \in DOMAIN q \ {p} : l[i] = q[i]
  BY ONLY <1>5, SequenceSet
<1>7. /\ DOMAIN e = DOMAIN l \cup {Len(l) + 1} /\ e[Len(l) + 1] = r
      /\ \A i \in DOMAIN l : e[i] = l[i]
  BY ONLY <1>5, <1>6, SequenceAppend
<1>8. QED
  BY <1>4, <1>5, <1>6, <1>7 DEF r

-----------------------------------------------------------------------------
LEMMA EntersKeeps ==
    ASSUME AccountsTyped, NEW fresh, Enters(fresh), Sound
    PROVE  Sound' /\ (ReversalReversed => ReversalReversed')
<1>1. PICK s \in Sales, amount \in Amounts, l \in Nat, c \in Checkouts \cup {"none"} :
        l <= amount /\ payments' = Append(payments, NewPayment(s, amount, l, c))
  BY DEF Enters
<1>2. /\ DOMAIN payments' = DOMAIN payments \cup {Len(payments) + 1}
      /\ \A p \in DOMAIN payments : payments'[p] = payments[p]
      /\ payments'[Len(payments) + 1] = NewPayment(s, amount, l, c)
  BY <1>1, NewPaymentType, PaymentKept
<1>3. QED
  BY <1>1, <1>2 DEF Sound, ReversalReversed, NewPayment

LEMMA ReversesSound ==
    ASSUME AccountsTyped, NEW p \in DOMAIN payments, NEW payment \in PaymentRecords,
           ReversesOne(p, payment), Sound
    PROVE  /\ Sound' /\ (ReversalReversed => ReversalReversed')
           /\ payments[p].direction = "OUTGOING" => ReversalReversed'
<1>1. /\ DOMAIN payments' = DOMAIN payments \cup {Len(payments) + 1}
      /\ \A q \in DOMAIN payments \ {p} : payments'[q] = payments[q]
      /\ payments'[p] = Undone(payments[p])
      /\ payments'[Len(payments) + 1] = Reversal(payment, p)
  BY ReversalKeeps
<1>2. payments[p].amount \in Nat /\ payment.amount = payments[p].amount
  BY PaymentsAre DEF ReversesOne
<1>3. /\ payments'[p].direction = payments[p].direction /\ payments'[p].status = "REVERSED"
      /\ payments'[p].allocated = 0 /\ payments'[p].amount = payments[p].amount
  BY <1>1 DEF Undone, Marked
<1>4. /\ payments'[Len(payments) + 1].allocated = 0
      /\ payments'[Len(payments) + 1].amount = payments[p].amount
  BY <1>1, <1>2 DEF Reversal
<1>5. Sound'
  <2> SUFFICES ASSUME NEW q \in DOMAIN payments'
               PROVE  /\ payments'[q].allocated <= payments'[q].amount
                      /\ payments'[q].status = "REVERSED" => payments'[q].allocated = 0
    BY DEF Sound
  <2>1. CASE q \in DOMAIN payments \ {p}
    BY <1>1, <2>1 DEF Sound
  <2>2. CASE q = p \/ q = Len(payments) + 1
    BY <1>2, <1>3, <1>4, <2>2
  <2>3. QED
    BY <1>1, <2>1, <2>2
<1>6. p \in DOMAIN payments' /\ \A q \in DOMAIN payments : q \in DOMAIN payments'
  BY <1>1
<1>7. QED
  BY <1>1, <1>3, <1>5, <1>6 DEF ReversalReversed

LEMMA GeneratesSound ==
    ASSUME AccountsTyped, Generates, Sound
    PROVE  Sound' /\ (ReversalReversed => ReversalReversed')
<1>1. PICK s \in Sales : payments' = [p \in DOMAIN payments |->
           IF payments[p].sale = s /\ payments[p].status = "COMPLETED"
             THEN Marked(payments[p], "COMPLETED", payments[p].amount)
             ELSE payments[p]]
  BY DEF Generates
<1>2. \A p \in DOMAIN payments : payments[p].amount \in Nat
  BY PaymentsAre
<1>3. ASSUME NEW p \in DOMAIN payments
      PROVE  /\ payments'[p].allocated <= payments'[p].amount
             /\ payments'[p].status = payments[p].status
             /\ payments'[p].direction = payments[p].direction
             /\ payments'[p].status = "REVERSED" => payments'[p].allocated = 0
  <2>1. CASE payments[p].sale = s /\ payments[p].status = "COMPLETED"
    <3>1. payments'[p] = Marked(payments[p], "COMPLETED", payments[p].amount)
      BY <1>1, <2>1
    <3>2. QED
      BY <1>2, <2>1, <3>1 DEF Marked
  <2>2. CASE ~(payments[p].sale = s /\ payments[p].status = "COMPLETED")
    BY <1>1, <2>2 DEF Sound
  <2>3. QED
    BY <2>1, <2>2
<1>4. DOMAIN payments' = DOMAIN payments
  BY <1>1
<1>5. QED
  BY <1>3, <1>4 DEF Sound, ReversalReversed

-----------------------------------------------------------------------------
LEMMA EntersAgrees ==
    ASSUME AccountsTyped, Enters(TRUE), NEW t \in Sales, Agree(t)
    PROVE  Agree(t)'
<1>1. PICK s \in Sales, amount \in Amounts, l \in Nat, c \in Checkouts \cup {"none"} :
        /\ payments' = Append(payments, NewPayment(s, amount, l, c))
        /\ Credits(s, amount, l)
  BY DEF Enters
<1>2. By(s, amount, amount, l) /\ \A x \in Sales \ {s} : Same(x)
  BY <1>1, PaymentIn
<1>3. QED
  BY <1>1, <1>2 DEF Agree, By, Same, Credits

LEMMA NextSums ==
    ASSUME AccountsTyped', NEW s
    PROVE  NetOf(s)' \in Int /\ PaidOf(s)' \in Nat /\ AllottedOf(s)' \in Nat
<1>1. PICK q : q = payments'
  OBVIOUS
<1>2. q \in Seq(PaymentRecords)
  BY <1>1 DEF AccountsTyped
<1>3. SeqSum(InNet(s), q) \in Int /\ SeqSum(InPaid(s), q) \in Nat
      /\ SeqSum(InAllotted(s), q) \in Nat
  BY <1>2, ValuesTyped, SeqSumInt, SeqSumNat
<1>4. QED
  BY <1>1, <1>3 DEF NetOf, PaidOf, AllottedOf

LEMMA BacksAgrees ==
    ASSUME AccountsTyped, AccountsTyped', Sound,
           NEW p \in DOMAIN payments, NEW payment \in PaymentRecords,
           Backs(p, payment, TRUE), ~ReversalReversed', NEW t \in Sales, Agree(t)
    PROVE  Agree(t)'
<1> DEFINE s == payments[p].sale
           a == payments[p].amount
           l == payments[p].allocated
<1>1. /\ ReversesOne(p, payment) /\ payments[p].status = "COMPLETED"
      /\ sale'[s].paid = NonNegative(sale[s].paid - a)
      /\ l > 0 => invoice'[s].paid = NonNegative(invoice[s].paid - l)
      /\ l = 0 => invoice'[s].paid = invoice[s].paid
      /\ \A x \in Sales \ {s} : sale'[x].paid = sale[x].paid /\ invoice'[x].paid = invoice[x].paid
  BY DEF Backs
<1>2. payments[p].direction = "INCOMING" /\ a \in Nat /\ l \in Nat /\ s \in Sales
  BY <1>1, PaymentsAre, ReversesSound
<1>3. By(s, -a, -a, -l) /\ \A x \in Sales \ {s} : Same(x)
  BY <1>1, <1>2, PaymentBack
<1>4. /\ NetOf(t) \in Int /\ PaidOf(t) \in Nat /\ AllottedOf(t) \in Nat
      /\ NetOf(t)' \in Int /\ PaidOf(t)' \in Nat /\ AllottedOf(t)' \in Nat
  BY SumsTyped, NextSums
<1> HIDE DEF s, a, l
<1>5. CASE t # s
  BY <1>1, <1>3, <1>5 DEF Agree, Same
<1>6. CASE t = s
  <2>1. PICK n, d, m, n2, d2, m2 :
          /\ n = NetOf(t) /\ d = PaidOf(t) /\ m = AllottedOf(t)
          /\ n2 = NetOf(t)' /\ d2 = PaidOf(t)' /\ m2 = AllottedOf(t)'
    OBVIOUS
  <2>2. /\ n \in Int /\ d \in Nat /\ m \in Nat /\ n2 \in Int /\ d2 \in Nat /\ m2 \in Nat
        /\ n2 = n + (-a) /\ d2 = d + (-a) /\ m2 = m + (-l) /\ n = d
        /\ sale[s].paid = d /\ invoice[s].paid = m
    <3>1. /\ NetOf(t)' = NetOf(t) + (-a) /\ PaidOf(t)' = PaidOf(t) + (-a)
          /\ AllottedOf(t)' = AllottedOf(t) + (-l)
      <4>1. By(t, -a, -a, -l)
        BY <1>3, <1>6
      <4>2. QED
        BY <4>1 DEF By
    <3>2. NetOf(t) = PaidOf(t) /\ sale[s].paid = PaidOf(t) /\ invoice[s].paid = AllottedOf(t)
      BY <1>6 DEF Agree
    <3>3. QED
      BY <1>4, <2>1, <3>1, <3>2
  <2>3. sale'[s].paid = d2
    BY <1>1, <1>2, <2>2 DEF NonNegative
  <2>4. invoice'[s].paid = m2
    <3>1. CASE l > 0
      BY <1>1, <1>2, <2>2, <3>1 DEF NonNegative
    <3>2. CASE l = 0
      BY <1>1, <1>2, <2>2, <3>2
    <3>3. QED
      BY <1>2, <3>1, <3>2
  <2>5. n2 = d2
    BY <1>2, <2>2
  <2>6. QED
    BY <1>6, <2>1, <2>3, <2>4, <2>5 DEF Agree
<1>7. QED
  BY <1>5, <1>6
\* Where the invoice is made, the payments that stand are allocated in full.
LEMMA GeneratesAgrees ==
    ASSUME AccountsTyped, AccountsTyped', Generates, NEW t \in Sales
    PROVE  NetOf(t)' = NetOf(t) /\ (Agree(t) => Agree(t)')
<1>1. PICK s \in Sales :
        /\ sale' = sale
        /\ invoice'[s].paid = sale[s].paid /\ \A x \in Sales \ {s} : invoice'[x] = invoice[x]
        /\ payments' = [p \in DOMAIN payments |->
             IF payments[p].sale = s /\ payments[p].status = "COMPLETED"
               THEN Marked(payments[p], "COMPLETED", payments[p].amount)
               ELSE payments[p]]
  BY DEF Generates
<1>2. DOMAIN payments' = DOMAIN payments
  BY <1>1
<1>3. \A p \in DOMAIN payments : payments[p] \in PaymentRecords /\ payments'[p] \in PaymentRecords
                                /\ payments[p].amount \in Nat
  <2>1. \A p \in DOMAIN payments' : payments'[p] \in PaymentRecords
    BY SequenceDomain DEF AccountsTyped
  <2>2. QED
    BY <1>2, <2>1, PaymentsAre
<1>4. ASSUME NEW p \in DOMAIN payments
      PROVE  /\ InNet(t)[payments'[p]] = InNet(t)[payments[p]]
             /\ InPaid(t)[payments'[p]] = InPaid(t)[payments[p]]
             /\ t # s => InAllotted(t)[payments'[p]] = InAllotted(t)[payments[p]]
             /\ t = s => InAllotted(t)[payments'[p]] = InPaid(t)[payments[p]]
  <2>1. CASE payments[p].sale = s /\ payments[p].status = "COMPLETED"
    <3>1. payments'[p] = Marked(payments[p], "COMPLETED", payments[p].amount)
      BY <1>1, <2>1
    <3>2. /\ payments'[p].sale = payments[p].sale /\ payments'[p].status = "COMPLETED"
          /\ payments'[p].amount = payments[p].amount
          /\ payments'[p].direction = payments[p].direction
          /\ payments'[p].allocated = payments[p].amount
      BY <3>1 DEF Marked
    <3>3. QED
      BY <1>3, <2>1, <3>2 DEF InNet, InPaid, InAllotted, Stands, SignedAmount
  <2>2. CASE ~(payments[p].sale = s /\ payments[p].status = "COMPLETED")
    <3>1. payments'[p] = payments[p]
      BY <1>1, <2>2
    <3>2. t = s => InAllotted(t)[payments[p]] = 0 /\ InPaid(t)[payments[p]] = 0
      BY <1>3, <2>2 DEF InPaid, InAllotted, Stands
    <3>3. QED
      BY <3>1, <3>2
  <2>3. QED
    BY <2>1, <2>2
<1>5. NetOf(t)' = NetOf(t) /\ PaidOf(t)' = PaidOf(t)
  <2>1. /\ OverSeq(InNet(t), payments') = OverSeq(InNet(t), payments)
        /\ OverSeq(InPaid(t), payments') = OverSeq(InPaid(t), payments)
    BY <1>2, <1>4 DEF OverSeq
  <2>2. QED
    BY <2>1 DEF NetOf, PaidOf, SeqSum
<1>6. CASE t = s
  <2>1. OverSeq(InAllotted(t), payments') = OverSeq(InPaid(t), payments)
    BY <1>2, <1>4, <1>6 DEF OverSeq
  <2>2. AllottedOf(t)' = PaidOf(t)
    BY <2>1 DEF AllottedOf, PaidOf, SeqSum
  <2>3. QED
    BY <1>1, <1>5, <1>6, <2>2 DEF Agree
<1>7. CASE t # s
  <2>1. OverSeq(InAllotted(t), payments') = OverSeq(InAllotted(t), payments)
    BY <1>2, <1>4, <1>7 DEF OverSeq
  <2>2. AllottedOf(t)' = AllottedOf(t)
    BY <2>1 DEF AllottedOf, SeqSum
  <2>3. QED
    BY <1>1, <1>5, <1>7, <2>2 DEF Agree
<1>8. QED
  BY <1>6, <1>7

-----------------------------------------------------------------------------
LEMMA BooksInit == Init => Books
<1> SUFFICES ASSUME Init PROVE Books
  OBVIOUS
<1>1. Reversals /\ Sound
  BY DEF Init, Reversals, Sound
<1>2. ASSUME NEW t \in Sales PROVE Agree(t)
  <2>1. NetOf(t) = 0 /\ PaidOf(t) = 0 /\ AllottedOf(t) = 0
    BY SeqSumEmpty DEF Init, NetOf, PaidOf, AllottedOf
  <2>2. sale[t].paid = 0 /\ invoice[t].paid = 0
    BY DEF Init, NoInvoice
  <2>3. QED
    BY <2>1, <2>2 DEF Agree
<1>3. QED
  BY <1>1, <1>2 DEF Books

LEMMA BooksStep == Typed /\ Books /\ [Next]_vars => Books'
<1> SUFFICES ASSUME Typed, Books, [Next]_vars PROVE Books'
  OBVIOUS
<1>1. AccountsTyped /\ AccountsTyped' /\ Shapes
  BY StepShape DEF Typed, TypeOK, AccountsTyped
<1>2. Reversals'
  BY <1>1, OrdinaryShapes, OrdinaryReversals, ReverseReversals DEF Books
<1>3. (Generates \/ Effect(~overtaken')) /\ (~overtaken' => ~overtaken)
  BY StepEffect
<1>4. Sound' /\ (ReversalReversed => ReversalReversed')
  <2>1. CASE Generates
    BY <1>1, <2>1, GeneratesSound DEF Books
  <2>2. CASE Enters(~overtaken')
    <3>1. Enters(FALSE)
      BY <2>2 DEF Enters
    <3>2. QED
      BY <1>1, <3>1, EntersKeeps DEF Books
  <2>3. CASE Keeps \/ WritesOff
    BY <2>3 DEF Keeps, WritesOff, Books, Sound, ReversalReversed
  <2>4. CASE \E p \in DOMAIN payments, payment \in PaymentRecords : Backs(p, payment, ~overtaken')
    BY <1>1, <2>4, ReversesSound DEF Backs, Books
  <2>5. QED
    BY <1>3, <2>1, <2>2, <2>3, <2>4 DEF Effect
<1>5. ASSUME ~overtaken', ~ReversalReversed', NEW t \in Sales
      PROVE  Agree(t)'
  <2>0. Agree(t) /\ Sound /\ ~ReversalReversed
    BY <1>3, <1>4, <1>5 DEF Books
  <2>1. CASE Generates
    BY <1>1, <2>0, <2>1, GeneratesAgrees
  <2>2. CASE Enters(~overtaken')
    <3>1. Enters(TRUE)
      BY <1>5, <2>2 DEF Enters
    <3>2. QED
      BY <1>1, <2>0, <3>1, EntersAgrees
  <2>3. CASE Keeps \/ WritesOff
    BY <2>0, <2>3 DEF Keeps, WritesOff, PaidStays, Agree, NetOf, PaidOf, AllottedOf
  <2>4. CASE \E p \in DOMAIN payments, payment \in PaymentRecords : Backs(p, payment, ~overtaken')
    <3>1. PICK p \in DOMAIN payments, payment \in PaymentRecords : Backs(p, payment, TRUE)
      BY <1>5, <2>4 DEF Backs
    <3>2. QED
      BY <1>1, <1>5, <2>0, <3>1, BacksAgrees
  <2>5. QED
    BY <1>3, <2>1, <2>2, <2>3, <2>4 DEF Effect
<1>6. QED
  BY <1>2, <1>4, <1>5 DEF Books

\* What the invariant says of an account, in the words of PaidIsPosted.
LEMMA AgreeIsPosted ==
    ASSUME AccountsTyped, Sound, NEW s \in Sales, Agree(s)
    PROVE  /\ sale[s].paid = Net(s)
           /\ invoice[s].paid <= sale[s].paid
           /\ (\A p \in PaymentsOf(s) :
                 payments[p].direction = "OUTGOING" => payments[p].allocated = 0)
                => invoice[s].paid =
                     SumFunction([p \in PaymentsOf(s) |-> payments[p].allocated])
<1>1. sale[s].paid = Net(s)
  BY NetIs DEF Agree
<1>2. \A p \in DOMAIN payments :
        InAllotted(s)[payments[p]] = IF payments[p].sale = s /\ Stands(payments[p])
                                       THEN payments[p].allocated ELSE 0
  BY PaymentsAre DEF InAllotted
<1>3. \A p \in DOMAIN payments :
        InPaid(s)[payments[p]] = IF payments[p].sale = s /\ Stands(payments[p])
                                   THEN payments[p].amount ELSE 0
  BY PaymentsAre DEF InPaid
<1>4. AllottedOf(s) <= PaidOf(s)
  <2>1. PICK f, g : f = OverSeq(InAllotted(s), payments) /\ g = OverSeq(InPaid(s), payments)
    OBVIOUS
  <2>2. f \in [DOMAIN payments -> Int] /\ g \in [DOMAIN payments -> Int]
        /\ IsFiniteSet(DOMAIN payments)
    BY <2>1, ValuesTyped, SeqSumInt, SequenceDomain DEF AccountsTyped
  <2>3. \A p \in DOMAIN payments : f[p] <= g[p]
    BY <1>2, <1>3, <2>1, PaymentsAre DEF OverSeq, Sound
  <2>4. SumFunction(f) <= SumFunction(g)
    BY <2>2, <2>3, TotalMonotone
  <2>5. QED
    BY <2>1, <2>4 DEF AllottedOf, PaidOf, SeqSum
<1>5. invoice[s].paid <= sale[s].paid
  BY <1>4 DEF Agree
<1>6. ASSUME \A p \in PaymentsOf(s) :
               payments[p].direction = "OUTGOING" => payments[p].allocated = 0
      PROVE  invoice[s].paid = SumFunction([p \in PaymentsOf(s) |-> payments[p].allocated])
  <2> DEFINE f == [p \in PaymentsOf(s) |-> payments[p].allocated]
  <2>1. f = [p \in PaymentsOf(s) |-> InAllotted(s)[payments[p]]]
    <3> SUFFICES ASSUME NEW p \in PaymentsOf(s)
                 PROVE  InAllotted(s)[payments[p]] = payments[p].allocated
      OBVIOUS
    <3>1. p \in DOMAIN payments /\ payments[p].sale = s
      BY DEF PaymentsOf
    <3>2. Stands(payments[p]) \/ payments[p].allocated = 0
      BY <1>6, <3>1, PaymentsAre DEF Sound, Stands
    <3>3. QED
      BY <1>2, <3>1, <3>2
  <2>2. \A p \in DOMAIN payments \ PaymentsOf(s) : InAllotted(s)[payments[p]] = 0
    BY <1>2 DEF PaymentsOf
  <2> HIDE DEF f
  <2>3. SumFunction(f) = SeqSum(InAllotted(s), payments)
    BY <2>1, <2>2, ValuesTyped, SumOfSale
  <2>4. QED
    BY <2>3 DEF Agree, AllottedOf, f
<1>7. QED
  BY <1>1, <1>5, <1>6

\* However handlers that run alone follow each other, and until one has been
\* overtaken or a reversal reversed, the amount paid of a sale is the net of its
\* payments, its invoice has been paid no more, and no less than was allocated
\* to it (recordPayment, recordInvoicePayment, generateInvoice, the M-Pesa
\* callback and reversePayment, which write each other's records).
THEOREM PaymentsArePosted == Spec => []PaidIsPosted
<1>1. Typed /\ Books => PaidIsPosted
  <2> SUFFICES ASSUME Typed, Books PROVE PaidIsPosted
    OBVIOUS
  <2>1. TypeOK /\ AccountsTyped
    BY DEF Typed, TypeOK, AccountsTyped
  <2>2. ASSUME ~overtaken, ~ReversalReversed, NEW s \in Sales
        PROVE  /\ sale[s].paid = Net(s)
               /\ invoice[s].paid <= sale[s].paid
               /\ (\A p \in PaymentsOf(s) :
                     payments[p].direction = "OUTGOING" => payments[p].allocated = 0)
                    => invoice[s].paid =
                         SumFunction([p \in PaymentsOf(s) |-> payments[p].allocated])
    BY <2>1, <2>2, AgreeIsPosted DEF Books
  <2>3. QED
    BY <2>1, <2>2 DEF PaidIsPosted
<1>2. QED
  BY <1>1, BooksInit, BooksStep, TypedInit, TypedStep, PTL DEF Spec

-----------------------------------------------------------------------------
(***************************************************************************)
(* The customer's balance.                                                 *)
(***************************************************************************)
LEMMA NetsAre == AccountsTyped => \A s \in Sales : Net(s) = NetOf(s) /\ NetOf(s) \in Int
BY NetIs, SumsTyped

LEMMA NextNets ==
    (AccountsTyped => \A s \in Sales : Net(s) = NetOf(s) /\ NetOf(s) \in Int)'
BY NetsAre, PTL

\* The net of all payments changes with that of one sale.
LEMMA NetPaidBy ==
    ASSUME AccountsTyped, AccountsTyped', NEW s \in Sales, NEW n \in Int,
           NetOf(s)' = NetOf(s) + n, \A t \in Sales \ {s} : NetOf(t)' = NetOf(t)
    PROVE  NetPaid \in Int /\ NetPaid' = NetPaid + n
<1> DEFINE f == [t \in Sales |-> Net(t)]
           e == [t \in Sales |-> Net(t)']
<1>1. \A t \in Sales : Net(t) = NetOf(t) /\ NetOf(t) \in Int
                       /\ Net(t)' = NetOf(t)' /\ NetOf(t)' \in Int
  BY NetsAre, NextNets
<1>2. f \in [Sales -> Int] /\ e \in [Sales -> Int]
  BY <1>1
<1>3. (\A t \in Sales \ {s} : e[t] = f[t]) /\ e[s] = f[s] + n
  BY <1>1
<1>4. NetPaid = SumFunction(f) /\ NetPaid' = SumFunction(e)
  BY DEF NetPaid
<1> HIDE DEF f, e
<1>5. SumFunction(f) \in Int /\ SumFunction(e) = SumFunction(f) + (e[s] - f[s])
  BY <1>2, <1>3, SalesAssumption, TotalInt, TotalUpdate
<1>6. f[s] \in Int /\ e[s] \in Int
  BY <1>2
<1>7. QED
  BY <1>3, <1>4, <1>5, <1>6

LEMMA NetPaidSame ==
    ASSUME AccountsTyped, AccountsTyped', \A t \in Sales : NetOf(t)' = NetOf(t)
    PROVE  NetPaid \in Int /\ NetPaid' = NetPaid
<1> DEFINE f == [t \in Sales |-> Net(t)]
           e == [t \in Sales |-> Net(t)']
<1>1. \A t \in Sales : Net(t) \in Int /\ Net(t)' = Net(t)
  BY NetsAre, NextNets
<1>2. f \in [Sales -> Int] /\ e = f
  BY <1>1
<1>3. NetPaid = SumFunction(f) /\ NetPaid' = SumFunction(e)
  BY DEF NetPaid
<1> HIDE DEF f, e
<1>4. QED
  BY <1>2, <1>3, SalesAssumption, TotalInt

WrittenOff == SumFunction(writtenOff)
Follows == balance' = NonNegative(balance - (NetPaid' - NetPaid) - (WrittenOff' - WrittenOff))

LEMMA Following ==
    ASSUME AccountsTyped, NEW n \in Int, NEW w \in Int,
           NetPaid \in Int, NetPaid' = NetPaid + n,
           WrittenOff \in Int, WrittenOff' = WrittenOff + w,
           Owe(-(n + w)) \/ (n + w = 0 /\ balance' = balance)
    PROVE  Follows
<1>1. PICK a, b, c, d : a = NetPaid /\ b = NetPaid' /\ c = WrittenOff /\ d = WrittenOff'
  OBVIOUS
<1>2. PICK q, r : q = balance /\ r = balance'
  OBVIOUS
<1>3. q \in Nat /\ a \in Int /\ c \in Int /\ b = a + n /\ d = c + w
  BY <1>1, <1>2 DEF AccountsTyped
<1>4. q - (b - a) - (d - c) = q + (-(n + w))
  BY <1>3
<1>5. r = NonNegative(q + (-(n + w)))
  <2>1. CASE Owe(-(n + w))
    BY <1>2, <2>1 DEF Owe
  <2>2. CASE n + w = 0 /\ balance' = balance
    BY <1>2, <1>3, <2>2 DEF NonNegative
  <2>3. QED
    BY <2>1, <2>2
<1>6. r = NonNegative(q - (b - a) - (d - c))
  BY <1>4, <1>5
<1>7. QED
  BY <1>1, <1>2, <1>6 DEF Follows

LEMMA BalanceFollows ==
    ASSUME AccountsTyped, AccountsTyped', Reversals, Sound,
           Generates \/ Effect(FALSE), ~ReversalReversed'
    PROVE  Follows
<1>0. WrittenOff \in Int
  BY SalesAssumption, TotalNat DEF WrittenOff, AccountsTyped
<1>1. ASSUME writtenOff' = writtenOff PROVE WrittenOff' = WrittenOff + 0
  BY <1>0, <1>1 DEF WrittenOff
<1>2. CASE Generates
  <2>1. NetPaid \in Int /\ NetPaid' = NetPaid + 0
    BY <1>2, GeneratesAgrees, NetPaidSame
  <2>2. writtenOff' = writtenOff /\ balance' = balance
    BY <1>2 DEF Generates
  <2>3. QED
    BY <1>0, <1>1, <2>1, <2>2, Following
<1>3. CASE Keeps
  <2>1. NetPaid \in Int /\ NetPaid' = NetPaid + 0
    <3>1. \A t \in Sales : NetOf(t)' = NetOf(t)
      BY <1>3 DEF Keeps, NetOf
    <3>2. QED
      BY <3>1, NetPaidSame
  <2>2. writtenOff' = writtenOff /\ balance' = balance
    BY <1>3 DEF Keeps
  <2>3. QED
    BY <1>0, <1>1, <2>1, <2>2, Following
<1>4. CASE Enters(FALSE)
  <2>1. PICK s \in Sales, amount \in Amounts, l \in Nat, c \in Checkouts \cup {"none"} :
          /\ payments' = Append(payments, NewPayment(s, amount, l, c))
          /\ Owe(-amount) /\ writtenOff' = writtenOff
    BY <1>4 DEF Enters
  <2>2. amount \in Int /\ By(s, amount, amount, l) /\ \A t \in Sales \ {s} : Same(t)
    BY <2>1, PaymentIn, AmountsAssumption
  <2>3. NetPaid \in Int /\ NetPaid' = NetPaid + amount
    BY <2>2, NetPaidBy DEF By, Same
  <2>4. -(amount + 0) = -amount
    BY <2>2
  <2>5. QED
    BY <1>0, <1>1, <2>1, <2>2, <2>3, <2>4, Following
<1>5. CASE WritesOff
  <2>1. PICK s \in Sales, due \in Nat :
          /\ writtenOff[s] = 0 /\ writtenOff' = [writtenOff EXCEPT ![s] = due]
          /\ Owe(-due) /\ payments' = payments
    BY <1>5 DEF WritesOff
  <2>2. NetPaid \in Int /\ NetPaid' = NetPaid + 0
    <3>1. \A t \in Sales : NetOf(t)' = NetOf(t)
      BY <2>1 DEF NetOf
    <3>2. QED
      BY <3>1, NetPaidSame
  <2>3. WrittenOff' = WrittenOff + due
    <3>1. PICK f, e : f = writtenOff /\ e = writtenOff'
      OBVIOUS
    <3>2. /\ f \in [Sales -> Int] /\ e \in [Sales -> Int] /\ e[s] = due /\ f[s] = 0
          /\ \A t \in Sales \ {s} : e[t] = f[t]
      BY <2>1, <3>1 DEF AccountsTyped
    <3>3. SumFunction(e) = SumFunction(f) + (due - 0)
      BY <3>2, SalesAssumption, TotalUpdate
    <3>4. QED
      BY <1>0, <3>1, <3>3 DEF WrittenOff
  <2>4. -(0 + due) = -due
    OBVIOUS
  <2>5. QED
    BY <1>0, <2>1, <2>2, <2>3, <2>4, Following
<1>6. ASSUME NEW p \in DOMAIN payments, NEW payment \in PaymentRecords,
             Backs(p, payment, FALSE)
      PROVE  Follows
  <2> DEFINE s == payments[p].sale
             a == payments[p].amount
  <2>1. ReversesOne(p, payment) /\ Owe(a) /\ writtenOff' = writtenOff
    BY <1>6 DEF Backs
  <2>2. payments[p].status = "COMPLETED"
    BY <2>1, PaymentsAre DEF ReversesOne, Unreversed, Reversals
  <2>3. payments[p].direction = "INCOMING" /\ a \in Nat /\ s \in Sales
    BY <2>1, PaymentsAre, ReversesSound
  <2>4. By(s, -a, -a, -payments[p].allocated) /\ \A t \in Sales \ {s} : Same(t)
    BY <2>1, <2>2, <2>3, PaymentBack
  <2> HIDE DEF s, a
  <2>5. NetPaid \in Int /\ NetPaid' = NetPaid + (-a)
    <3>1. PICK x, n, m : x = s /\ n = -a /\ m = -payments[p].allocated
      OBVIOUS
    <3>2. By(x, n, n, m) /\ (\A t \in Sales \ {x} : Same(t)) /\ x \in Sales /\ n \in Int
      BY <2>3, <2>4, <3>1
    <3>3. NetOf(x)' = NetOf(x) + n /\ \A t \in Sales \ {x} : NetOf(t)' = NetOf(t)
      BY <3>2 DEF By, Same
    <3>4. NetPaid \in Int /\ NetPaid' = NetPaid + n
      BY <3>2, <3>3, NetPaidBy
    <3>5. QED
      BY <3>1, <3>4
  <2>6. -((-a) + 0) = a /\ -a \in Int
    BY <2>3
  <2>7. QED
    BY <1>0, <1>1, <2>1, <2>5, <2>6, Following
<1>7. QED
  BY <1>2, <1>3, <1>4, <1>5, <1>6 DEF Effect

\* However calls overlap, and until a reversal is itself reversed, a step
\* changes what the customer owes by the payments it adds and the debt it writes
\* off, cut off at 0: no payment is recorded without the balance and the balance
\* never moves without one (postCustomerBalanceEntry and its callers).
THEOREM PaymentsMoveBalance == Spec => BalanceFollowsPayments
<1>1. Typed /\ Books /\ [Next]_vars =>
        [~ReversalReversed'
          => LET writeOff == SumFunction(writtenOff') - SumFunction(writtenOff)
             IN  balance' = NonNegative(balance - (NetPaid' - NetPaid) - writeOff)
            ]_<<balance, payments, writtenOff>>
  <2> SUFFICES ASSUME Typed, Books, [Next]_vars, ~ReversalReversed' PROVE Follows
    BY DEF Follows, WrittenOff
  <2>1. AccountsTyped /\ AccountsTyped'
    BY StepShape DEF Typed, TypeOK, AccountsTyped
  <2>2. Generates \/ Effect(FALSE)
    BY StepEffect DEF Effect, Enters, Backs
  <2>3. QED
    BY <2>1, <2>2, BalanceFollows DEF Books
<1>2. QED
  BY <1>1, BooksInit, BooksStep, TypedInit, TypedStep, PTL DEF Spec, BalanceFollowsPayments

-----------------------------------------------------------------------------
(***************************************************************************)
(* Returns: the plans of its calls.                                        *)
(***************************************************************************)
OnReturn == {"review", "inspect", "approveReturn", "rejectReturn", "completeReturn", "exchange"}
OnRefund == {"updateRefund", "submit", "approve", "correct", "rejectRefund", "cancel", "process"}

\* What a call is worth when it writes, whatever has happened since: returns
\* and refunds are only added.
ReturnPlanOK(p) ==
    /\ p.op \in OnReturn => p.return \in DOMAIN returns
    /\ p.op \in OnRefund => p.refund \in DOMAIN refunds
    /\ p.op = "request" => p.items \in SUBSET Lines /\ p.method \in Methods \cup {"EXCHANGE"}
    /\ p.op \in {"inspect", "approveReturn", "completeReturn"} => p.accepted \in SUBSET Lines
    /\ p.op = "approveReturn" => (p.makesRefund => returns[p.return].method # "EXCHANGE")
    /\ p.op = "exchange" => p.key \in ExchangeKeys /\ p.total \in Nat
    /\ p.op \in {"createRefund", "updateRefund"} =>
         p.items \in SUBSET Lines /\ p.amount \in Nat /\ p.method \in Methods
    /\ p.op = "approve" => p.amount \in Nat
    /\ p.op = "process" =>
         /\ p.amount \in Nat /\ p.credit \in Nat
         /\ p.method = refunds[p.refund].method
         /\ refunds[p.refund].status \in {"APPROVED", "PROCESSING", "COMPLETED", "CANCELLED"}

\* The records, without the slow call.
ReturnRecordsOK ==
    /\ sold \in SaleSizes
    /\ returns \in Seq(ReturnRequests)
    /\ refunds \in Seq(Refunds)
    /\ returned \in [Lines -> Nat]
    /\ saleStatus \in [status: {"COMPLETED", "PARTIALLY_RETURNED", "FULLY_RETURNED"},
                       payment: {"PAID", "PARTIALLY_REFUNDED", "REFUNDED"}]
    /\ storeCredit \in Nat
    /\ exchanges \in Seq([key: ExchangeKeys, return: Nat, value: Nat])

\* A refund's return exists.
ReturnsNamed == \A f \in DOMAIN refunds : refunds[f].return \in 0..Len(returns)

LEMMA ReturnsTyped ==
    ASSUME ReturnRecordsOK
    PROVE  /\ DOMAIN returns = 1..Len(returns) /\ Len(returns) \in Nat
           /\ \A t \in DOMAIN returns : returns[t] \in ReturnRequests
           /\ DOMAIN refunds = 1..Len(refunds) /\ Len(refunds) \in Nat
           /\ \A f \in DOMAIN refunds : refunds[f] \in Refunds
           /\ DOMAIN exchanges = 1..Len(exchanges) /\ Len(exchanges) \in Nat
           /\ \A e \in DOMAIN exchanges : exchanges[e] \in [key: ExchangeKeys, return: Nat, value: Nat]
<1>1. /\ returns \in Seq(ReturnRequests) /\ refunds \in Seq(Refunds)
      /\ exchanges \in Seq([key: ExchangeKeys, return: Nat, value: Nat])
  BY DEF ReturnRecordsOK
<1>2. /\ DOMAIN returns = 1..Len(returns) /\ Len(returns) \in Nat
      /\ \A t \in DOMAIN returns : returns[t] \in ReturnRequests
  BY ONLY <1>1, SequenceDomain
<1>3. /\ DOMAIN refunds = 1..Len(refunds) /\ Len(refunds) \in Nat
      /\ \A f \in DOMAIN refunds : refunds[f] \in Refunds
  BY ONLY <1>1, SequenceDomain
<1>4. /\ DOMAIN exchanges = 1..Len(exchanges) /\ Len(exchanges) \in Nat
      /\ \A e \in DOMAIN exchanges : exchanges[e] \in [key: ExchangeKeys, return: Nat, value: Nat]
  BY ONLY <1>1, SequenceDomain
<1>5. QED
  BY ONLY <1>2, <1>3, <1>4

LEMMA LinesFinite ==
    ASSUME NEW s \in SUBSET Lines
    PROVE  IsFiniteSet(s) /\ Cardinality(s) \in Nat /\ Cardinality(s) <= Cardinality(Lines)
           /\ Cardinality(Lines) \in Nat
<1>1. IsFiniteSet(Lines)
  BY ReturnsAssumption
<1>2. IsFiniteSet(s)
  BY <1>1, FS_Subset
<1>3. QED
  BY <1>1, <1>2, FS_Subset, FS_CardinalityType

-----------------------------------------------------------------------------
(***************************************************************************)
(* Returns: a return request or a refund is added or changes.              *)
(***************************************************************************)
ReturnSet(t, y) ==
    t \in DOMAIN returns /\ y \in ReturnRequests /\ returns' = [returns EXCEPT ![t] = y]
ReturnNew(y) == y \in ReturnRequests /\ returns' = Append(returns, y)
RefundSet(f, y) == f \in DOMAIN refunds /\ y \in Refunds /\ refunds' = [refunds EXCEPT ![f] = y]
RefundNew(y) == y \in Refunds /\ refunds' = Append(refunds, y)

LEMMA ReturnSetting ==
    ASSUME ReturnRecordsOK, NEW t, NEW y, ReturnSet(t, y)
    PROVE  /\ Replaced(ReturnRequests, returns, returns', t)
           /\ returns' \in Seq(ReturnRequests) /\ DOMAIN returns' = DOMAIN returns
           /\ Len(returns') = Len(returns) /\ t \in DOMAIN returns
           /\ returns'[t] = y /\ \A u \in DOMAIN returns \ {t} : returns'[u] = returns[u]
<1>1. returns \in Seq(ReturnRequests) /\ t \in DOMAIN returns /\ y \in ReturnRequests
  BY DEF ReturnRecordsOK, ReturnSet
<1>2. PICK r : r = returns' /\ r = [returns EXCEPT ![t] = y]
  BY DEF ReturnSet
<1>3. /\ r \in Seq(ReturnRequests) /\ DOMAIN r = DOMAIN returns /\ Len(r) = Len(returns) /\ r[t] = y
      /\ \A u \in DOMAIN returns \ {t} : r[u] = returns[u]
  BY ONLY <1>1, <1>2, SequenceSet
<1>4. QED
  BY ONLY <1>1, <1>2, <1>3 DEF Replaced

LEMMA ReturnAdding ==
    ASSUME ReturnRecordsOK, NEW y, ReturnNew(y)
    PROVE  /\ Extended(ReturnRequests, returns, returns', Len(returns) + 1)
           /\ returns' \in Seq(ReturnRequests) /\ Len(returns') = Len(returns) + 1
           /\ DOMAIN returns' = DOMAIN returns \cup {Len(returns) + 1}
           /\ Len(returns) + 1 \notin DOMAIN returns
           /\ returns'[Len(returns) + 1] = y /\ \A u \in DOMAIN returns : returns'[u] = returns[u]
<1>1. returns \in Seq(ReturnRequests) /\ y \in ReturnRequests
  BY DEF ReturnRecordsOK, ReturnNew
<1>2. PICK r : r = returns' /\ r = Append(returns, y)
  BY DEF ReturnNew
<1>3. /\ r \in Seq(ReturnRequests) /\ DOMAIN r = DOMAIN returns \cup {Len(returns) + 1}
      /\ Len(r) = Len(returns) + 1 /\ Len(returns) + 1 \notin DOMAIN returns
      /\ \A u \in DOMAIN returns : r[u] = returns[u]
      /\ r[Len(returns) + 1] = y
  BY ONLY <1>1, <1>2, SequenceAppend
<1>4. QED
  BY ONLY <1>1, <1>2, <1>3 DEF Extended

LEMMA RefundSetting ==
    ASSUME ReturnRecordsOK, NEW f, NEW y, RefundSet(f, y)
    PROVE  /\ Replaced(Refunds, refunds, refunds', f)
           /\ refunds' \in Seq(Refunds) /\ DOMAIN refunds' = DOMAIN refunds
           /\ f \in DOMAIN refunds
           /\ refunds'[f] = y /\ \A g \in DOMAIN refunds \ {f} : refunds'[g] = refunds[g]
<1>1. refunds \in Seq(Refunds) /\ f \in DOMAIN refunds /\ y \in Refunds
  BY DEF ReturnRecordsOK, RefundSet
<1>2. PICK r : r = refunds' /\ r = [refunds EXCEPT ![f] = y]
  BY DEF RefundSet
<1>3. /\ r \in Seq(Refunds) /\ DOMAIN r = DOMAIN refunds /\ r[f] = y
      /\ \A g \in DOMAIN refunds \ {f} : r[g] = refunds[g]
  BY ONLY <1>1, <1>2, SequenceSet
<1>4. QED
  BY ONLY <1>1, <1>2, <1>3 DEF Replaced

LEMMA RefundAdding ==
    ASSUME ReturnRecordsOK, NEW y, RefundNew(y)
    PROVE  /\ Extended(Refunds, refunds, refunds', Len(refunds) + 1)
           /\ refunds' \in Seq(Refunds)
           /\ DOMAIN refunds' = DOMAIN refunds \cup {Len(refunds) + 1}
           /\ Len(refunds) + 1 \notin DOMAIN refunds
           /\ refunds'[Len(refunds) + 1] = y /\ \A g \in DOMAIN refunds : refunds'[g] = refunds[g]
<1>1. refunds \in Seq(Refunds) /\ y \in Refunds
  BY DEF ReturnRecordsOK, RefundNew
<1>2. PICK r : r = refunds' /\ r = Append(refunds, y)
  BY DEF RefundNew
<1>3. /\ r \in Seq(Refunds) /\ DOMAIN r = DOMAIN refunds \cup {Len(refunds) + 1}
      /\ Len(refunds) + 1 \notin DOMAIN refunds
      /\ \A g \in DOMAIN refunds : r[g] = refunds[g]
      /\ r[Len(refunds) + 1] = y
  BY ONLY <1>1, <1>2, SequenceAppend
<1>4. QED
  BY ONLY <1>1, <1>2, <1>3 DEF Extended

-----------------------------------------------------------------------------
(***************************************************************************)
(* Returns: the records that the writes make.                              *)
(***************************************************************************)
ReturnStatuses == OpenReturns \cup {"COMPLETED", "REJECTED"}
RefundStatuses == Reserved \cup {"DRAFT", "REJECTED", "CANCELLED"}

LEMMA ReturnMoved ==
    ASSUME NEW x \in ReturnRequests, NEW s \in ReturnStatuses, NEW y, y = [x EXCEPT !.status = s]
    PROVE  /\ y \in ReturnRequests
           /\ y.status = s /\ y.items = x.items /\ y.accepted = x.accepted /\ y.method = x.method
BY ONLY x \in ReturnRequests, s \in ReturnStatuses, y = [x EXCEPT !.status = s]
   DEF ReturnRequests, ReturnStatuses

LEMMA ReturnMade ==
    ASSUME NEW i \in SUBSET Lines, NEW m \in Methods \cup {"EXCHANGE"}
    PROVE  /\ NewReturn(i, m) \in ReturnRequests
           /\ NewReturn(i, m).status = "REQUESTED" /\ NewReturn(i, m).items = i
           /\ NewReturn(i, m).accepted = i /\ NewReturn(i, m).method = m
BY DEF NewReturn, ReturnRequests, OpenReturns

LEMMA RefundMoved ==
    ASSUME NEW x \in Refunds, NEW s \in RefundStatuses, NEW y, y = [x EXCEPT !.status = s]
    PROVE  /\ y \in Refunds
           /\ y.status = s /\ y.items = x.items /\ y.amount = x.amount /\ y.eligible = x.eligible
           /\ y.approved = x.approved /\ y.method = x.method /\ y.return = x.return
           /\ y.payouts = x.payouts
BY ONLY x \in Refunds, s \in RefundStatuses, y = [x EXCEPT !.status = s]
   DEF Refunds, RefundStatuses

-----------------------------------------------------------------------------
(***************************************************************************)
(* Returns: what its calls have read, while it is so still.                *)
(***************************************************************************)
\* No refund asks for what return t brings, but rejected ones.
Unclaimed(t) == \A f \in DOMAIN refunds : refunds[f].return = t => refunds[f].status = "REJECTED"

ReturnRead(p) ==
    /\ p.op = "request" => Returnable(p.items)
    /\ p.op = "review" => returns[p.return].status = "REQUESTED"
    /\ p.op = "inspect" => returns[p.return].status = "UNDER_REVIEW"
    /\ p.op = "approveReturn" =>
         /\ returns[p.return].status = "INSPECTED" /\ p.accepted = returns[p.return].accepted
         /\ p.makesRefund => \A f \in DOMAIN refunds : refunds[f].return # p.return
    /\ p.op = "rejectReturn" => returns[p.return].status \in OpenReturns
    /\ p.op = "completeReturn" =>
         returns[p.return].status = "APPROVED" /\ p.accepted = returns[p.return].accepted
    /\ p.op = "exchange" =>
         /\ returns[p.return].status = "COMPLETED" /\ Unclaimed(p.return)
         /\ \A e \in DOMAIN exchanges : exchanges[e].return # p.return

RefundRead(p) ==
    /\ p.op = "createRefund" => Prepared(p.items, p.amount, 0)
    /\ p.op = "updateRefund" =>
         /\ refunds[p.refund].status \in {"DRAFT", "REVIEW_REQUIRED"}
         /\ Prepared(p.items, p.amount, p.refund) /\ Editable(p.refund)
    /\ p.op = "submit" =>
         /\ refunds[p.refund].status \in {"DRAFT", "REVIEW_REQUIRED"}
         /\ Prepared(refunds[p.refund].items, refunds[p.refund].amount, p.refund)
         /\ Editable(p.refund)
    /\ p.op = "approve" =>
         /\ refunds[p.refund].status = "PENDING_APPROVAL"
         /\ p.amount > 0 /\ p.amount <= refunds[p.refund].eligible
         /\ TotalRefund(RefundsIn(Granted) \ {p.refund}) + p.amount <= Paid
    /\ p.op \in {"correct", "rejectRefund"} =>
         refunds[p.refund].status \in {"PENDING_APPROVAL", "REVIEW_REQUIRED"}
    /\ p.op = "cancel" =>
         refunds[p.refund].status \in {"DRAFT", "PENDING_APPROVAL", "REVIEW_REQUIRED", "APPROVED"}
    /\ p.op = "process" =>
         /\ refunds[p.refund].status = "APPROVED" /\ refunds[p.refund].return # 0
         /\ returns[refunds[p.refund].return].status = "COMPLETED"
         /\ p.amount = ActiveAmount(p.refund) /\ p.credit = storeCredit

ReturnOps == OnReturn \cup {"request"}
RefundOps == OnRefund \cup {"createRefund"}

LEMMA PaidNat ==
    ASSUME sold \in SaleSizes
    PROVE  Paid \in Nat /\ sold \in [Lines -> Nat] /\ IsFiniteSet(Lines)
<1>1. sold \in [Lines -> Nat] /\ IsFiniteSet(Lines)
  BY ReturnsAssumption
<1>2. QED
  BY <1>1, TotalNat DEF Paid

LEMMA RequestPlanRead ==
    ASSUME ReturnRecordsOK, NEW p \in RequestPlans
    PROVE  p.op \in ReturnOps /\ ReturnPlanOK(p) /\ ReturnRead(p) /\ RefundRead(p)
<1> USE DEF ReturnsIn
<1>1. CASE p \in {[op |-> "request", items |-> s, method |-> m] :
                     s \in {s \in Subsets : saleStatus.status # "FULLY_RETURNED" /\ Returnable(s)},
                     m \in Methods \cup {"EXCHANGE"}}
  <2>1. PICK s \in {s \in Subsets : saleStatus.status # "FULLY_RETURNED" /\ Returnable(s)},
             m \in Methods \cup {"EXCHANGE"} : p = [op |-> "request", items |-> s, method |-> m]
    BY ONLY <1>1
  <2>2. s \in SUBSET Lines /\ Returnable(s)
    BY ONLY <2>1 DEF Subsets
  <2>3. QED
    BY ONLY <2>1, <2>2 DEF ReturnOps, OnReturn, OnRefund, ReturnPlanOK, ReturnRead, RefundRead
<1>2. CASE p \in {[op |-> "review", return |-> t] : t \in ReturnsIn({"REQUESTED"})}
  BY ONLY <1>2 DEF ReturnOps, OnReturn, OnRefund, ReturnPlanOK, ReturnRead, RefundRead
<1>3. CASE p \in {[op |-> "inspect", return |-> t, accepted |-> s] :
                    t \in ReturnsIn({"UNDER_REVIEW"}), s \in SUBSET Lines}
  BY ONLY <1>3 DEF ReturnOps, OnReturn, OnRefund, ReturnPlanOK, ReturnRead, RefundRead
<1>4. CASE p \in {[op |-> "approveReturn", return |-> t, accepted |-> returns[t].accepted,
                   makesRefund |-> /\ returns[t].method # "EXCHANGE"
                                   /\ \A f \in DOMAIN refunds : refunds[f].return # t] :
                    t \in {t \in ReturnsIn({"INSPECTED"}) : returns[t].accepted # {}}}
  <2>1. PICK t \in {t \in ReturnsIn({"INSPECTED"}) : returns[t].accepted # {}} :
          p = [op |-> "approveReturn", return |-> t, accepted |-> returns[t].accepted,
               makesRefund |-> /\ returns[t].method # "EXCHANGE"
                               /\ \A f \in DOMAIN refunds : refunds[f].return # t]
    BY ONLY <1>4
  <2>2. t \in DOMAIN returns /\ returns[t].status = "INSPECTED"
    BY ONLY <2>1
  <2>3. returns[t].accepted \in SUBSET Lines
    BY <2>2, ReturnsTyped DEF ReturnRequests
  <2>4. p.op = "approveReturn" /\ p.return = t /\ p.accepted = returns[t].accepted
    BY ONLY <2>1
  <2>5. p.makesRefund => returns[t].method # "EXCHANGE" /\ \A f \in DOMAIN refunds : refunds[f].return # t
    BY ONLY <2>1
  <2>6. QED
    BY ONLY <2>2, <2>3, <2>4, <2>5 DEF ReturnOps, OnReturn, OnRefund, ReturnPlanOK, ReturnRead, RefundRead
<1>5. CASE p \in {[op |-> "rejectReturn", return |-> t] : t \in ReturnsIn(OpenReturns \ {"APPROVED"})}
  BY ONLY <1>5 DEF ReturnOps, OnReturn, OnRefund, ReturnPlanOK, ReturnRead, RefundRead
<1>6. CASE p \in {[op |-> "completeReturn", return |-> t, accepted |-> returns[t].accepted] :
                    t \in ReturnsIn({"APPROVED"})}
  <2>1. PICK t \in ReturnsIn({"APPROVED"}) :
          p = [op |-> "completeReturn", return |-> t, accepted |-> returns[t].accepted]
    BY ONLY <1>6
  <2>2. t \in DOMAIN returns /\ returns[t].status = "APPROVED"
    BY ONLY <2>1
  <2>3. returns[t].accepted \in SUBSET Lines
    BY <2>2, ReturnsTyped DEF ReturnRequests
  <2>4. QED
    BY ONLY <2>1, <2>2, <2>3 DEF ReturnOps, OnReturn, OnRefund, ReturnPlanOK, ReturnRead, RefundRead
<1>7. QED
  BY <1>1, <1>2, <1>3, <1>4, <1>5, <1>6 DEF RequestPlans

LEMMA ExchangePlanRead ==
    ASSUME ReturnRecordsOK, NEW p \in ExchangePlans
    PROVE  p.op \in ReturnOps /\ ReturnPlanOK(p) /\ ReturnRead(p) /\ RefundRead(p)
<1>1. PICK t \in {t \in ReturnsIn({"COMPLETED"}) :
                    /\ returns[t].method = "EXCHANGE"
                    /\ \A e \in DOMAIN exchanges : exchanges[e].return # t
                    /\ \A f \in DOMAIN refunds :
                         refunds[f].return = t => refunds[f].status = "REJECTED"},
           k \in {k \in ExchangeKeys : \A e \in DOMAIN exchanges : exchanges[e].key # k},
           v \in Replacements :
        p = [op |-> "exchange", return |-> t, key |-> k, total |-> v]
  BY DEF ExchangePlans
<1>2. t \in DOMAIN returns /\ returns[t].status = "COMPLETED" /\ Unclaimed(t)
      /\ \A e \in DOMAIN exchanges : exchanges[e].return # t
  BY ONLY <1>1 DEF ReturnsIn, Unclaimed
<1>3. k \in ExchangeKeys /\ v \in Nat
  BY ONLY <1>1, ReturnsAssumption
<1>4. QED
  BY ONLY <1>1, <1>2, <1>3 DEF ReturnOps, OnReturn, OnRefund, ReturnPlanOK, ReturnRead, RefundRead

LEMMA RefundPlanRead ==
    ASSUME ReturnRecordsOK, NEW p \in RefundPlans
    PROVE  p.op \in RefundOps /\ ReturnPlanOK(p) /\ ReturnRead(p) /\ RefundRead(p)
<1>0. Cardinality(Lines) \in Nat /\ Paid \in Nat
  BY LinesFinite, PaidNat DEF ReturnRecordsOK
<1> DEFINE A == 1..Cardinality(Lines)
           B == 1..Paid
<1>a. A \subseteq Nat /\ \A b \in B : b \in Nat /\ b > 0
  BY ONLY <1>0
<1> HIDE DEF A, B
<1>1. CASE p \in {q \in [op : {"createRefund"}, items : Subsets, amount : A, method : Methods] :
                    Prepared(q.items, q.amount, 0)}
  <2>1. p.op = "createRefund" /\ p.items \in Subsets /\ p.amount \in A /\ p.method \in Methods
        /\ Prepared(p.items, p.amount, 0)
    BY ONLY <1>1
  <2>2. p.items \in SUBSET Lines /\ p.amount \in Nat
    BY ONLY <2>1, <1>a DEF Subsets
  <2>3. QED
    BY ONLY <2>1, <2>2 DEF RefundOps, OnReturn, OnRefund, ReturnPlanOK, ReturnRead, RefundRead
<1>2. CASE p \in {q \in [op : {"updateRefund"}, refund : RefundsIn({"DRAFT", "REVIEW_REQUIRED"}),
                         items : Subsets, amount : A, method : Methods] :
                    Prepared(q.items, q.amount, q.refund) /\ Editable(q.refund)}
  <2>1. p.op = "updateRefund" /\ p.refund \in RefundsIn({"DRAFT", "REVIEW_REQUIRED"})
        /\ p.items \in Subsets /\ p.amount \in A /\ p.method \in Methods
        /\ Prepared(p.items, p.amount, p.refund) /\ Editable(p.refund)
    BY ONLY <1>2
  <2>2. p.items \in SUBSET Lines /\ p.amount \in Nat
    BY ONLY <2>1, <1>a DEF Subsets
  <2>3. p.refund \in DOMAIN refunds /\ refunds[p.refund].status \in {"DRAFT", "REVIEW_REQUIRED"}
    BY ONLY <2>1 DEF RefundsIn
  <2>4. QED
    BY ONLY <2>1, <2>2, <2>3 DEF RefundOps, OnReturn, OnRefund, ReturnPlanOK, ReturnRead, RefundRead
<1>3. CASE p \in {[op |-> "submit", refund |-> f] :
                    f \in {f \in RefundsIn({"DRAFT", "REVIEW_REQUIRED"}) :
                             /\ Prepared(refunds[f].items, refunds[f].amount, f)
                             /\ Editable(f)}}
  <2>1. p.op = "submit" /\ p.refund \in RefundsIn({"DRAFT", "REVIEW_REQUIRED"})
        /\ Prepared(refunds[p.refund].items, refunds[p.refund].amount, p.refund) /\ Editable(p.refund)
    BY ONLY <1>3
  <2>2. QED
    BY ONLY <2>1 DEF RefundsIn, RefundOps, OnReturn, OnRefund, ReturnPlanOK, ReturnRead, RefundRead
<1>4. CASE p \in {q \in [op : {"approve"}, refund : RefundsIn({"PENDING_APPROVAL"}), amount : B] :
                    /\ q.amount <= refunds[q.refund].eligible
                    /\ TotalRefund(RefundsIn(Granted) \ {q.refund}) + q.amount <= Paid}
  <2>1. p.op = "approve" /\ p.refund \in RefundsIn({"PENDING_APPROVAL"}) /\ p.amount \in B
        /\ p.amount <= refunds[p.refund].eligible
        /\ TotalRefund(RefundsIn(Granted) \ {p.refund}) + p.amount <= Paid
    BY ONLY <1>4
  <2>2. p.amount \in Nat /\ p.amount > 0
    BY ONLY <2>1, <1>a
  <2>3. p.refund \in DOMAIN refunds /\ refunds[p.refund].status = "PENDING_APPROVAL"
    BY ONLY <2>1 DEF RefundsIn
  <2>4. QED
    BY ONLY <2>1, <2>2, <2>3 DEF RefundOps, OnReturn, OnRefund, ReturnPlanOK, ReturnRead, RefundRead
<1>5. CASE p \in {[op |-> op, refund |-> f] : op \in {"correct", "rejectRefund"},
                                              f \in RefundsIn({"PENDING_APPROVAL", "REVIEW_REQUIRED"})}
  BY ONLY <1>5 DEF RefundsIn, RefundOps, OnReturn, OnRefund, ReturnPlanOK, ReturnRead, RefundRead
<1>6. CASE p \in {[op |-> "cancel", refund |-> f] :
                    f \in RefundsIn({"DRAFT", "PENDING_APPROVAL", "REVIEW_REQUIRED", "APPROVED"})}
  BY ONLY <1>6 DEF RefundsIn, RefundOps, OnReturn, OnRefund, ReturnPlanOK, ReturnRead, RefundRead
<1>7. CASE p \in {[op |-> "process", refund |-> f, amount |-> ActiveAmount(f),
                   method |-> refunds[f].method, credit |-> storeCredit] :
                    f \in {f \in RefundsIn({"APPROVED"}) :
                             /\ refunds[f].return # 0
                             /\ returns[refunds[f].return].status = "COMPLETED"}}
  <2>1. PICK f \in {f \in RefundsIn({"APPROVED"}) :
                      /\ refunds[f].return # 0
                      /\ returns[refunds[f].return].status = "COMPLETED"} :
          p = [op |-> "process", refund |-> f, amount |-> ActiveAmount(f),
               method |-> refunds[f].method, credit |-> storeCredit]
    BY ONLY <1>7
  <2>2. f \in DOMAIN refunds /\ refunds[f].status = "APPROVED" /\ refunds[f].return # 0
        /\ returns[refunds[f].return].status = "COMPLETED"
    BY ONLY <2>1 DEF RefundsIn
  <2>3. ActiveAmount(f) \in Nat /\ storeCredit \in Nat
    BY <2>2, ReturnsTyped DEF ActiveAmount, Refunds, ReturnRecordsOK
  <2>4. p.op = "process" /\ p.refund = f /\ p.amount = ActiveAmount(f)
        /\ p.method = refunds[f].method /\ p.credit = storeCredit
    BY ONLY <2>1
  <2>5. QED
    BY ONLY <2>2, <2>3, <2>4 DEF RefundOps, OnReturn, OnRefund, ReturnPlanOK, ReturnRead, RefundRead
<1>8. QED
  BY <1>1, <1>2, <1>3, <1>4, <1>5, <1>6, <1>7 DEF RefundPlans, A, B

LEMMA ReturnsPlanRead ==
    ASSUME ReturnRecordsOK, NEW p \in ReturnsPlans
    PROVE  ReturnPlanOK(p) /\ ReturnRead(p) /\ RefundRead(p)
BY RequestPlanRead, ExchangePlanRead, RefundPlanRead DEF ReturnsPlans

-----------------------------------------------------------------------------
(***************************************************************************)
(* Returns: what each write does to the requests and the refunds.          *)
(***************************************************************************)
SameRequest(x, y) == y.items = x.items /\ y.accepted = x.accepted /\ y.method = x.method
SameRefund(x, y) ==
    /\ y.items = x.items /\ y.amount = x.amount /\ y.eligible = x.eligible
    /\ y.approved = x.approved /\ y.method = x.method /\ y.payouts = x.payouts
Itemless(z, t, a) ==
    /\ z.status = "PENDING_APPROVAL" /\ z.items = {} /\ z.amount = a /\ z.eligible = a
    /\ z.approved = 0 /\ z.return = t /\ z.payouts = 0

LEMMA MoveShape ==
    ASSUME ReturnRecordsOK, NEW t \in DOMAIN returns, NEW s \in ReturnStatuses, MoveReturn(t, s)
    PROVE  \E y : ReturnSet(t, y) /\ y.status = s /\ SameRequest(returns[t], y)
<1>1. returns[t] \in ReturnRequests
  BY ReturnsTyped
<1>2. PICK y : y = [returns[t] EXCEPT !.status = s]
  OBVIOUS
<1>3. y \in ReturnRequests /\ y.status = s /\ SameRequest(returns[t], y)
  BY ONLY <1>1, <1>2, ReturnMoved, s \in ReturnStatuses DEF SameRequest
<1>4. returns' = [returns EXCEPT ![t] = y]
  BY ONLY <1>2, MoveReturn(t, s) DEF MoveReturn
<1>5. QED
  BY ONLY <1>3, <1>4, t \in DOMAIN returns DEF ReturnSet

LEMMA InspectShape ==
    ASSUME ReturnRecordsOK, NEW p, ReturnPlanOK(p), InspectReturn(p)
    PROVE  \E y : /\ ReturnSet(p.return, y) /\ y.status = "INSPECTED" /\ y.accepted \subseteq y.items
                  /\ y.items = returns[p.return].items /\ y.method = returns[p.return].method
<1>1. p.return \in DOMAIN returns /\ p.accepted \in SUBSET Lines
      /\ p.accepted \subseteq returns[p.return].items
      /\ returns' = [returns EXCEPT ![p.return].status = "INSPECTED", ![p.return].accepted = p.accepted]
  BY DEF InspectReturn, ReturnPlanOK, OnReturn
<1>2. PICK t \in DOMAIN returns, a \in SUBSET Lines : t = p.return /\ a = p.accepted
  BY <1>1
<1>3. returns[t] \in ReturnRequests
  BY ReturnsTyped
<1>4. PICK y : y = [returns[t] EXCEPT !.status = "INSPECTED", !.accepted = a]
  OBVIOUS
<1>5. /\ y \in ReturnRequests
      /\ y.status = "INSPECTED" /\ y.items = returns[t].items /\ y.accepted = a
      /\ y.method = returns[t].method
  BY ONLY <1>3, <1>4, a \in SUBSET Lines DEF ReturnRequests, OpenReturns
<1>6. returns' = [returns EXCEPT ![t] = y]
  BY ONLY <1>1, <1>2, <1>4
<1>7. QED
  BY ONLY <1>1, <1>2, <1>5, <1>6 DEF ReturnSet

LEMMA ItemlessMade ==
    ASSUME NEW t \in Nat, NEW a \in Nat, NEW m \in Methods,
           refunds' = Append(refunds, ItemlessRefund(t, a, m))
    PROVE  \E z : RefundNew(z) /\ Itemless(z, t, a)
<1>1. PICK z : z = [status |-> "PENDING_APPROVAL", items |-> {}, amount |-> a, eligible |-> a,
                    approved |-> 0, method |-> m, return |-> t, payouts |-> 0]
  OBVIOUS
<1>2. /\ z \in Refunds
      /\ z.status = "PENDING_APPROVAL" /\ z.items = {} /\ z.amount = a /\ z.eligible = a
      /\ z.approved = 0 /\ z.method = m /\ z.return = t /\ z.payouts = 0
  <2>1. {} \in SUBSET Lines
    OBVIOUS
  <2>2. QED
    BY ONLY <1>1, <2>1, t \in Nat, a \in Nat, m \in Methods DEF Refunds, Reserved
<1>3. refunds' = Append(refunds, z)
  BY ONLY <1>1, refunds' = Append(refunds, ItemlessRefund(t, a, m)) DEF ItemlessRefund
<1>4. QED
  BY ONLY <1>2, <1>3 DEF RefundNew, Itemless

LEMMA ApproveReturnShape ==
    ASSUME ReturnRecordsOK, NEW p, ReturnPlanOK(p), ApproveReturn(p)
    PROVE  /\ \E y : ReturnSet(p.return, y) /\ y.status = "APPROVED" /\ SameRequest(returns[p.return], y)
           /\ \/ refunds' = refunds
              \/ /\ p.makesRefund
                 /\ \E z : RefundNew(z) /\ Itemless(z, p.return, Cardinality(p.accepted))
<1>1. /\ p.op = "approveReturn" /\ p.return \in DOMAIN returns /\ p.accepted \in SUBSET Lines
      /\ p.makesRefund => returns[p.return].method # "EXCHANGE"
  BY DEF ApproveReturn, ReturnPlanOK, OnReturn
<1>2. PICK t \in DOMAIN returns : t = p.return
  BY <1>1
<1>3. returns[t] \in ReturnRequests /\ t \in Nat
  BY ReturnsTyped
<1>4. PICK y : y = [returns[t] EXCEPT !.status = "APPROVED"]
  OBVIOUS
<1>5. y \in ReturnRequests /\ y.status = "APPROVED" /\ SameRequest(returns[t], y)
  <2>1. "APPROVED" \in ReturnStatuses
    BY DEF ReturnStatuses, OpenReturns
  <2>2. QED
    BY ONLY <1>3, <1>4, <2>1, ReturnMoved DEF SameRequest
<1>6. returns' = [returns EXCEPT ![t] = y]
  BY <1>2, <1>4 DEF ApproveReturn
<1>7. ReturnSet(t, y)
  BY ONLY <1>5, <1>6, t \in DOMAIN returns DEF ReturnSet
<1>8. ASSUME p.makesRefund
      PROVE  \E z : RefundNew(z) /\ Itemless(z, p.return, Cardinality(p.accepted))
  <2>1. refunds' = Append(refunds, ItemlessRefund(p.return, Cardinality(p.accepted),
                                                  returns[p.return].method))
    BY <1>8 DEF ApproveReturn
  <2>2. returns[t].method \in Methods
    BY <1>1, <1>2, <1>3, <1>8 DEF ReturnRequests
  <2>3. Cardinality(p.accepted) \in Nat
    BY <1>1, LinesFinite
  <2>4. QED
    BY ONLY <1>2, <1>3, <2>1, <2>2, <2>3, ItemlessMade
<1>9. ~p.makesRefund => refunds' = refunds
  BY DEF ApproveReturn
<1>10. QED
  BY ONLY <1>2, <1>5, <1>7, <1>8, <1>9

LEMMA CompleteShape ==
    ASSUME ReturnRecordsOK, NEW p, ReturnPlanOK(p), CompleteReturn(p)
    PROVE  \E y : ReturnSet(p.return, y) /\ y.status = "COMPLETED" /\ SameRequest(returns[p.return], y)
<1>1. p.return \in DOMAIN returns
  BY DEF CompleteReturn, ReturnPlanOK, OnReturn
<1>2. PICK t \in DOMAIN returns : t = p.return
  BY <1>1
<1>3. returns[t] \in ReturnRequests
  BY ReturnsTyped
<1>4. PICK y : y = [returns[t] EXCEPT !.status = "COMPLETED"]
  OBVIOUS
<1>5. y \in ReturnRequests /\ y.status = "COMPLETED" /\ SameRequest(returns[t], y)
  <2>1. "COMPLETED" \in ReturnStatuses
    BY DEF ReturnStatuses, OpenReturns
  <2>2. QED
    BY ONLY <1>3, <1>4, <2>1, ReturnMoved DEF SameRequest
<1>6. returns' = [returns EXCEPT ![t] = y]
  BY <1>2, <1>4 DEF CompleteReturn
<1>7. QED
  BY ONLY <1>2, <1>5, <1>6 DEF ReturnSet

\* The value that an exchange takes for its return, and what it leaves.
Exchanges == [key: ExchangeKeys, return: Nat, value: Nat]

LEMMA ExchangeShape ==
    ASSUME ReturnRecordsOK, NEW p, ReturnPlanOK(p), CreateExchange(p)
    PROVE  /\ returns' = returns /\ p.return \in DOMAIN returns
           /\ \E x \in Exchanges :
                /\ x.return = p.return /\ exchanges' = Append(exchanges, x)
                /\ \/ x.value = Cardinality(returns[p.return].accepted) /\ refunds' = refunds
                   \/ \E a \in Nat : \E z :
                        /\ x.value + a = Cardinality(returns[p.return].accepted)
                        /\ RefundNew(z) /\ Itemless(z, p.return, a)
<1>1. p.return \in DOMAIN returns /\ p.key \in ExchangeKeys /\ p.total \in Nat
  BY DEF CreateExchange, ReturnPlanOK, OnReturn
<1>2. PICK t \in DOMAIN returns, k \in ExchangeKeys, v \in Nat : t = p.return /\ k = p.key /\ v = p.total
  BY <1>1
<1>3. returns[t] \in ReturnRequests /\ t \in Nat
  BY ReturnsTyped
<1>4. PICK c \in Nat : c = Cardinality(returns[t].accepted)
  <2>1. returns[t].accepted \in SUBSET Lines
    BY <1>3 DEF ReturnRequests
  <2>2. QED
    BY <2>1, LinesFinite
<1>5. returns' = returns
  BY DEF CreateExchange
<1>6. PICK x : x = [key |-> k, return |-> t, value |-> IF v < c THEN v ELSE c]
  OBVIOUS
<1>7. exchanges' = Append(exchanges, x)
  BY <1>2, <1>4, <1>6 DEF CreateExchange
<1>8. x \in Exchanges /\ x.return = t /\ x.value = IF v < c THEN v ELSE c
  <2>1. PICK w \in Nat : w = IF v < c THEN v ELSE c
    BY ONLY v \in Nat, c \in Nat
  <2>2. QED
    BY ONLY <1>3, <1>6, <2>1, k \in ExchangeKeys, t \in Nat DEF Exchanges
<1>9. CASE v < c
  <2>1. refunds' = Append(refunds, ItemlessRefund(p.return, c - v, "STORE_CREDIT"))
    BY <1>2, <1>4, <1>9 DEF CreateExchange
  <2>2. PICK a \in Nat : a = c - v /\ v + a = c
    <3>1. c - v \in Nat /\ v + (c - v) = c
      BY ONLY <1>9, v \in Nat, c \in Nat
    <3>2. QED
      BY ONLY <3>1
  <2>3. PICK z : RefundNew(z) /\ Itemless(z, t, a)
    BY ONLY <1>2, <1>3, <2>1, <2>2, ItemlessMade, ReturnsAssumption
  <2>4. x.value = v
    BY ONLY <1>8, <1>9
  <2>5. QED
    BY ONLY <1>2, <1>4, <1>5, <1>7, <1>8, <2>2, <2>3, <2>4
<1>10. CASE ~(v < c)
  <2>1. refunds' = refunds
    BY <1>2, <1>4, <1>10 DEF CreateExchange
  <2>2. QED
    BY ONLY <1>2, <1>4, <1>5, <1>7, <1>8, <1>10, <2>1
<1>11. QED
  BY ONLY <1>9, <1>10

LEMMA CreateRefundShape ==
    ASSUME ReturnRecordsOK, NEW p, ReturnPlanOK(p), CreateRefundRequest(p)
    PROVE  /\ returns' = returns
           /\ \E z : /\ RefundNew(z) /\ z.status = "DRAFT" /\ z.amount = p.amount
                     /\ z.eligible = Cardinality(p.items) /\ z.approved = 0
                     /\ z.return = 0 /\ z.payouts = 0
<1>1. p.items \in SUBSET Lines /\ p.amount \in Nat /\ p.method \in Methods
  BY DEF CreateRefundRequest, ReturnPlanOK
<1>2. PICK c \in Nat : c = Cardinality(p.items)
  BY <1>1, LinesFinite
<1>3. PICK z : z = [status |-> "DRAFT", items |-> p.items, amount |-> p.amount, eligible |-> c,
                    approved |-> 0, method |-> p.method, return |-> 0, payouts |-> 0]
  OBVIOUS
<1>4. /\ z \in Refunds
      /\ z.status = "DRAFT" /\ z.items = p.items /\ z.amount = p.amount /\ z.eligible = c
      /\ z.approved = 0 /\ z.method = p.method /\ z.return = 0 /\ z.payouts = 0
  <2>1. 0 \in Nat
    OBVIOUS
  <2>2. QED
    BY ONLY <1>1, <1>3, <2>1, c \in Nat DEF Refunds, Reserved
<1>5. refunds' = Append(refunds, z) /\ returns' = returns
  BY <1>2, <1>3 DEF CreateRefundRequest
<1>6. QED
  BY ONLY <1>2, <1>4, <1>5 DEF RefundNew

LEMMA UpdateShape ==
    ASSUME ReturnRecordsOK, ReturnsNamed, NEW p, ReturnPlanOK(p), UpdateRefundRequest(p)
    PROVE  LET x == refunds[p.refund] IN
           /\ \E y : /\ RefundSet(p.refund, y) /\ y.status = x.status /\ y.amount = p.amount
                     /\ y.eligible = Cardinality(p.items) /\ y.approved = 0 /\ y.method = p.method
                     /\ y.return = x.return /\ y.payouts = x.payouts
           /\ \/ x.return = 0 /\ returns' = returns
              \/ x.return # 0 /\ ReturnSet(x.return, NewReturn(p.items, p.method))
<1>1. /\ p.refund \in DOMAIN refunds
      /\ p.items \in SUBSET Lines /\ p.amount \in Nat /\ p.method \in Methods
  BY DEF UpdateRefundRequest, ReturnPlanOK, OnRefund
<1>2. PICK f \in DOMAIN refunds, i \in SUBSET Lines, a \in Nat, m \in Methods :
        f = p.refund /\ i = p.items /\ a = p.amount /\ m = p.method
  BY <1>1
<1>3. PICK c \in Nat : c = Cardinality(i)
  BY LinesFinite
<1>4. refunds[f] \in Refunds
  BY ReturnsTyped
<1>5. PICK y : y = [refunds[f] EXCEPT !.items = i, !.amount = a, !.eligible = c,
                                      !.approved = 0, !.method = m]
  OBVIOUS
<1>6. /\ y \in Refunds
      /\ y.status = refunds[f].status /\ y.items = i /\ y.amount = a /\ y.eligible = c
      /\ y.approved = 0 /\ y.method = m /\ y.return = refunds[f].return
      /\ y.payouts = refunds[f].payouts
  BY ONLY <1>4, <1>5, i \in SUBSET Lines, a \in Nat, c \in Nat, m \in Methods, 0 \in Nat DEF Refunds
<1>7. refunds' = [refunds EXCEPT ![p.refund].items = p.items, ![p.refund].amount = p.amount,
                                 ![p.refund].eligible = Cardinality(p.items),
                                 ![p.refund].approved = 0, ![p.refund].method = p.method]
  BY DEF UpdateRefundRequest
<1>8. refunds' = [refunds EXCEPT ![f] = y]
  BY ONLY <1>2, <1>3, <1>5, <1>7
<1>9. RefundSet(f, y)
  BY ONLY <1>6, <1>8, f \in DOMAIN refunds DEF RefundSet
<1>10. refunds[f].return = 0 => returns' = returns
  BY <1>2 DEF UpdateRefundRequest
<1>11. ASSUME refunds[f].return # 0 PROVE ReturnSet(refunds[f].return, NewReturn(p.items, p.method))
  <2>1. returns' = [returns EXCEPT ![refunds[f].return] = NewReturn(p.items, p.method)]
    BY <1>2, <1>11 DEF UpdateRefundRequest, SyncRefundReturnRequest
  <2>2. refunds[f].return \in DOMAIN returns
    <3>1. refunds[f].return \in 0..Len(returns) /\ DOMAIN returns = 1..Len(returns) /\ Len(returns) \in Nat
      BY ReturnsTyped DEF ReturnsNamed
    <3>2. QED
      BY ONLY <1>11, <3>1
  <2>3. NewReturn(p.items, p.method) \in ReturnRequests
    BY <1>1, ReturnMade
  <2>4. QED
    BY ONLY <2>1, <2>2, <2>3 DEF ReturnSet
<1>12. QED
  BY ONLY <1>2, <1>3, <1>6, <1>9, <1>10, <1>11

LEMMA SubmitShape ==
    ASSUME ReturnRecordsOK, ReturnsNamed, NEW p, ReturnPlanOK(p), SubmitRefundRequest(p)
    PROVE  LET x == refunds[p.refund] IN
           \E y : /\ RefundSet(p.refund, y) /\ y.status = "PENDING_APPROVAL" /\ SameRefund(x, y)
                  /\ \/ /\ x.return # 0 /\ y.return = x.return
                        /\ ReturnSet(x.return, NewReturn(x.items, x.method))
                     \/ /\ x.return = 0 /\ y.return = Len(returns) + 1
                        /\ ReturnNew(NewReturn(x.items, x.method))
<1>1. p.refund \in DOMAIN refunds
  BY DEF SubmitRefundRequest, ReturnPlanOK, OnRefund
<1>2. PICK f \in DOMAIN refunds : f = p.refund
  BY <1>1
<1>3. PICK x \in Refunds : x = refunds[f]
  BY ReturnsTyped
<1>4. NewReturn(x.items, x.method) \in ReturnRequests
  <2>1. x.items \in SUBSET Lines /\ x.method \in Methods
    BY ONLY x \in Refunds DEF Refunds
  <2>2. QED
    BY ONLY <2>1, ReturnMade
<1>5. x.return \in 0..Len(returns) /\ DOMAIN returns = 1..Len(returns) /\ Len(returns) \in Nat
  BY <1>3, ReturnsTyped DEF ReturnsNamed
<1>6. CASE x.return # 0
  <2>1. PICK y : y = [x EXCEPT !.status = "PENDING_APPROVAL"]
    OBVIOUS
  <2>2. y \in Refunds /\ y.status = "PENDING_APPROVAL" /\ SameRefund(x, y) /\ y.return = x.return
    <3>1. "PENDING_APPROVAL" \in RefundStatuses
      BY DEF RefundStatuses, Reserved
    <3>2. QED
      BY ONLY <2>1, <3>1, RefundMoved, x \in Refunds DEF SameRefund
  <2>3. /\ returns' = [returns EXCEPT ![x.return] = NewReturn(x.items, x.method)]
        /\ refunds' = [refunds EXCEPT ![f].status = "PENDING_APPROVAL"]
    BY <1>2, <1>3, <1>6 DEF SubmitRefundRequest, SyncRefundReturnRequest
  <2>4. refunds' = [refunds EXCEPT ![f] = y]
    BY ONLY <1>3, <2>1, <2>3
  <2>5. x.return \in DOMAIN returns
    BY ONLY <1>5, <1>6
  <2>6. RefundSet(f, y) /\ ReturnSet(x.return, NewReturn(x.items, x.method))
    BY ONLY <1>4, <2>2, <2>3, <2>4, <2>5, f \in DOMAIN refunds DEF RefundSet, ReturnSet
  <2>7. QED
    BY ONLY <1>2, <1>3, <1>6, <2>2, <2>6
<1>7. CASE x.return = 0
  <2>1. PICK n \in Nat : n = Len(returns) + 1
    BY ONLY <1>5
  <2>2. PICK y : y = [x EXCEPT !.status = "PENDING_APPROVAL", !.return = n]
    OBVIOUS
  <2>3. y \in Refunds /\ y.status = "PENDING_APPROVAL" /\ SameRefund(x, y) /\ y.return = n
    BY ONLY <2>2, x \in Refunds, n \in Nat DEF SameRefund, Refunds, Reserved
  <2>4. /\ returns' = Append(returns, NewReturn(x.items, x.method))
        /\ refunds' = [refunds EXCEPT ![f].status = "PENDING_APPROVAL", ![f].return = n]
    BY <1>2, <1>3, <1>7, <2>1 DEF SubmitRefundRequest
  <2>5. refunds' = [refunds EXCEPT ![f] = y]
    BY ONLY <1>3, <2>2, <2>4
  <2>6. RefundSet(f, y) /\ ReturnNew(NewReturn(x.items, x.method))
    BY ONLY <1>4, <2>3, <2>4, <2>5, f \in DOMAIN refunds DEF RefundSet, ReturnNew
  <2>7. QED
    BY ONLY <1>2, <1>3, <1>7, <2>1, <2>3, <2>6
<1>8. QED
  BY ONLY <1>6, <1>7

LEMMA ApproveShape ==
    ASSUME ReturnRecordsOK, NEW p, ReturnPlanOK(p), ApproveRefund(p)
    PROVE  LET x == refunds[p.refund] IN
           /\ returns' = returns
           /\ \E y : /\ RefundSet(p.refund, y) /\ y.eligible = x.eligible /\ y.approved = p.amount
                     /\ y.method = x.method /\ y.return = x.return /\ y.payouts = x.payouts
                     /\ \/ y.status = "REVIEW_REQUIRED" /\ y.amount = x.amount
                        \/ y.status = "APPROVED" /\ y.amount = p.amount
<1>1. p.refund \in DOMAIN refunds /\ p.amount \in Nat
  BY DEF ApproveRefund, ReturnPlanOK, OnRefund
<1>2. PICK f \in DOMAIN refunds, a \in Nat : f = p.refund /\ a = p.amount
  BY <1>1
<1>3. PICK x \in Refunds : x = refunds[f]
  BY ReturnsTyped
<1>4. returns' = returns
  BY DEF ApproveRefund
<1>5. \/ refunds' = [refunds EXCEPT ![p.refund].status = "REVIEW_REQUIRED",
                                    ![p.refund].approved = p.amount]
      \/ refunds' = [refunds EXCEPT ![p.refund].status = "APPROVED", ![p.refund].amount = p.amount,
                                    ![p.refund].approved = p.amount]
  BY DEF ApproveRefund
<1>6. CASE refunds' = [refunds EXCEPT ![p.refund].status = "REVIEW_REQUIRED",
                                      ![p.refund].approved = p.amount]
  <2>1. PICK y : y = [x EXCEPT !.status = "REVIEW_REQUIRED", !.approved = a]
    OBVIOUS
  <2>2. /\ y \in Refunds
        /\ y.status = "REVIEW_REQUIRED" /\ y.items = x.items /\ y.amount = x.amount
        /\ y.eligible = x.eligible /\ y.approved = a /\ y.method = x.method
        /\ y.return = x.return /\ y.payouts = x.payouts
    BY ONLY <2>1, x \in Refunds, a \in Nat DEF Refunds, Reserved
  <2>3. refunds' = [refunds EXCEPT ![f] = y]
    BY ONLY <1>2, <1>3, <1>6, <2>1
  <2>4. QED
    BY ONLY <1>2, <1>3, <1>4, <2>2, <2>3 DEF RefundSet
<1>7. CASE refunds' = [refunds EXCEPT ![p.refund].status = "APPROVED", ![p.refund].amount = p.amount,
                                      ![p.refund].approved = p.amount]
  <2>1. PICK y : y = [x EXCEPT !.status = "APPROVED", !.amount = a, !.approved = a]
    OBVIOUS
  <2>2. /\ y \in Refunds
        /\ y.status = "APPROVED" /\ y.items = x.items /\ y.amount = a
        /\ y.eligible = x.eligible /\ y.approved = a /\ y.method = x.method
        /\ y.return = x.return /\ y.payouts = x.payouts
    BY ONLY <2>1, x \in Refunds, a \in Nat DEF Refunds, Reserved
  <2>3. refunds' = [refunds EXCEPT ![f] = y]
    BY ONLY <1>2, <1>3, <1>7, <2>1
  <2>4. QED
    BY ONLY <1>2, <1>3, <1>4, <2>2, <2>3 DEF RefundSet
<1>8. QED
  BY ONLY <1>5, <1>6, <1>7

LEMMA RefundStatusShape ==
    ASSUME ReturnRecordsOK, NEW f \in DOMAIN refunds, NEW s \in RefundStatuses,
           refunds' = [refunds EXCEPT ![f].status = s]
    PROVE  \E y : /\ RefundSet(f, y) /\ y.status = s /\ SameRefund(refunds[f], y)
                  /\ y.return = refunds[f].return
<1>1. PICK x \in Refunds : x = refunds[f]
  BY ReturnsTyped
<1>2. PICK y : y = [x EXCEPT !.status = s]
  OBVIOUS
<1>3. y \in Refunds /\ y.status = s /\ SameRefund(x, y) /\ y.return = x.return
  BY ONLY <1>2, RefundMoved, x \in Refunds, s \in RefundStatuses DEF SameRefund
<1>4. refunds' = [refunds EXCEPT ![f] = y]
  BY ONLY <1>1, <1>2, refunds' = [refunds EXCEPT ![f].status = s]
<1>5. QED
  BY ONLY <1>1, <1>3, <1>4 DEF RefundSet

LEMMA DropShape ==
    ASSUME ReturnRecordsOK, ReturnsNamed, NEW f \in DOMAIN refunds,
           NEW s \in {"REJECTED", "CANCELLED"}, DropRefund(f, s)
    PROVE  LET t == refunds[f].return IN
           /\ \E y : /\ RefundSet(f, y) /\ y.status = s /\ SameRefund(refunds[f], y)
                     /\ y.return = t
           /\ \/ returns' = returns
              \/ \E y : /\ ReturnSet(t, y) /\ returns[t].status \in OpenReturns
                        /\ y.status = "REJECTED" /\ SameRequest(returns[t], y)
<1>1. s \in RefundStatuses /\ refunds' = [refunds EXCEPT ![f].status = s]
  BY DEF RefundStatuses, DropRefund
<1>2. \E y : /\ RefundSet(f, y) /\ y.status = s /\ SameRefund(refunds[f], y)
             /\ y.return = refunds[f].return
  BY <1>1, RefundStatusShape
<1>3. PICK t : t = refunds[f].return
  OBVIOUS
<1>4. PICK r : /\ r = returns'
               /\ r = [u \in DOMAIN returns |->
                         IF u = t /\ returns[u].status \in OpenReturns
                           THEN [returns[u] EXCEPT !.status = "REJECTED"] ELSE returns[u]]
  BY <1>3 DEF DropRefund
<1>5. returns \in Seq(ReturnRequests)
  BY DEF ReturnRecordsOK
<1>6. CASE t \in DOMAIN returns /\ returns[t].status \in OpenReturns
  <2>1. PICK y : y = [returns[t] EXCEPT !.status = "REJECTED"]
    OBVIOUS
  <2>2. y \in ReturnRequests /\ y.status = "REJECTED" /\ SameRequest(returns[t], y)
    <3>1. "REJECTED" \in ReturnStatuses
      BY DEF ReturnStatuses
    <3>2. returns[t] \in ReturnRequests
      BY <1>6, ReturnsTyped
    <3>3. QED
      BY ONLY <2>1, <3>1, <3>2, ReturnMoved DEF SameRequest
  <2>3. r = [returns EXCEPT ![t] = y]
    <3>1. r = [u \in DOMAIN returns |-> IF u = t THEN y ELSE returns[u]]
      BY ONLY <1>4, <1>6, <2>1
    <3>2. QED
      BY ONLY <1>5, <3>1
  <2>4. QED
    BY ONLY <1>2, <1>3, <1>4, <1>6, <2>2, <2>3 DEF ReturnSet
<1>7. CASE ~(t \in DOMAIN returns /\ returns[t].status \in OpenReturns)
  <2>1. r = [u \in DOMAIN returns |-> returns[u]]
    BY ONLY <1>4, <1>7
  <2>2. r = returns
    BY ONLY <1>5, <2>1
  <2>3. QED
    BY ONLY <1>2, <1>3, <1>4, <2>2
<1>8. QED
  BY ONLY <1>6, <1>7

CashMethods == {"CASH", "BANK_TRANSFER"}

LEMMA ProcessShape ==
    ASSUME ReturnRecordsOK, NEW p, ReturnPlanOK(p), ProcessRefund(p)
    PROVE  LET x == refunds[p.refund] IN
           /\ returns' = returns
           /\ \E y : /\ RefundSet(p.refund, y) /\ y.return = x.return /\ y.eligible = x.eligible
                     /\ y.amount = x.amount /\ y.approved = x.approved /\ y.method = x.method
                     /\ \/ /\ y.status = "PROCESSING" /\ y.payouts = x.payouts
                           /\ p.method = "MPESA" /\ storeCredit' = storeCredit
                        \/ /\ y.status = "COMPLETED" /\ y.payouts = x.payouts + 1
                           /\ x.method \in CashMethods => x.payouts = 0
                           /\ storeCredit' = IF p.method = "STORE_CREDIT" THEN p.credit + p.amount
                                             ELSE storeCredit
<1>1. p.refund \in DOMAIN refunds /\ p.method = refunds[p.refund].method
  BY DEF ProcessRefund, ReturnPlanOK, OnRefund
<1>2. PICK f \in DOMAIN refunds : f = p.refund
  BY <1>1
<1>3. PICK x \in Refunds : x = refunds[f]
  BY ReturnsTyped
<1>4. returns' = returns
  BY DEF ProcessRefund
<1>5. CASE p.method = "MPESA"
  <2>1. refunds' = [refunds EXCEPT ![f].status = "PROCESSING"] /\ storeCredit' = storeCredit
    BY <1>2, <1>5 DEF ProcessRefund
  <2>2. "PROCESSING" \in RefundStatuses
    BY DEF RefundStatuses, Reserved
  <2>3. \E y : /\ RefundSet(f, y) /\ y.status = "PROCESSING" /\ SameRefund(refunds[f], y)
               /\ y.return = refunds[f].return
    BY <2>1, <2>2, RefundStatusShape
  <2>4. QED
    BY ONLY <1>2, <1>4, <1>5, <2>1, <2>3 DEF SameRefund
<1>6. CASE p.method # "MPESA"
  <2>1. /\ p.method \in CashMethods => x.payouts = 0
        /\ refunds' = [refunds EXCEPT ![f].status = "COMPLETED", ![f].payouts = @ + 1]
        /\ storeCredit' = IF p.method = "STORE_CREDIT" THEN p.credit + p.amount ELSE storeCredit
    BY <1>2, <1>3, <1>6 DEF ProcessRefund, CashMethods
  <2>2. PICK n \in Nat : n = x.payouts + 1
    <3>1. x.payouts \in Nat
      BY ONLY x \in Refunds DEF Refunds
    <3>2. QED
      BY ONLY <3>1
  <2>3. PICK y : y = [x EXCEPT !.status = "COMPLETED", !.payouts = n]
    OBVIOUS
  <2>4. /\ y \in Refunds
        /\ y.status = "COMPLETED" /\ y.items = x.items /\ y.amount = x.amount
        /\ y.eligible = x.eligible /\ y.approved = x.approved /\ y.method = x.method
        /\ y.return = x.return /\ y.payouts = n
    BY ONLY <2>3, n \in Nat, x \in Refunds DEF Refunds, Reserved
  <2>5. refunds' = [refunds EXCEPT ![f] = y]
    BY ONLY <1>3, <2>1, <2>2, <2>3
  <2>6. RefundSet(f, y)
    BY ONLY <2>4, <2>5, f \in DOMAIN refunds DEF RefundSet
  <2>7. QED
    BY ONLY <1>1, <1>2, <1>3, <1>4, <2>1, <2>2, <2>4, <2>6
<1>7. QED
  BY ONLY <1>5, <1>6

-----------------------------------------------------------------------------
(***************************************************************************)
(* Returns: a step on the requests, the refunds and the exchanges.         *)
(***************************************************************************)
Fresh(p) == ReturnRead(p) /\ RefundRead(p)

Active(x) == IF x.approved > 0 THEN x.approved ELSE x.amount

Waiting == {"DRAFT", "PENDING_APPROVAL", "REVIEW_REQUIRED"}

\* What is asked for was checked: by return request t (0: a new one) as it is,
\* or for a request of a customer or of a refund, against what the others ask.
AskedFor(y, t) ==
    \/ t \in DOMAIN returns /\ y.items = returns[t].items
    \/ t = 0 /\ Returnable(y.items)
    \/ \E f \in DOMAIN refunds : refunds[f].return = t /\ Refundable(y.items, f)

RequestsMove(p) ==
    \/ returned' = returned /\ returns' = returns
    \/ /\ returned' = returned
       /\ \E t, y : /\ ReturnSet(t, y) /\ y.status # "COMPLETED"
                    /\ \/ y.accepted \subseteq y.items
                       \/ y.accepted = returns[t].accepted /\ y.items = returns[t].items
                    /\ y.method = returns[t].method \/ y.method \in Methods
                    /\ Fresh(p) => returns[t].status \in OpenReturns /\ AskedFor(y, t)
    \/ /\ returned' = returned
       /\ \E y : /\ ReturnNew(y) /\ y.status = "REQUESTED" /\ y.accepted = y.items
                 /\ Fresh(p) => AskedFor(y, 0)
    \/ /\ returned' = [i \in Lines |-> returned[i] + IF i \in p.accepted THEN 1 ELSE 0]
       /\ p.accepted \in SUBSET Lines
       /\ \E t, y : /\ ReturnSet(t, y) /\ y.status = "COMPLETED" /\ SameRequest(returns[t], y)
                    /\ Fresh(p) => returns[t].status = "APPROVED" /\ y.accepted = p.accepted

\* A refund that waits is edited, approved or dropped; one that is approved can
\* only be cancelled.
RefundEdit(x, y, f) ==
    /\ x.status \in Waiting \/ (x.status = "APPROVED" /\ y.status = "CANCELLED" /\ y.method = x.method)
    /\ y.status \in Waiting \cup {"APPROVED", "REJECTED", "CANCELLED"}
    /\ x.amount <= x.eligible /\ x.approved <= x.eligible =>
         y.amount <= y.eligible /\ y.approved <= y.eligible
    /\ \/ y.eligible = x.eligible
       \/ x.return = 0
       \/ returns[x.return].status \in OpenReturns
    /\ y.status = "APPROVED" => TotalRefund(RefundsIn(Granted) \ {f}) + Active(y) <= Paid

RefundsMove(p) ==
    \/ refunds' = refunds /\ storeCredit' = storeCredit
    \/ /\ storeCredit' = storeCredit
       /\ \E z : /\ RefundNew(z) /\ z.status \in {"DRAFT", "PENDING_APPROVAL"} /\ z.payouts = 0
                 /\ z.approved = 0 /\ z.return \in 0..Len(returns)
                 /\ Fresh(p) => /\ z.amount <= z.eligible
                                /\ z.return # 0 => Unclaimed(z.return)
    \/ /\ storeCredit' = storeCredit
       /\ \E y : /\ RefundSet(p.refund, y) /\ y.payouts = refunds[p.refund].payouts
                 /\ \/ y.return = refunds[p.refund].return
                    \/ /\ refunds[p.refund].return = 0 /\ y.return = Len(returns) + 1
                       /\ Len(returns') = Len(returns) + 1
                 /\ Fresh(p) => RefundEdit(refunds[p.refund], y, p.refund)
    \/ \E y : /\ RefundSet(p.refund, y) /\ y.return = refunds[p.refund].return
              /\ y.eligible = refunds[p.refund].eligible /\ y.amount = refunds[p.refund].amount
              /\ y.approved = refunds[p.refund].approved /\ y.method = refunds[p.refund].method
              /\ Fresh(p) =>
                   /\ refunds[p.refund].status = "APPROVED"
                   /\ refunds[p.refund].return # 0
                   /\ returns[refunds[p.refund].return].status = "COMPLETED"
                   /\ p.credit = storeCredit /\ p.amount = Active(refunds[p.refund])
              /\ p.method = refunds[p.refund].method
              /\ p.credit \in Nat /\ p.amount \in Nat
              /\ \/ /\ y.status = "PROCESSING" /\ y.payouts = refunds[p.refund].payouts
                    /\ p.method = "MPESA" /\ storeCredit' = storeCredit
                 \/ /\ y.status = "COMPLETED" /\ y.payouts = refunds[p.refund].payouts + 1
                    /\ y.method \in CashMethods => refunds[p.refund].payouts = 0
                    /\ storeCredit' = IF p.method = "STORE_CREDIT" THEN p.credit + p.amount
                                      ELSE storeCredit

\* An exchange takes what no refund asks for, and leaves the rest to one.
ExchangesMove(p) ==
    \/ /\ exchanges' = exchanges
       /\ Fresh(p) => \A z : RefundNew(z) =>
                        z.return = 0 \/ returns[z.return].status # "COMPLETED"
    \/ /\ returns' = returns
       /\ \E x \in Exchanges :
            /\ exchanges' = Append(exchanges, x)
            /\ x.return \in DOMAIN returns
            /\ Fresh(p) => /\ returns[x.return].status = "COMPLETED" /\ Unclaimed(x.return)
                           /\ \A e \in DOMAIN exchanges : exchanges[e].return # x.return
            /\ \/ x.value = Cardinality(returns[x.return].accepted) /\ refunds' = refunds
               \/ \E z : /\ RefundNew(z) /\ z.return = x.return
                         /\ x.value + z.eligible = Cardinality(returns[x.return].accepted)

LEMMA RequestsMoved ==
    ASSUME ReturnRecordsOK, ReturnsNamed, NEW p, ReturnPlanOK(p), ReturnsWrite(p)
    PROVE  RequestsMove(p)
<1>1. CASE CreateReturnRequest(p)
  <2>1. p.items \in SUBSET Lines /\ p.method \in Methods \cup {"EXCHANGE"} /\ p.op = "request"
    BY <1>1 DEF CreateReturnRequest, ReturnPlanOK
  <2>2. PICK y : y = NewReturn(p.items, p.method)
    OBVIOUS
  <2>3. y \in ReturnRequests /\ y.status = "REQUESTED" /\ y.items = p.items /\ y.accepted = p.items
    BY ONLY <2>1, <2>2, ReturnMade
  <2>4. returned' = returned /\ ReturnNew(y)
    BY <1>1, <2>2, <2>3 DEF CreateReturnRequest, ReturnNew
  <2>5. Fresh(p) => AskedFor(y, 0)
    BY ONLY <2>1, <2>3 DEF Fresh, ReturnRead, AskedFor
  <2>6. QED
    BY ONLY <2>3, <2>4, <2>5 DEF RequestsMove
<1>2. CASE ReviewReturn(p) \/ RejectReturn(p)
  <2>1. p.return \in DOMAIN returns /\ returned' = returned
    BY <1>2 DEF ReviewReturn, RejectReturn, MoveReturn, ReturnPlanOK, OnReturn
  <2>2. PICK s \in {"UNDER_REVIEW", "REJECTED"} : MoveReturn(p.return, s)
    BY <1>2 DEF ReviewReturn, RejectReturn
  <2>3. s \in ReturnStatuses /\ s # "COMPLETED"
    BY DEF ReturnStatuses, OpenReturns
  <2>4. PICK y : ReturnSet(p.return, y) /\ y.status = s /\ SameRequest(returns[p.return], y)
    BY <2>1, <2>2, <2>3, MoveShape
  <2>5. Fresh(p) => returns[p.return].status \in OpenReturns
    BY ONLY <1>2 DEF ReviewReturn, RejectReturn, Fresh, ReturnRead, OpenReturns
  <2>6. AskedFor(y, p.return)
    BY ONLY <2>1, <2>4 DEF AskedFor, SameRequest
  <2>7. QED
    BY ONLY <2>1, <2>3, <2>4, <2>5, <2>6 DEF RequestsMove, SameRequest
<1>3. CASE InspectReturn(p)
  <2>1. p.return \in DOMAIN returns /\ returned' = returned /\ p.op = "inspect"
    BY <1>3 DEF InspectReturn, ReturnPlanOK, OnReturn
  <2>2. PICK y : /\ ReturnSet(p.return, y) /\ y.status = "INSPECTED" /\ y.accepted \subseteq y.items
                 /\ y.items = returns[p.return].items /\ y.method = returns[p.return].method
    BY <1>3, InspectShape
  <2>3. Fresh(p) => returns[p.return].status \in OpenReturns
    BY ONLY <2>1 DEF Fresh, ReturnRead, OpenReturns
  <2>4. AskedFor(y, p.return)
    BY ONLY <2>1, <2>2 DEF AskedFor
  <2>5. y.status # "COMPLETED"
    BY ONLY <2>2
  <2>6. QED
    BY ONLY <2>1, <2>2, <2>3, <2>4, <2>5 DEF RequestsMove
<1>4. CASE ApproveReturn(p)
  <2>1. p.return \in DOMAIN returns /\ returned' = returned /\ p.op = "approveReturn"
    BY <1>4 DEF ApproveReturn, ReturnPlanOK, OnReturn
  <2>2. PICK y : ReturnSet(p.return, y) /\ y.status = "APPROVED" /\ SameRequest(returns[p.return], y)
    BY <1>4, ApproveReturnShape
  <2>3. Fresh(p) => returns[p.return].status \in OpenReturns
    BY ONLY <2>1 DEF Fresh, ReturnRead, OpenReturns
  <2>4. AskedFor(y, p.return)
    BY ONLY <2>1, <2>2 DEF AskedFor, SameRequest
  <2>5. y.status # "COMPLETED"
    BY ONLY <2>2
  <2>6. QED
    BY ONLY <2>1, <2>2, <2>3, <2>4, <2>5 DEF RequestsMove, SameRequest
<1>5. CASE CompleteReturn(p)
  <2>1. /\ p.op = "completeReturn" /\ p.accepted \in SUBSET Lines
        /\ returned' = [i \in Lines |-> returned[i] + IF i \in p.accepted THEN 1 ELSE 0]
    BY <1>5 DEF CompleteReturn, ReturnPlanOK
  <2>2. PICK y : ReturnSet(p.return, y) /\ y.status = "COMPLETED" /\ SameRequest(returns[p.return], y)
    BY <1>5, CompleteShape
  <2>3. Fresh(p) => returns[p.return].status = "APPROVED" /\ y.accepted = p.accepted
    BY ONLY <2>1, <2>2 DEF Fresh, ReturnRead, SameRequest
  <2>4. QED
    BY ONLY <2>1, <2>2, <2>3 DEF RequestsMove
<1>6. CASE CreateExchange(p) \/ CreateRefundRequest(p) \/ ApproveRefund(p)
           \/ ReturnRefundForCorrection(p) \/ ProcessRefund(p)
  <2>1. returned' = returned /\ returns' = returns
    BY ONLY <1>6 DEF CreateExchange, CreateRefundRequest, ApproveRefund, ReturnRefundForCorrection, ProcessRefund
  <2>2. QED
    BY ONLY <2>1 DEF RequestsMove
<1>7. CASE UpdateRefundRequest(p)
  <2>1. p.op = "updateRefund" /\ p.refund \in DOMAIN refunds /\ p.items \in SUBSET Lines
        /\ p.method \in Methods /\ returned' = returned
    BY <1>7 DEF UpdateRefundRequest, ReturnPlanOK, OnRefund
  <2>2. PICK t : t = refunds[p.refund].return
    OBVIOUS
  <2>3. \/ t = 0 /\ returns' = returns
        \/ t # 0 /\ ReturnSet(t, NewReturn(p.items, p.method))
    BY <1>7, <2>2, UpdateShape
  <2>4. PICK y : y = NewReturn(p.items, p.method)
    OBVIOUS
  <2>5. y.status = "REQUESTED" /\ y.items = p.items /\ y.accepted = p.items /\ y.method = p.method
    BY ONLY <2>1, <2>4, ReturnMade
  <2>6. ASSUME Fresh(p), t # 0 PROVE returns[t].status \in OpenReturns /\ AskedFor(y, t)
    <3>1. Prepared(p.items, p.amount, p.refund) /\ Editable(p.refund)
      BY ONLY <2>1, <2>6 DEF Fresh, RefundRead
    <3>2. Refundable(y.items, p.refund)
      BY ONLY <2>5, <3>1 DEF Prepared
    <3>3. QED
      BY ONLY <2>1, <2>2, <2>6, <3>1, <3>2 DEF Editable, AskedFor
  <2>7. QED
    BY ONLY <2>1, <2>3, <2>4, <2>5, <2>6 DEF RequestsMove
<1>8. CASE SubmitRefundRequest(p)
  <2>1. p.op = "submit" /\ p.refund \in DOMAIN refunds /\ returned' = returned
    BY <1>8 DEF SubmitRefundRequest, ReturnPlanOK, OnRefund
  <2>2. PICK x \in Refunds : x = refunds[p.refund]
    BY <2>1, ReturnsTyped
  <2>3. \/ x.return # 0 /\ ReturnSet(x.return, NewReturn(x.items, x.method))
        \/ x.return = 0 /\ ReturnNew(NewReturn(x.items, x.method))
    BY <1>8, <2>2, SubmitShape
  <2>4. PICK y : y = NewReturn(x.items, x.method)
    OBVIOUS
  <2>5. x.items \in SUBSET Lines /\ x.method \in Methods
    BY ONLY x \in Refunds DEF Refunds
  <2>6. y.status = "REQUESTED" /\ y.items = x.items /\ y.accepted = x.items /\ y.method = x.method
    BY ONLY <2>4, <2>5, ReturnMade
  <2>7. ASSUME Fresh(p)
        PROVE  AskedFor(y, x.return) /\ (x.return # 0 => returns[x.return].status \in OpenReturns)
    <3>1. Prepared(x.items, x.amount, p.refund) /\ Editable(p.refund)
      BY ONLY <2>1, <2>2, <2>7 DEF Fresh, RefundRead
    <3>2. Refundable(y.items, p.refund)
      BY ONLY <2>6, <3>1 DEF Prepared
    <3>3. QED
      BY ONLY <2>1, <2>2, <3>1, <3>2 DEF Editable, AskedFor
  <2>8. QED
    BY ONLY <2>1, <2>3, <2>4, <2>5, <2>6, <2>7 DEF RequestsMove
<1>9. CASE RejectRefund(p) \/ CancelRefund(p)
  <2>1. p.refund \in DOMAIN refunds
    BY <1>9 DEF RejectRefund, CancelRefund, ReturnPlanOK, OnRefund
  <2>2. PICK s \in {"REJECTED", "CANCELLED"} : DropRefund(p.refund, s)
    BY <1>9 DEF RejectRefund, CancelRefund
  <2>3. returned' = returned
    BY <2>2 DEF DropRefund
  <2>4. PICK t : t = refunds[p.refund].return
    OBVIOUS
  <2>5. \/ returns' = returns
        \/ \E y : /\ ReturnSet(t, y) /\ returns[t].status \in OpenReturns
                  /\ y.status = "REJECTED" /\ SameRequest(returns[t], y)
    BY <2>1, <2>2, <2>4, DropShape
  <2>6. CASE returns' = returns
    BY ONLY <2>3, <2>6 DEF RequestsMove
  <2>7. ASSUME NEW y, ReturnSet(t, y), returns[t].status \in OpenReturns,
               y.status = "REJECTED", SameRequest(returns[t], y)
        PROVE  RequestsMove(p)
    <3>1. AskedFor(y, t)
      BY ONLY <2>7 DEF AskedFor, SameRequest, ReturnSet
    <3>2. QED
      BY ONLY <2>3, <2>7, <3>1 DEF RequestsMove, SameRequest
  <2>8. QED
    BY ONLY <2>5, <2>6, <2>7
<1>10. QED
  BY ONLY <1>1, <1>2, <1>3, <1>4, <1>5, <1>6, <1>7, <1>8, <1>9, ReturnsWrite(p) DEF ReturnsWrite

LEMMA ActiveIs ==
    ASSUME NEW f \in DOMAIN refunds
    PROVE  ActiveAmount(f) = Active(refunds[f])
BY DEF ActiveAmount, Active

LEMMA RefundsMoved ==
    ASSUME ReturnRecordsOK, ReturnsNamed, NEW p, ReturnPlanOK(p), ReturnsWrite(p)
    PROVE  RefundsMove(p)
<1>0. /\ DOMAIN returns = 1..Len(returns) /\ Len(returns) \in Nat
      /\ \A f \in DOMAIN refunds : refunds[f].return \in 0..Len(returns)
  BY ReturnsTyped DEF ReturnsNamed
<1>1. CASE CreateReturnRequest(p) \/ ReviewReturn(p) \/ InspectReturn(p)
           \/ RejectReturn(p) \/ CompleteReturn(p)
  <2>1. refunds' = refunds /\ storeCredit' = storeCredit
    BY ONLY <1>1 DEF CreateReturnRequest, ReviewReturn, InspectReturn, RejectReturn, CompleteReturn, MoveReturn
  <2>2. QED
    BY ONLY <2>1 DEF RefundsMove
<1>2. CASE ApproveReturn(p)
  <2>1. p.op = "approveReturn" /\ p.return \in DOMAIN returns /\ storeCredit' = storeCredit
    BY <1>2 DEF ApproveReturn, ReturnPlanOK, OnReturn
  <2>2. \/ refunds' = refunds
        \/ /\ p.makesRefund
           /\ \E z : RefundNew(z) /\ Itemless(z, p.return, Cardinality(p.accepted))
    BY <1>2, ApproveReturnShape
  <2>3. CASE refunds' = refunds
    BY ONLY <2>1, <2>3 DEF RefundsMove
  <2>4. ASSUME p.makesRefund, NEW z, RefundNew(z), Itemless(z, p.return, Cardinality(p.accepted))
        PROVE  RefundsMove(p)
    <3>1. z.status = "PENDING_APPROVAL" /\ z.payouts = 0 /\ z.approved = 0 /\ z.amount = z.eligible
          /\ z.return = p.return /\ z.amount \in Nat
      BY ONLY <2>4 DEF Itemless, RefundNew, Refunds
    <3>2. z.return \in 0..Len(returns) /\ z.amount <= z.eligible
      BY ONLY <1>0, <2>1, <3>1
    <3>3. Fresh(p) => Unclaimed(z.return)
      BY ONLY <2>1, <2>4, <3>1 DEF Fresh, ReturnRead, Unclaimed
    <3>4. QED
      BY ONLY <2>1, <2>4, <3>1, <3>2, <3>3 DEF RefundsMove
  <2>5. QED
    BY ONLY <2>2, <2>3, <2>4
<1>3. CASE CreateExchange(p)
  <2>1. p.op = "exchange" /\ storeCredit' = storeCredit /\ p.return \in DOMAIN returns
    BY <1>3 DEF CreateExchange, ReturnPlanOK, OnReturn
  <2>2. refunds' = refunds \/ \E a \in Nat : \E z : RefundNew(z) /\ Itemless(z, p.return, a)
    BY <1>3, ExchangeShape
  <2>3. CASE refunds' = refunds
    BY ONLY <2>1, <2>3 DEF RefundsMove
  <2>4. ASSUME NEW a \in Nat, NEW z, RefundNew(z), Itemless(z, p.return, a)
        PROVE  RefundsMove(p)
    <3>1. z.status = "PENDING_APPROVAL" /\ z.payouts = 0 /\ z.approved = 0 /\ z.amount = a
          /\ z.eligible = a /\ z.return = p.return
      BY ONLY <2>4 DEF Itemless
    <3>2. z.return \in 0..Len(returns) /\ z.amount <= z.eligible
      BY ONLY <1>0, <2>1, <3>1, a \in Nat
    <3>3. Fresh(p) => Unclaimed(z.return)
      BY ONLY <2>1, <3>1 DEF Fresh, ReturnRead
    <3>4. QED
      BY ONLY <2>1, <2>4, <3>1, <3>2, <3>3 DEF RefundsMove
  <2>5. QED
    BY ONLY <2>2, <2>3, <2>4
<1>4. CASE CreateRefundRequest(p)
  <2>1. p.op = "createRefund" /\ storeCredit' = storeCredit /\ p.items \in SUBSET Lines
    BY <1>4 DEF CreateRefundRequest, ReturnPlanOK
  <2>2. PICK z : /\ RefundNew(z) /\ z.status = "DRAFT" /\ z.amount = p.amount
                 /\ z.eligible = Cardinality(p.items) /\ z.approved = 0
                 /\ z.return = 0 /\ z.payouts = 0
    BY <1>4, CreateRefundShape
  <2>3. z.return \in 0..Len(returns)
    BY ONLY <1>0, <2>2
  <2>4. Fresh(p) => z.amount <= z.eligible
    <3>1. Cardinality(p.items) \in Nat
      BY <2>1, LinesFinite
    <3>2. Fresh(p) => p.amount \in 1..Cardinality(p.items)
      BY ONLY <2>1 DEF Fresh, RefundRead, Prepared
    <3>3. QED
      BY ONLY <2>2, <3>1, <3>2
  <2>5. QED
    BY ONLY <2>1, <2>2, <2>3, <2>4 DEF RefundsMove
<1>5. CASE UpdateRefundRequest(p)
  <2>1. p.op = "updateRefund" /\ storeCredit' = storeCredit /\ p.items \in SUBSET Lines
        /\ p.refund \in DOMAIN refunds
    BY <1>5 DEF UpdateRefundRequest, ReturnPlanOK, OnRefund
  <2>2. PICK x \in Refunds : x = refunds[p.refund]
    BY <2>1, ReturnsTyped
  <2>3. PICK y : /\ RefundSet(p.refund, y) /\ y.status = x.status /\ y.amount = p.amount
                 /\ y.eligible = Cardinality(p.items) /\ y.approved = 0 /\ y.method = p.method
                 /\ y.return = x.return /\ y.payouts = x.payouts
    BY <1>5, <2>2, UpdateShape
  <2>4. ASSUME Fresh(p) PROVE RefundEdit(x, y, p.refund)
    <3>1. /\ x.status \in {"DRAFT", "REVIEW_REQUIRED"}
          /\ p.amount \in 1..Cardinality(p.items)
          /\ x.return # 0 => returns[x.return].status \in OpenReturns
      BY ONLY <2>1, <2>2, <2>4 DEF Fresh, RefundRead, Prepared, Editable
    <3>2. y.amount <= y.eligible /\ y.approved <= y.eligible
      <4>1. Cardinality(p.items) \in Nat
        BY <2>1, LinesFinite
      <4>2. QED
        BY ONLY <2>3, <3>1, <4>1
    <3>3. QED
      BY ONLY <2>3, <3>1, <3>2 DEF RefundEdit, Waiting
  <2>5. QED
    BY ONLY <2>1, <2>2, <2>3, <2>4 DEF RefundsMove
<1>6. CASE SubmitRefundRequest(p)
  <2>1. p.op = "submit" /\ storeCredit' = storeCredit /\ p.refund \in DOMAIN refunds
    BY <1>6 DEF SubmitRefundRequest, ReturnPlanOK, OnRefund
  <2>2. PICK x \in Refunds : x = refunds[p.refund]
    BY <2>1, ReturnsTyped
  <2>3. PICK y : /\ RefundSet(p.refund, y) /\ y.status = "PENDING_APPROVAL" /\ SameRefund(x, y)
                 /\ \/ x.return # 0 /\ y.return = x.return
                    \/ /\ x.return = 0 /\ y.return = Len(returns) + 1
                       /\ ReturnNew(NewReturn(x.items, x.method))
    BY <1>6, <2>2, SubmitShape
  <2>4. ReturnNew(NewReturn(x.items, x.method)) => Len(returns') = Len(returns) + 1
    BY ReturnAdding
  <2>5. ASSUME Fresh(p) PROVE RefundEdit(x, y, p.refund)
    <3>1. x.status \in {"DRAFT", "REVIEW_REQUIRED"}
      BY ONLY <2>1, <2>2, <2>5 DEF Fresh, RefundRead
    <3>2. QED
      BY ONLY <2>3, <3>1 DEF RefundEdit, Waiting, SameRefund
  <2>6. QED
    BY ONLY <2>1, <2>2, <2>3, <2>4, <2>5 DEF RefundsMove, SameRefund
<1>7. CASE ApproveRefund(p)
  <2>1. p.op = "approve" /\ storeCredit' = storeCredit /\ p.refund \in DOMAIN refunds /\ p.amount \in Nat
    BY <1>7 DEF ApproveRefund, ReturnPlanOK, OnRefund
  <2>2. PICK x \in Refunds : x = refunds[p.refund]
    BY <2>1, ReturnsTyped
  <2>3. PICK y : /\ RefundSet(p.refund, y) /\ y.eligible = x.eligible /\ y.approved = p.amount
                 /\ y.method = x.method /\ y.return = x.return /\ y.payouts = x.payouts
                 /\ \/ y.status = "REVIEW_REQUIRED" /\ y.amount = x.amount
                    \/ y.status = "APPROVED" /\ y.amount = p.amount
    BY <1>7, <2>2, ApproveShape
  <2>4. ASSUME Fresh(p) PROVE RefundEdit(x, y, p.refund)
    <3>1. /\ x.status = "PENDING_APPROVAL" /\ p.amount > 0 /\ p.amount <= x.eligible
          /\ TotalRefund(RefundsIn(Granted) \ {p.refund}) + p.amount <= Paid
      BY ONLY <2>1, <2>2, <2>4 DEF Fresh, RefundRead
    <3>2. x.amount <= x.eligible => y.amount <= y.eligible /\ y.approved <= y.eligible
      BY ONLY <2>3, <3>1
    <3>3. Active(y) = p.amount
      BY ONLY <2>3, <3>1 DEF Active
    <3>4. QED
      BY ONLY <2>3, <3>1, <3>2, <3>3 DEF RefundEdit, Waiting
  <2>5. QED
    BY ONLY <2>1, <2>2, <2>3, <2>4 DEF RefundsMove
<1>8. CASE ReturnRefundForCorrection(p)
  <2>1. p.op = "correct" /\ storeCredit' = storeCredit /\ p.refund \in DOMAIN refunds
        /\ refunds' = [refunds EXCEPT ![p.refund].status = "REVIEW_REQUIRED"]
    BY <1>8 DEF ReturnRefundForCorrection, ReturnPlanOK, OnRefund
  <2>2. PICK x \in Refunds : x = refunds[p.refund]
    BY <2>1, ReturnsTyped
  <2>3. PICK y : /\ RefundSet(p.refund, y) /\ y.status = "REVIEW_REQUIRED" /\ SameRefund(x, y)
                 /\ y.return = x.return
    <3>1. PICK s \in RefundStatuses, f \in DOMAIN refunds : s = "REVIEW_REQUIRED" /\ f = p.refund
      BY <2>1 DEF RefundStatuses, Reserved
    <3>2. refunds' = [refunds EXCEPT ![f].status = s]
      BY ONLY <2>1, <3>1
    <3>3. \E y : /\ RefundSet(f, y) /\ y.status = s /\ SameRefund(refunds[f], y)
                 /\ y.return = refunds[f].return
      BY <3>2, RefundStatusShape
    <3>4. QED
      BY ONLY <2>2, <3>1, <3>3
  <2>4. ASSUME Fresh(p) PROVE RefundEdit(x, y, p.refund)
    <3>1. x.status \in {"PENDING_APPROVAL", "REVIEW_REQUIRED"}
      BY ONLY <2>1, <2>2, <2>4 DEF Fresh, RefundRead
    <3>2. QED
      BY ONLY <2>3, <3>1 DEF RefundEdit, Waiting, SameRefund
  <2>5. QED
    BY ONLY <2>1, <2>2, <2>3, <2>4 DEF RefundsMove, SameRefund
<1>9. CASE RejectRefund(p) \/ CancelRefund(p)
  <2>1. p.refund \in DOMAIN refunds
    BY <1>9 DEF RejectRefund, CancelRefund, ReturnPlanOK, OnRefund
  <2>2. PICK s \in {"REJECTED", "CANCELLED"} :
          DropRefund(p.refund, s) /\ p.op = IF s = "REJECTED" THEN "rejectRefund" ELSE "cancel"
    BY <1>9 DEF RejectRefund, CancelRefund
  <2>3. storeCredit' = storeCredit
    BY <2>2 DEF DropRefund
  <2>4. PICK x \in Refunds : x = refunds[p.refund]
    BY <2>1, ReturnsTyped
  <2>5. PICK y : RefundSet(p.refund, y) /\ y.status = s /\ SameRefund(x, y) /\ y.return = x.return
    BY <2>1, <2>2, <2>4, DropShape
  <2>6. ASSUME Fresh(p) PROVE RefundEdit(x, y, p.refund)
    <3>1. \/ s = "REJECTED" /\ x.status \in {"PENDING_APPROVAL", "REVIEW_REQUIRED"}
          \/ s = "CANCELLED" /\ x.status \in {"DRAFT", "PENDING_APPROVAL", "REVIEW_REQUIRED", "APPROVED"}
      BY ONLY <2>2, <2>4, <2>6 DEF Fresh, RefundRead
    <3>2. QED
      BY ONLY <2>5, <3>1 DEF RefundEdit, Waiting, SameRefund
  <2>7. QED
    BY ONLY <2>1, <2>3, <2>4, <2>5, <2>6 DEF RefundsMove, SameRefund
<1>10. CASE ProcessRefund(p)
  <2>1. /\ p.op = "process" /\ p.refund \in DOMAIN refunds
        /\ p.amount \in Nat /\ p.credit \in Nat /\ p.method = refunds[p.refund].method
    BY <1>10 DEF ProcessRefund, ReturnPlanOK, OnRefund
  <2>2. PICK x \in Refunds : x = refunds[p.refund]
    BY <2>1, ReturnsTyped
  <2>3. PICK y : /\ RefundSet(p.refund, y) /\ y.return = x.return /\ y.eligible = x.eligible
                 /\ y.amount = x.amount /\ y.approved = x.approved /\ y.method = x.method
                 /\ \/ /\ y.status = "PROCESSING" /\ y.payouts = x.payouts
                       /\ p.method = "MPESA" /\ storeCredit' = storeCredit
                    \/ /\ y.status = "COMPLETED" /\ y.payouts = x.payouts + 1
                       /\ x.method \in CashMethods => x.payouts = 0
                       /\ storeCredit' = IF p.method = "STORE_CREDIT" THEN p.credit + p.amount
                                         ELSE storeCredit
    BY <1>10, <2>2, ProcessShape
  <2>4. ActiveAmount(p.refund) = Active(x)
    BY <2>1, <2>2, ActiveIs
  <2>5. Fresh(p) => /\ x.status = "APPROVED" /\ x.return # 0
                    /\ returns[x.return].status = "COMPLETED"
                    /\ p.credit = storeCredit /\ p.amount = Active(x)
    BY ONLY <2>1, <2>2, <2>4 DEF Fresh, RefundRead
  <2>6. QED
    BY ONLY <2>1, <2>2, <2>3, <2>5 DEF RefundsMove
<1>11. QED
  BY ONLY <1>1, <1>2, <1>3, <1>4, <1>5, <1>6, <1>7, <1>8, <1>9, <1>10, ReturnsWrite(p)
     DEF ReturnsWrite

LEMMA ExchangesMoved ==
    ASSUME ReturnRecordsOK, ReturnsNamed, NEW p, ReturnPlanOK(p), ReturnsWrite(p)
    PROVE  ExchangesMove(p)
<1> DEFINE Clear == Fresh(p) => \A z : RefundNew(z) =>
                      z.return = 0 \/ returns[z.return].status # "COMPLETED"
<1>0. Len(refunds) \in Nat /\ DOMAIN refunds = 1..Len(refunds) /\ refunds \in Seq(Refunds)
  BY ReturnsTyped DEF ReturnRecordsOK
<1>a. ASSUME DOMAIN refunds' = DOMAIN refunds PROVE Clear
  <2>1. ASSUME NEW z, RefundNew(z) PROVE FALSE
    <3>1. /\ DOMAIN refunds' = DOMAIN refunds \cup {Len(refunds) + 1}
          /\ Len(refunds) + 1 \notin DOMAIN refunds
      BY <2>1, RefundAdding
    <3>2. QED
      BY ONLY <1>a, <3>1
  <2>2. QED
    BY ONLY <2>1
<1>b. ASSUME NEW f, NEW y, RefundSet(f, y) PROVE Clear
  <2>1. DOMAIN refunds' = DOMAIN refunds
    BY <1>b, RefundSetting
  <2>2. QED
    BY ONLY <1>a, <2>1
<1>c. ASSUME NEW y, RefundNew(y), NEW z, RefundNew(z) PROVE z = y
  <2>1. refunds'[Len(refunds) + 1] = y
    BY <1>c, RefundAdding
  <2>2. refunds'[Len(refunds) + 1] = z
    BY <1>c, RefundAdding
  <2>3. QED
    BY ONLY <2>1, <2>2
<1>d. ASSUME exchanges' = exchanges, Clear PROVE ExchangesMove(p)
  BY ONLY <1>d DEF ExchangesMove
<1> HIDE DEF Clear
<1>1. CASE CreateReturnRequest(p) \/ ReviewReturn(p) \/ InspectReturn(p)
           \/ RejectReturn(p) \/ CompleteReturn(p)
  <2>1. refunds' = refunds /\ exchanges' = exchanges
    BY ONLY <1>1 DEF CreateReturnRequest, ReviewReturn, InspectReturn, RejectReturn, CompleteReturn, MoveReturn
  <2>2. QED
    BY ONLY <1>a, <1>d, <2>1
<1>2. CASE ApproveReturn(p)
  <2>1. p.op = "approveReturn" /\ p.return \in DOMAIN returns /\ exchanges' = exchanges
    BY <1>2 DEF ApproveReturn, ReturnPlanOK, OnReturn
  <2>2. \/ refunds' = refunds
        \/ \E z : RefundNew(z) /\ Itemless(z, p.return, Cardinality(p.accepted))
    BY <1>2, ApproveReturnShape
  <2>3. CASE refunds' = refunds
    BY ONLY <1>a, <1>d, <2>1, <2>3
  <2>4. ASSUME NEW y, RefundNew(y), Itemless(y, p.return, Cardinality(p.accepted))
        PROVE  ExchangesMove(p)
    <3>1. Fresh(p) => returns[y.return].status # "COMPLETED"
      BY ONLY <2>1, <2>4 DEF Fresh, ReturnRead, Itemless
    <3>2. Clear
      BY ONLY <1>c, <2>4, <3>1 DEF Clear
    <3>3. QED
      BY ONLY <1>d, <2>1, <3>2
  <2>5. QED
    BY ONLY <2>2, <2>3, <2>4
<1>3. CASE CreateExchange(p)
  <2>1. p.op = "exchange"
    BY <1>3 DEF CreateExchange
  <2>2. /\ returns' = returns /\ p.return \in DOMAIN returns
        /\ \E x \in Exchanges :
             /\ x.return = p.return /\ exchanges' = Append(exchanges, x)
             /\ \/ x.value = Cardinality(returns[p.return].accepted) /\ refunds' = refunds
                \/ \E a \in Nat : \E z :
                     /\ x.value + a = Cardinality(returns[p.return].accepted)
                     /\ RefundNew(z) /\ Itemless(z, p.return, a)
    BY <1>3, ExchangeShape
  <2>3. PICK x \in Exchanges :
             /\ x.return = p.return /\ exchanges' = Append(exchanges, x)
             /\ \/ x.value = Cardinality(returns[p.return].accepted) /\ refunds' = refunds
                \/ \E a \in Nat : \E z :
                     /\ x.value + a = Cardinality(returns[p.return].accepted)
                     /\ RefundNew(z) /\ Itemless(z, p.return, a)
    BY ONLY <2>2
  <2>4. Fresh(p) => /\ returns[x.return].status = "COMPLETED" /\ Unclaimed(x.return)
                    /\ \A e \in DOMAIN exchanges : exchanges[e].return # x.return
    BY ONLY <2>1, <2>3 DEF Fresh, ReturnRead
  <2>5. \/ x.value = Cardinality(returns[x.return].accepted) /\ refunds' = refunds
        \/ \E z : /\ RefundNew(z) /\ z.return = x.return
                  /\ x.value + z.eligible = Cardinality(returns[x.return].accepted)
    BY ONLY <2>3 DEF Itemless
  <2>6. QED
    BY ONLY <2>2, <2>3, <2>4, <2>5 DEF ExchangesMove
<1>4. CASE CreateRefundRequest(p)
  <2>1. exchanges' = exchanges
    BY <1>4 DEF CreateRefundRequest
  <2>2. PICK y : RefundNew(y) /\ y.return = 0
    BY <1>4, CreateRefundShape
  <2>3. Clear
    BY ONLY <1>c, <2>2 DEF Clear
  <2>4. QED
    BY ONLY <1>d, <2>1, <2>3
<1>5. CASE UpdateRefundRequest(p)
  <2>1. exchanges' = exchanges
    BY <1>5 DEF UpdateRefundRequest
  <2>2. \E y : RefundSet(p.refund, y)
    BY <1>5, UpdateShape
  <2>3. QED
    BY ONLY <1>b, <1>d, <2>1, <2>2
<1>6. CASE SubmitRefundRequest(p)
  <2>1. exchanges' = exchanges
    BY <1>6 DEF SubmitRefundRequest
  <2>2. \E y : RefundSet(p.refund, y)
    BY <1>6, SubmitShape
  <2>3. QED
    BY ONLY <1>b, <1>d, <2>1, <2>2
<1>7. CASE ApproveRefund(p)
  <2>1. exchanges' = exchanges
    BY <1>7 DEF ApproveRefund
  <2>2. \E y : RefundSet(p.refund, y)
    BY <1>7, ApproveShape
  <2>3. QED
    BY ONLY <1>b, <1>d, <2>1, <2>2
<1>8. CASE ReturnRefundForCorrection(p) \/ RejectRefund(p) \/ CancelRefund(p)
  <2>1. exchanges' = exchanges
    BY <1>8 DEF ReturnRefundForCorrection, RejectRefund, CancelRefund, DropRefund
  <2>2. PICK s : refunds' = [refunds EXCEPT ![p.refund].status = s]
    BY <1>8 DEF ReturnRefundForCorrection, RejectRefund, CancelRefund, DropRefund
  <2>3. DOMAIN refunds' = DOMAIN refunds
    BY ONLY <1>0, <2>2
  <2>4. QED
    BY ONLY <1>a, <1>d, <2>1, <2>3
<1>9. CASE ProcessRefund(p)
  <2>1. exchanges' = exchanges
    BY <1>9 DEF ProcessRefund
  <2>2. \E y : RefundSet(p.refund, y)
    BY <1>9, ProcessShape
  <2>3. QED
    BY ONLY <1>b, <1>d, <2>1, <2>2
<1>10. QED
  BY ONLY <1>1, <1>2, <1>3, <1>4, <1>5, <1>6, <1>7, <1>8, <1>9, ReturnsWrite(p) DEF ReturnsWrite

-----------------------------------------------------------------------------
(***************************************************************************)
(* Returns: what holds of the records, whatever calls were overtaken.      *)
(***************************************************************************)
AcceptedAsked == \A t \in DOMAIN returns : returns[t].accepted \subseteq returns[t].items

\* Only a completed refund that pays no cash has been paid twice.
PaidOnce ==
    \A f \in DOMAIN refunds : refunds[f].payouts >= 2 =>
        refunds[f].status = "COMPLETED" /\ refunds[f].method \notin CashMethods

PaidWhenCompleted ==
    \A f \in DOMAIN refunds :
        refunds[f].payouts = IF refunds[f].status = "COMPLETED" THEN 1 ELSE 0

ReturnsInv ==
    /\ ReturnRecordsOK /\ ReturnsNamed /\ AcceptedAsked /\ PaidOnce
    /\ ~returnOvertaken => PaidWhenCompleted
    /\ slowReturn.op \in SlowReturns \cup {"none"} /\ returnOvertaken \in BOOLEAN
    /\ slowReturn # NoReturnPlan => ~returnOvertaken /\ ReturnPlanOK(slowReturn)

ReturnStep(p) ==
    /\ ReturnRecordsOK /\ ReturnsNamed /\ AcceptedAsked
    /\ ReturnPlanOK(p) /\ ReturnsWrite(p)
    /\ RequestsMove(p) /\ RefundsMove(p) /\ ExchangesMove(p)

LEMMA ReturnStepped ==
    ASSUME ReturnsInv, NEW p, ReturnPlanOK(p), ReturnsWrite(p)
    PROVE  ReturnStep(p)
BY RequestsMoved, RefundsMoved, ExchangesMoved DEF ReturnsInv, ReturnStep

\* Requests are only added.
LEMMA RequestsGrow ==
    ASSUME NEW p, ReturnStep(p)
    PROVE  /\ returns' \in Seq(ReturnRequests)
           /\ Len(returns') \in {Len(returns), Len(returns) + 1} /\ Len(returns) \in Nat
           /\ DOMAIN returns = 1..Len(returns) /\ DOMAIN returns' = 1..Len(returns')
<1>1. returns \in Seq(ReturnRequests) /\ RequestsMove(p) /\ ReturnRecordsOK
  BY DEF ReturnStep, ReturnRecordsOK
<1>2. Len(returns) \in Nat /\ DOMAIN returns = 1..Len(returns)
  BY ONLY <1>1, SequenceDomain
<1>3. \A t, y : ReturnSet(t, y) => returns' \in Seq(ReturnRequests) /\ Len(returns') = Len(returns)
  BY <1>1, ReturnSetting
<1>4. \A y : ReturnNew(y) => returns' \in Seq(ReturnRequests) /\ Len(returns') = Len(returns) + 1
  BY <1>1, ReturnAdding
<1>5. returns' \in Seq(ReturnRequests) /\ Len(returns') \in {Len(returns), Len(returns) + 1}
  BY ONLY <1>1, <1>3, <1>4 DEF RequestsMove
<1>6. PICK r : r = returns'
  OBVIOUS
<1>7. DOMAIN r = 1..Len(r)
  BY ONLY <1>5, <1>6, SequenceDomain
<1>8. QED
  BY ONLY <1>2, <1>5, <1>6, <1>7

LEMMA RefundsGrow ==
    ASSUME NEW p, ReturnStep(p)
    PROVE  /\ refunds' \in Seq(Refunds)
           /\ \/ refunds' = refunds
              \/ \E y : RefundNew(y)
              \/ p.refund \in DOMAIN refunds /\ \E y : RefundSet(p.refund, y)
<1>1. refunds \in Seq(Refunds) /\ RefundsMove(p) /\ ReturnRecordsOK
  BY DEF ReturnStep, ReturnRecordsOK
<1>2. \A f, y : RefundSet(f, y) => refunds' \in Seq(Refunds)
  BY <1>1, RefundSetting
<1>3. \A y : RefundNew(y) => refunds' \in Seq(Refunds)
  BY <1>1, RefundAdding
<1>4. QED
  BY ONLY <1>1, <1>2, <1>3 DEF RefundsMove, RefundSet

LEMMA RecordsStep ==
    ASSUME NEW p, ReturnStep(p)
    PROVE  ReturnRecordsOK' /\ sold' = sold
<1>0. ReturnRecordsOK /\ ReturnsWrite(p) /\ RequestsMove(p) /\ RefundsMove(p) /\ ExchangesMove(p)
  BY DEF ReturnStep
<1>1. sold' = sold
  BY ONLY <1>0 DEF ReturnsWrite, CreateReturnRequest, ReviewReturn, InspectReturn, ApproveReturn,
     RejectReturn, CompleteReturn, CreateExchange, CreateRefundRequest, UpdateRefundRequest,
     SubmitRefundRequest, ApproveRefund, ReturnRefundForCorrection, RejectRefund, CancelRefund,
     ProcessRefund, MoveReturn, DropRefund
<1>2. returned' \in [Lines -> Nat]
  <2>1. returned \in [Lines -> Nat]
    BY <1>0 DEF ReturnRecordsOK
  <2>2. CASE returned' = returned
    BY ONLY <2>1, <2>2
  <2>3. CASE returned' = [i \in Lines |-> returned[i] + IF i \in p.accepted THEN 1 ELSE 0]
    BY ONLY <2>1, <2>3
  <2>4. QED
    BY ONLY <1>0, <2>2, <2>3 DEF RequestsMove
<1>3. storeCredit' \in Nat
  <2>1. storeCredit \in Nat
    BY <1>0 DEF ReturnRecordsOK
  <2>2. ASSUME p.credit \in Nat, p.amount \in Nat,
               storeCredit' = IF p.method = "STORE_CREDIT" THEN p.credit + p.amount ELSE storeCredit
        PROVE  storeCredit' \in Nat
    BY ONLY <2>1, <2>2
  <2>3. QED
    BY ONLY <1>0, <2>1, <2>2 DEF RefundsMove
<1>4. exchanges' \in Seq(Exchanges)
  <2>1. exchanges \in Seq(Exchanges)
    BY <1>0 DEF ReturnRecordsOK, Exchanges
  <2>2. ASSUME NEW x \in Exchanges, exchanges' = Append(exchanges, x)
        PROVE  exchanges' \in Seq(Exchanges)
    <3>1. PICK r : r = exchanges'
      OBVIOUS
    <3>2. r \in Seq(Exchanges)
      BY ONLY <2>1, <2>2, <3>1, SequenceAppend
    <3>3. QED
      BY ONLY <3>1, <3>2
  <2>3. QED
    BY ONLY <1>0, <2>1, <2>2 DEF ExchangesMove
<1>5. PICK K : K = [status: {"COMPLETED", "PARTIALLY_RETURNED", "FULLY_RETURNED"},
                    payment: {"PAID", "PARTIALLY_REFUNDED", "REFUNDED"}]
  OBVIOUS
<1>6. saleStatus' \in K
  <2>1. saleStatus \in K
    BY <1>0, <1>5 DEF ReturnRecordsOK
  <2>2. CASE CompleteReturn(p)
    <3>1. PICK s \in {"PARTIALLY_RETURNED", "FULLY_RETURNED"} : saleStatus' = [saleStatus EXCEPT !.status = s]
      BY ONLY <2>2 DEF CompleteReturn
    <3>2. QED
      BY ONLY <1>5, <2>1, <3>1
  <2>3. CASE ProcessRefund(p)
    <3>1. \/ saleStatus' = saleStatus
          \/ \E s \in {"PARTIALLY_REFUNDED", "REFUNDED"} : saleStatus' = [saleStatus EXCEPT !.payment = s]
      BY ONLY <2>3 DEF ProcessRefund
    <3>2. QED
      BY ONLY <1>5, <2>1, <3>1
  <2>4. CASE ~CompleteReturn(p) /\ ~ProcessRefund(p)
    <3>1. saleStatus' = saleStatus
      BY ONLY <1>0, <2>4 DEF ReturnsWrite, CreateReturnRequest, ReviewReturn, InspectReturn, ApproveReturn,
         RejectReturn, CreateExchange, CreateRefundRequest, UpdateRefundRequest,
         SubmitRefundRequest, ApproveRefund, ReturnRefundForCorrection, RejectRefund, CancelRefund,
         MoveReturn, DropRefund
    <3>2. QED
      BY ONLY <2>1, <3>1
  <2>5. QED
    BY ONLY <2>2, <2>3, <2>4
<1>7. QED
  BY <1>0, <1>1, <1>2, <1>3, <1>4, <1>5, <1>6, RequestsGrow, RefundsGrow DEF ReturnRecordsOK, Exchanges

LEMMA NamedStep ==
    ASSUME NEW p, ReturnStep(p)
    PROVE  ReturnsNamed'
<1>0. ReturnRecordsOK /\ ReturnsNamed /\ RefundsMove(p)
  BY DEF ReturnStep
<1>1. PICK n, m : n = Len(returns) /\ m = Len(returns')
  OBVIOUS
<1>2. n \in Nat /\ m \in {n, n + 1}
  BY <1>1, RequestsGrow
<1>3. \A f \in DOMAIN refunds : refunds[f].return \in 0..m
  BY <1>0, <1>1, <1>2 DEF ReturnsNamed
<1>4. ASSUME NEW y, RefundNew(y), y.return \in 0..n
      PROVE  \A f \in DOMAIN refunds' : refunds'[f].return \in 0..m
  <2>1. /\ DOMAIN refunds' = DOMAIN refunds \cup {Len(refunds) + 1}
        /\ refunds'[Len(refunds) + 1] = y /\ \A g \in DOMAIN refunds : refunds'[g] = refunds[g]
    BY <1>0, <1>4, RefundAdding
  <2>2. y.return \in 0..m
    BY ONLY <1>2, <1>4
  <2>3. QED
    BY ONLY <1>3, <2>1, <2>2
<1>5. ASSUME NEW f, NEW y, RefundSet(f, y),
             y.return = refunds[f].return \/ (y.return = n + 1 /\ m = n + 1)
      PROVE  \A g \in DOMAIN refunds' : refunds'[g].return \in 0..m
  <2>1. /\ DOMAIN refunds' = DOMAIN refunds /\ f \in DOMAIN refunds
        /\ refunds'[f] = y /\ \A g \in DOMAIN refunds \ {f} : refunds'[g] = refunds[g]
    BY <1>0, <1>5, RefundSetting
  <2>2. y.return \in 0..m
    <3>1. refunds[f].return \in 0..m
      BY ONLY <1>3, <2>1
    <3>2. QED
      BY ONLY <1>2, <1>5, <3>1
  <2>3. QED
    BY ONLY <1>3, <2>1, <2>2
<1>6. \A f \in DOMAIN refunds' : refunds'[f].return \in 0..m
  <2>1. CASE refunds' = refunds
    BY ONLY <1>3, <2>1
  <2>2. QED
    BY ONLY <1>0, <1>1, <1>4, <1>5, <2>1 DEF RefundsMove
<1>7. QED
  BY <1>1, <1>6 DEF ReturnsNamed

LEMMA AcceptedStep ==
    ASSUME NEW p, ReturnStep(p)
    PROVE  AcceptedAsked'
<1>0. ReturnRecordsOK /\ AcceptedAsked /\ RequestsMove(p)
  BY DEF ReturnStep
<1> DEFINE Good == \A t \in DOMAIN returns' : returns'[t].accepted \subseteq returns'[t].items
<1>1. ASSUME NEW t, NEW y, ReturnSet(t, y),
             \/ y.accepted \subseteq y.items
             \/ y.accepted = returns[t].accepted /\ y.items = returns[t].items
      PROVE  Good
  <2>1. /\ DOMAIN returns' = DOMAIN returns /\ t \in DOMAIN returns
        /\ returns'[t] = y /\ \A u \in DOMAIN returns \ {t} : returns'[u] = returns[u]
    BY <1>0, <1>1, ReturnSetting
  <2>2. QED
    BY ONLY <1>0, <1>1, <2>1 DEF AcceptedAsked
<1>2. ASSUME NEW y, ReturnNew(y), y.accepted = y.items PROVE Good
  <2>1. /\ DOMAIN returns' = DOMAIN returns \cup {Len(returns) + 1}
        /\ returns'[Len(returns) + 1] = y /\ \A u \in DOMAIN returns : returns'[u] = returns[u]
    BY <1>0, <1>2, ReturnAdding
  <2>2. QED
    BY ONLY <1>0, <1>2, <2>1 DEF AcceptedAsked
<1>3. returns' = returns => Good
  BY ONLY <1>0 DEF AcceptedAsked
<1> HIDE DEF Good
<1>4. Good
  BY ONLY <1>0, <1>1, <1>2, <1>3 DEF RequestsMove, SameRequest
<1>5. QED
  BY <1>4 DEF Good, AcceptedAsked

\* What a call does to the number of times a refund was paid out.
LEMMA PayoutsStep ==
    ASSUME NEW p, ReturnStep(p), PaidOnce, Fresh(p) \/ PaidWhenCompleted
    PROVE  PaidOnce'
<1>0. ReturnRecordsOK /\ RefundsMove(p)
  BY DEF ReturnStep
<1>1. \A f \in DOMAIN refunds : refunds[f].payouts \in Nat
  BY <1>0, ReturnsTyped DEF Refunds
<1> DEFINE Once(x) == x.payouts >= 2 => x.status = "COMPLETED" /\ x.method \notin CashMethods
           Good == \A f \in DOMAIN refunds' : Once(refunds'[f])
<1>2. \A f \in DOMAIN refunds : Once(refunds[f])
  BY DEF PaidOnce
<1>3. ASSUME NEW f, NEW y, RefundSet(f, y), Once(y) PROVE Good
  <2>1. /\ DOMAIN refunds' = DOMAIN refunds
        /\ refunds'[f] = y /\ \A g \in DOMAIN refunds \ {f} : refunds'[g] = refunds[g]
    BY <1>0, <1>3, RefundSetting
  <2> HIDE DEF Once
  <2>2. QED
    BY ONLY <1>2, <1>3, <2>1
<1>4. ASSUME NEW y, RefundNew(y), Once(y) PROVE Good
  <2>1. /\ DOMAIN refunds' = DOMAIN refunds \cup {Len(refunds) + 1}
        /\ refunds'[Len(refunds) + 1] = y /\ \A g \in DOMAIN refunds : refunds'[g] = refunds[g]
    BY <1>0, <1>4, RefundAdding
  <2> HIDE DEF Once
  <2>2. QED
    BY ONLY <1>2, <1>4, <2>1
<1>5. refunds' = refunds => Good
  BY ONLY <1>2
<1> HIDE DEF Good
<1>6. ASSUME NEW y, RefundSet(p.refund, y), y.payouts = refunds[p.refund].payouts,
             Fresh(p) => RefundEdit(refunds[p.refund], y, p.refund)
      PROVE  Good
  <2>1. PICK x \in Refunds, n \in Nat : x = refunds[p.refund] /\ n = x.payouts
    BY <1>0, <1>1, <1>6, ReturnsTyped DEF RefundSet
  <2>2. p.refund \in DOMAIN refunds
    BY <1>6 DEF RefundSet
  <2>3. CASE Fresh(p)
    <3>1. x.status # "COMPLETED"
      BY ONLY <1>6, <2>1, <2>3 DEF RefundEdit, Waiting
    <3>2. Once(x)
      BY <1>2, <2>1, <2>2
    <3>3. Once(y)
      BY ONLY <1>6, <2>1, <3>1, <3>2
    <3>4. QED
      BY <1>3, <1>6, <3>3
  <2>4. CASE PaidWhenCompleted
    <3>1. n = 0 \/ n = 1
      BY ONLY <2>1, <2>2, <2>4 DEF PaidWhenCompleted
    <3>2. Once(y)
      BY ONLY <1>6, <2>1, <3>1
    <3>3. QED
      BY <1>3, <1>6, <3>2
  <2>5. QED
    BY <2>3, <2>4
<1>7. ASSUME NEW y, RefundSet(p.refund, y), y.method = refunds[p.refund].method,
             Fresh(p) => refunds[p.refund].status = "APPROVED",
             \/ y.status = "PROCESSING" /\ y.payouts = refunds[p.refund].payouts
             \/ /\ y.status = "COMPLETED" /\ y.payouts = refunds[p.refund].payouts + 1
                /\ y.method \in CashMethods => refunds[p.refund].payouts = 0
      PROVE  Good
  <2>1. PICK x \in Refunds, n \in Nat : x = refunds[p.refund] /\ n = x.payouts
    BY <1>0, <1>1, <1>7, ReturnsTyped DEF RefundSet
  <2>2. p.refund \in DOMAIN refunds
    BY <1>7 DEF RefundSet
  <2>3. n = 0 \/ n = 1
    <3>1. CASE Fresh(p)
      <4>1. Once(x)
        BY <1>2, <2>1, <2>2
      <4>2. QED
        BY ONLY <1>7, <2>1, <3>1, <4>1, n \in Nat
    <3>2. CASE PaidWhenCompleted
      BY ONLY <2>1, <2>2, <3>2 DEF PaidWhenCompleted
    <3>3. QED
      BY <3>1, <3>2
  <2>4. Once(y)
    <3>1. \/ y.status = "PROCESSING" /\ y.payouts = n
          \/ /\ y.status = "COMPLETED" /\ y.payouts = n + 1
             /\ y.method \in CashMethods => n = 0
      BY ONLY <1>7, <2>1
    <3>2. QED
      BY ONLY <2>3, <3>1
  <2>5. QED
    BY <1>3, <1>7, <2>4
<1>8. ASSUME NEW y, RefundNew(y), y.payouts = 0 PROVE Good
  <2>1. Once(y)
    BY ONLY <1>8
  <2>2. QED
    BY <1>4, <1>8, <2>1
<1>9. Good
  BY ONLY <1>0, <1>5, <1>6, <1>7, <1>8 DEF RefundsMove
<1>10. QED
  BY <1>9 DEF Good, PaidOnce

LEMMA PaidStep ==
    ASSUME NEW p, ReturnStep(p), Fresh(p), PaidWhenCompleted
    PROVE  PaidWhenCompleted'
<1>0. ReturnRecordsOK /\ RefundsMove(p) /\ Fresh(p)
  BY DEF ReturnStep
<1> DEFINE Paid1(x) == x.payouts = IF x.status = "COMPLETED" THEN 1 ELSE 0
           Good == \A f \in DOMAIN refunds' : Paid1(refunds'[f])
<1>2. \A f \in DOMAIN refunds : Paid1(refunds[f])
  BY DEF PaidWhenCompleted
<1> HIDE DEF Paid1
<1>3. ASSUME NEW f, NEW y, RefundSet(f, y), Paid1(y) PROVE Good
  <2>1. /\ DOMAIN refunds' = DOMAIN refunds
        /\ refunds'[f] = y /\ \A g \in DOMAIN refunds \ {f} : refunds'[g] = refunds[g]
    BY <1>0, <1>3, RefundSetting
  <2>2. QED
    BY ONLY <1>2, <1>3, <2>1
<1>4. ASSUME NEW y, RefundNew(y), Paid1(y) PROVE Good
  <2>1. /\ DOMAIN refunds' = DOMAIN refunds \cup {Len(refunds) + 1}
        /\ refunds'[Len(refunds) + 1] = y /\ \A g \in DOMAIN refunds : refunds'[g] = refunds[g]
    BY <1>0, <1>4, RefundAdding
  <2>2. QED
    BY ONLY <1>2, <1>4, <2>1
<1>5. refunds' = refunds => Good
  BY ONLY <1>2
<1> HIDE DEF Good
<1>6. ASSUME NEW y, RefundSet(p.refund, y), y.payouts = refunds[p.refund].payouts,
             RefundEdit(refunds[p.refund], y, p.refund)
      PROVE  Good
  <2>1. Paid1(refunds[p.refund])
    BY <1>2, <1>6 DEF RefundSet
  <2>2. refunds[p.refund].status # "COMPLETED" /\ y.status # "COMPLETED"
    BY ONLY <1>6 DEF RefundEdit, Waiting
  <2>3. Paid1(y)
    BY ONLY <1>6, <2>1, <2>2 DEF Paid1
  <2>4. QED
    BY <1>3, <1>6, <2>3
<1>7. ASSUME NEW y, RefundSet(p.refund, y), refunds[p.refund].status = "APPROVED",
             \/ y.status = "PROCESSING" /\ y.payouts = refunds[p.refund].payouts
             \/ y.status = "COMPLETED" /\ y.payouts = refunds[p.refund].payouts + 1
      PROVE  Good
  <2>1. Paid1(refunds[p.refund])
    BY <1>2, <1>7 DEF RefundSet
  <2>2. refunds[p.refund].payouts = 0
    BY ONLY <1>7, <2>1 DEF Paid1
  <2>3. Paid1(y)
    BY ONLY <1>7, <2>2 DEF Paid1
  <2>4. QED
    BY <1>3, <1>7, <2>3
<1>8. ASSUME NEW y, RefundNew(y), y.payouts = 0, y.status \in {"DRAFT", "PENDING_APPROVAL"} PROVE Good
  <2>1. Paid1(y)
    BY ONLY <1>8 DEF Paid1
  <2>2. QED
    BY <1>4, <1>8, <2>1
<1>9. Good
  BY ONLY <1>0, <1>5, <1>6, <1>7, <1>8 DEF RefundsMove
<1>10. QED
  BY <1>9 DEF Good, Paid1, PaidWhenCompleted

\* A call that was not overtaken leaves the plan of another one possible.
LEMMA PlanKept ==
    ASSUME NEW p, ReturnStep(p), Fresh(p), NEW q, ReturnPlanOK(q)
    PROVE  ReturnPlanOK(q)'
<1>0. ReturnRecordsOK /\ RequestsMove(p) /\ RefundsMove(p) /\ Fresh(p)
  BY DEF ReturnStep
<1>1. /\ DOMAIN returns \subseteq DOMAIN returns'
      /\ \A t \in DOMAIN returns : returns[t].method # "EXCHANGE" => returns'[t].method # "EXCHANGE"
  <2> DEFINE Good == /\ DOMAIN returns \subseteq DOMAIN returns'
                     /\ \A t \in DOMAIN returns : returns[t].method # "EXCHANGE" => returns'[t].method # "EXCHANGE"
  <2>1. ASSUME NEW t, NEW y, ReturnSet(t, y), y.method = returns[t].method \/ y.method \in Methods
        PROVE  Good
    <3>1. /\ DOMAIN returns' = DOMAIN returns
          /\ returns'[t] = y /\ \A u \in DOMAIN returns \ {t} : returns'[u] = returns[u]
      BY <1>0, <2>1, ReturnSetting
    <3>2. y.method \in Methods => y.method # "EXCHANGE"
      BY ReturnsAssumption
    <3>3. QED
      BY ONLY <2>1, <3>1, <3>2
  <2>2. ASSUME NEW y, ReturnNew(y) PROVE Good
    <3>1. /\ DOMAIN returns' = DOMAIN returns \cup {Len(returns) + 1}
          /\ \A u \in DOMAIN returns : returns'[u] = returns[u]
      BY <1>0, <2>2, ReturnAdding
    <3>2. QED
      BY ONLY <3>1
  <2>3. returns' = returns => Good
    BY ONLY TRUE
  <2> HIDE DEF Good
  <2>4. Good
    BY ONLY <1>0, <2>1, <2>2, <2>3 DEF RequestsMove, SameRequest
  <2>5. QED
    BY <2>4 DEF Good
<1> DEFINE Going == {"APPROVED", "PROCESSING", "COMPLETED", "CANCELLED"}
           Stays(x, y) == x.status \in Going => y.status \in Going /\ y.method = x.method
<1>2. /\ DOMAIN refunds \subseteq DOMAIN refunds'
      /\ \A f \in DOMAIN refunds : Stays(refunds[f], refunds'[f])
  <2> DEFINE Good == /\ DOMAIN refunds \subseteq DOMAIN refunds'
                     /\ \A f \in DOMAIN refunds : Stays(refunds[f], refunds'[f])
  <2>a. \A x : Stays(x, x)
    OBVIOUS
  <2>b. \A x, y, f : RefundEdit(x, y, f) => Stays(x, y)
    BY DEF RefundEdit, Waiting
  <2>c. \A x, y : y.method = x.method /\ y.status \in {"PROCESSING", "COMPLETED"} => Stays(x, y)
    OBVIOUS
  <2> HIDE DEF Stays
  <2>1. ASSUME NEW f, NEW y, RefundSet(f, y), Stays(refunds[f], y) PROVE Good
    <3>1. /\ DOMAIN refunds' = DOMAIN refunds
          /\ refunds'[f] = y /\ \A g \in DOMAIN refunds \ {f} : refunds'[g] = refunds[g]
      BY <1>0, <2>1, RefundSetting
    <3>2. QED
      BY ONLY <2>a, <2>1, <3>1
  <2>2. ASSUME NEW y, RefundNew(y) PROVE Good
    <3>1. /\ DOMAIN refunds' = DOMAIN refunds \cup {Len(refunds) + 1}
          /\ \A g \in DOMAIN refunds : refunds'[g] = refunds[g]
      BY <1>0, <2>2, RefundAdding
    <3>2. QED
      BY ONLY <2>a, <3>1
  <2>3. refunds' = refunds => Good
    BY ONLY <2>a
  <2> HIDE DEF Good
  <2>4. Good
    <3>1. ASSUME NEW y, RefundSet(p.refund, y), y.method = refunds[p.refund].method,
                 y.status \in {"PROCESSING", "COMPLETED"}
          PROVE  Good
      BY ONLY <2>c, <2>1, <3>1
    <3>2. ASSUME NEW y, RefundSet(p.refund, y), RefundEdit(refunds[p.refund], y, p.refund)
          PROVE  Good
      BY ONLY <2>b, <2>1, <3>2
    <3>3. QED
      BY ONLY <1>0, <2>2, <2>3, <3>1, <3>2 DEF RefundsMove
  <2>5. QED
    BY <2>4 DEF Good
<1>3. q.op \in OnReturn => q.return \in DOMAIN returns
  BY DEF ReturnPlanOK
<1>4. q.op \in OnRefund => q.refund \in DOMAIN refunds
  BY DEF ReturnPlanOK
<1>5. q.op \in OnReturn => q.return \in DOMAIN returns'
  BY ONLY <1>1, <1>3
<1>6. q.op \in OnRefund => q.refund \in DOMAIN refunds'
  BY ONLY <1>2, <1>4
<1>7. q.op = "approveReturn" => (q.makesRefund => returns'[q.return].method # "EXCHANGE")
  BY <1>1, <1>3 DEF ReturnPlanOK, OnReturn
<1>8. q.op = "process" =>
         /\ q.method = refunds'[q.refund].method
         /\ refunds'[q.refund].status \in Going
  BY <1>2, <1>4 DEF ReturnPlanOK, OnRefund
<1>9. /\ q.op = "request" => q.items \in SUBSET Lines /\ q.method \in Methods \cup {"EXCHANGE"}
      /\ q.op \in {"inspect", "approveReturn", "completeReturn"} => q.accepted \in SUBSET Lines
      /\ q.op = "exchange" => q.key \in ExchangeKeys /\ q.total \in Nat
      /\ q.op \in {"createRefund", "updateRefund"} =>
           q.items \in SUBSET Lines /\ q.amount \in Nat /\ q.method \in Methods
      /\ q.op = "approve" => q.amount \in Nat
      /\ q.op = "process" => q.amount \in Nat /\ q.credit \in Nat
  BY DEF ReturnPlanOK
<1>10. QED
  BY ONLY <1>5, <1>6, <1>7, <1>8, <1>9 DEF ReturnPlanOK

\* A plan that is still made, and the writes of the records.
LEMMA ReturnsInvStep ==
    ASSUME ReturnsInv, NEW p, ReturnPlanOK(p), ReturnsWrite(p), Fresh(p) \/ ~returnOvertaken
    PROVE  /\ ReturnRecordsOK' /\ ReturnsNamed' /\ AcceptedAsked' /\ PaidOnce'
           /\ Fresh(p) /\ ~returnOvertaken => PaidWhenCompleted'
<1>1. ReturnStep(p)
  BY ReturnStepped
<1>2. PaidOnce /\ (~returnOvertaken => PaidWhenCompleted)
  BY DEF ReturnsInv
<1>3. PaidOnce'
  BY <1>1, <1>2, PayoutsStep
<1>4. Fresh(p) /\ ~returnOvertaken => PaidWhenCompleted'
  BY <1>1, <1>2, PaidStep
<1>5. QED
  BY <1>1, <1>3, <1>4, RecordsStep, NamedStep, AcceptedStep

LEMMA ReturnsInvInit ==
    ASSUME ReturnsInit
    PROVE  ReturnsInv
<1>1. ReturnRecordsOK
  BY DEF ReturnsInit, ReturnRecordsOK
<1>2. refunds = <<>> /\ returns = <<>> /\ slowReturn = NoReturnPlan /\ returnOvertaken = FALSE
  BY DEF ReturnsInit
<1>3. DOMAIN refunds = {} /\ DOMAIN returns = {}
  BY ONLY <1>2
<1>4. ReturnsNamed /\ AcceptedAsked /\ PaidOnce /\ PaidWhenCompleted
  BY ONLY <1>3 DEF ReturnsNamed, AcceptedAsked, PaidOnce, PaidWhenCompleted
<1>5. slowReturn.op = "none"
  BY <1>2 DEF NoReturnPlan
<1>6. QED
  BY ONLY <1>1, <1>2, <1>4, <1>5 DEF ReturnsInv

LEMMA ReturnsInvNext ==
    ASSUME ReturnsInv, [ReturnsNext]_returnVars
    PROVE  ReturnsInv'
<1>0. /\ ReturnRecordsOK /\ slowReturn.op \in SlowReturns \cup {"none"} /\ returnOvertaken \in BOOLEAN
      /\ slowReturn # NoReturnPlan => ~returnOvertaken /\ ReturnPlanOK(slowReturn)
  BY DEF ReturnsInv
<1>1. CASE ReturnsAlone
  <2>1. PICK p \in ReturnsPlans : ReturnsWrite(p)
    BY <1>1 DEF ReturnsAlone
  <2>2. slowReturn' = slowReturn /\ returnOvertaken' = returnOvertaken
    BY <1>1 DEF ReturnsAlone
  <2>3. ReturnPlanOK(p) /\ Fresh(p)
    BY <1>0, <2>1, ReturnsPlanRead DEF Fresh
  <2>4. /\ ReturnRecordsOK' /\ ReturnsNamed' /\ AcceptedAsked' /\ PaidOnce'
        /\ ~returnOvertaken => PaidWhenCompleted'
    BY <2>1, <2>3, ReturnsInvStep
  <2>5. PICK q : q = slowReturn
    OBVIOUS
  <2>6. q # NoReturnPlan => ReturnPlanOK(q)'
    <3>1. ReturnStep(p)
      BY <2>1, <2>3, ReturnStepped
    <3>2. q # NoReturnPlan => ReturnPlanOK(q)
      BY <1>0, <2>5
    <3>3. QED
      BY <2>3, <3>1, <3>2, PlanKept
  <2>7. slowReturn' # NoReturnPlan => ReturnPlanOK(slowReturn)'
    BY <2>2, <2>5, <2>6 DEF ReturnPlanOK
  <2>8. QED
    BY ONLY <1>0, <2>2, <2>4, <2>7 DEF ReturnsInv
<1>2. CASE ReturnsPause
  <2>1. /\ ~returnOvertaken /\ returnOvertaken' = returnOvertaken
        /\ sold' = sold /\ returns' = returns /\ refunds' = refunds /\ returned' = returned
        /\ saleStatus' = saleStatus /\ storeCredit' = storeCredit /\ exchanges' = exchanges
    BY <1>2 DEF ReturnsPause, returnRecords
  <2>2. PICK q \in ReturnsPlans : slowReturn' = q /\ q.op \in SlowReturns
    BY <1>2 DEF ReturnsPause
  <2>3. ReturnPlanOK(q)
    BY <1>0, <2>2, ReturnsPlanRead
  <2>4. ReturnPlanOK(slowReturn)'
    BY <2>1, <2>2, <2>3 DEF ReturnPlanOK
  <2>5. ReturnRecordsOK' /\ ReturnsNamed' /\ AcceptedAsked' /\ PaidOnce' /\ PaidWhenCompleted'
    BY <2>1 DEF ReturnsInv, ReturnRecordsOK, ReturnsNamed, AcceptedAsked, PaidOnce, PaidWhenCompleted
  <2>6. slowReturn'.op \in SlowReturns
    BY <2>2
  <2>7. returnOvertaken' \in BOOLEAN /\ ~returnOvertaken'
    BY ONLY <1>0, <2>1
  <2>8. QED
    BY ONLY <2>4, <2>5, <2>6, <2>7 DEF ReturnsInv
<1>3. CASE ReturnsResume
  <2>1. slowReturn # NoReturnPlan /\ slowReturn' = NoReturnPlan
    BY <1>3 DEF ReturnsResume
  <2>2. slowReturn'.op \in SlowReturns \cup {"none"}
    BY <2>1 DEF NoReturnPlan
  <2>3. PICK q : q = slowReturn
    OBVIOUS
  <2>4. ReturnPlanOK(q) /\ ~returnOvertaken
    BY <1>0, <2>1, <2>3
  <2>5. CASE ReturnsWrite(slowReturn) /\ returnOvertaken' = (slowReturn \notin ReturnsPlans)
    <3>1. ReturnsWrite(q) /\ returnOvertaken' = (q \notin ReturnsPlans)
      BY <2>3, <2>5
    <3>2. /\ ReturnRecordsOK' /\ ReturnsNamed' /\ AcceptedAsked' /\ PaidOnce'
          /\ Fresh(q) => PaidWhenCompleted'
      BY <2>4, <3>1, ReturnsInvStep
    <3>3. q \in ReturnsPlans => Fresh(q)
      BY <1>0, ReturnsPlanRead DEF Fresh
    <3>4. returnOvertaken' \in BOOLEAN /\ (~returnOvertaken' => PaidWhenCompleted')
      <4>1. returnOvertaken' \in BOOLEAN /\ (~returnOvertaken' => q \in ReturnsPlans)
        BY ONLY <3>1
      <4>2. QED
        BY ONLY <3>2, <3>3, <4>1
    <3>5. QED
      BY ONLY <2>1, <2>2, <3>2, <3>4 DEF ReturnsInv
  <2>6. CASE UNCHANGED <<returnRecords, returnOvertaken>>
    <3>1. /\ returnOvertaken' = returnOvertaken
          /\ sold' = sold /\ returns' = returns /\ refunds' = refunds /\ returned' = returned
          /\ saleStatus' = saleStatus /\ storeCredit' = storeCredit /\ exchanges' = exchanges
      BY <2>6 DEF returnRecords
    <3>2. /\ ReturnRecordsOK' /\ ReturnsNamed' /\ AcceptedAsked' /\ PaidOnce'
          /\ ~returnOvertaken' => PaidWhenCompleted'
      BY <3>1 DEF ReturnsInv, ReturnRecordsOK, ReturnsNamed, AcceptedAsked, PaidOnce, PaidWhenCompleted
    <3>3. QED
      BY ONLY <1>0, <2>1, <2>2, <3>1, <3>2 DEF ReturnsInv
  <2>7. QED
    BY <1>3, <2>5, <2>6 DEF ReturnsResume
<1>4. CASE UNCHANGED returnVars
  <2>1. /\ returnOvertaken' = returnOvertaken /\ slowReturn' = slowReturn
        /\ sold' = sold /\ returns' = returns /\ refunds' = refunds /\ returned' = returned
        /\ saleStatus' = saleStatus /\ storeCredit' = storeCredit /\ exchanges' = exchanges
    BY <1>4 DEF returnVars, returnRecords
  <2>2. ReturnRecordsOK' /\ ReturnsNamed' /\ AcceptedAsked' /\ PaidOnce'
        /\ (~returnOvertaken' => PaidWhenCompleted')
    BY <2>1 DEF ReturnsInv, ReturnRecordsOK, ReturnsNamed, AcceptedAsked, PaidOnce, PaidWhenCompleted
  <2>3. slowReturn' # NoReturnPlan => ~returnOvertaken' /\ ReturnPlanOK(slowReturn)'
    BY <1>0, <2>1 DEF ReturnPlanOK
  <2>4. QED
    BY ONLY <1>0, <2>1, <2>2, <2>3 DEF ReturnsInv
<1>5. QED
  BY <1>1, <1>2, <1>3, <1>4 DEF ReturnsNext

-----------------------------------------------------------------------------
(***************************************************************************)
(* Returns: what was asked for and what came back, by line.                *)
(***************************************************************************)
BackAt(i) ==
    [x \in ReturnRequests |-> IF x.status = "COMPLETED" /\ i \in x.accepted THEN 1 ELSE 0]
OpenAt(i) == [x \in ReturnRequests |-> IF x.status \in OpenReturns /\ i \in x.items THEN 1 ELSE 0]
AskAt(i) ==
    [x \in ReturnRequests |->
       IF x.status \in OpenReturns \cup {"COMPLETED"} /\ i \in x.items THEN 1 ELSE 0]
BackCount ==
    [x \in ReturnRequests |-> IF x.status = "COMPLETED" THEN Cardinality(x.accepted) ELSE 0]

RequestsOrderly ==
    /\ \A i \in Lines : /\ returned[i] = SeqSum(BackAt(i), returns)
                        /\ returned[i] + SeqSum(OpenAt(i), returns) <= sold[i]
    /\ SumFunction(returned) = SeqSum(BackCount, returns)

LEMMA RequestCounts ==
    /\ \A i : /\ BackAt(i) \in [ReturnRequests -> Int] /\ BackAt(i) \in [ReturnRequests -> Nat]
              /\ OpenAt(i) \in [ReturnRequests -> Int] /\ OpenAt(i) \in [ReturnRequests -> Nat]
              /\ AskAt(i) \in [ReturnRequests -> Int] /\ AskAt(i) \in [ReturnRequests -> Nat]
    /\ BackCount \in [ReturnRequests -> Int] /\ BackCount \in [ReturnRequests -> Nat]
<1>1. \A i : /\ BackAt(i) \in [ReturnRequests -> Nat] /\ OpenAt(i) \in [ReturnRequests -> Nat]
             /\ AskAt(i) \in [ReturnRequests -> Nat]
  BY DEF BackAt, OpenAt, AskAt
<1>2. \A x \in ReturnRequests : Cardinality(x.accepted) \in Nat
  BY LinesFinite DEF ReturnRequests
<1>3. BackCount \in [ReturnRequests -> Nat]
  BY <1>2 DEF BackCount
<1>4. \A f \in [ReturnRequests -> Nat] : f \in [ReturnRequests -> Int]
  OBVIOUS
<1>5. QED
  BY ONLY <1>1, <1>3, <1>4

\* Units of a line that requests ask for, as a sum.
LEMMA OpenUnits ==
    ASSUME ReturnRecordsOK, NEW i
    PROVE  Units(returns, ReturnsIn(OpenReturns), i) = SeqSum(OpenAt(i), returns)
<1>1. PICK S, R, h : /\ S = DOMAIN returns /\ h = OverSeq(OpenAt(i), returns)
                     /\ R = {d \in ReturnsIn(OpenReturns) : i \in returns[d].items}
  OBVIOUS
<1>2. returns \in Seq(ReturnRequests) /\ \A d \in DOMAIN returns : returns[d] \in ReturnRequests
  BY ReturnsTyped DEF ReturnRecordsOK
<1>3. IsFiniteSet(S) /\ h \in [S -> Int]
  BY <1>1, <1>2, SequenceDomain, SeqSumInt, RequestCounts
<1>4. R \subseteq S /\ (\A d \in R : h[d] = 1) /\ \A d \in S \ R : h[d] = 0
  BY <1>1, <1>2 DEF ReturnsIn, OverSeq, OpenAt
<1>5. SumFunction(h) = Cardinality(R)
  BY ONLY <1>3, <1>4, CountSum
<1>6. QED
  BY ONLY <1>1, <1>5 DEF Units, SeqSum

LEMMA AskUnits ==
    ASSUME ReturnRecordsOK, NEW i, NEW t,
           NEW c, c = IF t \in DOMAIN returns THEN AskAt(i)[returns[t]] ELSE 0
    PROVE  Units(returns, ReturnsIn(OpenReturns \cup {"COMPLETED"}) \ {t}, i)
             = SeqSum(AskAt(i), returns) - c
<1>1. PICK S, R, g, h :
        /\ S = DOMAIN returns /\ g = OverSeq(AskAt(i), returns)
        /\ R = {d \in ReturnsIn(OpenReturns \cup {"COMPLETED"}) \ {t} : i \in returns[d].items}
        /\ h = [d \in S |-> IF d = t THEN 0 ELSE g[d]]
  OBVIOUS
<1>2. returns \in Seq(ReturnRequests) /\ \A d \in DOMAIN returns : returns[d] \in ReturnRequests
  BY ReturnsTyped DEF ReturnRecordsOK
<1>3. IsFiniteSet(S) /\ g \in [S -> Int]
  BY <1>1, <1>2, SequenceDomain, SeqSumInt, RequestCounts
<1>4. h \in [S -> Int] /\ \A d \in S \ {t} : h[d] = g[d]
  BY ONLY <1>1, <1>3
<1>5. \A d \in S : g[d] = AskAt(i)[returns[d]]
  BY ONLY <1>1 DEF OverSeq
<1>6. R \subseteq S /\ (\A d \in R : h[d] = 1) /\ \A d \in S \ R : h[d] = 0
  <2>1. \A d \in S : AskAt(i)[returns[d]] =
          IF returns[d].status \in OpenReturns \cup {"COMPLETED"} /\ i \in returns[d].items THEN 1 ELSE 0
    BY <1>1, <1>2 DEF AskAt
  <2>2. R = {d \in S : d # t /\ returns[d].status \in OpenReturns \cup {"COMPLETED"} /\ i \in returns[d].items}
    BY ONLY <1>1 DEF ReturnsIn
  <2>3. QED
    BY ONLY <1>1, <1>5, <2>1, <2>2
<1>7. SumFunction(h) = Cardinality(R)
  BY ONLY <1>3, <1>4, <1>6, CountSum
<1>8. SumFunction(h) = SumFunction(g) - c
  <2>1. CASE t \in S
    <3>1. SumFunction(h) = SumFunction(g) + (h[t] - g[t])
      BY ONLY <1>3, <1>4, <2>1, TotalUpdate
    <3>2. h[t] = 0 /\ g[t] = c /\ g[t] \in Int
      BY <1>1, <1>3, <1>5, <2>1
    <3>3. SumFunction(g) \in Int
      BY ONLY <1>3, TotalInt
    <3>4. QED
      BY ONLY <3>1, <3>2, <3>3
  <2>2. CASE t \notin S
    <3>1. h = g
      BY ONLY <1>1, <1>3, <2>2
    <3>2. SumFunction(g) \in Int /\ c = 0
      BY <1>1, <1>3, <2>2, TotalInt
    <3>3. QED
      BY ONLY <3>1, <3>2
  <2>3. QED
    BY ONLY <2>1, <2>2
<1>9. QED
  BY ONLY <1>1, <1>7, <1>8 DEF Units, SeqSum

\* More is asked for than open or accepted.
LEMMA AskCovers ==
    ASSUME ReturnRecordsOK, AcceptedAsked, NEW i
    PROVE  SeqSum(OpenAt(i), returns) + SeqSum(BackAt(i), returns) <= SeqSum(AskAt(i), returns)
<1>1. PICK S, f, e, a, h :
        /\ S = DOMAIN returns /\ f = OverSeq(OpenAt(i), returns)
        /\ e = OverSeq(BackAt(i), returns) /\ a = OverSeq(AskAt(i), returns)
        /\ h = [d \in S |-> f[d] + e[d]]
  OBVIOUS
<1>2. returns \in Seq(ReturnRequests) /\ \A d \in DOMAIN returns : returns[d] \in ReturnRequests
  BY ReturnsTyped DEF ReturnRecordsOK
<1>3. IsFiniteSet(S) /\ f \in [S -> Int] /\ e \in [S -> Int] /\ a \in [S -> Int]
  BY <1>1, <1>2, SequenceDomain, SeqSumInt, RequestCounts
<1>4. h \in [S -> Int] /\ \A d \in S : h[d] = f[d] + e[d]
  BY ONLY <1>1, <1>3
<1>5. \A d \in S : h[d] <= a[d]
  <2>1. TAKE d \in S
  <2>2. PICK x \in ReturnRequests : x = returns[d] /\ x.accepted \subseteq x.items
    BY <1>1, <1>2 DEF AcceptedAsked
  <2>3. f[d] = OpenAt(i)[x] /\ e[d] = BackAt(i)[x] /\ a[d] = AskAt(i)[x]
    BY ONLY <1>1, <2>2, d \in S DEF OverSeq
  <2>4. OpenAt(i)[x] + BackAt(i)[x] <= AskAt(i)[x]
    BY ONLY <2>2 DEF OpenAt, BackAt, AskAt, OpenReturns
  <2>5. QED
    BY ONLY <1>4, <2>3, <2>4, d \in S
<1>6. SumFunction(h) = SumFunction(f) + SumFunction(e)
  BY ONLY <1>3, <1>4, TotalPlus
<1>7. SumFunction(h) <= SumFunction(a)
  BY ONLY <1>3, <1>4, <1>5, TotalMonotone
<1>8. QED
  BY ONLY <1>1, <1>6, <1>7 DEF SeqSum

LEMMA RequestSums ==
    ASSUME ReturnRecordsOK, NEW i \in Lines
    PROVE  /\ SeqSum(OpenAt(i), returns) \in Int /\ SeqSum(BackAt(i), returns) \in Int
           /\ SeqSum(AskAt(i), returns) \in Int
           /\ returned[i] \in Int /\ sold[i] \in Int
<1>1. returns \in Seq(ReturnRequests) /\ returned \in [Lines -> Nat] /\ sold \in [Lines -> Nat]
  BY PaidNat DEF ReturnRecordsOK
<1>2. QED
  BY <1>1, SeqSumInt, RequestCounts

\* What was asked for has room in the sale.
LEMMA RoomLeft ==
    ASSUME ReturnRecordsOK, AcceptedAsked, RequestsOrderly, ReturnsNamed,
           NEW y, NEW t, AskedFor(y, t),
           t # 0 => t \in DOMAIN returns /\ returns[t].status \in OpenReturns,
           NEW i \in Lines, i \in y.items,
           NEW c, c = IF t = 0 THEN 0 ELSE OpenAt(i)[returns[t]]
    PROVE  returned[i] + SeqSum(OpenAt(i), returns) - c + 1 <= sold[i]
<1>0. /\ SeqSum(OpenAt(i), returns) \in Int /\ SeqSum(BackAt(i), returns) \in Int
      /\ SeqSum(AskAt(i), returns) \in Int
      /\ returned[i] \in Int /\ sold[i] \in Int
  BY RequestSums
<1>1. /\ returned[i] = SeqSum(BackAt(i), returns)
      /\ returned[i] + SeqSum(OpenAt(i), returns) <= sold[i]
  BY DEF RequestsOrderly
<1>2. DOMAIN returns = 1..Len(returns) /\ \A d \in DOMAIN returns : returns[d] \in ReturnRequests
  BY ReturnsTyped
<1>3. 0 \notin DOMAIN returns
  BY ONLY <1>2
<1>4. CASE t \in DOMAIN returns /\ y.items = returns[t].items
  <2>1. c = 1
    BY <1>2, <1>3, <1>4 DEF OpenAt
  <2>2. QED
    BY ONLY <1>0, <1>1, <2>1
<1>5. CASE t = 0 /\ Returnable(y.items)
  <2>1. returned[i] + Units(returns, ReturnsIn(OpenReturns), i) < sold[i]
    BY <1>5 DEF Returnable
  <2>2. Units(returns, ReturnsIn(OpenReturns), i) = SeqSum(OpenAt(i), returns)
    BY OpenUnits
  <2>3. c = 0
    BY <1>5
  <2>4. QED
    BY ONLY <1>0, <2>1, <2>2, <2>3
<1>6. ASSUME NEW f \in DOMAIN refunds, refunds[f].return = t, Refundable(y.items, f)
      PROVE  returned[i] + SeqSum(OpenAt(i), returns) - c + 1 <= sold[i]
  <2>1. DOMAIN refunds = 1..Len(refunds)
    BY ReturnsTyped
  <2>2. f # 0
    BY ONLY <2>1, f \in DOMAIN refunds
  <2>3. PICK u : u = Units(returns, ReturnsIn(OpenReturns \cup {"COMPLETED"}) \ {t}, i)
    OBVIOUS
  <2>4. u < sold[i]
    BY <1>6, <2>2, <2>3 DEF Refundable
  <2>5. c = IF t \in DOMAIN returns THEN AskAt(i)[returns[t]] ELSE 0
    <3>1. CASE t = 0
      BY <1>3, <3>1
    <3>2. CASE t # 0
      <4>1. PICK x \in ReturnRequests : x = returns[t] /\ x.status \in OpenReturns /\ t \in DOMAIN returns
        BY <1>2, <3>2
      <4>2. OpenAt(i)[x] = AskAt(i)[x]
        BY ONLY <4>1 DEF OpenAt, AskAt
      <4>3. QED
        BY <3>2, <4>1, <4>2
    <3>3. QED
      BY ONLY <3>1, <3>2
  <2>6. u = SeqSum(AskAt(i), returns) - c
    BY <2>3, <2>5, AskUnits
  <2>7. SeqSum(OpenAt(i), returns) + SeqSum(BackAt(i), returns) <= SeqSum(AskAt(i), returns)
    BY AskCovers
  <2>8. c \in Int
    <3>1. CASE t = 0
      BY <3>1
    <3>2. CASE t # 0
      BY <1>2, <3>2, RequestCounts
    <3>3. QED
      BY ONLY <3>1, <3>2
  <2>9. QED
    BY ONLY <1>0, <1>1, <2>4, <2>6, <2>7, <2>8
<1>7. QED
  BY <1>4, <1>5, <1>6 DEF AskedFor

-----------------------------------------------------------------------------
RequestsStay ==
    /\ \A i \in Lines : SeqSum(BackAt(i), returns') = SeqSum(BackAt(i), returns)
    /\ SeqSum(BackCount, returns') = SeqSum(BackCount, returns)

LEMMA RequestsOrderlyStep ==
    ASSUME NEW p, ReturnStep(p), Fresh(p), RequestsOrderly
    PROVE  RequestsOrderly'
<1>0. ReturnRecordsOK /\ ReturnsNamed /\ AcceptedAsked /\ RequestsMove(p)
  BY DEF ReturnStep
<1>1. sold' = sold /\ ReturnRecordsOK'
  BY RecordsStep
<1>2. /\ \A d \in DOMAIN returns : returns[d] \in ReturnRequests
      /\ DOMAIN returns = 1..Len(returns)
  BY <1>0, ReturnsTyped
<1>3. /\ \A i \in Lines : /\ returned[i] = SeqSum(BackAt(i), returns)
                          /\ returned[i] + SeqSum(OpenAt(i), returns) <= sold[i]
      /\ SumFunction(returned) = SeqSum(BackCount, returns)
  BY DEF RequestsOrderly
<1>4. \A i \in Lines : /\ SeqSum(OpenAt(i), returns) \in Int /\ SeqSum(BackAt(i), returns) \in Int
                       /\ returned[i] \in Int /\ sold[i] \in Int
  BY <1>0, RequestSums
<1>5. SeqSum(BackCount, returns) \in Int
  BY <1>0, SeqSumInt, RequestCounts DEF ReturnRecordsOK
<1> DEFINE Good == /\ \A i \in Lines : /\ returned'[i] = SeqSum(BackAt(i), returns')
                                       /\ returned'[i] + SeqSum(OpenAt(i), returns') <= sold[i]
                   /\ SumFunction(returned') = SeqSum(BackCount, returns')
<1>6. ASSUME returned' = returned, returns' = returns PROVE Good
  BY ONLY <1>3, <1>6
<1>7. ASSUME NEW t, NEW y, ReturnSet(t, y), y.status # "COMPLETED",
             returns[t].status \in OpenReturns, AskedFor(y, t), returned' = returned
      PROVE  Good
  <2>1. /\ Replaced(ReturnRequests, returns, returns', t) /\ t \in DOMAIN returns /\ returns'[t] = y
    BY <1>0, <1>7, ReturnSetting
  <2>2. PICK x, r : x \in ReturnRequests /\ x = returns[t] /\ r = returns'
    BY <1>2, <2>1
  <2>3. y \in ReturnRequests /\ x.status \in OpenReturns /\ t # 0
    <3>1. y \in ReturnRequests
      BY <1>7 DEF ReturnSet
    <3>2. t # 0
      BY ONLY <1>2, <2>1
    <3>3. QED
      BY <1>7, <2>2, <3>1, <3>2
  <2>4. Replaced(ReturnRequests, returns, r, t) /\ r[t] = y
    BY ONLY <2>1, <2>2
  <2>5. SeqSum(BackCount, r) = SeqSum(BackCount, returns)
    <3>1. SeqSum(BackCount, r) = SeqSum(BackCount, returns) + (BackCount[r[t]] - BackCount[returns[t]])
      BY <2>4, RequestCounts, SeqSumSet
    <3>2. BackCount[y] = 0 /\ BackCount[x] = 0
      BY ONLY <1>7, <2>3, <2>2 DEF BackCount, OpenReturns
    <3>3. QED
      BY ONLY <1>5, <2>2, <2>4, <3>1, <3>2
  <2>6. ASSUME NEW i \in Lines
        PROVE  /\ SeqSum(BackAt(i), r) = SeqSum(BackAt(i), returns)
               /\ returned[i] + SeqSum(OpenAt(i), r) <= sold[i]
    <3>1. SeqSum(BackAt(i), r) = SeqSum(BackAt(i), returns) + (BackAt(i)[r[t]] - BackAt(i)[returns[t]])
      BY <2>4, RequestCounts, SeqSumSet
    <3>2. SeqSum(OpenAt(i), r) = SeqSum(OpenAt(i), returns) + (OpenAt(i)[r[t]] - OpenAt(i)[returns[t]])
      BY <2>4, RequestCounts, SeqSumSet
    <3>3. BackAt(i)[y] = 0 /\ BackAt(i)[x] = 0
      BY ONLY <1>7, <2>3, <2>2 DEF BackAt, OpenReturns
    <3>4. OpenAt(i)[x] \in {0, 1} /\ OpenAt(i)[y] \in {0, 1} /\ (i \notin y.items => OpenAt(i)[y] = 0)
      BY ONLY <2>3, <2>2 DEF OpenAt
    <3>5. i \in y.items => returned[i] + SeqSum(OpenAt(i), returns) - OpenAt(i)[x] + 1 <= sold[i]
      BY <1>0, <1>7, <2>1, <2>2, <2>3, RoomLeft
    <3>6. PICK a, b, c, d, o, k : a = OpenAt(i)[x] /\ b = OpenAt(i)[y] /\ c = SeqSum(OpenAt(i), returns)
             /\ d = SeqSum(OpenAt(i), r) /\ o = returned[i] /\ k = sold[i]
      OBVIOUS
    <3>7. a \in {0, 1} /\ b \in {0, 1} /\ c \in Int /\ o \in Int /\ k \in Int /\ d = c + (b - a)
          /\ o + c <= k
      BY ONLY <1>3, <1>4, <2>2, <2>4, <3>2, <3>4, <3>6, i \in Lines
    <3>8. o + d <= k
      <4>1. CASE i \in y.items
        <5>1. o + c - a + 1 <= k
          BY ONLY <3>5, <3>6, <4>1
        <5>2. QED
          BY ONLY <3>7, <5>1
      <4>2. CASE i \notin y.items
        <5>1. b = 0
          BY ONLY <3>4, <3>6, <4>2
        <5>2. QED
          BY ONLY <3>7, <5>1
      <4>3. QED
        BY ONLY <4>1, <4>2
    <3>9. SeqSum(BackAt(i), r) = SeqSum(BackAt(i), returns)
      BY ONLY <1>4, <2>2, <2>4, <3>1, <3>3, i \in Lines
    <3>10. QED
      BY ONLY <3>6, <3>8, <3>9
  <2>7. QED
    BY ONLY <1>3, <1>7, <2>2, <2>5, <2>6
<1>8. ASSUME NEW y, ReturnNew(y), y.status = "REQUESTED", AskedFor(y, 0), returned' = returned
      PROVE  Good
  <2>1. PICK r, n : r = returns' /\ n = Len(returns) + 1
    OBVIOUS
  <2>2. Extended(ReturnRequests, returns, r, n) /\ r[n] = y
    BY <1>0, <1>8, <2>1, ReturnAdding
  <2>3. y \in ReturnRequests
    BY <1>8 DEF ReturnNew
  <2>5. SeqSum(BackCount, r) = SeqSum(BackCount, returns)
    <3>1. SeqSum(BackCount, r) = SeqSum(BackCount, returns) + BackCount[r[n]]
      BY <2>2, RequestCounts, SeqSumAppend
    <3>2. BackCount[y] = 0
      BY ONLY <1>8, <2>3 DEF BackCount
    <3>3. QED
      BY ONLY <1>5, <2>2, <3>1, <3>2
  <2>6. ASSUME NEW i \in Lines
        PROVE  /\ SeqSum(BackAt(i), r) = SeqSum(BackAt(i), returns)
               /\ returned[i] + SeqSum(OpenAt(i), r) <= sold[i]
    <3>1. SeqSum(BackAt(i), r) = SeqSum(BackAt(i), returns) + BackAt(i)[r[n]]
      BY <2>2, RequestCounts, SeqSumAppend
    <3>2. SeqSum(OpenAt(i), r) = SeqSum(OpenAt(i), returns) + OpenAt(i)[r[n]]
      BY <2>2, RequestCounts, SeqSumAppend
    <3>3. BackAt(i)[y] = 0
      BY ONLY <1>8, <2>3 DEF BackAt
    <3>4. OpenAt(i)[y] = IF i \in y.items THEN 1 ELSE 0
      BY ONLY <1>8, <2>3 DEF OpenAt, OpenReturns
    <3>5. i \in y.items => returned[i] + SeqSum(OpenAt(i), returns) - 0 + 1 <= sold[i]
      BY <1>0, <1>8, RoomLeft
    <3>6. PICK b, c, d, o, k : b = OpenAt(i)[y] /\ c = SeqSum(OpenAt(i), returns)
             /\ d = SeqSum(OpenAt(i), r) /\ o = returned[i] /\ k = sold[i]
      OBVIOUS
    <3>7. c \in Int /\ o \in Int /\ k \in Int /\ d = c + b /\ o + c <= k
      BY ONLY <1>3, <1>4, <2>2, <3>2, <3>6, i \in Lines
    <3>8. o + d <= k
      <4>1. CASE i \in y.items
        <5>1. o + c - 0 + 1 <= k /\ b = 1
          BY ONLY <3>4, <3>5, <3>6, <4>1
        <5>2. QED
          BY ONLY <3>7, <5>1
      <4>2. CASE i \notin y.items
        <5>1. b = 0
          BY ONLY <3>4, <3>6, <4>2
        <5>2. QED
          BY ONLY <3>7, <5>1
      <4>3. QED
        BY ONLY <4>1, <4>2
    <3>9. SeqSum(BackAt(i), r) = SeqSum(BackAt(i), returns)
      BY ONLY <1>4, <2>2, <3>1, <3>3, i \in Lines
    <3>10. QED
      BY ONLY <3>6, <3>8, <3>9
  <2>7. QED
    BY ONLY <1>3, <1>8, <2>1, <2>5, <2>6
<1>9. ASSUME NEW t, NEW y, ReturnSet(t, y), y.status = "COMPLETED", SameRequest(returns[t], y),
             returns[t].status = "APPROVED", y.accepted = p.accepted, p.accepted \in SUBSET Lines,
             returned' = [i \in Lines |-> returned[i] + IF i \in p.accepted THEN 1 ELSE 0]
      PROVE  Good
  <2>1. PICK x, r : x \in ReturnRequests /\ x = returns[t] /\ r = returns'
    BY <1>2, <1>9 DEF ReturnSet
  <2>2. Replaced(ReturnRequests, returns, r, t) /\ r[t] = y /\ t \in DOMAIN returns
    BY <1>0, <1>9, <2>1, ReturnSetting
  <2>3. y \in ReturnRequests /\ x.status = "APPROVED" /\ y.accepted = x.accepted /\ y.items = x.items
        /\ x.accepted \subseteq x.items
    BY <1>0, <1>9, <2>1, <2>2 DEF ReturnSet, SameRequest, AcceptedAsked
  <2>4. Cardinality(y.accepted) \in Nat
    BY <1>9, LinesFinite
  <2>5. SeqSum(BackCount, r) = SeqSum(BackCount, returns) + Cardinality(y.accepted)
    <3>1. SeqSum(BackCount, r) = SeqSum(BackCount, returns) + (BackCount[r[t]] - BackCount[returns[t]])
      BY <2>2, RequestCounts, SeqSumSet
    <3>2. BackCount[y] = Cardinality(y.accepted) /\ BackCount[x] = 0
      BY ONLY <1>9, <2>3, <2>1 DEF BackCount
    <3>3. PICK c : c = Cardinality(y.accepted)
      OBVIOUS
    <3>4. QED
      BY ONLY <1>5, <2>1, <2>2, <2>4, <3>1, <3>2
  <2>6. SumFunction(returned') = SumFunction(returned) + Cardinality(y.accepted)
    <3>1. PICK d, e, h : /\ d = returned /\ h = returned'
                         /\ e = [i \in Lines |-> IF i \in y.accepted THEN 1 ELSE 0]
      OBVIOUS
    <3>2. d \in [Lines -> Int] /\ IsFiniteSet(Lines)
      BY <1>0, <3>1, LinesFinite DEF ReturnRecordsOK
    <3>3. e \in [Lines -> Int] /\ (\A i \in y.accepted : e[i] = 1) /\ \A i \in Lines \ y.accepted : e[i] = 0
      BY <1>9, <3>1
    <3>4. h = [i \in Lines |-> d[i] + IF i \in y.accepted THEN 1 ELSE 0]
      BY ONLY <1>9, <3>1
    <3>5. h \in [Lines -> Int] /\ \A i \in Lines : h[i] = d[i] + e[i]
      BY ONLY <3>1, <3>2, <3>4
    <3>6. SumFunction(h) = SumFunction(d) + SumFunction(e)
      BY ONLY <3>2, <3>3, <3>5, TotalPlus
    <3>7. SumFunction(e) = Cardinality(y.accepted)
      <4>1. y.accepted \subseteq Lines
        BY <1>9
      <4>2. QED
        BY ONLY <3>2, <3>3, <4>1, CountSum
    <3>8. QED
      BY ONLY <3>1, <3>6, <3>7
  <2>7. ASSUME NEW i \in Lines
        PROVE  /\ returned'[i] = SeqSum(BackAt(i), r)
               /\ returned'[i] + SeqSum(OpenAt(i), r) <= sold[i]
    <3>1. SeqSum(BackAt(i), r) = SeqSum(BackAt(i), returns) + (BackAt(i)[r[t]] - BackAt(i)[returns[t]])
      BY <2>2, RequestCounts, SeqSumSet
    <3>2. SeqSum(OpenAt(i), r) = SeqSum(OpenAt(i), returns) + (OpenAt(i)[r[t]] - OpenAt(i)[returns[t]])
      BY <2>2, RequestCounts, SeqSumSet
    <3>3. BackAt(i)[y] = (IF i \in y.accepted THEN 1 ELSE 0) /\ BackAt(i)[x] = 0
      BY ONLY <1>9, <2>3, <2>1 DEF BackAt
    <3>4. OpenAt(i)[x] = (IF i \in x.items THEN 1 ELSE 0) /\ OpenAt(i)[y] = 0
      BY ONLY <1>9, <2>3, <2>1 DEF OpenAt, OpenReturns
    <3>5. PICK a \in {0, 1}, b \in {0, 1} : /\ a = IF i \in y.accepted THEN 1 ELSE 0
                                            /\ b = IF i \in x.items THEN 1 ELSE 0
                                            /\ a <= b
      BY ONLY <2>3
    <3>6. returned'[i] = returned[i] + a
      BY ONLY <1>9, <3>5, i \in Lines
    <3>7. /\ SeqSum(BackAt(i), r) = SeqSum(BackAt(i), returns) + (a - 0)
          /\ SeqSum(OpenAt(i), r) = SeqSum(OpenAt(i), returns) + (0 - b)
      BY ONLY <2>1, <2>2, <3>1, <3>2, <3>3, <3>4, <3>5
    <3>8. QED
      BY ONLY <1>3, <1>4, <3>5, <3>6, <3>7, i \in Lines
  <2>8. QED
    BY ONLY <1>3, <2>1, <2>5, <2>6, <2>7
<1> HIDE DEF Good
<1>10. Good
  <2>1. Fresh(p)
    OBVIOUS
  <2>2. returned' = returned /\ returns' = returns => Good
    BY ONLY <1>6
  <2>3. QED
    BY ONLY <1>0, <1>7, <1>8, <1>9, <2>1, <2>2 DEF RequestsMove
<1>11. QED
  BY <1>1, <1>10 DEF Good, RequestsOrderly

\* What came back of a completed request is settled.
LEMMA FinalKept ==
    ASSUME NEW p, ReturnStep(p), Fresh(p), NEW t \in DOMAIN returns, returns[t].status = "COMPLETED"
    PROVE  t \in DOMAIN returns' /\ returns'[t] = returns[t]
<1>0. ReturnRecordsOK /\ RequestsMove(p)
  BY DEF ReturnStep
<1> DEFINE Good == t \in DOMAIN returns' /\ returns'[t] = returns[t]
<1>1. returns' = returns => Good
  OBVIOUS
<1>2. ASSUME NEW u, NEW y, ReturnSet(u, y), returns[u].status # "COMPLETED" PROVE Good
  <2>1. /\ DOMAIN returns' = DOMAIN returns
        /\ \A v \in DOMAIN returns \ {u} : returns'[v] = returns[v]
    BY <1>0, <1>2, ReturnSetting
  <2>2. t # u
    BY <1>2
  <2>3. QED
    BY ONLY <2>1, <2>2, t \in DOMAIN returns
<1>3. ASSUME NEW y, ReturnNew(y) PROVE Good
  <2>1. /\ DOMAIN returns' = DOMAIN returns \cup {Len(returns) + 1}
        /\ \A u \in DOMAIN returns : returns'[u] = returns[u]
    BY <1>0, <1>3, ReturnAdding
  <2>2. QED
    BY ONLY <2>1, t \in DOMAIN returns
<1>4. "COMPLETED" \notin OpenReturns
  BY DEF OpenReturns
<1> HIDE DEF Good
<1>5. Good
  <2>1. Fresh(p)
    OBVIOUS
  <2>2. QED
    BY ONLY <1>0, <1>1, <1>2, <1>3, <1>4, <2>1 DEF RequestsMove
<1>6. QED
  BY <1>5 DEF Good

-----------------------------------------------------------------------------
(***************************************************************************)
(* Returns: the refunds granted, given, and credited.                      *)
(***************************************************************************)
CreditOf ==
    [x \in Refunds |-> IF x.status = "COMPLETED" /\ x.method = "STORE_CREDIT" THEN Active(x) ELSE 0]
GrantedOf == [x \in Refunds |-> IF x.status \in Granted THEN Active(x) ELSE 0]

RefundsOrderly ==
    /\ storeCredit = SeqSum(CreditOf, refunds)
    /\ SeqSum(GrantedOf, refunds) <= Paid
    /\ \A f \in DOMAIN refunds : refunds[f].status \in {"PROCESSING", "COMPLETED"} =>
         /\ refunds[f].return \in DOMAIN returns
         /\ returns[refunds[f].return].status = "COMPLETED"

LEMMA RefundCounts ==
    /\ CreditOf \in [Refunds -> Nat] /\ GrantedOf \in [Refunds -> Nat]
    /\ CreditOf \in [Refunds -> Int] /\ GrantedOf \in [Refunds -> Int]
    /\ \A x \in Refunds : Active(x) \in Nat
<1>1. \A x \in Refunds : Active(x) \in Nat
  BY DEF Active, Refunds
<1>2. CreditOf \in [Refunds -> Nat] /\ GrantedOf \in [Refunds -> Nat]
  BY <1>1 DEF CreditOf, GrantedOf
<1>3. \A f \in [Refunds -> Nat] : f \in [Refunds -> Int]
  OBVIOUS
<1>4. QED
  BY ONLY <1>1, <1>2, <1>3

\* The total of some refunds, as a sum over all.
LEMMA RefundsTotal ==
    ASSUME ReturnRecordsOK, NEW R \in SUBSET DOMAIN refunds, NEW k \in [Refunds -> Int],
           \A f \in R : k[refunds[f]] = Active(refunds[f]),
           \A f \in DOMAIN refunds \ R : k[refunds[f]] = 0
    PROVE  TotalRefund(R) = SeqSum(k, refunds)
<1>1. PICK S, g, h : /\ S = DOMAIN refunds /\ h = OverSeq(k, refunds)
                     /\ g = [f \in DOMAIN refunds |-> ActiveAmount(f)]
  OBVIOUS
<1>2. IsFiniteSet(S) /\ h \in [S -> Int]
  BY <1>1, SequenceDomain, SeqSumInt DEF ReturnRecordsOK
<1>3. (\A f \in R : h[f] = g[f]) /\ \A f \in S \ R : h[f] = 0
  <2>1. \A f \in S : h[f] = k[refunds[f]] /\ g[f] = Active(refunds[f])
    BY <1>1, ActiveIs DEF OverSeq
  <2>2. QED
    BY <1>1, <2>1
<1>4. SumFunctionOnSet(g, R) = SumFunction(h)
  BY <1>1, <1>2, <1>3, SumWithin
<1>5. QED
  BY <1>1, <1>4 DEF TotalRefund, SeqSum

LEMMA GrantedTotal ==
    ASSUME ReturnRecordsOK
    PROVE  TotalRefund(RefundsIn(Granted)) = SeqSum(GrantedOf, refunds)
<1>1. \A f \in DOMAIN refunds : refunds[f] \in Refunds
  BY ReturnsTyped
<1>2. PICK R : R = RefundsIn(Granted)
  OBVIOUS
<1>3. R \in SUBSET DOMAIN refunds
  BY <1>2 DEF RefundsIn
<1>4. (\A f \in R : GrantedOf[refunds[f]] = Active(refunds[f]))
      /\ \A f \in DOMAIN refunds \ R : GrantedOf[refunds[f]] = 0
  BY <1>1, <1>2 DEF RefundsIn, GrantedOf
<1>5. QED
  BY <1>2, <1>3, <1>4, RefundCounts, RefundsTotal

LEMMA CreditTotal ==
    ASSUME ReturnRecordsOK
    PROVE  TotalRefund({f \in RefundsIn({"COMPLETED"}) : refunds[f].method = "STORE_CREDIT"})
             = SeqSum(CreditOf, refunds)
<1>1. \A f \in DOMAIN refunds : refunds[f] \in Refunds
  BY ReturnsTyped
<1>2. PICK R : R = {f \in RefundsIn({"COMPLETED"}) : refunds[f].method = "STORE_CREDIT"}
  OBVIOUS
<1>3. R \in SUBSET DOMAIN refunds
  BY <1>2 DEF RefundsIn
<1>4. (\A f \in R : CreditOf[refunds[f]] = Active(refunds[f]))
      /\ \A f \in DOMAIN refunds \ R : CreditOf[refunds[f]] = 0
  BY <1>1, <1>2 DEF RefundsIn, CreditOf
<1>5. QED
  BY <1>2, <1>3, <1>4, RefundCounts, RefundsTotal

LEMMA RefundsOrderlyStep ==
    ASSUME NEW p, ReturnStep(p), Fresh(p), RefundsOrderly
    PROVE  RefundsOrderly'
<1>0. ReturnRecordsOK /\ RefundsMove(p) /\ Fresh(p) /\ refunds \in Seq(Refunds)
  BY DEF ReturnStep, ReturnRecordsOK
<1>1. sold' = sold /\ ReturnRecordsOK'
  BY RecordsStep
<1>2. Paid' = Paid
  BY <1>1 DEF Paid
<1>3. /\ SeqSum(CreditOf, refunds) \in Int /\ SeqSum(GrantedOf, refunds) \in Int
      /\ Paid \in Int /\ storeCredit \in Int
  BY <1>0, SeqSumInt, RefundCounts, PaidNat DEF ReturnRecordsOK
<1>4. \A f \in DOMAIN refunds : refunds[f] \in Refunds
  BY <1>0, ReturnsTyped
<1> DEFINE Settled(f, r) ==
             r[f].status \in {"PROCESSING", "COMPLETED"} =>
               /\ r[f].return \in DOMAIN returns'
               /\ returns'[r[f].return].status = "COMPLETED"
<1>5. \A f \in DOMAIN refunds : Settled(f, refunds)
  BY FinalKept DEF RefundsOrderly
<1> DEFINE Good == /\ storeCredit' = SeqSum(CreditOf, refunds')
                   /\ SeqSum(GrantedOf, refunds') <= Paid
                   /\ \A f \in DOMAIN refunds' : Settled(f, refunds')
<1>6. storeCredit = SeqSum(CreditOf, refunds) /\ SeqSum(GrantedOf, refunds) <= Paid
  BY DEF RefundsOrderly
<1>7. ASSUME refunds' = refunds, storeCredit' = storeCredit PROVE Good
  BY ONLY <1>5, <1>6, <1>7
<1>8. ASSUME NEW y, RefundNew(y), y.status \in {"DRAFT", "PENDING_APPROVAL"}, storeCredit' = storeCredit
      PROVE  Good
  <2>1. PICK r, n : r = refunds' /\ n = Len(refunds) + 1
    OBVIOUS
  <2>2. /\ Extended(Refunds, refunds, r, n) /\ DOMAIN r = DOMAIN refunds \cup {n}
        /\ r[n] = y /\ \A g \in DOMAIN refunds : r[g] = refunds[g]
    BY <1>0, <1>8, <2>1, RefundAdding
  <2>3. y \in Refunds
    BY <1>8 DEF RefundNew
  <2>4. SeqSum(CreditOf, r) = SeqSum(CreditOf, refunds) + CreditOf[r[n]]
    BY <2>2, RefundCounts, SeqSumAppend
  <2>5. SeqSum(GrantedOf, r) = SeqSum(GrantedOf, refunds) + GrantedOf[r[n]]
    BY <2>2, RefundCounts, SeqSumAppend
  <2>6. CreditOf[y] = 0 /\ GrantedOf[y] = 0
    BY ONLY <1>8, <2>3 DEF CreditOf, GrantedOf, Granted
  <2>7. SeqSum(CreditOf, r) = SeqSum(CreditOf, refunds) /\ SeqSum(GrantedOf, r) = SeqSum(GrantedOf, refunds)
    BY ONLY <1>3, <2>2, <2>4, <2>5, <2>6
  <2>8. \A f \in DOMAIN r : Settled(f, r)
    <3>1. r[n].status \notin {"PROCESSING", "COMPLETED"}
      BY ONLY <1>8, <2>2
    <3>2. QED
      BY ONLY <1>5, <2>2, <3>1
  <2> HIDE DEF Settled
  <2>9. QED
    BY ONLY <1>6, <1>8, <2>1, <2>7, <2>8
<1>9. ASSUME NEW y, RefundSet(p.refund, y), RefundEdit(refunds[p.refund], y, p.refund),
             storeCredit' = storeCredit
      PROVE  Good
  <2>1. PICK r, x, f : r = refunds' /\ f = p.refund /\ x = refunds[f]
    OBVIOUS
  <2>2. /\ Replaced(Refunds, refunds, r, f) /\ DOMAIN r = DOMAIN refunds /\ f \in DOMAIN refunds
        /\ r[f] = y /\ \A g \in DOMAIN refunds \ {f} : r[g] = refunds[g]
    BY <1>0, <1>9, <2>1, RefundSetting
  <2>3. y \in Refunds /\ x \in Refunds /\ RefundEdit(x, y, f)
    BY <1>4, <1>9, <2>1, <2>2 DEF RefundSet
  <2>4. SeqSum(CreditOf, r) = SeqSum(CreditOf, refunds) + (CreditOf[r[f]] - CreditOf[refunds[f]])
    BY <2>2, RefundCounts, SeqSumSet
  <2>5. SeqSum(GrantedOf, r) = SeqSum(GrantedOf, refunds) + (GrantedOf[r[f]] - GrantedOf[refunds[f]])
    BY <2>2, RefundCounts, SeqSumSet
  <2>6. CreditOf[y] = 0 /\ CreditOf[x] = 0 /\ y.status \notin {"PROCESSING", "COMPLETED"}
    BY ONLY <2>3 DEF CreditOf, RefundEdit, Waiting
  <2>7. SeqSum(CreditOf, r) = SeqSum(CreditOf, refunds)
    BY ONLY <1>3, <2>1, <2>2, <2>4, <2>6
  <2>8. SeqSum(GrantedOf, r) <= Paid
    <3>1. GrantedOf[x] \in Nat
      BY <2>3, RefundCounts
    <3>2. CASE y.status # "APPROVED"
      <4>1. GrantedOf[y] = 0
        BY ONLY <2>3, <3>2 DEF GrantedOf, Granted, RefundEdit, Waiting
      <4>2. QED
        BY ONLY <1>3, <1>6, <2>1, <2>2, <2>5, <3>1, <4>1
    <3>3. CASE y.status = "APPROVED"
      <4>1. GrantedOf[y] = Active(y) /\ GrantedOf[x] = 0 /\ x.status \notin Granted
        BY ONLY <2>3, <3>3 DEF GrantedOf, Granted, RefundEdit, Waiting
      <4>2. TotalRefund(RefundsIn(Granted) \ {f}) + Active(y) <= Paid
        BY ONLY <2>3, <3>3 DEF RefundEdit
      <4>3. RefundsIn(Granted) \ {f} = RefundsIn(Granted)
        BY ONLY <2>1, <4>1 DEF RefundsIn
      <4>4. TotalRefund(RefundsIn(Granted)) = SeqSum(GrantedOf, refunds)
        BY <1>0, GrantedTotal
      <4>5. SeqSum(GrantedOf, refunds) + Active(y) <= Paid
        BY ONLY <4>2, <4>3, <4>4
      <4>6. Active(y) \in Nat
        BY <2>3, RefundCounts
      <4>7. QED
        BY ONLY <1>3, <2>1, <2>2, <2>5, <4>1, <4>5, <4>6
    <3>4. QED
      BY ONLY <3>2, <3>3
  <2>9. \A g \in DOMAIN r : Settled(g, r)
    BY ONLY <1>5, <2>2, <2>6
  <2> HIDE DEF Settled
  <2>10. QED
    BY ONLY <1>6, <1>9, <2>1, <2>7, <2>8, <2>9
<1>10. ASSUME NEW y, RefundSet(p.refund, y), y.return = refunds[p.refund].return,
              y.amount = refunds[p.refund].amount, y.approved = refunds[p.refund].approved,
              y.method = refunds[p.refund].method,
              refunds[p.refund].status = "APPROVED", refunds[p.refund].return # 0,
              returns[refunds[p.refund].return].status = "COMPLETED",
              p.credit = storeCredit, p.amount = Active(refunds[p.refund]),
              p.method = refunds[p.refund].method,
              \/ /\ y.status = "PROCESSING" /\ p.method = "MPESA" /\ storeCredit' = storeCredit
              \/ /\ y.status = "COMPLETED"
                 /\ storeCredit' = IF p.method = "STORE_CREDIT" THEN p.credit + p.amount
                                   ELSE storeCredit
       PROVE  Good
  <2>1. PICK r, x, f : r = refunds' /\ f = p.refund /\ x = refunds[f]
    OBVIOUS
  <2>2. /\ Replaced(Refunds, refunds, r, f) /\ DOMAIN r = DOMAIN refunds /\ f \in DOMAIN refunds
        /\ r[f] = y /\ \A g \in DOMAIN refunds \ {f} : r[g] = refunds[g]
    BY <1>0, <1>10, <2>1, RefundSetting
  <2>3. y \in Refunds /\ x \in Refunds
    BY <1>4, <1>10, <2>1, <2>2 DEF RefundSet
  <2>4. SeqSum(CreditOf, r) = SeqSum(CreditOf, refunds) + (CreditOf[r[f]] - CreditOf[refunds[f]])
    BY <2>2, RefundCounts, SeqSumSet
  <2>5. SeqSum(GrantedOf, r) = SeqSum(GrantedOf, refunds) + (GrantedOf[r[f]] - GrantedOf[refunds[f]])
    BY <2>2, RefundCounts, SeqSumSet
  <2>6. /\ x.status = "APPROVED" /\ y.status \in {"PROCESSING", "COMPLETED"}
        /\ y.method = x.method /\ y.amount = x.amount /\ y.approved = x.approved /\ y.return = x.return
    BY ONLY <1>10, <2>1
  <2>7. Active(y) = Active(x) /\ Active(x) \in Nat
    <3>1. Active(y) = Active(x)
      BY ONLY <2>6 DEF Active
    <3>2. QED
      BY <2>3, <3>1, RefundCounts
  <2>8. GrantedOf[y] = GrantedOf[x] /\ GrantedOf[x] \in Int
    BY ONLY <2>3, <2>6, <2>7 DEF GrantedOf, Granted
  <2>9. SeqSum(GrantedOf, r) = SeqSum(GrantedOf, refunds)
    BY ONLY <1>3, <2>1, <2>2, <2>5, <2>8
  <2>10. CreditOf[x] = 0
         /\ CreditOf[y] = IF y.status = "COMPLETED" /\ x.method = "STORE_CREDIT" THEN Active(x) ELSE 0
    BY ONLY <2>3, <2>6, <2>7 DEF CreditOf
  <2>11. storeCredit' = storeCredit + CreditOf[y]
    <3>1. PICK a, c : a = Active(x) /\ c = CreditOf[y]
      OBVIOUS
    <3>2. a \in Nat /\ c = IF y.status = "COMPLETED" /\ x.method = "STORE_CREDIT" THEN a ELSE 0
      BY ONLY <2>7, <2>10, <3>1
    <3>3. \/ y.status = "PROCESSING" /\ storeCredit' = storeCredit
          \/ /\ y.status = "COMPLETED"
             /\ storeCredit' = IF x.method = "STORE_CREDIT" THEN storeCredit + a ELSE storeCredit
      BY ONLY <1>10, <2>1, <3>1
    <3>4. storeCredit' = storeCredit + c
      BY ONLY <1>3, <3>2, <3>3
    <3>5. QED
      BY ONLY <3>1, <3>4
  <2>12. storeCredit' = SeqSum(CreditOf, r)
    <3>1. CreditOf[y] \in Int
      BY <2>3, RefundCounts
    <3>2. QED
      BY ONLY <1>3, <1>6, <2>1, <2>2, <2>4, <2>10, <2>11, <3>1
  <2>13. \A g \in DOMAIN r : Settled(g, r)
    <3>1. x.return \in DOMAIN returns /\ returns[x.return].status = "COMPLETED"
      <4>1. DOMAIN returns = 1..Len(returns) /\ Len(returns) \in Nat /\ x.return \in 0..Len(returns) /\ x.return # 0
        BY <1>10, <2>1, <2>2, ReturnsTyped DEF ReturnStep, ReturnsNamed
      <4>2. QED
        BY <1>10, <2>1, <4>1
    <3>2. x.return \in DOMAIN returns' /\ returns'[x.return].status = "COMPLETED"
      BY <3>1, FinalKept
    <3>3. QED
      BY ONLY <1>5, <2>2, <2>6, <3>2
  <2> HIDE DEF Settled
  <2>14. QED
    BY ONLY <1>6, <2>1, <2>9, <2>12, <2>13
<1> HIDE DEF Good
<1>11. Good
  BY ONLY <1>0, <1>7, <1>8, <1>9, <1>10 DEF RefundsMove
<1>12. QED
  BY <1>2, <1>11 DEF Good, RefundsOrderly

-----------------------------------------------------------------------------
(***************************************************************************)
(* Returns: what refunds and exchanges claim of what came back.            *)
(***************************************************************************)
\* No return is claimed by two refunds, unless one was rejected.
ClaimedOnce ==
    \A f, g \in DOMAIN refunds :
        f # g /\ refunds[f].return = refunds[g].return /\ refunds[f].return # 0 =>
            refunds[f].status = "REJECTED" \/ refunds[g].status = "REJECTED"

WithinEligible ==
    \A f \in DOMAIN refunds : /\ refunds[f].amount <= refunds[f].eligible
                              /\ refunds[f].approved <= refunds[f].eligible

ExchangedOnce ==
    /\ \A e \in DOMAIN exchanges :
         /\ exchanges[e].return \in DOMAIN returns
         /\ returns[exchanges[e].return].status = "COMPLETED"
         /\ exchanges[e].value <= Cardinality(returns[exchanges[e].return].accepted)
    /\ \A d, e \in DOMAIN exchanges : exchanges[d].return = exchanges[e].return => d = e

\* What an exchange took, no refund of the same return can be for.
ExchangeShared ==
    \A e \in DOMAIN exchanges, f \in DOMAIN refunds :
        refunds[f].return = exchanges[e].return /\ refunds[f].status # "REJECTED" =>
            exchanges[e].value + refunds[f].eligible
              <= Cardinality(returns[exchanges[e].return].accepted)

ClaimsOrderly == ClaimedOnce /\ WithinEligible /\ ExchangedOnce /\ ExchangeShared

LEMMA ClaimedStep ==
    ASSUME NEW p, ReturnStep(p), Fresh(p), ClaimedOnce
    PROVE  ClaimedOnce'
<1>0. ReturnRecordsOK /\ RefundsMove(p) /\ Fresh(p)
  BY DEF ReturnStep
<1>1. PICK n : n = Len(returns)
  OBVIOUS
<1>2. n \in Nat /\ \A f \in DOMAIN refunds : refunds[f].return \in 0..n
  BY <1>0, <1>1, ReturnsTyped DEF ReturnStep, ReturnsNamed
<1> DEFINE Once(r) == \A f, g \in DOMAIN r :
             f # g /\ r[f].return = r[g].return /\ r[f].return # 0 =>
               r[f].status = "REJECTED" \/ r[g].status = "REJECTED"
<1>3. Once(refunds)
  BY DEF ClaimedOnce
<1>4. ASSUME NEW y, RefundNew(y), y.return # 0 => Unclaimed(y.return) PROVE Once(refunds')
  <2>1. PICK r, k : r = refunds' /\ k = Len(refunds) + 1
    OBVIOUS
  <2>2. /\ DOMAIN r = DOMAIN refunds \cup {k} /\ k \notin DOMAIN refunds
        /\ r[k] = y /\ \A g \in DOMAIN refunds : r[g] = refunds[g]
    BY <1>0, <1>4, <2>1, RefundAdding
  <2>3. \A g \in DOMAIN refunds : y.return # 0 /\ r[g].return = y.return => r[g].status = "REJECTED"
    BY ONLY <1>4, <2>2 DEF Unclaimed
  <2>4. Once(r)
    BY ONLY <1>3, <2>2, <2>3
  <2>5. QED
    BY ONLY <2>1, <2>4
<1>5. ASSUME NEW y, RefundSet(p.refund, y), refunds[p.refund].status # "REJECTED",
             y.return = refunds[p.refund].return \/ y.return = n + 1
      PROVE  Once(refunds')
  <2>1. PICK r, k, x : r = refunds' /\ k = p.refund /\ x = refunds[k]
    OBVIOUS
  <2>2. /\ DOMAIN r = DOMAIN refunds /\ k \in DOMAIN refunds
        /\ r[k] = y /\ \A g \in DOMAIN refunds \ {k} : r[g] = refunds[g]
    BY <1>0, <1>5, <2>1, RefundSetting
  <2>3. CASE y.return = x.return
    <3>1. \A g \in DOMAIN refunds \ {k} : y.return # 0 /\ r[g].return = y.return => r[g].status = "REJECTED"
      BY ONLY <1>3, <1>5, <2>1, <2>2, <2>3
    <3>2. QED
      BY ONLY <1>3, <2>1, <2>2, <3>1
  <2>4. CASE y.return = n + 1
    <3>1. \A g \in DOMAIN refunds \ {k} : r[g].return # y.return
      BY ONLY <1>2, <2>2, <2>4
    <3>2. QED
      BY ONLY <1>3, <2>1, <2>2, <3>1
  <2>5. Once(r)
    BY ONLY <1>5, <2>1, <2>3, <2>4
  <2>6. QED
    BY ONLY <2>1, <2>5
<1>6. refunds' = refunds => Once(refunds')
  BY ONLY <1>3
<1>7. \A x, y, f : RefundEdit(x, y, f) => x.status # "REJECTED"
  BY DEF RefundEdit, Waiting
<1> HIDE DEF Once
<1>8. Once(refunds')
  BY ONLY <1>0, <1>1, <1>4, <1>5, <1>6, <1>7 DEF RefundsMove
<1>9. QED
  BY <1>8 DEF Once, ClaimedOnce

LEMMA EligibleStep ==
    ASSUME NEW p, ReturnStep(p), Fresh(p), WithinEligible
    PROVE  WithinEligible'
<1>0. ReturnRecordsOK /\ RefundsMove(p) /\ Fresh(p)
  BY DEF ReturnStep
<1> DEFINE Fits(x) == x.amount <= x.eligible /\ x.approved <= x.eligible
           Good == \A f \in DOMAIN refunds' : Fits(refunds'[f])
<1>1. \A f \in DOMAIN refunds : Fits(refunds[f])
  BY DEF WithinEligible
<1>a. \A x, y, f : RefundEdit(x, y, f) /\ Fits(x) => Fits(y)
  BY DEF RefundEdit
<1>b. \A x, y : y.amount = x.amount /\ y.approved = x.approved /\ y.eligible = x.eligible /\ Fits(x) => Fits(y)
  OBVIOUS
<1>2. ASSUME NEW y, RefundNew(y), y.approved = 0, y.amount <= y.eligible PROVE Good
  <2>1. /\ DOMAIN refunds' = DOMAIN refunds \cup {Len(refunds) + 1}
        /\ refunds'[Len(refunds) + 1] = y /\ \A g \in DOMAIN refunds : refunds'[g] = refunds[g]
    BY <1>0, <1>2, RefundAdding
  <2>2. y.approved <= y.eligible
    <3>1. y.eligible \in Nat
      BY <1>2 DEF RefundNew, Refunds
    <3>2. QED
      BY ONLY <1>2, <3>1
  <2>3. Fits(y)
    BY ONLY <1>2, <2>2
  <2> HIDE DEF Fits
  <2>4. QED
    BY ONLY <1>1, <2>1, <2>3
<1> HIDE DEF Fits
<1>3. ASSUME NEW y, RefundSet(p.refund, y), Fits(refunds[p.refund]) => Fits(y) PROVE Good
  <2>1. /\ DOMAIN refunds' = DOMAIN refunds /\ p.refund \in DOMAIN refunds
        /\ refunds'[p.refund] = y /\ \A g \in DOMAIN refunds \ {p.refund} : refunds'[g] = refunds[g]
    BY <1>0, <1>3, RefundSetting
  <2>2. QED
    BY ONLY <1>1, <1>3, <2>1
<1>4. refunds' = refunds => Good
  BY ONLY <1>1
<1> HIDE DEF Good
<1>5. Good
  BY ONLY <1>0, <1>a, <1>b, <1>2, <1>3, <1>4 DEF RefundsMove
<1>6. QED
  BY <1>5 DEF Good, Fits, WithinEligible

LEMMA ExchangedStep ==
    ASSUME NEW p, ReturnStep(p), Fresh(p), ExchangedOnce
    PROVE  ExchangedOnce'
<1>0. ReturnRecordsOK /\ ExchangesMove(p) /\ Fresh(p)
  BY DEF ReturnStep
<1>1. \A e \in DOMAIN exchanges :
        /\ exchanges[e].return \in DOMAIN returns'
        /\ returns'[exchanges[e].return].status = "COMPLETED"
        /\ exchanges[e].value <= Cardinality(returns'[exchanges[e].return].accepted)
  BY FinalKept DEF ExchangedOnce
<1>2. \A d, e \in DOMAIN exchanges : exchanges[d].return = exchanges[e].return => d = e
  BY DEF ExchangedOnce
<1>3. CASE exchanges' = exchanges
  BY ONLY <1>1, <1>2, <1>3 DEF ExchangedOnce
<1>4. ASSUME NEW x \in Exchanges, exchanges' = Append(exchanges, x), returns' = returns,
             x.return \in DOMAIN returns, returns[x.return].status = "COMPLETED",
             \A e \in DOMAIN exchanges : exchanges[e].return # x.return,
             x.value <= Cardinality(returns[x.return].accepted)
      PROVE  ExchangedOnce'
  <2>1. PICK q, k : q = exchanges' /\ k = Len(exchanges) + 1
    OBVIOUS
  <2>2. exchanges \in Seq(Exchanges) /\ q = Append(exchanges, x)
    BY <1>0, <1>4, <2>1 DEF ReturnRecordsOK, Exchanges
  <2>3. /\ DOMAIN q = DOMAIN exchanges \cup {k} /\ q[k] = x
        /\ \A e \in DOMAIN exchanges : q[e] = exchanges[e]
    BY ONLY <2>1, <2>2, SequenceAppend, x \in Exchanges
  <2>4. \A e \in DOMAIN q :
          /\ q[e].return \in DOMAIN returns'
          /\ returns'[q[e].return].status = "COMPLETED"
          /\ q[e].value <= Cardinality(returns'[q[e].return].accepted)
    BY ONLY <1>1, <1>4, <2>3
  <2>5. \A d, e \in DOMAIN q : q[d].return = q[e].return => d = e
    BY ONLY <1>2, <1>4, <2>3
  <2>6. QED
    BY ONLY <2>1, <2>4, <2>5 DEF ExchangedOnce
<1>5. \A x \in Exchanges : x.return \in DOMAIN returns =>
        Cardinality(returns[x.return].accepted) \in Nat
  <2>1. \A t \in DOMAIN returns : returns[t].accepted \in SUBSET Lines
    BY <1>0, ReturnsTyped DEF ReturnRequests
  <2>2. QED
    BY <2>1, LinesFinite
<1>6. \A x \in Exchanges : x.value \in Nat
  BY DEF Exchanges
<1>7. \A z : RefundNew(z) => z.eligible \in Nat
  BY DEF RefundNew, Refunds
<1>8. ASSUME ~(exchanges' = exchanges) PROVE ExchangedOnce'
  <2>1. PICK x \in Exchanges :
            /\ exchanges' = Append(exchanges, x)
            /\ x.return \in DOMAIN returns
            /\ Fresh(p) => /\ returns[x.return].status = "COMPLETED" /\ Unclaimed(x.return)
                           /\ \A e \in DOMAIN exchanges : exchanges[e].return # x.return
            /\ \/ x.value = Cardinality(returns[x.return].accepted) /\ refunds' = refunds
               \/ \E z : /\ RefundNew(z) /\ z.return = x.return
                         /\ x.value + z.eligible = Cardinality(returns[x.return].accepted)
    BY ONLY <1>0, <1>8 DEF ExchangesMove
  <2>2. returns' = returns
    BY ONLY <1>0, <1>8 DEF ExchangesMove
  <2>3. PICK c : c = Cardinality(returns[x.return].accepted)
    OBVIOUS
  <2>4. c \in Nat /\ x.value \in Nat
    BY ONLY <1>5, <1>6, <2>1, <2>3
  <2>5. x.value <= c
    <3>1. CASE x.value = c
      BY ONLY <2>4, <3>1
    <3>2. ASSUME NEW z, RefundNew(z), x.value + z.eligible = c PROVE x.value <= c
      <4>1. z.eligible \in Nat
        BY ONLY <1>7, <3>2
      <4>2. QED
        BY ONLY <2>4, <3>2, <4>1
    <3>3. QED
      BY ONLY <2>1, <2>3, <3>1, <3>2
  <2>6. QED
    BY ONLY <1>0, <1>4, <2>1, <2>2, <2>3, <2>5
<1>9. QED
  BY <1>3, <1>8

LEMMA SharedStep ==
    ASSUME NEW p, ReturnStep(p), Fresh(p), ExchangedOnce, ExchangeShared
    PROVE  ExchangeShared'
<1>0. ReturnRecordsOK /\ RefundsMove(p) /\ ExchangesMove(p) /\ Fresh(p)
  BY DEF ReturnStep
<1>1. \A e \in DOMAIN exchanges :
        /\ exchanges[e].return \in DOMAIN returns
        /\ returns[exchanges[e].return].status = "COMPLETED"
        /\ returns'[exchanges[e].return] = returns[exchanges[e].return]
  BY FinalKept DEF ExchangedOnce
<1>2. PICK n : n = Len(returns) /\ n \in Nat /\ DOMAIN returns = 1..n
  BY <1>0, ReturnsTyped
<1> DEFINE Fits(x, z) == z.return = x.return /\ z.status # "REJECTED" =>
                           x.value + z.eligible <= Cardinality(returns[x.return].accepted)
           Good == \A e \in DOMAIN exchanges, f \in DOMAIN refunds' : Fits(exchanges[e], refunds'[f])
<1>3. \A e \in DOMAIN exchanges, f \in DOMAIN refunds : Fits(exchanges[e], refunds[f])
  BY DEF ExchangeShared
<1>4. ASSUME Good, exchanges' = exchanges PROVE ExchangeShared'
  BY ONLY <1>1, <1>4 DEF ExchangeShared
<1>5. ASSUME NEW y, RefundSet(p.refund, y), \A e \in DOMAIN exchanges : Fits(exchanges[e], y)
      PROVE  Good
  <2>1. /\ DOMAIN refunds' = DOMAIN refunds
        /\ refunds'[p.refund] = y /\ \A g \in DOMAIN refunds \ {p.refund} : refunds'[g] = refunds[g]
    BY <1>0, <1>5, RefundSetting
  <2> HIDE DEF Fits
  <2>2. QED
    BY ONLY <1>3, <1>5, <2>1
<1>6. ASSUME NEW y, RefundNew(y), \A e \in DOMAIN exchanges : Fits(exchanges[e], y)
      PROVE  Good
  <2>1. /\ DOMAIN refunds' = DOMAIN refunds \cup {Len(refunds) + 1}
        /\ refunds'[Len(refunds) + 1] = y /\ \A g \in DOMAIN refunds : refunds'[g] = refunds[g]
    BY <1>0, <1>6, RefundAdding
  <2> HIDE DEF Fits
  <2>2. QED
    BY ONLY <1>3, <1>6, <2>1
<1>7. refunds' = refunds => Good
  BY ONLY <1>3
<1>8. ASSUME exchanges' = exchanges,
             \A z : RefundNew(z) => z.return = 0 \/ returns[z.return].status # "COMPLETED"
      PROVE  ExchangeShared'
  <2>1. ASSUME NEW y, RefundNew(y) PROVE Good
    <3>1. y.return = 0 \/ returns[y.return].status # "COMPLETED"
      BY ONLY <1>8, <2>1
    <3>2. \A e \in DOMAIN exchanges : exchanges[e].return # y.return
      BY ONLY <1>1, <1>2, <3>1
    <3>3. \A e \in DOMAIN exchanges : Fits(exchanges[e], y)
      BY ONLY <3>2
    <3>4. QED
      BY <1>6, <2>1, <3>3
  <2>2. ASSUME NEW y, RefundSet(p.refund, y), RefundEdit(refunds[p.refund], y, p.refund),
               \/ y.return = refunds[p.refund].return
               \/ refunds[p.refund].return = 0 /\ y.return = n + 1
        PROVE  Good
    <3>1. PICK x, k : k = p.refund /\ x = refunds[k]
      OBVIOUS
    <3>2. k \in DOMAIN refunds /\ RefundEdit(x, y, k) /\ x.status # "REJECTED"
      BY <2>2, <3>1 DEF RefundSet, RefundEdit, Waiting
    <3>3. CASE y.return = x.return /\ y.eligible = x.eligible
      BY <1>3, <1>5, <2>2, <3>1, <3>2, <3>3
    <3>4. ASSUME \A e \in DOMAIN exchanges : exchanges[e].return # y.return PROVE Good
      <4>1. \A e \in DOMAIN exchanges : Fits(exchanges[e], y)
        BY ONLY <3>4
      <4>2. QED
        BY <1>5, <2>2, <4>1
    <3>5. CASE y.return = n + 1 \/ y.return = 0
      BY ONLY <1>1, <1>2, <3>4, <3>5
    <3>6. CASE y.return = x.return /\ returns[x.return].status \in OpenReturns
      <4>1. \A e \in DOMAIN exchanges : exchanges[e].return # y.return
        BY ONLY <1>1, <3>6 DEF OpenReturns
      <4>2. QED
        BY ONLY <3>4, <4>1
    <3>7. \/ y.eligible = x.eligible
          \/ x.return = 0
          \/ returns[x.return].status \in OpenReturns
      BY ONLY <3>2 DEF RefundEdit
    <3>8. y.return = x.return \/ (x.return = 0 /\ y.return = n + 1)
      BY ONLY <2>2, <3>1
    <3> HIDE DEF Good
    <3>9. QED
      BY ONLY <3>3, <3>5, <3>6, <3>7, <3>8
  <2>3. ASSUME NEW y, RefundSet(p.refund, y), y.return = refunds[p.refund].return,
               y.eligible = refunds[p.refund].eligible, refunds[p.refund].status = "APPROVED"
        PROVE  Good
    <3>1. p.refund \in DOMAIN refunds
      BY <2>3 DEF RefundSet
    <3>2. \A e \in DOMAIN exchanges : Fits(exchanges[e], y)
      BY ONLY <1>3, <2>3, <3>1
    <3>3. QED
      BY <1>5, <2>3, <3>2
  <2> HIDE DEF Good
  <2>4. Good
    BY ONLY <1>0, <1>2, <1>7, <2>1, <2>2, <2>3 DEF RefundsMove
  <2>5. QED
    BY <1>4, <1>8, <2>4
<1>9. ASSUME NEW x \in Exchanges, exchanges' = Append(exchanges, x), returns' = returns,
             x.return \in DOMAIN returns, Unclaimed(x.return),
             \A e \in DOMAIN exchanges : exchanges[e].return # x.return,
             \/ refunds' = refunds
             \/ \E z : /\ RefundNew(z) /\ z.return = x.return
                       /\ x.value + z.eligible = Cardinality(returns[x.return].accepted)
      PROVE  ExchangeShared'
  <2>1. PICK q, k : q = exchanges' /\ k = Len(exchanges) + 1
    OBVIOUS
  <2>2. exchanges \in Seq(Exchanges) /\ q = Append(exchanges, x)
    BY <1>0, <1>9, <2>1 DEF ReturnRecordsOK, Exchanges
  <2>3. /\ DOMAIN q = DOMAIN exchanges \cup {k} /\ q[k] = x
        /\ \A e \in DOMAIN exchanges : q[e] = exchanges[e]
    BY ONLY <2>1, <2>2, SequenceAppend, x \in Exchanges
  <2>4. \A f \in DOMAIN refunds : Fits(x, refunds[f])
    BY ONLY <1>9 DEF Unclaimed
  <2>5. Good /\ \A f \in DOMAIN refunds' : Fits(x, refunds'[f])
    <3>1. CASE refunds' = refunds
      BY ONLY <1>7, <2>4, <3>1
    <3>2. ASSUME NEW z, RefundNew(z), z.return = x.return,
                 x.value + z.eligible = Cardinality(returns[x.return].accepted)
          PROVE  Good /\ \A f \in DOMAIN refunds' : Fits(x, refunds'[f])
      <4>1. \A e \in DOMAIN exchanges : Fits(exchanges[e], z)
        BY ONLY <1>9, <3>2
      <4>2. Good
        BY <1>6, <3>2, <4>1
      <4>3. PICK c \in Nat : c = Cardinality(returns[x.return].accepted)
        <5>1. returns[x.return].accepted \in SUBSET Lines
          BY <1>0, <1>9, ReturnsTyped DEF ReturnRequests
        <5>2. QED
          BY <5>1, LinesFinite
      <4>4. x.value + z.eligible <= c
        BY ONLY <3>2, <4>3
      <4>5. Fits(x, z)
        BY ONLY <4>3, <4>4
      <4>6. /\ DOMAIN refunds' = DOMAIN refunds \cup {Len(refunds) + 1}
            /\ refunds'[Len(refunds) + 1] = z /\ \A g \in DOMAIN refunds : refunds'[g] = refunds[g]
        BY <1>0, <3>2, RefundAdding
      <4> HIDE DEF Fits
      <4>7. \A f \in DOMAIN refunds' : Fits(x, refunds'[f])
        BY ONLY <2>4, <4>5, <4>6
      <4>8. QED
        BY <4>2, <4>7
    <3> HIDE DEF Good, Fits
    <3>3. QED
      BY ONLY <1>9, <3>1, <3>2
  <2>6. \A e \in DOMAIN q, f \in DOMAIN refunds' : Fits(q[e], refunds'[f])
    BY ONLY <2>3, <2>5
  <2>7. QED
    BY ONLY <1>9, <2>1, <2>6 DEF ExchangeShared
<1>10. QED
  <2>1. CASE exchanges' = exchanges
        /\ (Fresh(p) => \A z : RefundNew(z) => z.return = 0 \/ returns[z.return].status # "COMPLETED")
    BY ONLY <1>0, <1>8, <2>1
  <2>2. QED
    BY ONLY <1>0, <1>9, <2>1 DEF ExchangesMove

-----------------------------------------------------------------------------
(***************************************************************************)
(* Returns: the theorems.                                                  *)
(***************************************************************************)
\* The returns inductive invariant, and what it says while no call was
\* overtaken.
ReturnsOrderly == ~returnOvertaken => RequestsOrderly /\ RefundsOrderly /\ ClaimsOrderly

LEMMA ReturnsOrderlyInit ==
    ASSUME ReturnsInit
    PROVE  ReturnsOrderly
<1>1. /\ refunds = <<>> /\ returns = <<>> /\ exchanges = <<>> /\ storeCredit = 0
      /\ returned = [i \in Lines |-> 0] /\ sold \in SaleSizes
  BY DEF ReturnsInit
<1>2. DOMAIN refunds = {} /\ DOMAIN returns = {} /\ DOMAIN exchanges = {}
  BY ONLY <1>1
<1>3. Paid \in Nat /\ sold \in [Lines -> Nat] /\ IsFiniteSet(Lines)
  BY <1>1, PaidNat
<1>4. \A k : SeqSum(k, returns) = 0 /\ SeqSum(k, refunds) = 0
  BY ONLY <1>1, SeqSumEmpty
<1>5. RequestsOrderly
  <2>1. returned \in [Lines -> {0}]
    BY ONLY <1>1
  <2>2. SumFunction(returned) = 0
    BY ONLY <1>3, <2>1, TotalZero
  <2>3. \A i \in Lines : returned[i] = 0 /\ sold[i] \in Nat
    BY ONLY <1>3, <2>1
  <2>4. QED
    BY ONLY <1>4, <2>2, <2>3 DEF RequestsOrderly
<1>6. RefundsOrderly
  BY ONLY <1>1, <1>2, <1>3, <1>4 DEF RefundsOrderly
<1>7. ClaimsOrderly
  BY ONLY <1>2 DEF ClaimsOrderly, ClaimedOnce, WithinEligible, ExchangedOnce, ExchangeShared
<1>8. QED
  BY ONLY <1>5, <1>6, <1>7 DEF ReturnsOrderly

\* A call that is not overtaken keeps the sale in order.
LEMMA OrderlyStep ==
    ASSUME ReturnsInv, NEW p, ReturnPlanOK(p), ReturnsWrite(p), Fresh(p),
           RequestsOrderly, RefundsOrderly, ClaimsOrderly
    PROVE  RequestsOrderly' /\ RefundsOrderly' /\ ClaimsOrderly'
<1>1. ReturnStep(p)
  BY ReturnStepped
<1>2. RequestsOrderly' /\ RefundsOrderly'
  BY <1>1, RequestsOrderlyStep, RefundsOrderlyStep
<1>3. ClaimsOrderly'
  BY <1>1, ClaimedStep, EligibleStep, ExchangedStep, SharedStep DEF ClaimsOrderly
<1>4. QED
  BY <1>2, <1>3

LEMMA ReturnsOrderlyNext ==
    ASSUME ReturnsInv, ReturnsOrderly, [ReturnsNext]_returnVars
    PROVE  ReturnsOrderly'
<1>0. /\ ReturnRecordsOK /\ returnOvertaken \in BOOLEAN
      /\ slowReturn # NoReturnPlan => ~returnOvertaken /\ ReturnPlanOK(slowReturn)
  BY DEF ReturnsInv
<1>1. ASSUME UNCHANGED <<returnRecords, returnOvertaken>> PROVE ReturnsOrderly'
  <2>1. /\ returnOvertaken' = returnOvertaken
        /\ sold' = sold /\ returns' = returns /\ refunds' = refunds /\ returned' = returned
        /\ saleStatus' = saleStatus /\ storeCredit' = storeCredit /\ exchanges' = exchanges
    BY <1>1 DEF returnRecords
  <2>2. RequestsOrderly => RequestsOrderly'
    BY ONLY <2>1 DEF RequestsOrderly
  <2>3. RefundsOrderly => RefundsOrderly'
    BY ONLY <2>1 DEF RefundsOrderly, Paid
  <2>4. ClaimsOrderly => ClaimsOrderly'
    BY ONLY <2>1 DEF ClaimsOrderly, ClaimedOnce, WithinEligible, ExchangedOnce, ExchangeShared
  <2>5. ~returnOvertaken => RequestsOrderly /\ RefundsOrderly /\ ClaimsOrderly
    BY DEF ReturnsOrderly
  <2>6. QED
    BY ONLY <2>1, <2>2, <2>3, <2>4, <2>5 DEF ReturnsOrderly
<1>2. ASSUME NEW p, ReturnPlanOK(p), ReturnsWrite(p), Fresh(p) \/ returnOvertaken',
             returnOvertaken => returnOvertaken'
      PROVE  ReturnsOrderly'
  <2>1. CASE returnOvertaken'
    BY ONLY <2>1 DEF ReturnsOrderly
  <2>2. CASE ~returnOvertaken'
    <3>1. Fresh(p) /\ RequestsOrderly /\ RefundsOrderly /\ ClaimsOrderly
      BY <1>2, <2>2 DEF ReturnsOrderly
    <3>2. RequestsOrderly' /\ RefundsOrderly' /\ ClaimsOrderly'
      BY <1>2, <3>1, OrderlyStep
    <3>3. QED
      BY ONLY <3>2 DEF ReturnsOrderly
  <2>3. QED
    BY <2>1, <2>2
<1>3. CASE ReturnsAlone
  <2>1. PICK p \in ReturnsPlans : ReturnsWrite(p)
    BY <1>3 DEF ReturnsAlone
  <2>2. returnOvertaken' = returnOvertaken
    BY <1>3 DEF ReturnsAlone
  <2>3. ReturnPlanOK(p) /\ Fresh(p)
    BY <1>0, <2>1, ReturnsPlanRead DEF Fresh
  <2>4. QED
    BY <1>2, <2>1, <2>2, <2>3
<1>4. CASE ReturnsPause
  BY <1>1, <1>4 DEF ReturnsPause
<1>5. CASE ReturnsResume
  <2>1. slowReturn # NoReturnPlan
    BY <1>5 DEF ReturnsResume
  <2>2. PICK q : q = slowReturn
    OBVIOUS
  <2>3. ReturnPlanOK(q) /\ ~returnOvertaken
    BY <1>0, <2>1, <2>2
  <2>4. CASE ReturnsWrite(slowReturn) /\ returnOvertaken' = (slowReturn \notin ReturnsPlans)
    <3>1. ReturnsWrite(q) /\ returnOvertaken' = (q \notin ReturnsPlans)
      BY <2>2, <2>4
    <3>2. q \in ReturnsPlans => Fresh(q)
      BY <1>0, ReturnsPlanRead DEF Fresh
    <3>3. ~returnOvertaken' => q \in ReturnsPlans
      BY ONLY <3>1
    <3>4. QED
      BY <1>2, <2>3, <3>1, <3>2, <3>3
  <2>5. QED
    BY <1>1, <1>5, <2>4 DEF ReturnsResume
<1>6. CASE UNCHANGED returnVars
  BY <1>1, <1>6 DEF returnVars
<1>7. QED
  BY <1>3, <1>4, <1>5, <1>6 DEF ReturnsNext

\* In every behaviour the records of a sale's returns are well formed, and a
\* refund paid in cash or by bank is paid out at most once.
THEOREM ReturnsInvHolds == ReturnsSpec => []ReturnsInv
<1>1. ReturnsInit => ReturnsInv
  BY ReturnsInvInit
<1>2. ReturnsInv /\ [ReturnsNext]_returnVars => ReturnsInv'
  BY ReturnsInvNext
<1>3. QED
  BY <1>1, <1>2, PTL DEF ReturnsSpec

\* While no call was overtaken, what was taken back is what completed returns
\* accepted, the store credit is what completed refunds gave, and each return
\* is claimed by at most one exchange and one refund that was not rejected.
THEOREM ReturnsOrderlyHolds == ReturnsSpec => []ReturnsOrderly
<1>1. ReturnsInit => ReturnsOrderly
  BY ReturnsOrderlyInit
<1>2. ReturnsInv /\ ReturnsOrderly /\ [ReturnsNext]_returnVars => ReturnsOrderly'
  BY ReturnsOrderlyNext
<1>3. QED
  BY <1>1, <1>2, ReturnsInvHolds, PTL DEF ReturnsSpec

\* createReturnRequest never lets the open and the completed returns of a sale
\* hold more of a line than was sold, while no call is overtaken.
THEOREM ReturnsAreSold == ReturnsSpec => []ReturnsFitSale
<1>1. ReturnsInv /\ ReturnsOrderly => ReturnsFitSale
  <2> SUFFICES ASSUME ReturnsInv, ReturnsOrderly PROVE ReturnsFitSale
    OBVIOUS
  <2>1. ReturnRecordsOK /\ ReturnsTypeOK
    BY DEF ReturnsInv, ReturnRecordsOK, ReturnsTypeOK
  <2>2. ASSUME ~returnOvertaken, NEW i \in Lines
        PROVE  returned[i] + Units(returns, ReturnsIn(OpenReturns), i) <= sold[i]
    <3>1. returned[i] + SeqSum(OpenAt(i), returns) <= sold[i]
      BY <2>2 DEF ReturnsOrderly, RequestsOrderly
    <3>2. QED
      BY <2>1, <3>1, OpenUnits
  <2>3. QED
    BY ONLY <2>1, <2>2 DEF ReturnsFitSale
<1>2. QED
  BY <1>1, ReturnsInvHolds, ReturnsOrderlyHolds, PTL

\* The customer's store credit is what the completed store credit refunds gave,
\* and a refund completes only for a completed return, while no call is
\* overtaken.
THEOREM CreditIsRefunds == ReturnsSpec => []StoreCreditFollowsRefunds
<1>1. ReturnsInv /\ ReturnsOrderly => StoreCreditFollowsRefunds
  <2> SUFFICES ASSUME ReturnsInv, ReturnsOrderly, ~returnOvertaken
               PROVE  /\ storeCredit = TotalRefund({f \in RefundsIn({"COMPLETED"}) :
                                                      refunds[f].method = "STORE_CREDIT"})
                      /\ \A f \in RefundsIn({"COMPLETED"}) :
                           returns[refunds[f].return].status = "COMPLETED"
    BY DEF StoreCreditFollowsRefunds
  <2>1. ReturnRecordsOK /\ RefundsOrderly
    BY DEF ReturnsInv, ReturnsOrderly
  <2>2. QED
    BY <2>1, CreditTotal DEF RefundsOrderly, RefundsIn
<1>2. QED
  BY <1>1, ReturnsInvHolds, ReturnsOrderlyHolds, PTL

-----------------------------------------------------------------------------
\* What came back is worth no more than the sale.
LEMMA BackFitsPaid ==
    ASSUME ReturnRecordsOK, RequestsOrderly
    PROVE  SeqSum(BackCount, returns) <= Paid
<1>1. /\ returned \in [Lines -> Int] /\ sold \in [Lines -> Int] /\ IsFiniteSet(Lines)
      /\ returns \in Seq(ReturnRequests)
  BY PaidNat DEF ReturnRecordsOK
<1>2. \A i \in Lines : returned[i] <= sold[i]
  <2>1. TAKE i \in Lines
  <2>2. returned[i] + SeqSum(OpenAt(i), returns) <= sold[i]
    BY DEF RequestsOrderly
  <2>3. SeqSum(OpenAt(i), returns) \in Nat
    BY <1>1, RequestCounts, SeqSumNat
  <2>4. returned[i] \in Int /\ sold[i] \in Int
    BY ONLY <1>1, i \in Lines
  <2>5. QED
    BY ONLY <2>2, <2>3, <2>4
<1>3. SumFunction(returned) <= SumFunction(sold)
  BY ONLY <1>1, <1>2, TotalMonotone
<1>4. QED
  BY <1>3 DEF RequestsOrderly, Paid

\* What was given for the returns of a sale is no more than they are worth,
\* unless goods were refunded that had been turned away: return by return, the
\* exchange takes its part and at most one refund the rest.
LEMMA GivenFitsBack ==
    ASSUME ReturnRecordsOK, RefundsOrderly, ClaimsOrderly, ~TurnedAwayRefunded
    PROVE  /\ TotalRefund(Given) + Exchanged <= SeqSum(BackCount, returns)
           /\ TotalRefund(Given) + Exchanged \in Int
<1> DEFINE C == {t \in DOMAIN returns : returns[t].status = "COMPLETED"}
           X == DOMAIN exchanges
           acc == [t \in C |-> Cardinality(returns[t].accepted)]
           Swap(t) == CHOOSE e \in X : exchanges[e].return = t
           took == [t \in C |-> IF \E e \in X : exchanges[e].return = t
                                THEN exchanges[Swap(t)].value ELSE 0]
           left == [t \in C |-> acc[t] - took[t]]
           val == [e \in X |-> exchanges[e].value]
           of == [e \in X |-> exchanges[e].return]
           act == [f \in DOMAIN refunds |-> ActiveAmount(f)]
           for == [f \in DOMAIN refunds |-> refunds[f].return]
<1>1. /\ \A t \in DOMAIN returns : returns[t] \in ReturnRequests
      /\ \A f \in DOMAIN refunds : refunds[f] \in Refunds
      /\ \A e \in X : exchanges[e] \in Exchanges
  BY ReturnsTyped DEF Exchanges
<1>2. IsFiniteSet(DOMAIN returns) /\ IsFiniteSet(DOMAIN refunds) /\ IsFiniteSet(X)
  BY SequenceDomain DEF ReturnRecordsOK
<1>3. IsFiniteSet(C) /\ IsFiniteSet(Given) /\ Given \subseteq DOMAIN refunds
  BY <1>2, FS_Subset DEF Given, RefundsIn
<1>4. \A t \in C : acc[t] \in Nat
  BY <1>1, LinesFinite DEF ReturnRequests
<1>5. \A e \in X : exchanges[e].value \in Nat /\ exchanges[e].return \in C
                   /\ exchanges[e].value <= acc[exchanges[e].return]
  BY <1>1 DEF Exchanges, ClaimsOrderly, ExchangedOnce
<1>6. \A e \in X : took[exchanges[e].return] = exchanges[e].value
  <2>1. TAKE e \in X
  <2>2. PICK t : t = exchanges[e].return
    OBVIOUS
  <2>3. Swap(t) \in X /\ exchanges[Swap(t)].return = t
    BY <2>2
  <2>4. Swap(t) = e
    BY <2>2, <2>3 DEF ClaimsOrderly, ExchangedOnce
  <2>5. t \in C /\ took[t] = exchanges[Swap(t)].value
    BY <1>5, <2>2
  <2>6. QED
    BY ONLY <2>2, <2>4, <2>5
<1>7. \A t \in C : /\ (\E e \in X : exchanges[e].return = t) \/ took[t] = 0
                   /\ took[t] \in Nat /\ took[t] <= acc[t] /\ left[t] = acc[t] - took[t]
  <2>1. TAKE t \in C
  <2>2. left[t] = acc[t] - took[t]
    OBVIOUS
  <2>3. CASE \E e \in X : exchanges[e].return = t
    <3>1. PICK e \in X : exchanges[e].return = t
      BY <2>3
    <3>2. took[t] = exchanges[e].value
      BY <1>6, <3>1
    <3>3. QED
      BY <1>5, <2>2, <3>1, <3>2
  <2>4. CASE ~\E e \in X : exchanges[e].return = t
    <3>1. took[t] = 0
      BY <2>4
    <3>2. acc[t] \in Nat
      BY <1>4
    <3>3. QED
      <4> HIDE DEF acc, took, left
      <4>1. QED
        BY ONLY <2>2, <3>1, <3>2
  <2>5. QED
    BY <2>3, <2>4
<1>8. SumFunctionOnSet(val, X) <= SumFunctionOnSet(took, C)
  <2>1. \A e \in X : val[e] \in Int /\ of[e] \in C /\ val[e] <= took[of[e]]
    <3>1. TAKE e \in X
    <3>2. PICK v, t : v = exchanges[e].value /\ t = exchanges[e].return
      OBVIOUS
    <3>3. val[e] = v /\ of[e] = t
      BY <3>2
    <3>4. v \in Nat /\ t \in C /\ took[t] = v
      <4> HIDE DEF C, X, took, val, of, acc
      <4>1. QED
        BY ONLY <1>5, <1>6, <3>1, <3>2
    <3> HIDE DEF C, X, took, val, of
    <3>5. QED
      BY ONLY <3>3, <3>4
  <2>2. \A d, e \in X : of[d] = of[e] => d = e
    BY DEF ClaimsOrderly, ExchangedOnce
  <2>3. \A t \in C : took[t] \in Nat
    BY <1>7
  <2> HIDE DEF C, X, took, val, of
  <2>4. QED
    BY ONLY <1>2, <1>3, <2>1, <2>2, <2>3, SumCovered
<1>9. \A f \in Given : act[f] \in Int /\ for[f] \in C /\ act[f] <= left[for[f]]
  <2>1. TAKE f \in Given
  <2>2. PICK x \in Refunds : x = refunds[f]
    BY <1>1, <1>3
  <2>3. f \in DOMAIN refunds /\ x.status \in {"PROCESSING", "COMPLETED"}
    BY <2>2 DEF Given, RefundsIn
  <2>4. PICK t \in C : t = x.return
    BY <2>2, <2>3 DEF RefundsOrderly
  <2>5. for[f] = t /\ act[f] = ActiveAmount(f)
    BY <2>2, <2>3, <2>4
  <2>6. PICK a : a = ActiveAmount(f)
    OBVIOUS
  <2>7. a = Active(x) /\ a \in Nat
    BY <2>2, <2>3, <2>6, ActiveIs, RefundCounts
  <2>8. a <= x.eligible
    <3>1. x.amount <= x.eligible /\ x.approved <= x.eligible
      BY <2>2, <2>3 DEF ClaimsOrderly, WithinEligible
    <3>2. QED
      BY ONLY <2>7, <3>1 DEF Active
  <2>9. a <= acc[t]
    <3>1. ~(ActiveAmount(f) > Cardinality(returns[refunds[f].return].accepted))
      BY DEF TurnedAwayRefunded
    <3>2. ~(a > acc[t])
      BY <2>2, <2>4, <2>6, <3>1
    <3>3. acc[t] \in Nat
      BY <1>4
    <3>4. QED
      BY ONLY <2>7, <3>2, <3>3
  <2>10. a <= left[t]
    <3>1. PICK b, c, d : b = acc[t] /\ c = took[t] /\ d = left[t]
      OBVIOUS
    <3>2. b \in Nat /\ c \in Nat /\ d = b - c
      BY <1>4, <1>7, <3>1
    <3>3. CASE \E e \in X : exchanges[e].return = t
      <4>1. PICK e \in X : exchanges[e].return = t
        BY <3>3
      <4>2. c = exchanges[e].value
        BY <1>6, <3>1, <4>1
      <4>3. exchanges[e].value + x.eligible <= b
        BY <2>2, <2>3, <2>4, <3>1, <4>1 DEF ClaimsOrderly, ExchangeShared
      <4>4. x.eligible \in Nat
        BY ONLY x \in Refunds DEF Refunds
      <4>5. a <= d
        BY ONLY <2>7, <2>8, <3>2, <4>2, <4>3, <4>4
      <4>6. QED
        BY ONLY <3>1, <4>5
    <3>4. CASE ~\E e \in X : exchanges[e].return = t
      <4>1. c = 0
        BY <1>7, <3>1, <3>4
      <4>2. a <= b
        BY ONLY <2>9, <3>1
      <4>3. a <= d
        BY ONLY <2>7, <3>2, <4>1, <4>2
      <4>4. QED
        BY ONLY <3>1, <4>3
    <3>5. QED
      BY ONLY <3>3, <3>4
  <2>11. a \in Int
    BY ONLY <2>7
  <2>12. QED
    BY ONLY <2>4, <2>5, <2>6, <2>10, <2>11
<1>10. \A f, g \in Given : for[f] = for[g] => f = g
  <2>1. TAKE f, g \in Given
  <2>2. /\ f \in DOMAIN refunds /\ refunds[f].status # "REJECTED"
        /\ g \in DOMAIN refunds /\ refunds[g].status # "REJECTED"
    BY DEF Given, RefundsIn
  <2>3. refunds[f].return # 0
    <3>1. refunds[f].return \in DOMAIN returns
      BY DEF RefundsOrderly, Given, RefundsIn
    <3>2. DOMAIN returns = 1..Len(returns)
      BY ReturnsTyped
    <3>3. QED
      BY ONLY <3>1, <3>2
  <2>4. for[f] = refunds[f].return /\ for[g] = refunds[g].return
    BY ONLY <2>2
  <2>5. QED
    BY <2>2, <2>3, <2>4 DEF ClaimsOrderly, ClaimedOnce
<1>11. SumFunctionOnSet(act, Given) <= SumFunctionOnSet(left, C)
  <2>1. \A t \in C : left[t] \in Nat
    <3>1. TAKE t \in C
    <3>2. acc[t] \in Nat /\ took[t] \in Nat /\ took[t] <= acc[t] /\ left[t] = acc[t] - took[t]
      BY <1>4, <1>7
    <3>3. QED
      <4> HIDE DEF acc, took, left
      <4>1. QED
        BY ONLY <3>2
  <2> HIDE DEF C, act, for, left
  <2>2. QED
    BY ONLY <1>3, <1>9, <1>10, <2>1, SumCovered
<1>12. SumFunctionOnSet(acc, C) = SumFunctionOnSet(left, C) + SumFunctionOnSet(took, C)
  <2>1. \A t \in C : left[t] \in Int /\ took[t] \in Int /\ acc[t] = left[t] + took[t]
    <3>1. TAKE t \in C
    <3>2. acc[t] \in Nat /\ took[t] \in Nat /\ took[t] <= acc[t] /\ left[t] = acc[t] - took[t]
      BY <1>4, <1>7
    <3>3. QED
      <4> HIDE DEF acc, took, left
      <4>1. QED
        BY ONLY <3>2
  <2> HIDE DEF C, acc, left, took
  <2>2. QED
    BY ONLY <1>3, <2>1, SumPlus
<1>13. SumFunctionOnSet(acc, C) = SeqSum(BackCount, returns)
  <2>1. PICK S, h : S = DOMAIN returns /\ h = OverSeq(BackCount, returns)
    OBVIOUS
  <2>2. IsFiniteSet(S) /\ h \in [S -> Int] /\ C \subseteq S
    BY <1>2, <2>1, SeqSumInt, RequestCounts DEF ReturnRecordsOK
  <2>3. (\A t \in C : h[t] = acc[t]) /\ \A t \in S \ C : h[t] = 0
    BY <1>1, <2>1 DEF OverSeq, BackCount
  <2> HIDE DEF C, acc
  <2>4. SumFunctionOnSet(acc, C) = SumFunction(h)
    BY ONLY <2>2, <2>3, SumWithin
  <2>5. QED
    BY ONLY <2>1, <2>4 DEF SeqSum
<1>14. TotalRefund(Given) = SumFunctionOnSet(act, Given)
  BY DEF TotalRefund
<1>15. Exchanged = SumFunctionOnSet(val, X)
  <2>1. DOMAIN val = X
    OBVIOUS
  <2>2. Exchanged = SumFunction(val)
    BY DEF Exchanged
  <2> HIDE DEF val, X
  <2>3. QED
    BY ONLY <2>1, <2>2 DEF SumFunction
<1>16. /\ SumFunctionOnSet(act, Given) \in Int /\ SumFunctionOnSet(left, C) \in Int
       /\ SumFunctionOnSet(val, X) \in Int /\ SumFunctionOnSet(took, C) \in Int
  <2>0. \A f \in Given : act[f] \in Int
    <3> HIDE DEF C, act, for, left
    <3>1. QED
      BY ONLY <1>9
  <2>1. \A e \in X : val[e] \in Int
    <3>1. TAKE e \in X
    <3>2. PICK v : v = exchanges[e].value
      OBVIOUS
    <3>3. val[e] = v
      BY <3>2
    <3>4. v \in Nat
      <4> HIDE DEF C, X, acc
      <4>1. QED
        BY ONLY <1>5, <3>1, <3>2
    <3>5. QED
      BY ONLY <3>3, <3>4
  <2>2. \A t \in C : took[t] \in Int /\ left[t] \in Int
    <3>1. TAKE t \in C
    <3>2. acc[t] \in Nat /\ took[t] \in Nat /\ left[t] = acc[t] - took[t]
      BY <1>4, <1>7
    <3>3. QED
      <4> HIDE DEF acc, took, left
      <4>1. QED
        BY ONLY <3>2
  <2> HIDE DEF C, X, act, val, took, left
  <2>3. QED
    BY ONLY <1>2, <1>3, <2>0, <2>1, <2>2, SumInt
<1> HIDE DEF C, X, acc, took, left, val, act
<1>17. QED
  BY ONLY <1>8, <1>11, <1>12, <1>13, <1>14, <1>15, <1>16

\* A cash or bank refund is paid out once, whatever overtakes what; and while no
\* call is overtaken, what is granted is no more than what was paid, nor is what
\* was given with the exchanges, unless goods turned away were refunded.
THEOREM RefundsArePaid == ReturnsSpec => []RefundsFitPaid
<1>1. ReturnsInv /\ ReturnsOrderly => RefundsFitPaid
  <2> SUFFICES ASSUME ReturnsInv, ReturnsOrderly PROVE RefundsFitPaid
    OBVIOUS
  <2>0. ReturnRecordsOK /\ PaidOnce
    BY DEF ReturnsInv
  <2>1. ASSUME NEW f \in DOMAIN refunds, refunds[f].method \in {"CASH", "BANK_TRANSFER"}
        PROVE  refunds[f].payouts <= 1
    <3>1. PICK n \in Nat : n = refunds[f].payouts
      BY <2>0, ReturnsTyped DEF Refunds
    <3>2. ~(n >= 2)
      BY <2>0, <2>1, <3>1 DEF PaidOnce, CashMethods
    <3>3. QED
      BY ONLY <3>1, <3>2
  <2>2. ASSUME ~returnOvertaken
        PROVE  /\ TotalRefund(RefundsIn(Granted)) <= Paid
               /\ TurnedAwayRefunded \/ TotalRefund(Given) + Exchanged <= Paid
    <3>1. RequestsOrderly /\ RefundsOrderly /\ ClaimsOrderly
      BY <2>2 DEF ReturnsOrderly
    <3>2. TotalRefund(RefundsIn(Granted)) <= Paid
      BY <2>0, <3>1, GrantedTotal DEF RefundsOrderly
    <3>3. ASSUME ~TurnedAwayRefunded PROVE TotalRefund(Given) + Exchanged <= Paid
      <4>1. /\ TotalRefund(Given) + Exchanged <= SeqSum(BackCount, returns)
            /\ TotalRefund(Given) + Exchanged \in Int
        BY <2>0, <3>1, <3>3, GivenFitsBack
      <4>2. SeqSum(BackCount, returns) <= Paid
        BY <2>0, <3>1, BackFitsPaid
      <4>3. SeqSum(BackCount, returns) \in Int /\ Paid \in Int
        BY <2>0, SeqSumInt, RequestCounts, PaidNat DEF ReturnRecordsOK
      <4>4. QED
        BY ONLY <4>1, <4>2, <4>3
    <3>4. QED
      BY ONLY <3>2, <3>3
  <2>3. QED
    BY ONLY <2>1, <2>2 DEF RefundsFitPaid
<1>2. QED
  BY <1>1, ReturnsInvHolds, ReturnsOrderlyHolds, PTL
=============================================================================
