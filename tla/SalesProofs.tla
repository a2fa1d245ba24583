----------------------------- MODULE SalesProofs -----------------------------
(***************************************************************************)
(* Proofs about the two ways goods are sold.                               *)
(*                                                                         *)
(* Checkout, first: sales at the till to one customer, for every price,    *)
(* credit limit, set of keys and number of sales.  Any write keeps the     *)
(* types, the keys apart and the points from being negative before a sale  *)
(* is voided, however stale its plan (TillCore, TillKept).  Until a call   *)
(* is overtaken a plan is of this moment (TillFresh), and stock, debt and  *)
(* points are sums over the sales (TillOrderly): each write moves one sale *)
(* and the account by the same amount (FollowsAdded, FollowsReplaced).     *)
(*                                                                         *)
(* WholesaleOrder, then, for every set of lines, every quantity and number *)
(* of orders, and whichever calls are overtaken.                           *)
(* A write changes one order: its record becomes another one (Becomes),    *)
(* and each row moves by what the new record has shipped and the old one   *)
(* had not.  A slow call writes from an old plan; what makes that safe is  *)
(* that orders are not deleted and what was shipped stays shipped (Grows), *)
(* so that a plan that could be written once still can (PlanOK).           *)
(* Until a call is overtaken the plans are of this moment, and each line   *)
(* has the shape that its order's status asks for (Line).                  *)
(***************************************************************************)
EXTENDS WholesaleOrder, Checkout, Sums

-----------------------------------------------------------------------------
(***************************************************************************)
(* Checkout: plans, the core, and what is kept however calls overlap.      *)
(***************************************************************************)
Customers == [outstanding: Nat, points: Int, credit: Nat]
Ledgers == [redeemed: [Redemptions -> Nat], adjusted: Int, noted: Int, made: 0..MaxExtras,
            noteMade: BOOLEAN, voided: BOOLEAN, stray: BOOLEAN]

\* Whether the customer's balance carries what is due of sale x, and what that is.
Carries(x) ==
    x.status = "COMPLETED" \/ (x.status # "VOIDED" /\ x.invoice \in Receivable)
DueOf == [x \in Sales |-> IF Carries(x) THEN x.due ELSE 0]
EarnedBy == [x \in Sales |-> x.earned]

\* What stays true of a plan: the record it read is there, its amounts are amounts,
\* and it read points that are not negative unless a sale was voided.
TillPlanOK(p) ==
    /\ p.op \in {"approveDiscount", "rejectDiscount"} => p.discount \in DOMAIN discounts
    /\ p.op \in {"discard", "cancel", "pay"} => p.sale \in DOMAIN sales
    /\ p.op = "checkout" =>
         /\ p.key \in Keys /\ p.type \in {"RETAIL", "WHOLESALE"}
         /\ p.total \in Nat /\ p.cash \in Nat /\ p.receipt \in {0, 1}
         /\ p.total - p.cash - p.receipt >= 0
    /\ p.op = "invoice" => p.invoice \in Invoices
    /\ p.op = "cancel" => p.due \in Nat /\ p.paid \in Nat /\ p.restores \in BOOLEAN
    /\ p.op = "pay" => p.paid \in Nat
    /\ p.op \in {"note", "adjust"} => p.by \in Int
    /\ p.op = "redeem" => p.key \in Redemptions /\ p.credit \in Nat /\ p.points > 0
    /\ p.op \in {"checkout", "redeem", "adjust"} => p.points \in Int
    /\ p.op = "checkout" => p.points >= 0 \/ ledger.voided

TillTyped ==
    /\ sales \in Seq(Sales) /\ discounts \in Seq(Discounts)
    /\ onHand \in Nat /\ claims \in Nat
    /\ customer \in Customers /\ ledger \in Ledgers

KeysOnce(q) ==
    \A s, t \in DOMAIN q : q[s].key = q[t].key /\ q[s].key # "none" => s = t

NoDebtOfPoints(c, l) == c.points >= 0 \/ l.voided

TillCore == TillTyped /\ KeysOnce(sales) /\ NoDebtOfPoints(customer, ledger)

TillGrows ==
    /\ DOMAIN sales \subseteq DOMAIN sales'
    /\ DOMAIN discounts \subseteq DOMAIN discounts'
    /\ ledger.voided => ledger'.voided

\* No write, however stale its plan, loses a record or breaks what the core says.
TillKept == TillCore' /\ TillGrows

LEMMA TillConstants ==
    /\ TillStock \in Nat /\ Price \in Nat /\ Limit \in Nat /\ MaxExtras \in Nat
    /\ Cash \subseteq Nat /\ Adjustments \subseteq Int
BY AmountsAssumption

LEMMA SaleTyped ==
    ASSUME NEW x \in Sales
    PROVE  /\ x.total \in Nat /\ x.paid \in Nat /\ x.due \in Nat /\ x.earned \in Nat
           /\ x.key \in Keys \cup {"none"} /\ x.type \in {"RETAIL", "WHOLESALE"}
           /\ x.status \in {"COMPLETED", "SUSPENDED", "CANCELLED", "VOIDED"}
           /\ x.invoice \in Invoices
BY DEF Sales

LEMMA CustomerTyped ==
    ASSUME NEW c \in Customers
    PROVE  c.outstanding \in Nat /\ c.points \in Int /\ c.credit \in Nat
BY DEF Customers

LEMMA LedgerTyped ==
    ASSUME NEW l \in Ledgers
    PROVE  /\ l.redeemed \in [Redemptions -> Nat] /\ l.adjusted \in Int /\ l.noted \in Int
           /\ l.made \in 0..MaxExtras /\ l.noteMade \in BOOLEAN /\ l.voided \in BOOLEAN
           /\ l.stray \in BOOLEAN
BY DEF Ledgers

LEMMA SaleNumbers == DueOf \in [Sales -> Int] /\ EarnedBy \in [Sales -> Int]
BY SaleTyped DEF DueOf, EarnedBy

LEMMA CutOff ==
    ASSUME NEW n \in Int
    PROVE  /\ NotNegative(n) \in Nat /\ NotNegative(n) >= n
           /\ n >= 0 => NotNegative(n) = n
           /\ n < 0 => NotNegative(n) = 0
BY DEF NotNegative

LEMMA OwedIs ==
    ASSUME customer \in Customers, NEW n \in Int
    PROVE  /\ Owed(n) \in Nat /\ Forgiven(n) \in Nat
           /\ Owed(n) = customer.outstanding + n + Forgiven(n)
           /\ n >= 0 => Forgiven(n) = 0
           /\ n <= 0 => Owed(n) <= customer.outstanding
<1>1. PICK o \in Nat : o = customer.outstanding
  BY CustomerTyped
<1>2. PICK k \in Nat : k = Owed(n) /\ k = NotNegative(o + n)
  BY <1>1, CutOff DEF Owed
<1>3. k >= o + n /\ (o + n >= 0 => k = o + n) /\ (o + n < 0 => k = 0)
  BY <1>2, CutOff
<1>4. Forgiven(n) = k - (o + n)
  BY <1>1, <1>2 DEF Forgiven
<1>5. /\ k - (o + n) \in Nat /\ k = o + n + (k - (o + n))
      /\ (n >= 0 => k - (o + n) = 0) /\ (n <= 0 => k <= o)
  BY ONLY <1>3, o \in Nat, k \in Nat, n \in Int
<1>6. QED
  BY <1>1, <1>2, <1>4, <1>5

\* Sales with one more, or with one replaced, that keep the keys apart.
LEMMA KeysAdded ==
    ASSUME NEW q, NEW m, NEW n, Extended(Sales, q, m, n), KeysOnce(q),
           m[n].key = "none" \/ \A s \in DOMAIN q : q[s].key # m[n].key
    PROVE  KeysOnce(m)
<1>1. DOMAIN m = DOMAIN q \cup {n} /\ (\A s \in DOMAIN q : m[s] = q[s]) /\ n \notin DOMAIN q
  BY DEF Extended
<1>2. SUFFICES ASSUME NEW s \in DOMAIN m, NEW t \in DOMAIN m, m[s].key = m[t].key,
                      m[s].key # "none"
               PROVE  s = t
  BY DEF KeysOnce
<1>3. CASE s = n /\ t # n
  BY <1>1, <1>2, <1>3
<1>4. CASE t = n /\ s # n
  BY <1>1, <1>2, <1>4
<1>5. CASE s # n /\ t # n
  BY <1>1, <1>2, <1>5 DEF KeysOnce
<1>6. QED
  BY <1>3, <1>4, <1>5

LEMMA KeysReplaced ==
    ASSUME NEW q, NEW m, NEW n, Replaced(Sales, q, m, n), KeysOnce(q), m[n].key = q[n].key
    PROVE  KeysOnce(m)
<1>1. \A s \in DOMAIN m : s \in DOMAIN q /\ m[s].key = q[s].key
  BY DEF Replaced
<1>2. QED
  BY <1>1 DEF KeysOnce

\* How many sales are completed, with one more and with one replaced.
CompletedIn(q) == {s \in DOMAIN q : q[s].status \in {"COMPLETED"}}
One(x) == IF x.status = "COMPLETED" THEN 1 ELSE 0

LEMMA CompletedAdded ==
    ASSUME NEW q, NEW m, NEW n, Extended(Sales, q, m, n)
    PROVE  /\ Cardinality(CompletedIn(m)) = Cardinality(CompletedIn(q)) + One(m[n])
           /\ Cardinality(CompletedIn(q)) \in Nat
<1>1. /\ DOMAIN m = DOMAIN q \cup {n} /\ (\A s \in DOMAIN q : m[s] = q[s]) /\ n \notin DOMAIN q
      /\ q \in Seq(Sales)
  BY DEF Extended
<1>2. IsFiniteSet(DOMAIN q) /\ CompletedIn(q) \subseteq DOMAIN q
  BY <1>1, SequenceDomain DEF CompletedIn
<1>3. IsFiniteSet(CompletedIn(q)) /\ n \notin CompletedIn(q)
  BY <1>1, <1>2, FS_Subset
<1>4. Cardinality(CompletedIn(q)) \in Nat
  BY <1>3, FS_CardinalityType
<1>5. CASE m[n].status = "COMPLETED"
  <2>1. CompletedIn(m) = CompletedIn(q) \cup {n}
    BY <1>1, <1>5 DEF CompletedIn
  <2>2. QED
    BY <1>3, <1>4, <1>5, <2>1, FS_AddElement DEF One
<1>6. CASE m[n].status # "COMPLETED"
  <2>1. CompletedIn(m) = CompletedIn(q)
    BY <1>1, <1>6 DEF CompletedIn
  <2>2. QED
    BY <1>4, <1>6, <2>1 DEF One
<1>7. QED
  BY <1>5, <1>6

LEMMA CompletedReplaced ==
    ASSUME NEW q, NEW m, NEW n, Replaced(Sales, q, m, n),
           m[n].status = "COMPLETED" => q[n].status = "COMPLETED"
    PROVE  /\ Cardinality(CompletedIn(m)) = Cardinality(CompletedIn(q)) - (One(q[n]) - One(m[n]))
           /\ Cardinality(CompletedIn(q)) \in Nat
<1>1. /\ DOMAIN m = DOMAIN q /\ (\A s \in DOMAIN q : s # n => m[s] = q[s]) /\ n \in DOMAIN q
      /\ q \in Seq(Sales)
  BY DEF Replaced
<1>2. IsFiniteSet(DOMAIN q) /\ CompletedIn(q) \subseteq DOMAIN q
  BY <1>1, SequenceDomain DEF CompletedIn
<1>3. IsFiniteSet(CompletedIn(q))
  BY <1>2, FS_Subset
<1>4. Cardinality(CompletedIn(q)) \in Nat
  BY <1>3, FS_CardinalityType
<1>5. CASE m[n].status # "COMPLETED" /\ q[n].status = "COMPLETED"
  <2>1. CompletedIn(m) = CompletedIn(q) \ {n} /\ n \in CompletedIn(q)
    BY <1>1, <1>5 DEF CompletedIn
  <2>2. Cardinality(CompletedIn(m)) = Cardinality(CompletedIn(q)) - 1
    BY <1>3, <2>1, FS_RemoveElement
  <2>3. QED
    BY <1>4, <1>5, <2>2 DEF One
<1>6. CASE (m[n].status = "COMPLETED") <=> (q[n].status = "COMPLETED")
  <2>1. CompletedIn(m) = CompletedIn(q)
    BY <1>1, <1>6 DEF CompletedIn
  <2>2. One(q[n]) = One(m[n]) /\ One(m[n]) \in Nat
    BY <1>6 DEF One
  <2>3. QED
    BY <1>4, <2>1, <2>2
<1>7. QED
  BY <1>5, <1>6

-----------------------------------------------------------------------------
(***************************************************************************)
(* Checkout: requests and sales keep the core.                             *)
(***************************************************************************)
LEMMA TillTypes ==
    ASSUME TillCore
    PROVE  /\ sales \in Seq(Sales) /\ discounts \in Seq(Discounts)
           /\ onHand \in Nat /\ claims \in Nat
           /\ customer \in Customers /\ ledger \in Ledgers
           /\ KeysOnce(sales) /\ NoDebtOfPoints(customer, ledger)
BY DEF TillCore, TillTyped

LEMMA KeptIf ==
    ASSUME TillTyped', KeysOnce(sales'), NoDebtOfPoints(customer', ledger'), TillGrows
    PROVE  TillKept
BY DEF TillKept, TillCore

\* One more sale, or one replaced.
LEMMA SaleAdded ==
    ASSUME TillCore, NEW y \in Sales, sales' = Append(sales, y),
           y.key = "none" \/ \A s \in DOMAIN sales : sales[s].key # y.key
    PROVE  /\ Extended(Sales, sales, sales', Len(sales) + 1)
           /\ sales'[Len(sales) + 1] = y
           /\ sales' \in Seq(Sales) /\ KeysOnce(sales')
           /\ DOMAIN sales \subseteq DOMAIN sales'
<1>1. PICK q, m, n : q = sales /\ m = sales' /\ n = Len(sales) + 1
  OBVIOUS
<1>2. q \in Seq(Sales) /\ KeysOnce(q) /\ m = Append(q, y) /\ n = Len(q) + 1
  BY <1>1, TillTypes
<1>3. Extended(Sales, q, m, n) /\ m[n] = y
  BY ONLY <1>2, y \in Sales, SequenceAppend DEF Extended
<1>4. m[n].key = "none" \/ \A s \in DOMAIN q : q[s].key # m[n].key
  BY <1>1, <1>3
<1>5. KeysOnce(m)
  BY <1>2, <1>3, <1>4, KeysAdded
<1>6. m \in Seq(Sales) /\ DOMAIN q \subseteq DOMAIN m
  BY <1>3 DEF Extended
<1>7. QED
  BY <1>1, <1>3, <1>5, <1>6

LEMMA SaleReplaced ==
    ASSUME TillCore, NEW i \in DOMAIN sales, NEW y \in Sales, y.key = sales[i].key,
           sales' = [sales EXCEPT ![i] = y]
    PROVE  /\ Replaced(Sales, sales, sales', i)
           /\ sales'[i] = y
           /\ sales' \in Seq(Sales) /\ KeysOnce(sales')
           /\ DOMAIN sales \subseteq DOMAIN sales'
<1>1. PICK q, m : q = sales /\ m = sales'
  OBVIOUS
<1>2. q \in Seq(Sales) /\ KeysOnce(q) /\ m = [q EXCEPT ![i] = y] /\ i \in DOMAIN q
  BY <1>1, TillTypes
<1>3. /\ m \in Seq(Sales) /\ DOMAIN m = DOMAIN q /\ m[i] = y
      /\ \A j \in DOMAIN q \ {i} : m[j] = q[j]
  BY ONLY <1>2, y \in Sales, SequenceSet
<1>4. Replaced(Sales, q, m, i)
  BY <1>2, <1>3 DEF Replaced
<1>5. m[i].key = q[i].key
  BY <1>1, <1>3
<1>6. KeysOnce(m)
  BY <1>2, <1>4, <1>5, KeysReplaced
<1>7. QED
  BY <1>1, <1>3, <1>4, <1>6

LEMMA DiscountRequested ==
    ASSUME TillCore, NEW p, CreateDiscountRequest(p)
    PROVE  /\ TillKept
           /\ Extended(Discounts, discounts, discounts', Len(discounts) + 1)
           /\ discounts'[Len(discounts) + 1] = [status |-> "PENDING", uses |-> 0]
<1>1. PICK q, m, n, x : /\ q = discounts /\ m = discounts' /\ n = Len(discounts) + 1
                        /\ x = [status |-> "PENDING", uses |-> 0]
  OBVIOUS
<1>2. x \in Discounts
  BY <1>1 DEF Discounts
<1>3. q \in Seq(Discounts) /\ m = Append(q, x) /\ n = Len(q) + 1
  BY <1>1, TillTypes DEF CreateDiscountRequest
<1>4. Extended(Discounts, q, m, n) /\ m[n] = x
  BY ONLY <1>2, <1>3, SequenceAppend DEF Extended
<1>5. m \in Seq(Discounts) /\ DOMAIN q \subseteq DOMAIN m
  BY <1>4 DEF Extended
<1>6. UNCHANGED <<sales, onHand, customer, claims, ledger>>
  BY DEF CreateDiscountRequest
<1>7. TillTyped' /\ TillGrows
  BY <1>1, <1>5, <1>6 DEF TillCore, TillTyped, TillGrows
<1>8. TillKept
  BY <1>6, <1>7, TillTypes, KeptIf
<1>9. QED
  BY <1>1, <1>4, <1>8

LEMMA DiscountReviewed ==
    ASSUME TillCore, NEW d \in DOMAIN discounts, NEW st \in {"APPROVED", "REJECTED"},
           ReviewDiscount(d, st)
    PROVE  /\ TillKept
           /\ Replaced(Discounts, discounts, discounts', d)
           /\ discounts'[d].status = st /\ discounts'[d].uses = discounts[d].uses
<1>1. PICK q, m, x, y : /\ q = discounts /\ m = discounts' /\ x = q[d]
                        /\ y = [x EXCEPT !.status = st]
  OBVIOUS
<1>2. q \in Seq(Discounts) /\ d \in DOMAIN q
  BY <1>1, TillTypes
<1>3. x \in Discounts
  BY <1>1, <1>2, SequenceDomain
<1>4. y \in Discounts /\ y.status = st /\ y.uses = x.uses
  BY ONLY <1>1, <1>3, st \in {"APPROVED", "REJECTED"} DEF Discounts
<1>5. m = [q EXCEPT ![d] = y]
  BY <1>1 DEF ReviewDiscount
<1>6. /\ m \in Seq(Discounts) /\ DOMAIN m = DOMAIN q /\ m[d] = y
      /\ \A j \in DOMAIN q \ {d} : m[j] = q[j]
  BY ONLY <1>2, <1>4, <1>5, SequenceSet
<1>7. UNCHANGED <<sales, onHand, customer, claims, ledger>>
  BY DEF ReviewDiscount
<1>8. TillTyped' /\ TillGrows
  BY <1>1, <1>6, <1>7 DEF TillCore, TillTyped, TillGrows
<1>9. TillKept
  BY <1>7, <1>8, TillTypes, KeptIf
<1>10. QED
  BY <1>1, <1>2, <1>4, <1>6, <1>9 DEF Replaced

\* What a checkout makes of the requests: the one it names is applied.
Applied(q, m, n) ==
    /\ q \in Seq(Discounts) /\ m \in Seq(Discounts) /\ DOMAIN m = DOMAIN q
    /\ \A d \in DOMAIN q : /\ d # n => m[d] = q[d]
                           /\ d = n => m[d].status = "APPLIED" /\ m[d].uses = q[d].uses + 1

LEMMA DiscountUsed ==
    ASSUME NEW x \in Discounts, NEW y,
           y = [x EXCEPT !.status = "APPLIED", !.uses = x.uses + 1]
    PROVE  y \in Discounts /\ y.status = "APPLIED" /\ y.uses = x.uses + 1
<1>1. x.uses \in Nat /\ x.uses + 1 \in Nat /\ DOMAIN x = {"status", "uses"}
  BY DEF Discounts
<1>2. y = [status |-> "APPLIED", uses |-> x.uses + 1]
  BY <1>1
<1>3. QED
  BY <1>1, <1>2 DEF Discounts

LEMMA DiscountApplied ==
    ASSUME NEW q \in Seq(Discounts), NEW m, NEW n,
           m = [d \in DOMAIN q |-> IF d = n
                                     THEN [q[d] EXCEPT !.status = "APPLIED", !.uses = @ + 1]
                                     ELSE q[d]]
    PROVE  Applied(q, m, n)
<1> DEFINE C(x) == [x EXCEPT !.status = "APPLIED", !.uses = @ + 1]
<1>1. ASSUME NEW x \in Discounts
      PROVE  /\ C(x) \in Discounts /\ C(x).status = "APPLIED" /\ C(x).uses = x.uses + 1
  BY <1>1, DiscountUsed
<1>2. m = [d \in DOMAIN q |-> IF d = n THEN C(q[d]) ELSE q[d]]
  OBVIOUS
<1> HIDE DEF C
<1>3. DOMAIN q = 1..Len(q) /\ Len(q) \in Nat /\ \A d \in DOMAIN q : q[d] \in Discounts
  BY SequenceDomain
<1>4. \A d \in DOMAIN q : (IF d = n THEN C(q[d]) ELSE q[d]) \in Discounts
  BY <1>1, <1>3
<1>5. m \in [1..Len(q) -> Discounts]
  BY <1>2, <1>3, <1>4
<1>6. m \in Seq(Discounts)
  <2>1. PICK k \in Nat : k = Len(q)
    BY <1>3
  <2>2. m \in [1..k -> Discounts]
    BY <1>5, <2>1
  <2>3. QED
    BY ONLY <2>1, <2>2
<1>7. DOMAIN m = DOMAIN q
  BY <1>2
<1>8. ASSUME NEW d \in DOMAIN q
      PROVE  /\ d # n => m[d] = q[d]
             /\ d = n => m[d].status = "APPLIED" /\ m[d].uses = q[d].uses + 1
  <2>1. m[d] = IF d = n THEN C(q[d]) ELSE q[d]
    BY <1>2
  <2>2. C(q[d]).status = "APPLIED" /\ C(q[d]).uses = q[d].uses + 1
    BY <1>1, <1>3
  <2>3. QED
    BY <2>1, <2>2
<1>9. QED
  BY <1>6, <1>7, <1>8 DEF Applied

\* The sale of a checkout.
SoldSale(p) ==
    [key |-> p.key, status |-> "COMPLETED", type |-> p.type, total |-> p.total,
     paid |-> Paid(p), due |-> p.total - Paid(p), invoice |-> "none", earned |-> Paid(p)]

\* Customer d is customer c with these amounts.
Wrote(c, d, o, n, k) ==
    /\ c \in Customers /\ d \in Customers
    /\ d.outstanding = o /\ d.points = n /\ d.credit = k

LEMMA SoldSaleIs ==
    ASSUME NEW p, p.op = "checkout", TillPlanOK(p)
    PROVE  /\ SoldSale(p) \in Sales /\ Paid(p) \in Nat /\ p.total - Paid(p) \in Nat
           /\ p.total \in Nat /\ p.receipt \in {0, 1}
           /\ SoldSale(p).key = p.key /\ SoldSale(p).status = "COMPLETED"
           /\ SoldSale(p).due = p.total - Paid(p) /\ SoldSale(p).paid = Paid(p)
           /\ SoldSale(p).total = p.total /\ SoldSale(p).earned = Paid(p)
           /\ SoldSale(p).invoice = "none" /\ SoldSale(p).type = p.type
<1>1. PICK t \in Nat, c \in Nat, r \in {0, 1} :
             t = p.total /\ c = p.cash /\ r = p.receipt /\ t - c - r >= 0
  BY DEF TillPlanOK
<1>2. Paid(p) = c + r
  BY <1>1 DEF Paid
<1>3. c + r \in Nat /\ t - (c + r) \in Nat
  BY ONLY <1>1
<1>4. PICK a \in Nat, b \in Nat : a = Paid(p) /\ b = p.total - Paid(p)
  BY <1>1, <1>2, <1>3
<1>5. p.key \in Keys \cup {"none"} /\ p.type \in {"RETAIL", "WHOLESALE"}
  BY DEF TillPlanOK
<1>6. PICK x : /\ x = SoldSale(p)
               /\ x = [key |-> p.key, status |-> "COMPLETED", type |-> p.type, total |-> t,
                       paid |-> a, due |-> b, invoice |-> "none", earned |-> a]
  BY <1>1, <1>4 DEF SoldSale
<1>7. x \in Sales
  BY ONLY <1>1, <1>4, <1>5, <1>6 DEF Sales, Invoices
<1>8. QED
  BY <1>1, <1>4, <1>6, <1>7

LEMMA CheckedOut ==
    ASSUME TillCore, NEW p, TillPlanOK(p), Checkout(p)
    PROVE  /\ TillKept
           /\ Extended(Sales, sales, sales', Len(sales) + 1)
           /\ sales'[Len(sales) + 1] = SoldSale(p)
           /\ Applied(discounts, discounts', p.discount)
           /\ Wrote(customer, customer', customer.outstanding + (p.total - Paid(p)),
                    IF Paid(p) > 0 THEN p.points + Paid(p) ELSE customer.points,
                    customer.credit)
<1>1. p.op = "checkout" /\ p.points \in Int /\ (p.points >= 0 \/ ledger.voided)
  BY DEF Checkout, TillPlanOK
<1>2. /\ SoldSale(p) \in Sales /\ Paid(p) \in Nat /\ p.total - Paid(p) \in Nat
      /\ SoldSale(p).key = p.key /\ p.receipt \in {0, 1}
  BY <1>1, SoldSaleIs
<1>3. sales' = Append(sales, SoldSale(p)) /\ \A s \in DOMAIN sales : sales[s].key # p.key
  BY DEF Checkout, SoldSale, KeyUsed
<1>4. /\ Extended(Sales, sales, sales', Len(sales) + 1)
      /\ sales'[Len(sales) + 1] = SoldSale(p)
      /\ sales' \in Seq(Sales) /\ KeysOnce(sales') /\ DOMAIN sales \subseteq DOMAIN sales'
  BY <1>2, <1>3, SaleAdded
<1>5. Applied(discounts, discounts', p.discount)
  BY TillTypes, DiscountApplied DEF Checkout
<1>6. PICK c, d : c \in Customers /\ c = customer /\ d = customer'
  BY TillTypes
<1>7. c.outstanding \in Nat /\ c.points \in Int /\ c.credit \in Nat
  BY <1>6, CustomerTyped
<1>8. PICK o \in Nat, n \in Int :
             /\ o = customer.outstanding + (p.total - Paid(p))
             /\ n = IF Paid(p) > 0 THEN p.points + Paid(p) ELSE customer.points
  <2>1. c.outstanding + (p.total - Paid(p)) \in Nat
    BY <1>2, <1>7
  <2>2. p.points + Paid(p) \in Int
    BY <1>1, <1>2
  <2>3. QED
    BY <1>6, <1>7, <2>1, <2>2
<1>9. Owed(p.total - Paid(p)) = o
  BY <1>8, CutOff DEF Owed
<1>10. d = [c EXCEPT !.outstanding = o, !.points = n]
  BY <1>6, <1>8, <1>9 DEF Checkout, Charge
<1>11. d \in Customers /\ d.outstanding = o /\ d.points = n /\ d.credit = c.credit
  BY ONLY <1>6, <1>10 DEF Customers
<1>12. n >= 0 \/ ledger.voided
  <2>1. p.points + Paid(p) >= 0 \/ ledger.voided
    BY <1>1, <1>2
  <2>2. customer.points >= 0 \/ ledger.voided
    BY TillTypes DEF NoDebtOfPoints
  <2>3. QED
    BY <1>8, <2>1, <2>2
<1>13. onHand' \in Nat /\ claims' \in Nat /\ ledger' = ledger
  <2>1. onHand \in Nat /\ claims \in Nat /\ onHand > 0
    BY TillTypes DEF Checkout
  <2>2. onHand' = onHand - 1 /\ claims' = claims + p.receipt /\ ledger' = ledger
    BY DEF Checkout
  <2>3. QED
    BY <1>2, <2>1, <2>2
<1>14. discounts' \in Seq(Discounts) /\ DOMAIN discounts' = DOMAIN discounts
  BY <1>5 DEF Applied
<1>15. TillTyped' /\ TillGrows
  BY <1>4, <1>6, <1>11, <1>13, <1>14, TillTypes DEF TillTyped, TillGrows
<1>16. TillKept
  BY <1>4, <1>6, <1>11, <1>12, <1>13, <1>15, KeptIf DEF NoDebtOfPoints
<1>17. Wrote(c, d, o, n, c.credit)
  BY <1>6, <1>11 DEF Wrote
<1>18. QED
  BY <1>4, <1>5, <1>6, <1>8, <1>16, <1>17

-----------------------------------------------------------------------------
(***************************************************************************)
(* Checkout: suspended, invoiced, voided and paid sales keep the core.     *)
(***************************************************************************)
LEMMA SuspendedSaleIs ==
    ASSUME NEW i \in Invoices
    PROVE  /\ SuspendedSale(i) \in Sales /\ SuspendedSale(i).key = "none"
           /\ SuspendedSale(i).status = "SUSPENDED" /\ SuspendedSale(i).type = "RETAIL"
           /\ SuspendedSale(i).total = Price /\ SuspendedSale(i).paid = 0
           /\ SuspendedSale(i).due = Price /\ SuspendedSale(i).invoice = i
           /\ SuspendedSale(i).earned = 0
BY TillConstants DEF SuspendedSale, Sales

LEMMA SaleSuspended ==
    ASSUME TillCore, NEW p, SuspendSale(p)
    PROVE  /\ TillKept
           /\ Extended(Sales, sales, sales', Len(sales) + 1)
           /\ sales'[Len(sales) + 1] = SuspendedSale("none")
<1>1. SuspendedSale("none") \in Sales /\ SuspendedSale("none").key = "none"
  BY SuspendedSaleIs DEF Invoices
<1>2. sales' = Append(sales, SuspendedSale("none"))
      /\ UNCHANGED <<onHand, customer, discounts, claims, ledger>>
  BY DEF SuspendSale
<1>3. /\ Extended(Sales, sales, sales', Len(sales) + 1)
      /\ sales'[Len(sales) + 1] = SuspendedSale("none")
      /\ sales' \in Seq(Sales) /\ KeysOnce(sales') /\ DOMAIN sales \subseteq DOMAIN sales'
  BY <1>1, <1>2, SaleAdded
<1>4. TillTyped' /\ TillGrows
  BY <1>2, <1>3, TillTypes DEF TillTyped, TillGrows
<1>5. QED
  BY <1>2, <1>3, <1>4, TillTypes, KeptIf

\* Only the balance is written, with amount a posted on it.
Posted(a) ==
    Wrote(customer, customer', customer.outstanding + a + Forgiven(a), customer.points,
          customer.credit)

LEMMA BalancePosted ==
    ASSUME TillCore, NEW a \in Int, customer' = [customer EXCEPT !.outstanding = Owed(a)]
    PROVE  /\ Posted(a) /\ customer' \in Customers
           /\ customer'.points = customer.points
<1>1. PICK c, d : c = customer /\ d = customer' /\ c \in Customers
  BY TillTypes
<1>2. PICK o \in Nat : o = Owed(a) /\ o = c.outstanding + a + Forgiven(a)
  BY <1>1, OwedIs
<1>3. d = [c EXCEPT !.outstanding = o]
  BY <1>1, <1>2
<1>4. d \in Customers /\ d.outstanding = o /\ d.points = c.points /\ d.credit = c.credit
  BY ONLY <1>1, <1>2, <1>3 DEF Customers
<1>5. Wrote(c, d, o, c.points, c.credit)
  BY <1>1, <1>4 DEF Wrote
<1>6. QED
  BY <1>1, <1>2, <1>4, <1>5 DEF Posted

LEMMA Invoiced ==
    ASSUME TillCore, NEW p, TillPlanOK(p), CreateManualInvoice(p)
    PROVE  /\ TillKept /\ p.invoice \in Invoices
           /\ Extended(Sales, sales, sales', Len(sales) + 1)
           /\ sales'[Len(sales) + 1] = SuspendedSale(p.invoice)
           /\ Posted(IF p.invoice \in Receivable THEN Price ELSE 0)
<1>1. p.invoice \in Invoices
  BY DEF CreateManualInvoice, TillPlanOK
<1>2. SuspendedSale(p.invoice) \in Sales /\ SuspendedSale(p.invoice).key = "none"
  BY <1>1, SuspendedSaleIs
<1>3. PICK a \in Int : a = IF p.invoice \in Receivable THEN Price ELSE 0
  BY TillConstants
<1>4. /\ sales' = Append(sales, SuspendedSale(p.invoice))
      /\ customer' = [customer EXCEPT !.outstanding = Owed(a)]
      /\ UNCHANGED <<onHand, discounts, claims, ledger>>
  BY <1>3 DEF CreateManualInvoice
<1>5. /\ Extended(Sales, sales, sales', Len(sales) + 1)
      /\ sales'[Len(sales) + 1] = SuspendedSale(p.invoice)
      /\ sales' \in Seq(Sales) /\ KeysOnce(sales') /\ DOMAIN sales \subseteq DOMAIN sales'
  BY <1>2, <1>4, SaleAdded
<1>6. Posted(a) /\ customer' \in Customers /\ customer'.points = customer.points
  BY <1>4, BalancePosted
<1>7. TillTyped' /\ TillGrows
  BY <1>4, <1>5, <1>6, TillTypes DEF TillTyped, TillGrows
<1>8. TillKept
  BY <1>4, <1>5, <1>6, <1>7, TillTypes, KeptIf DEF NoDebtOfPoints
<1>9. QED
  BY <1>1, <1>3, <1>5, <1>6, <1>8

\* Sale y is sale x but for its status and its invoice.
Ended(x, y, st, i) ==
    /\ x \in Sales /\ y \in Sales
    /\ y.status = st /\ y.invoice = i /\ y.key = x.key /\ y.type = x.type
    /\ y.total = x.total /\ y.paid = x.paid /\ y.due = x.due /\ y.earned = x.earned

LEMMA SaleEnded ==
    ASSUME NEW x \in Sales, NEW st \in {"CANCELLED", "VOIDED"}, NEW i \in Invoices, NEW y,
           y = [x EXCEPT !.status = st, !.invoice = i]
    PROVE  Ended(x, y, st, i)
BY DEF Ended, Sales

LEMMA SaleDiscarded ==
    ASSUME TillCore, NEW p, TillPlanOK(p), DeleteSuspendedSale(p)
    PROVE  /\ TillKept
           /\ Replaced(Sales, sales, sales', p.sale)
           /\ Ended(sales[p.sale], sales'[p.sale], "CANCELLED", sales[p.sale].invoice)
<1>1. PICK q, x, s, y : /\ q = sales /\ s = p.sale /\ x = q[s]
                        /\ y = [x EXCEPT !.status = "CANCELLED"]
  OBVIOUS
<1>2. q \in Seq(Sales) /\ s \in DOMAIN q
  BY <1>1, TillTypes DEF DeleteSuspendedSale, TillPlanOK
<1>3. x \in Sales
  BY <1>1, <1>2, SequenceDomain
<1>4. Ended(x, y, "CANCELLED", x.invoice)
  BY ONLY <1>1, <1>3 DEF Ended, Sales
<1>5. sales' = [sales EXCEPT ![s] = y] /\ UNCHANGED <<onHand, customer, discounts, claims, ledger>>
  BY <1>1 DEF DeleteSuspendedSale
<1>6. /\ Replaced(Sales, sales, sales', s) /\ sales'[s] = y
      /\ sales' \in Seq(Sales) /\ KeysOnce(sales') /\ DOMAIN sales \subseteq DOMAIN sales'
  <2>1. y \in Sales /\ y.key = sales[s].key /\ s \in DOMAIN sales
    BY <1>1, <1>2, <1>4 DEF Ended
  <2>2. QED
    BY <1>5, <2>1, SaleReplaced
<1>7. TillTyped' /\ TillGrows
  BY <1>5, <1>6, TillTypes DEF TillTyped, TillGrows
<1>8. TillKept
  BY <1>5, <1>6, <1>7, TillTypes, KeptIf
<1>9. QED
  BY <1>1, <1>4, <1>6, <1>8

VoidedInvoice(x) == IF x.invoice = "none" THEN x.invoice ELSE "VOIDED"

\* What the history says of ledger l after ledger k.
Noted(k, l, n, stray) ==
    /\ k \in Ledgers /\ l \in Ledgers
    /\ l.redeemed = k.redeemed /\ l.adjusted = k.adjusted /\ l.noted = k.noted + n
    /\ l.stray = stray

NotedAs(k, l, n, stray, v) ==
    l = [k EXCEPT !.noted = k.noted + n, !.voided = v, !.stray = stray]

LEMMA LedgerNoted ==
    ASSUME NEW k \in Ledgers, NEW n \in Int, NEW stray \in BOOLEAN, NEW v \in BOOLEAN, NEW l,
           NotedAs(k, l, n, stray, v)
    PROVE  /\ Noted(k, l, n, stray) /\ l.noteMade = k.noteMade /\ l.made = k.made
           /\ l.voided = v
<1>1. PICK a \in Int : a = k.noted + n
  BY LedgerTyped
<1>2. l = [k EXCEPT !.noted = a, !.voided = v, !.stray = stray]
  BY <1>1 DEF NotedAs
<1>3. /\ l \in Ledgers /\ l.redeemed = k.redeemed /\ l.adjusted = k.adjusted /\ l.noted = a
      /\ l.stray = stray /\ l.noteMade = k.noteMade /\ l.made = k.made /\ l.voided = v
  BY ONLY k \in Ledgers, a \in Int, stray \in BOOLEAN, v \in BOOLEAN, <1>2 DEF Ledgers
<1>4. QED
  BY <1>1, <1>3 DEF Noted
LEMMA SaleVoided ==
    ASSUME TillCore, NEW p, TillPlanOK(p), CancelSale(p)
    PROVE  /\ TillKept /\ p.due \in Nat /\ p.paid \in Nat
           /\ Replaced(Sales, sales, sales', p.sale)
           /\ Ended(sales[p.sale], sales'[p.sale], "VOIDED", VoidedInvoice(sales[p.sale]))
           /\ Wrote(customer, customer', customer.outstanding + (-p.due) + Forgiven(-p.due),
                    customer.points - p.paid, customer.credit)
           /\ Noted(ledger, ledger', Forgiven(-p.due),
                    ledger.stray \/ (p.due > 0 /\ ~Charged(p.sale)))
           /\ ledger'.voided
<1>1. PICK q, x, s, y : /\ q = sales /\ s = p.sale /\ x = q[s]
                        /\ y = [x EXCEPT !.status = "VOIDED", !.invoice = VoidedInvoice(x)]
  OBVIOUS
<1>2. /\ q \in Seq(Sales) /\ s \in DOMAIN q /\ p.due \in Nat /\ p.paid \in Nat
      /\ p.restores \in BOOLEAN
  BY <1>1, TillTypes DEF CancelSale, TillPlanOK
<1>3. x \in Sales
  BY <1>1, <1>2, SequenceDomain
<1>4. VoidedInvoice(x) \in Invoices
  BY <1>3, SaleTyped DEF VoidedInvoice, Invoices
<1>5. Ended(x, y, "VOIDED", VoidedInvoice(x))
  BY <1>1, <1>3, <1>4, SaleEnded
<1>6. sales' = [sales EXCEPT ![s] = y]
  BY <1>1, <1>2 DEF CancelSale, VoidedInvoice
<1>7. /\ Replaced(Sales, sales, sales', s) /\ sales'[s] = y
      /\ sales' \in Seq(Sales) /\ KeysOnce(sales') /\ DOMAIN sales \subseteq DOMAIN sales'
  <2>1. y \in Sales /\ y.key = sales[s].key /\ s \in DOMAIN sales
    BY <1>1, <1>2, <1>5 DEF Ended
  <2>2. QED
    BY <1>6, <2>1, SaleReplaced
<1>8. PICK c, d : c = customer /\ d = customer' /\ c \in Customers
  BY TillTypes
<1>9. PICK o \in Nat : o = Owed(-p.due) /\ o = c.outstanding + (-p.due) + Forgiven(-p.due)
  <2>1. -p.due \in Int
    BY <1>2
  <2>2. QED
    BY <1>8, <2>1, OwedIs
<1>10. PICK n \in Int : n = c.points - p.paid
  BY <1>2, <1>8, CustomerTyped
<1>11. d = [c EXCEPT !.outstanding = o, !.points = n]
  BY <1>8, <1>9, <1>10 DEF CancelSale
<1>12. d \in Customers /\ d.outstanding = o /\ d.points = n /\ d.credit = c.credit
  BY ONLY <1>8, <1>9, <1>10, <1>11 DEF Customers
<1>13. Wrote(c, d, o, n, c.credit)
  BY <1>8, <1>12 DEF Wrote
<1>14. PICK k, l, stray, f : /\ k = ledger /\ l = ledger' /\ k \in Ledgers
                             /\ stray = (ledger.stray \/ (p.due > 0 /\ ~Charged(p.sale)))
                             /\ f = Forgiven(-p.due)
  BY TillTypes
<1>15. stray \in BOOLEAN /\ f \in Int
  <2>1. -p.due \in Int
    BY <1>2
  <2>2. f \in Int
    BY <1>8, <1>14, <2>1, OwedIs
  <2>3. stray \in BOOLEAN
    BY <1>14, LedgerTyped
  <2>4. QED
    BY <2>2, <2>3
<1>16. NotedAs(k, l, f, stray, TRUE)
  BY <1>14 DEF CancelSale, NotedAs
<1>17. Noted(k, l, f, stray) /\ l.voided
  BY <1>14, <1>15, <1>16, LedgerNoted
<1>18. onHand' \in Nat /\ UNCHANGED <<discounts, claims>>
  BY <1>2, TillTypes DEF CancelSale
<1>19. TillTyped' /\ TillGrows
  BY <1>7, <1>8, <1>12, <1>14, <1>17, <1>18, TillTypes DEF TillTyped, TillGrows, Noted
<1>20. TillKept
  BY <1>7, <1>14, <1>17, <1>19, KeptIf DEF NoDebtOfPoints
<1>21. QED
  BY <1>1, <1>2, <1>5, <1>7, <1>8, <1>9, <1>10, <1>13, <1>14, <1>17, <1>20

\* Sale y is sale x, with n paid.
PaidOn(x, y, n) ==
    /\ x \in Sales /\ y \in Sales
    /\ y.paid = n /\ y.due = NotNegative(x.total - n)
    /\ y.key = x.key /\ y.type = x.type /\ y.status = x.status /\ y.invoice = x.invoice
    /\ y.total = x.total /\ y.earned = x.earned

LEMMA SalePaid ==
    ASSUME TillCore, NEW p, TillPlanOK(p), PaySale(p)
    PROVE  /\ TillKept /\ p.paid \in Nat
           /\ Replaced(Sales, sales, sales', p.sale)
           /\ PaidOn(sales[p.sale], sales'[p.sale], p.paid + 1)
           /\ Posted(-1)
           /\ Noted(ledger, ledger', Forgiven(-1), ledger.stray \/ ~Charged(p.sale))
           /\ ledger'.noteMade = ledger.noteMade /\ ledger'.voided = ledger.voided
<1>1. PICK q, x, s : q = sales /\ s = p.sale /\ x = q[s]
  OBVIOUS
<1>2. q \in Seq(Sales) /\ s \in DOMAIN q /\ p.paid \in Nat
  BY <1>1, TillTypes DEF PaySale, TillPlanOK
<1>3. x \in Sales /\ x.total \in Nat
  BY <1>1, <1>2, SequenceDomain, SaleTyped
<1>4. PICK n \in Nat, e \in Nat : n = p.paid + 1 /\ e = NotNegative(x.total - n)
  <2>1. p.paid + 1 \in Nat /\ x.total - (p.paid + 1) \in Int
    BY <1>2, <1>3
  <2>2. QED
    BY <2>1, CutOff
<1>5. x.total - p.paid - 1 = x.total - n
  BY <1>2, <1>3, <1>4
<1>6. PICK y : y = [x EXCEPT !.paid = n, !.due = e]
  OBVIOUS
<1>7. /\ y \in Sales /\ y.paid = n /\ y.due = e
      /\ y.key = x.key /\ y.type = x.type /\ y.status = x.status /\ y.invoice = x.invoice
      /\ y.total = x.total /\ y.earned = x.earned
  BY ONLY <1>3, <1>4, <1>6 DEF Sales
<1>8. PaidOn(x, y, n)
  BY <1>3, <1>4, <1>7 DEF PaidOn
<1>9. sales' = [sales EXCEPT ![s] = y]
  BY <1>1, <1>2, <1>4, <1>5, <1>6 DEF PaySale
<1>10. /\ Replaced(Sales, sales, sales', s) /\ sales'[s] = y
       /\ sales' \in Seq(Sales) /\ KeysOnce(sales') /\ DOMAIN sales \subseteq DOMAIN sales'
  BY <1>1, <1>2, <1>7, <1>9, SaleReplaced
<1>11. Posted(-1) /\ customer' \in Customers /\ customer'.points = customer.points
  BY BalancePosted DEF PaySale
<1>12. PICK k, l, stray, f, v : /\ k = ledger /\ l = ledger' /\ k \in Ledgers
                                /\ stray = (ledger.stray \/ ~Charged(p.sale))
                                /\ f = Forgiven(-1) /\ v = k.voided
  BY TillTypes
<1>13. stray \in BOOLEAN /\ f \in Int /\ v \in BOOLEAN
  BY <1>12, TillTypes, OwedIs, LedgerTyped
<1>14. k = [k EXCEPT !.voided = v]
  BY <1>12 DEF Ledgers
<1>15. l = [k EXCEPT !.noted = k.noted + f, !.stray = stray]
  BY <1>12 DEF PaySale
<1>16. NotedAs(k, l, f, stray, v)
  BY <1>12, <1>13, <1>15 DEF Ledgers, NotedAs
<1>17. Noted(k, l, f, stray) /\ l.noteMade = k.noteMade /\ l.voided = v
  <2>1. k \in Ledgers
    BY <1>12
  <2>2. QED
    BY ONLY <1>13, <1>16, <2>1, LedgerNoted
<1>18. UNCHANGED <<onHand, discounts, claims>>
  BY DEF PaySale
<1>19. TillTyped' /\ TillGrows
  BY <1>10, <1>11, <1>12, <1>17, <1>18, TillTypes DEF TillTyped, TillGrows, Noted
<1>20. TillKept
  BY <1>10, <1>11, <1>12, <1>17, <1>19, TillTypes, KeptIf DEF NoDebtOfPoints
<1>21. QED
  BY <1>1, <1>2, <1>4, <1>8, <1>10, <1>11, <1>12, <1>17, <1>20

-----------------------------------------------------------------------------
(***************************************************************************)
(* Checkout: notes and points keep the core, and so does every write.      *)
(***************************************************************************)
LEMMA MadeOne ==
    ASSUME TillCore, Len(discounts) + ledger.made < MaxExtras
    PROVE  ledger.made + 1 \in 0..MaxExtras
<1>1. PICK a, b : a = Len(discounts) /\ b = ledger.made
  OBVIOUS
<1>2. a \in Nat /\ b \in 0..MaxExtras /\ MaxExtras \in Nat
  BY <1>1, TillTypes, SequenceDomain, LedgerTyped, TillConstants
<1>3. b + 1 \in 0..MaxExtras
  BY <1>1, <1>2
<1>4. QED
  BY <1>1, <1>3

LEMMA NoteMade ==
    ASSUME TillCore, NEW p, TillPlanOK(p), CreateCreditDebitNote(p)
    PROVE  /\ TillKept /\ p.by \in Int
           /\ Posted(p.by)
           /\ Noted(ledger, ledger', p.by + Forgiven(p.by), ledger.stray)
           /\ ledger'.noteMade /\ ledger'.voided = ledger.voided
<1>1. PICK n \in Int : n = p.by
  BY DEF CreateCreditDebitNote, TillPlanOK
<1>2. Posted(n) /\ customer' \in Customers /\ customer'.points = customer.points
  BY <1>1, BalancePosted DEF CreateCreditDebitNote
<1>3. PICK k, l, f, g : /\ k = ledger /\ l = ledger' /\ k \in Ledgers
                        /\ f = Forgiven(n) /\ g = k.made + 1
  BY TillTypes
<1>4. PICK a \in Int : a = k.noted + n + f /\ a = k.noted + (n + f)
  <2>1. PICK b \in Int : b = k.noted
    BY <1>3, LedgerTyped
  <2>2. f \in Int
    BY <1>3, TillTypes, OwedIs
  <2>3. b + n + f \in Int /\ b + n + f = b + (n + f)
    BY ONLY <2>1, <2>2, n \in Int
  <2>4. QED
    BY <2>1, <2>3
<1>5. g \in 0..MaxExtras
  BY <1>3, MadeOne DEF CreateCreditDebitNote
<1>6. l = [k EXCEPT !.noted = a, !.noteMade = TRUE, !.made = g]
  BY <1>1, <1>3, <1>4 DEF CreateCreditDebitNote
<1>7. k \in Ledgers
  BY <1>3
<1>8. /\ l \in Ledgers /\ l.redeemed = k.redeemed /\ l.adjusted = k.adjusted /\ l.noted = a
      /\ l.stray = k.stray /\ l.noteMade /\ l.voided = k.voided
  BY ONLY <1>4, <1>5, <1>6, <1>7 DEF Ledgers
<1>9. Noted(k, l, n + f, k.stray)
  BY <1>4, <1>7, <1>8 DEF Noted
<1>10. UNCHANGED <<sales, onHand, discounts, claims>>
  BY DEF CreateCreditDebitNote
<1>11. TillTyped' /\ TillGrows
  BY <1>2, <1>3, <1>8, <1>10, TillTypes DEF TillTyped, TillGrows
<1>12. TillKept
  BY <1>2, <1>3, <1>8, <1>10, <1>11, TillTypes, KeptIf DEF NoDebtOfPoints
<1>13. QED
  BY <1>1, <1>2, <1>3, <1>8, <1>9, <1>12

\* One more redemption under key r.
RedeemedMore(k, l, r) ==
    /\ k \in Ledgers /\ l \in Ledgers /\ r \in Redemptions
    /\ l.redeemed[r] = k.redeemed[r] + 1
    /\ \A q \in Redemptions \ {r} : l.redeemed[q] = k.redeemed[q]
    /\ l.adjusted = k.adjusted /\ l.noted = k.noted /\ l.noteMade = k.noteMade
    /\ l.voided = k.voided /\ l.stray = k.stray

LEMMA PointsRedeemed ==
    ASSUME TillCore, NEW p, TillPlanOK(p), RedeemPoints(p)
    PROVE  /\ TillKept
           /\ Wrote(customer, customer', customer.outstanding, p.points - 1, p.credit + 1)
           /\ RedeemedMore(ledger, ledger', p.key)
<1>1. p.key \in Redemptions /\ p.credit \in Nat /\ p.points \in Int /\ p.points > 0
  BY DEF RedeemPoints, TillPlanOK
<1>2. PICK c, d : c = customer /\ d = customer' /\ c \in Customers
  BY TillTypes
<1>3. PICK n \in Nat, b \in Nat : n = p.points - 1 /\ b = p.credit + 1
  BY <1>1
<1>4. d = [c EXCEPT !.points = n, !.credit = b]
  BY <1>2, <1>3 DEF RedeemPoints
<1>5. /\ d \in Customers /\ d.outstanding = c.outstanding /\ d.points = n /\ d.credit = b
  <2>1. c \in Customers
    BY <1>2
  <2>2. QED
    BY ONLY n \in Int, b \in Nat, <1>4, <2>1 DEF Customers
<1>6. Wrote(c, d, c.outstanding, n, b)
  BY <1>2, <1>5 DEF Wrote
<1>7. PICK k, l, r, f : /\ k = ledger /\ l = ledger' /\ k \in Ledgers /\ r = p.key
                        /\ f = k.redeemed
  BY TillTypes
<1>8. f \in [Redemptions -> Nat] /\ r \in Redemptions
  BY <1>1, <1>7, LedgerTyped
<1>9. PICK e : e = [f EXCEPT ![r] = f[r] + 1]
  OBVIOUS
<1>10. /\ e \in [Redemptions -> Nat] /\ e[r] = f[r] + 1
       /\ \A q \in Redemptions \ {r} : e[q] = f[q]
  BY <1>8, <1>9
<1>11. l = [k EXCEPT !.redeemed = e]
  BY <1>7, <1>8, <1>9 DEF RedeemPoints
<1>12. k \in Ledgers
  BY <1>7
<1>13. /\ l \in Ledgers /\ l.redeemed = e /\ l.adjusted = k.adjusted /\ l.noted = k.noted
       /\ l.noteMade = k.noteMade /\ l.voided = k.voided /\ l.stray = k.stray
  BY ONLY <1>10, <1>11, <1>12 DEF Ledgers
<1>14. RedeemedMore(k, l, r)
  BY <1>7, <1>8, <1>10, <1>13 DEF RedeemedMore
<1>15. UNCHANGED <<sales, onHand, discounts, claims>>
  BY DEF RedeemPoints
<1>16. TillTyped' /\ TillGrows
  BY <1>2, <1>5, <1>7, <1>13, <1>15, TillTypes DEF TillTyped, TillGrows
<1>17. customer'.points >= 0
  BY <1>2, <1>3, <1>5
<1>18. TillKept
  BY <1>15, <1>16, <1>17, TillTypes, KeptIf DEF NoDebtOfPoints
<1>19. QED
  BY <1>2, <1>3, <1>6, <1>7, <1>14, <1>18

LEMMA PointsAdjusted ==
    ASSUME TillCore, NEW p, TillPlanOK(p), AdjustPoints(p)
    PROVE  /\ TillKept
           /\ \E after \in Nat :
                /\ Wrote(customer, customer', customer.outstanding, after, customer.credit)
                /\ ledger'.adjusted = ledger.adjusted + after - p.points
           /\ ledger'.redeemed = ledger.redeemed /\ ledger'.noted = ledger.noted
           /\ ledger'.noteMade = ledger.noteMade /\ ledger'.voided = ledger.voided
           /\ ledger'.stray = ledger.stray
<1>1. p.points \in Int /\ p.by \in Int
  BY DEF AdjustPoints, TillPlanOK
<1>2. PICK n \in Nat : n = NotNegative(p.points + p.by)
  BY <1>1, CutOff
<1>3. PICK c, d : c = customer /\ d = customer' /\ c \in Customers
  BY TillTypes
<1>4. d = [c EXCEPT !.points = n]
  BY <1>2, <1>3 DEF AdjustPoints
<1>5. d \in Customers /\ d.outstanding = c.outstanding /\ d.points = n /\ d.credit = c.credit
  BY ONLY n \in Nat, <1>3, <1>4 DEF Customers
<1>6. Wrote(c, d, c.outstanding, n, c.credit)
  BY <1>3, <1>5 DEF Wrote
<1>7. PICK k, l, g : k = ledger /\ l = ledger' /\ k \in Ledgers /\ g = k.made + 1
  BY TillTypes
<1>8. PICK a \in Int : a = k.adjusted + n - p.points
  BY <1>1, <1>2, <1>7, LedgerTyped
<1>9. g \in 0..MaxExtras
  BY <1>7, MadeOne DEF AdjustPoints
<1>10. l = [k EXCEPT !.adjusted = a, !.made = g]
  BY <1>2, <1>7, <1>8 DEF AdjustPoints
<1>11. k \in Ledgers
  BY <1>7
<1>12. /\ l \in Ledgers /\ l.redeemed = k.redeemed /\ l.adjusted = a /\ l.noted = k.noted
       /\ l.noteMade = k.noteMade /\ l.voided = k.voided /\ l.stray = k.stray
  BY ONLY <1>8, <1>9, <1>10, <1>11 DEF Ledgers
<1>13. UNCHANGED <<sales, onHand, discounts, claims>>
  BY DEF AdjustPoints
<1>14. TillTyped' /\ TillGrows
  BY <1>3, <1>5, <1>7, <1>12, <1>13, TillTypes DEF TillTyped, TillGrows
<1>15. customer'.points >= 0
  BY <1>2, <1>3, <1>5
<1>16. TillKept
  BY <1>13, <1>14, <1>15, TillTypes, KeptIf DEF NoDebtOfPoints
<1>17. QED
  BY <1>3, <1>6, <1>7, <1>8, <1>12, <1>16

LEMMA TillWriteOK ==
    ASSUME TillCore, NEW p, TillPlanOK(p), TillWrite(p)
    PROVE  TillKept
<1>1. CASE CreateDiscountRequest(p)
  BY <1>1, DiscountRequested
<1>2. CASE ApproveDiscountRequest(p)
  BY <1>2, DiscountReviewed DEF ApproveDiscountRequest, TillPlanOK
<1>3. CASE RejectDiscountRequest(p)
  BY <1>3, DiscountReviewed DEF RejectDiscountRequest, TillPlanOK
<1>4. CASE Checkout(p)
  BY <1>4, CheckedOut
<1>5. CASE SuspendSale(p)
  BY <1>5, SaleSuspended
<1>6. CASE CreateManualInvoice(p)
  BY <1>6, Invoiced
<1>7. CASE DeleteSuspendedSale(p)
  BY <1>7, SaleDiscarded
<1>8. CASE CancelSale(p)
  BY <1>8, SaleVoided
<1>9. CASE PaySale(p)
  BY <1>9, SalePaid
<1>10. CASE CreateCreditDebitNote(p)
  BY <1>10, NoteMade
<1>11. CASE RedeemPoints(p)
  BY <1>11, PointsRedeemed
<1>12. CASE AdjustPoints(p)
  BY <1>12, PointsAdjusted
<1>13. QED
  BY <1>1, <1>2, <1>3, <1>4, <1>5, <1>6, <1>7, <1>8, <1>9, <1>10, <1>11, <1>12 DEF TillWrite

-----------------------------------------------------------------------------
(***************************************************************************)
(* Checkout: the core is invariant, however calls overlap.                 *)
(***************************************************************************)
\* What is true of a plan when it is made.
TillFresh(p) ==
    /\ p.op \in {"approveDiscount", "rejectDiscount"} =>
         discounts[p.discount].status = "PENDING"
    /\ p.op = "checkout" =>
         /\ p.discount \in DOMAIN discounts => discounts[p.discount].status = "APPROVED"
         /\ p.receipt = 1 => claims = 0
         /\ WithinCredit(p.total - Paid(p))
    /\ p.op = "discard" => sales[p.sale].status = "SUSPENDED"
    /\ p.op = "invoice" => p.invoice # "VOIDED" /\ (p.invoice = "DEFERRED" => WithinCredit(Price))
    /\ p.op = "cancel" =>
         /\ sales[p.sale].status \in {"COMPLETED", "SUSPENDED"}
         /\ p.due = sales[p.sale].due /\ p.paid = sales[p.sale].paid
         /\ p.restores <=> sales[p.sale].type # "WHOLESALE" /\ sales[p.sale].status = "COMPLETED"
    /\ p.op = "pay" => sales[p.sale].due > 0 /\ p.paid = sales[p.sale].paid
    /\ p.op = "redeem" => ledger.redeemed[p.key] = 0 /\ p.credit = customer.credit
    /\ p.op \in {"checkout", "redeem", "adjust"} => p.points = customer.points

LEMMA DiscountsPlanned ==
    ASSUME TillCore, NEW p \in DiscountPlans
    PROVE  TillPlanOK(p) /\ TillFresh(p)
<1>1. CASE p = [op |-> "requestDiscount"]
  BY <1>1 DEF TillPlanOK, TillFresh
<1>2. CASE \E op \in {"approveDiscount", "rejectDiscount"},
              d \in {d \in DOMAIN discounts : discounts[d].status = "PENDING"} :
             p = [op |-> op, discount |-> d]
  BY <1>2 DEF TillPlanOK, TillFresh
<1>3. QED
  BY <1>1, <1>2 DEF DiscountPlans

LEMMA CheckoutPlanned ==
    ASSUME TillCore, NEW p \in CheckoutPlans
    PROVE  TillPlanOK(p) /\ TillFresh(p)
<1>1. /\ p.op = "checkout" /\ p.key \in Keys /\ p.type \in {"RETAIL", "WHOLESALE"}
      /\ p.discount \in {0} \cup {d \in DOMAIN discounts : Usable(d)}
      /\ p.total \in Price - 1..Price /\ p.cash \in Cash /\ p.receipt \in 0..1
      /\ p.points = customer.points /\ Prepared(p)
  BY DEF CheckoutPlans
<1>2. PICK t, c, r, u, e : /\ t = p.total /\ c = p.cash /\ r = p.receipt /\ u = Price
                           /\ e = t - c - r
  OBVIOUS
<1>3. u \in Nat /\ c \in Nat /\ r \in {0, 1} /\ t \in Int
  <2>1. u \in Nat /\ c \in Nat /\ r \in {0, 1}
    <3>1. u \in Nat
      BY <1>2, TillConstants
    <3>2. c \in Nat
      BY <1>1, <1>2, TillConstants
    <3>3. r \in {0, 1}
      BY <1>1, <1>2
    <3>4. QED
      BY <3>1, <3>2, <3>3
  <2>2. t \in (u - 1)..u
    BY <1>1, <1>2
  <2>3. QED
    BY ONLY <2>1, <2>2
<1>4. e >= 0 /\ WithinCredit(e) /\ (r = 1 => claims = 0)
  BY <1>1, <1>2 DEF Prepared
<1>5. t \in Nat
  BY ONLY <1>2, <1>3, <1>4
<1>6. t - Paid(p) = e
  BY <1>2, <1>3 DEF Paid
<1>7. p.points \in Int /\ (p.points >= 0 \/ ledger.voided)
  BY <1>1, TillTypes, CustomerTyped DEF NoDebtOfPoints
<1>8. 0 \notin DOMAIN discounts
  BY TillTypes, SequenceDomain
<1>9. TillPlanOK(p)
  BY <1>1, <1>2, <1>3, <1>4, <1>5, <1>7 DEF TillPlanOK
<1>10. TillFresh(p)
  BY <1>1, <1>2, <1>4, <1>6, <1>8 DEF TillFresh, Usable
<1>11. QED
  BY <1>9, <1>10

LEMMA SuspendedPlanned ==
    ASSUME TillCore, NEW p \in SuspendPlans \cup ManualInvoicePlans
    PROVE  TillPlanOK(p) /\ TillFresh(p)
<1>1. CASE p = [op |-> "suspend"]
  BY <1>1 DEF TillPlanOK, TillFresh
<1>2. CASE \E s \in SalesIn({"SUSPENDED"}) : p = [op |-> "discard", sale |-> s]
  BY <1>2 DEF TillPlanOK, TillFresh, SalesIn
<1>3. CASE \E i \in {i \in {"DRAFT"} \cup Receivable : i = "DEFERRED" => WithinCredit(Price)} :
             p = [op |-> "invoice", invoice |-> i]
  BY <1>3 DEF TillPlanOK, TillFresh, Receivable, Invoices
<1>4. QED
  BY <1>1, <1>2, <1>3 DEF SuspendPlans, ManualInvoicePlans

LEMMA EndedPlanned ==
    ASSUME TillCore, NEW p \in CancelPlans \cup PayPlans
    PROVE  TillPlanOK(p) /\ TillFresh(p)
<1>1. \A s \in DOMAIN sales : sales[s] \in Sales
  BY TillTypes, SequenceDomain
<1>2. ASSUME NEW s \in SalesIn({"COMPLETED", "SUSPENDED"}),
             p = [op |-> "cancel", sale |-> s, due |-> sales[s].due, paid |-> sales[s].paid,
                  restores |-> sales[s].type # "WHOLESALE" /\ sales[s].status = "COMPLETED"]
      PROVE  TillPlanOK(p) /\ TillFresh(p)
  <2>1. s \in DOMAIN sales /\ sales[s].status \in {"COMPLETED", "SUSPENDED"}
    BY DEF SalesIn
  <2>2. PICK a \in Nat, b \in Nat : a = sales[s].due /\ b = sales[s].paid
    BY <1>1, <2>1, SaleTyped
  <2>3. PICK v \in BOOLEAN :
               v <=> sales[s].type # "WHOLESALE" /\ sales[s].status = "COMPLETED"
    OBVIOUS
  <2>4. p = [op |-> "cancel", sale |-> s, due |-> a, paid |-> b, restores |-> v]
    BY <1>2, <2>2, <2>3
  <2>5. QED
    BY <2>1, <2>2, <2>3, <2>4 DEF TillPlanOK, TillFresh
<1>3. CASE \E s \in {s \in DOMAIN sales : sales[s].due > 0} :
             p = [op |-> "pay", sale |-> s, paid |-> sales[s].paid]
  <2>1. PICK s \in DOMAIN sales : /\ sales[s].due > 0
                                  /\ p = [op |-> "pay", sale |-> s, paid |-> sales[s].paid]
    BY <1>3
  <2>2. sales[s].paid \in Nat
    BY <1>1, SaleTyped
  <2>3. QED
    BY <2>1, <2>2 DEF TillPlanOK, TillFresh
<1>4. QED
  BY <1>2, <1>3 DEF CancelPlans, PayPlans

LEMMA LoyaltyPlanned ==
    ASSUME TillCore, NEW p \in NotePlans \cup LoyaltyPlans
    PROVE  TillPlanOK(p) /\ TillFresh(p)
<1>1. PICK n, c : n = customer.points /\ c = customer.credit /\ n \in Int /\ c \in Nat
  BY TillTypes, CustomerTyped
<1>2. CASE \E i \in {-1, 1} : p = [op |-> "note", by |-> i]
  BY <1>2 DEF TillPlanOK, TillFresh
<1>3. CASE \E k \in {k \in Redemptions : ledger.redeemed[k] = 0 /\ customer.points > 0} :
             p = [op |-> "redeem", key |-> k, points |-> customer.points,
                  credit |-> customer.credit]
  <2>1. PICK k \in Redemptions :
               /\ ledger.redeemed[k] = 0 /\ n > 0
               /\ p = [op |-> "redeem", key |-> k, points |-> n, credit |-> c]
    BY <1>1, <1>3
  <2>2. QED
    BY <1>1, <2>1 DEF TillPlanOK, TillFresh
<1>4. CASE \E i \in Adjustments : p = [op |-> "adjust", by |-> i, points |-> customer.points]
  <2>1. PICK i \in Int : p = [op |-> "adjust", by |-> i, points |-> n]
    BY <1>1, <1>4, TillConstants
  <2>2. QED
    BY <1>1, <2>1 DEF TillPlanOK, TillFresh
<1>5. QED
  BY <1>2, <1>3, <1>4 DEF NotePlans, LoyaltyPlans

LEMMA TillPlanned ==
    ASSUME TillCore, NEW p \in TillPlans
    PROVE  TillPlanOK(p) /\ TillFresh(p)
BY DiscountsPlanned, CheckoutPlanned, SuspendedPlanned, EndedPlanned, LoyaltyPlanned
   DEF TillPlans

TillSlowOK == slowTill # NoTillPlan => TillPlanOK(slowTill) /\ ~tillOvertaken

TillInv == TillTypeOK /\ TillCore /\ TillSlowOK

LEMMA TillPlanStays ==
    ASSUME NEW p, TillPlanOK(p), TillGrows
    PROVE  TillPlanOK(p)'
BY DEF TillPlanOK, TillGrows

LEMMA TillRecordsSame ==
    TillCore /\ UNCHANGED tillRecords => TillKept
BY DEF TillCore, TillTyped, TillKept, TillGrows, KeysOnce, NoDebtOfPoints, tillRecords

LEMMA TillTypedOK ==
    ASSUME TillCore, slowTill.op \in SlowTill \cup {"none"}, tillOvertaken \in BOOLEAN
    PROVE  TillTypeOK
BY DEF TillTypeOK, TillCore, TillTyped, Customers, Ledgers

LEMMA TillTypedNext ==
    ASSUME TillKept, slowTill'.op \in SlowTill \cup {"none"}, tillOvertaken' \in BOOLEAN
    PROVE  TillTypeOK'
BY DEF TillTypeOK, TillKept, TillCore, TillTyped, Customers, Ledgers

LEMMA TillStarts == TillInit => TillInv
<1> SUFFICES ASSUME TillInit PROVE TillInv
  OBVIOUS
<1>1. sales \in Seq(Sales) /\ discounts \in Seq(Discounts) /\ DOMAIN sales = {}
  BY DEF TillInit
<1>2. onHand \in Nat /\ claims \in Nat
  BY TillConstants DEF TillInit
<1>3. customer \in Customers /\ customer.points = 0
  BY DEF TillInit, Customers
<1>4. ledger \in Ledgers
  <2>1. 0 \in 0..MaxExtras
    BY TillConstants
  <2>2. [k \in Redemptions |-> 0] \in [Redemptions -> Nat]
    OBVIOUS
  <2>3. QED
    BY <2>1, <2>2 DEF TillInit, Ledgers
<1>5. TillCore
  BY <1>1, <1>2, <1>3, <1>4 DEF TillCore, TillTyped, KeysOnce, NoDebtOfPoints
<1>6. slowTill = NoTillPlan /\ slowTill.op = "none" /\ tillOvertaken \in BOOLEAN
  BY DEF TillInit, NoTillPlan
<1>7. QED
  BY <1>5, <1>6, TillTypedOK DEF TillInv, TillSlowOK

LEMMA TillStep == TillInv /\ [TillNext]_tillVars => TillInv'
<1> SUFFICES ASSUME TillInv, [TillNext]_tillVars PROVE TillInv'
  OBVIOUS
<1>1. /\ TillCore /\ TillSlowOK
      /\ slowTill.op \in SlowTill \cup {"none"} /\ tillOvertaken \in BOOLEAN
  BY DEF TillInv, TillTypeOK
<1>2. ASSUME TillKept, UNCHANGED <<slowTill, tillOvertaken>> PROVE TillInv'
  <2>1. TillSlowOK'
    BY <1>1, <1>2, TillPlanStays DEF TillSlowOK, TillKept
  <2>2. TillTypeOK'
    BY <1>1, <1>2, TillTypedNext
  <2>3. QED
    BY <1>2, <2>1, <2>2 DEF TillInv, TillKept
<1>3. CASE UNCHANGED tillVars
  BY <1>1, <1>2, <1>3, TillRecordsSame DEF tillVars
<1>4. CASE TillAlone
  BY <1>1, <1>2, <1>4, TillPlanned, TillWriteOK DEF TillAlone
<1>5. CASE TillPause
  <2>1. TillKept
    BY <1>1, <1>5, TillRecordsSame DEF TillPause
  <2>2. PICK q \in TillPlans : /\ slowTill' = q /\ q.op \in SlowTill
                               /\ ~tillOvertaken' /\ tillOvertaken' \in BOOLEAN
    BY <1>1, <1>5 DEF TillPause
  <2>3. TillPlanOK(q)'
    BY <1>1, <2>1, TillPlanned, TillPlanStays DEF TillKept
  <2>4. TillSlowOK'
    BY <2>2, <2>3 DEF TillSlowOK, TillPlanOK
  <2>5. TillTypeOK'
    BY <2>1, <2>2, TillTypedNext
  <2>6. QED
    BY <2>1, <2>4, <2>5 DEF TillInv, TillKept
<1>6. CASE TillResume
  <2>1. PICK q : q = slowTill
    OBVIOUS
  <2>2. TillPlanOK(q) /\ slowTill' = NoTillPlan
    BY <1>1, <1>6, <2>1 DEF TillResume, TillSlowOK
  <2>3. TillKept
    BY <1>1, <1>6, <2>1, <2>2, TillWriteOK, TillRecordsSame DEF TillResume
  <2>4. tillOvertaken' \in BOOLEAN
    BY <1>1, <1>6 DEF TillResume
  <2>5. TillSlowOK' /\ slowTill'.op = "none"
    BY <2>2 DEF TillSlowOK, NoTillPlan
  <2>6. TillTypeOK'
    BY <2>3, <2>4, <2>5, TillTypedNext
  <2>7. QED
    BY <2>3, <2>5, <2>6 DEF TillInv, TillKept
<1>7. QED
  BY <1>3, <1>4, <1>5, <1>6 DEF TillNext

\* The records keep their types, keys and points, however calls overlap.
THEOREM TillInvHolds == TillSpec => []TillInv
BY TillStarts, TillStep, PTL DEF TillSpec

-----------------------------------------------------------------------------
(***************************************************************************)
(* Checkout: what holds while no call was overtaken.                       *)
(***************************************************************************)
\* What holds of the records until a call is overtaken: an approval serves one
\* sale; stock, debt and points are what the sales say.
UsedOnce(q) ==
    \A d \in DOMAIN q : q[d].uses = IF q[d].status = "APPLIED" THEN 1 ELSE 0

VoidedWholesale(x) == x.status = "VOIDED" /\ x.type = "WHOLESALE"
StockIs(q, h) ==
    \/ \E s \in DOMAIN q : VoidedWholesale(q[s])
    \/ h + Cardinality(CompletedIn(q)) = TillStock

DuesRight(q) == \A s \in DOMAIN q : q[s].due = q[s].total - q[s].paid

DebtIs(q, c, l) == l.stray \/ c.outstanding = l.noted + SeqSum(DueOf, q)

DueNow(x) == x.invoice \in {"DUE_NOW", "VOIDED"}
DebtLimited(q, c, l) ==
    l.stray \/ l.noteMade \/ (\E s \in DOMAIN q : DueNow(q[s])) \/ c.outstanding <= Limit

PointsAre(q, c, l) ==
    l.voided \/ c.points = SeqSum(EarnedBy, q) + l.adjusted - SumFunction(l.redeemed)

CreditIs(c, l) ==
    c.credit = SumFunction(l.redeemed) /\ \A k \in Redemptions : l.redeemed[k] <= 1

SalesFollowed(q, h, c, l) ==
    /\ StockIs(q, h) /\ DuesRight(q)
    /\ DebtIs(q, c, l) /\ DebtLimited(q, c, l) /\ PointsAre(q, c, l)

TillOrderly ==
    /\ claims <= 1
    /\ UsedOnce(discounts)
    /\ SalesFollowed(sales, onHand, customer, ledger)
    /\ CreditIs(customer, ledger)

\* The sales after one is added: what it is worth.
LEMMA SumsAdded ==
    ASSUME NEW q, NEW m, NEW n, Extended(Sales, q, m, n)
    PROVE  /\ SeqSum(DueOf, m) = SeqSum(DueOf, q) + DueOf[m[n]]
           /\ SeqSum(EarnedBy, m) = SeqSum(EarnedBy, q) + m[n].earned
           /\ SeqSum(DueOf, q) \in Int /\ SeqSum(EarnedBy, q) \in Int
           /\ m[n] \in Sales
<1>1. q \in Seq(Sales) /\ m \in Seq(Sales) /\ n \in DOMAIN m
  BY DEF Extended
<1>2. m[n] \in Sales
  BY <1>1, SequenceDomain
<1>3. EarnedBy[m[n]] = m[n].earned
  BY <1>2 DEF EarnedBy
<1>4. /\ SeqSum(DueOf, m) = SeqSum(DueOf, q) + DueOf[m[n]]
      /\ SeqSum(EarnedBy, m) = SeqSum(EarnedBy, q) + EarnedBy[m[n]]
  BY SaleNumbers, SeqSumAppend
<1>5. SeqSum(DueOf, q) \in Int /\ SeqSum(EarnedBy, q) \in Int
  BY <1>1, SaleNumbers, SeqSumInt
<1>6. QED
  BY <1>2, <1>3, <1>4, <1>5

LEMMA SumsReplaced ==
    ASSUME NEW q, NEW m, NEW n, Replaced(Sales, q, m, n)
    PROVE  /\ SeqSum(DueOf, m) = SeqSum(DueOf, q) + (DueOf[m[n]] - DueOf[q[n]])
           /\ SeqSum(EarnedBy, m) = SeqSum(EarnedBy, q) + (m[n].earned - q[n].earned)
           /\ SeqSum(DueOf, q) \in Int /\ SeqSum(EarnedBy, q) \in Int
           /\ q[n] \in Sales /\ m[n] \in Sales
<1>1. q \in Seq(Sales) /\ m \in Seq(Sales) /\ n \in DOMAIN m /\ n \in DOMAIN q
  BY DEF Replaced
<1>2. q[n] \in Sales /\ m[n] \in Sales
  BY <1>1, SequenceDomain
<1>3. EarnedBy[m[n]] = m[n].earned /\ EarnedBy[q[n]] = q[n].earned
  BY <1>2 DEF EarnedBy
<1>4. /\ SeqSum(DueOf, m) = SeqSum(DueOf, q) + (DueOf[m[n]] - DueOf[q[n]])
      /\ SeqSum(EarnedBy, m) = SeqSum(EarnedBy, q) + (EarnedBy[m[n]] - EarnedBy[q[n]])
  BY SaleNumbers, SeqSumSet
<1>5. SeqSum(DueOf, q) \in Int /\ SeqSum(EarnedBy, q) \in Int
  BY <1>1, SaleNumbers, SeqSumInt
<1>6. QED
  BY <1>2, <1>3, <1>4, <1>5

LEMMA RedeemedTyped ==
    ASSUME NEW l \in Ledgers
    PROVE  SumFunction(l.redeemed) \in Nat
BY RedemptionsAssumption, LedgerTyped, TotalNat

\* One more sale: h, c and l become i, d and k.
LEMMA FollowsAdded ==
    ASSUME NEW q, NEW m, NEW n, Extended(Sales, q, m, n), NEW x \in Sales, x = m[n],
           NEW h \in Nat, NEW i \in Nat, i = h - One(x),
           NEW c \in Customers, NEW d \in Customers, NEW l \in Ledgers,
           d.outstanding = c.outstanding + DueOf[x], d.points = c.points + x.earned,
           x.due = x.total - x.paid,
           DueNow(x) \/ DueOf[x] = 0 \/ d.outstanding <= Limit,
           SalesFollowed(q, h, c, l)
    PROVE  SalesFollowed(m, i, d, l)
<1>1. /\ DOMAIN m = DOMAIN q \cup {n} /\ (\A s \in DOMAIN q : m[s] = q[s]) /\ n \notin DOMAIN q
  BY DEF Extended
<1>2. StockIs(m, i)
  <2>1. PICK a, b : a = Cardinality(CompletedIn(q)) /\ b = Cardinality(CompletedIn(m))
    OBVIOUS
  <2>2. a \in Nat /\ b = a + One(x) /\ One(x) \in Nat
    BY <2>1, CompletedAdded DEF One
  <2>3. CASE \E s \in DOMAIN q : VoidedWholesale(q[s])
    BY <1>1, <2>3 DEF StockIs
  <2>4. CASE h + a = TillStock
    <3>1. i + b = TillStock
      <4>1. PICK y : y = One(x) /\ i = h - y /\ b = a + y /\ y \in Nat
        BY <2>2
      <4>2. a \in Nat /\ h \in Nat /\ i \in Nat
        BY <2>2
      <4>3. QED
        BY ONLY <2>4, <4>1, <4>2
    <3>2. QED
      BY <2>1, <3>1 DEF StockIs
  <2>5. QED
    BY <2>1, <2>3, <2>4 DEF SalesFollowed, StockIs
<1>3. DuesRight(m)
  BY <1>1 DEF DuesRight, SalesFollowed
<1>4. PICK e, f, g, t : /\ e = SeqSum(DueOf, q) /\ f = SeqSum(EarnedBy, q)
                        /\ g = DueOf[x] /\ t = SumFunction(l.redeemed)
  OBVIOUS
<1>5. /\ SeqSum(DueOf, m) = e + g /\ SeqSum(EarnedBy, m) = f + x.earned
      /\ e \in Int /\ f \in Int /\ g \in Int /\ t \in Nat /\ x.earned \in Nat
  BY <1>4, SumsAdded, SaleNumbers, RedeemedTyped, SaleTyped
<1>6. /\ c.outstanding \in Nat /\ c.points \in Int /\ l.noted \in Int /\ l.adjusted \in Int
      /\ Limit \in Nat
  BY CustomerTyped, LedgerTyped, TillConstants
<1>7. DebtIs(m, d, l)
  <2>1. CASE c.outstanding = l.noted + e
    BY <1>4, <1>5, <1>6, <2>1 DEF DebtIs
  <2>2. QED
    BY <1>4, <2>1 DEF SalesFollowed, DebtIs
<1>8. DebtLimited(m, d, l)
  <2>1. CASE \E s \in DOMAIN q : DueNow(q[s])
    BY <1>1, <2>1 DEF DebtLimited
  <2>2. CASE DueNow(x)
    BY <1>1, <2>2 DEF DebtLimited
  <2>3. CASE DueOf[x] = 0 /\ c.outstanding <= Limit
    BY <1>6, <2>3 DEF DebtLimited
  <2>4. CASE d.outstanding <= Limit
    BY <2>4 DEF DebtLimited
  <2>5. QED
    BY <2>1, <2>2, <2>3, <2>4 DEF SalesFollowed, DebtLimited
<1>9. PointsAre(m, d, l)
  <2>1. CASE c.points = f + l.adjusted - t
    BY <1>4, <1>5, <1>6, <2>1 DEF PointsAre
  <2>2. QED
    BY <1>4, <2>1 DEF SalesFollowed, PointsAre
<1>10. QED
  BY <1>2, <1>3, <1>7, <1>8, <1>9 DEF SalesFollowed

\* Sale x becomes y, and stock h becomes i.
SaleMoves(x, y, h, i) ==
    /\ x \in Sales /\ y \in Sales /\ h \in Nat /\ i \in Nat
    /\ y.type = x.type /\ y.earned = x.earned /\ y.due = y.total - y.paid
    /\ DueNow(x) => DueNow(y)
    /\ VoidedWholesale(x) => VoidedWholesale(y)
    /\ y.status = "COMPLETED" => x.status = "COMPLETED"
    /\ VoidedWholesale(y) \/ i = h + (One(x) - One(y))

\* With it customer c becomes d, and ledger l becomes k.
AccountMoves(x, y, c, d, l, k) ==
    /\ c \in Customers /\ d \in Customers /\ l \in Ledgers /\ k \in Ledgers
    /\ d.outstanding <= c.outstanding
    /\ l.stray => k.stray
    /\ l.noteMade => k.noteMade
    /\ l.voided => k.voided
    /\ k.stray \/ d.outstanding - c.outstanding = (k.noted - l.noted) + (DueOf[y] - DueOf[x])
    /\ k.voided \/ d.points = c.points
    /\ k.adjusted = l.adjusted /\ k.redeemed = l.redeemed

LEMMA FollowsReplaced ==
    ASSUME NEW q, NEW m, NEW n, Replaced(Sales, q, m, n), NEW x, x = q[n], NEW y, y = m[n],
           NEW h, NEW i, SaleMoves(x, y, h, i),
           NEW c, NEW d, NEW l, NEW k, AccountMoves(x, y, c, d, l, k),
           SalesFollowed(q, h, c, l)
    PROVE  SalesFollowed(m, i, d, k)
<1> SUFFICES
      ASSUME x \in Sales, y \in Sales, h \in Nat, i \in Nat,
             y.type = x.type, y.earned = x.earned, y.due = y.total - y.paid,
             DueNow(x) => DueNow(y), VoidedWholesale(x) => VoidedWholesale(y),
             y.status = "COMPLETED" => x.status = "COMPLETED",
             VoidedWholesale(y) \/ i = h + (One(x) - One(y)),
             c \in Customers, d \in Customers, l \in Ledgers, k \in Ledgers,
             d.outstanding <= c.outstanding,
             l.stray => k.stray, l.noteMade => k.noteMade, l.voided => k.voided,
             k.stray \/ d.outstanding - c.outstanding
                          = (k.noted - l.noted) + (DueOf[y] - DueOf[x]),
             k.voided \/ d.points = c.points,
             k.adjusted = l.adjusted, k.redeemed = l.redeemed
      PROVE  SalesFollowed(m, i, d, k)
  BY DEF SaleMoves, AccountMoves
<1>1. /\ DOMAIN m = DOMAIN q /\ (\A s \in DOMAIN q : s # n => m[s] = q[s]) /\ n \in DOMAIN q
  BY DEF Replaced
<1>2. StockIs(m, i)
  <2>1. PICK a, b : a = Cardinality(CompletedIn(q)) /\ b = Cardinality(CompletedIn(m))
    OBVIOUS
  <2>2. /\ a \in Nat /\ b = a - (One(x) - One(y)) /\ One(x) \in Nat /\ One(y) \in Nat
    BY <2>1, CompletedReplaced DEF One
  <2>3. CASE \E s \in DOMAIN q : VoidedWholesale(q[s])
    <3>1. PICK s \in DOMAIN q : VoidedWholesale(q[s])
      BY <2>3
    <3>2. VoidedWholesale(m[s]) /\ s \in DOMAIN m
      BY <1>1, <3>1
    <3>3. QED
      BY <3>2 DEF StockIs
  <2>4. CASE VoidedWholesale(y)
    BY <1>1, <2>4 DEF StockIs
  <2>5. CASE h + a = TillStock /\ i = h + (One(x) - One(y))
    <3>1. i + b = TillStock
      BY <2>2, <2>5, TillConstants
    <3>2. QED
      BY <2>1, <3>1 DEF StockIs
  <2>6. QED
    BY <2>1, <2>3, <2>4, <2>5 DEF SalesFollowed, StockIs
<1>3. DuesRight(m)
  BY <1>1 DEF DuesRight, SalesFollowed
<1>4. PICK e, f, g, j, t : /\ e = SeqSum(DueOf, q) /\ f = SeqSum(EarnedBy, q)
                           /\ g = DueOf[x] /\ j = DueOf[y] /\ t = SumFunction(l.redeemed)
  OBVIOUS
<1>5. /\ SeqSum(DueOf, m) = e + (j - g) /\ SeqSum(EarnedBy, m) = f
      /\ e \in Int /\ f \in Int /\ g \in Int /\ j \in Int /\ t \in Nat
  <2>1. x.earned \in Nat
    BY SaleTyped
  <2>2. SeqSum(EarnedBy, m) = f + (y.earned - x.earned) /\ f \in Int
    BY <1>4, SumsReplaced
  <2>3. SeqSum(EarnedBy, m) = f
    BY <2>1, <2>2
  <2>4. SeqSum(DueOf, m) = e + (j - g) /\ e \in Int
    BY <1>4, SumsReplaced
  <2>5. g \in Int /\ j \in Int /\ t \in Nat
    BY <1>4, SaleNumbers, RedeemedTyped
  <2>6. QED
    BY <2>2, <2>3, <2>4, <2>5
<1>6. PICK o \in Nat, u \in Nat, v \in Int, w \in Int :
             o = c.outstanding /\ u = d.outstanding /\ v = l.noted /\ w = k.noted
  BY CustomerTyped, LedgerTyped
<1>7. DebtIs(m, d, k)
  <2>1. CASE o = v + e /\ u - o = (w - v) + (j - g)
    <3>1. u = w + (e + (j - g))
      <4>1. o \in Nat /\ u \in Nat /\ v \in Int /\ w \in Int
        OBVIOUS
      <4>2. e \in Int /\ g \in Int /\ j \in Int
        BY <1>5
      <4>3. QED
        BY ONLY <2>1, <4>1, <4>2
    <3>2. QED
      BY <1>4, <1>5, <1>6, <3>1 DEF DebtIs
  <2>2. CASE ~k.stray
    <3>1. o = v + e
      BY <1>4, <1>6, <2>2 DEF SalesFollowed, DebtIs
    <3>2. QED
      BY <1>4, <1>6, <2>1, <2>2, <3>1
  <2>3. QED
    BY <2>2 DEF DebtIs
<1>8. DebtLimited(m, d, k)
  <2>1. CASE \E s \in DOMAIN q : DueNow(q[s])
    <3>1. PICK s \in DOMAIN q : DueNow(q[s])
      BY <2>1
    <3>2. DueNow(m[s]) /\ s \in DOMAIN m
      BY <1>1, <3>1
    <3>3. QED
      BY <3>2 DEF DebtLimited
  <2>2. CASE o <= Limit
    <3>1. u <= Limit
      BY <1>6, <2>2, TillConstants
    <3>2. QED
      BY <1>6, <3>1 DEF DebtLimited
  <2>3. QED
    BY <1>6, <2>1, <2>2 DEF SalesFollowed, DebtLimited
<1>9. PointsAre(m, d, k)
  BY <1>4, <1>5 DEF SalesFollowed, PointsAre
<1>10. QED
  BY <1>2, <1>3, <1>7, <1>8, <1>9 DEF SalesFollowed

-----------------------------------------------------------------------------
(***************************************************************************)
(* Checkout: requests, checkouts and suspended sales keep it.              *)
(***************************************************************************)
LEMMA OrderlyDiscounts ==
    ASSUME TillCore, TillOrderly, NEW p, TillPlanOK(p), TillFresh(p),
           CreateDiscountRequest(p) \/ ApproveDiscountRequest(p) \/ RejectDiscountRequest(p)
    PROVE  TillOrderly'
<1>1. UNCHANGED <<sales, onHand, customer, claims, ledger>>
  BY DEF CreateDiscountRequest, ApproveDiscountRequest, RejectDiscountRequest, ReviewDiscount
<1>2. PICK q, m : q = discounts /\ m = discounts' /\ UsedOnce(q)
  BY DEF TillOrderly
<1>3. UsedOnce(m)
  <2>1. CASE CreateDiscountRequest(p)
    <3>1. PICK n : Extended(Discounts, q, m, n) /\ m[n] = [status |-> "PENDING", uses |-> 0]
      BY <1>2, <2>1, DiscountRequested
    <3>2. QED
      BY <1>2, <3>1 DEF Extended, UsedOnce
  <2>2. ASSUME NEW st \in {"APPROVED", "REJECTED"}, ReviewDiscount(p.discount, st),
               p.op \in {"approveDiscount", "rejectDiscount"}
        PROVE  UsedOnce(m)
    <3>1. PICK d : d = p.discount
      OBVIOUS
    <3>2. d \in DOMAIN discounts /\ discounts[d].status = "PENDING"
      BY <2>2, <3>1 DEF TillPlanOK, TillFresh
    <3>3. Replaced(Discounts, q, m, d) /\ m[d].status = st /\ m[d].uses = q[d].uses
      BY <1>2, <2>2, <3>1, <3>2, DiscountReviewed
    <3>4. m[d].uses = 0 /\ m[d].status # "APPLIED"
      BY <1>2, <3>2, <3>3 DEF UsedOnce
    <3>5. QED
      BY <1>2, <3>3, <3>4 DEF Replaced, UsedOnce
  <2>3. QED
    BY <2>1, <2>2 DEF ApproveDiscountRequest, RejectDiscountRequest
<1>4. QED
  BY <1>1, <1>2, <1>3 DEF TillOrderly

LEMMA OrderlyCheckout ==
    ASSUME TillCore, TillOrderly, NEW p, TillPlanOK(p), TillFresh(p), Checkout(p)
    PROVE  TillOrderly'
<1>1. PICK n, x, a, e : /\ n = Len(sales) + 1 /\ x = SoldSale(p) /\ a = Paid(p)
                        /\ e = p.total - Paid(p)
  OBVIOUS
<1>2. /\ Extended(Sales, sales, sales', n) /\ sales'[n] = x
      /\ Applied(discounts, discounts', p.discount)
      /\ Wrote(customer, customer', customer.outstanding + e,
               IF a > 0 THEN p.points + a ELSE customer.points, customer.credit)
      /\ TillKept
  BY <1>1, CheckedOut
<1>3. p.op = "checkout" /\ p.points = customer.points
  BY DEF Checkout, TillFresh
<1>4. /\ x \in Sales /\ a \in Nat /\ e \in Nat /\ p.receipt \in {0, 1}
      /\ x.status = "COMPLETED" /\ x.due = e /\ x.paid = a /\ x.total = p.total /\ x.earned = a
  BY <1>1, <1>3, SoldSaleIs
<1>5. DueOf[x] = e /\ One(x) = 1 /\ x.due = x.total - x.paid
  BY <1>1, <1>4 DEF DueOf, Carries, One
<1>6. PICK h \in Nat, i \in Nat : h = onHand /\ i = onHand' /\ i = h - 1
  BY <1>2, TillTypes DEF Checkout, TillKept, TillCore, TillTyped
<1>7. PICK c, d : /\ c = customer /\ d = customer' /\ c \in Customers /\ d \in Customers
                  /\ d.outstanding = c.outstanding + e /\ d.credit = c.credit
                  /\ d.points = IF a > 0 THEN c.points + a ELSE c.points
  BY <1>2, <1>3 DEF Wrote
<1>8. d.points = c.points + x.earned
  BY <1>4, <1>7, CustomerTyped
<1>9. DueOf[x] = 0 \/ d.outstanding <= Limit
  <2>1. e = 0 \/ e <= Limit - c.outstanding
    BY <1>1, <1>3, <1>7 DEF TillFresh, WithinCredit
  <2>2. PICK o \in Nat : o = c.outstanding
    BY <1>7, CustomerTyped
  <2>3. e = 0 \/ o + e <= Limit
    <3>1. e \in Nat /\ Limit \in Nat /\ (e = 0 \/ e <= Limit - o)
      BY <1>4, <2>1, <2>2, TillConstants
    <3>2. QED
      BY ONLY <2>2, <3>1
  <2>4. QED
    BY <1>5, <1>7, <2>2, <2>3
<1>10. ledger' = ledger /\ ledger \in Ledgers
  BY TillTypes DEF Checkout
<1>11. SalesFollowed(sales, h, c, ledger)
  BY <1>6, <1>7 DEF TillOrderly
<1>12. SalesFollowed(sales', i, d, ledger)
  <2>1. PICK q, m, l : q = sales /\ m = sales' /\ l = ledger
    OBVIOUS
  <2>2. /\ Extended(Sales, q, m, n) /\ x \in Sales /\ x = m[n] /\ i = h - One(x)
        /\ d.outstanding = c.outstanding + DueOf[x] /\ l \in Ledgers
        /\ SalesFollowed(q, h, c, l)
    BY <1>2, <1>4, <1>5, <1>6, <1>7, <1>10, <1>11, <2>1
  <2>3. SalesFollowed(m, i, d, l)
    BY <1>5, <1>7, <1>8, <1>9, <2>2, FollowsAdded
  <2>4. QED
    BY <2>1, <2>3
<1>13. claims' <= 1
  <2>1. claims \in Nat /\ claims <= 1 /\ claims' = claims + p.receipt
        /\ (p.receipt = 1 => claims = 0)
    BY <1>3, TillTypes DEF TillOrderly, Checkout, TillFresh
  <2>2. QED
    BY <1>4, <2>1
<1>14. UsedOnce(discounts')
  <2>1. PICK q, m, k : q = discounts /\ m = discounts' /\ k = p.discount
    OBVIOUS
  <2>2. UsedOnce(q) /\ Applied(q, m, k) /\ (k \in DOMAIN q => q[k].status = "APPROVED")
    BY <1>2, <1>3, <2>1 DEF TillOrderly, TillFresh
  <2>3. QED
    BY <2>1, <2>2 DEF UsedOnce, Applied
<1>15. CreditIs(d, ledger)
  BY <1>7 DEF TillOrderly, CreditIs
<1>16. QED
  BY <1>6, <1>7, <1>10, <1>12, <1>13, <1>14, <1>15 DEF TillOrderly

\* A suspended sale, with an invoice or without.
LEMMA OrderlySuspended ==
    ASSUME TillCore, TillOrderly, NEW p, TillPlanOK(p), TillFresh(p),
           SuspendSale(p) \/ CreateManualInvoice(p)
    PROVE  TillOrderly'
<1>1. PICK n, j, b : /\ n = Len(sales) + 1
                     /\ j = IF p.op = "suspend" THEN "none" ELSE p.invoice
                     /\ b = IF j \in Receivable THEN Price ELSE 0
  OBVIOUS
<1>2. /\ j \in Invoices /\ Extended(Sales, sales, sales', n) /\ sales'[n] = SuspendedSale(j)
      /\ TillKept
  <2>1. CASE SuspendSale(p)
    <3>1. p.op = "suspend" /\ j = "none"
      BY <1>1, <2>1 DEF SuspendSale
    <3>2. QED
      BY <1>1, <2>1, <3>1, SaleSuspended DEF Invoices
  <2>2. CASE CreateManualInvoice(p)
    <3>1. j = p.invoice
      BY <1>1, <2>2 DEF CreateManualInvoice
    <3>2. QED
      BY <1>1, <2>2, <3>1, Invoiced
  <2>3. QED
    BY <2>1, <2>2
<1>3. b \in Nat
  BY <1>1, TillConstants
<1>4. Wrote(customer, customer', customer.outstanding + b, customer.points, customer.credit)
  <2>1. CASE SuspendSale(p)
    <3>1. customer' = customer /\ b = 0
      BY <1>1, <2>1 DEF SuspendSale, Receivable
    <3>2. customer.outstanding + 0 = customer.outstanding
      BY TillTypes, CustomerTyped
    <3>3. QED
      BY <3>1, <3>2, TillTypes DEF Wrote
  <2>2. CASE CreateManualInvoice(p)
    <3>1. Posted(b)
      BY <1>1, <2>2, Invoiced DEF CreateManualInvoice
    <3>2. Forgiven(b) = 0
      BY <1>3, TillTypes, OwedIs
    <3>3. customer.outstanding + b + Forgiven(b) = customer.outstanding + b
      BY <1>3, <3>2, TillTypes, CustomerTyped
    <3>4. QED
      BY <3>1, <3>3 DEF Posted
  <2>3. QED
    BY <2>1, <2>2
<1>5. PICK x : x = SuspendedSale(j)
  OBVIOUS
<1>6. /\ x \in Sales /\ x.status = "SUSPENDED" /\ x.due = Price /\ x.paid = 0 /\ x.total = Price
      /\ x.invoice = j /\ x.earned = 0
  BY <1>2, <1>5, SuspendedSaleIs
<1>7. DueOf[x] = b /\ One(x) = 0 /\ x.due = x.total - x.paid
  BY <1>1, <1>6, TillConstants DEF DueOf, Carries, One
<1>8. PICK h \in Nat : h = onHand /\ onHand' = onHand
  BY TillTypes DEF SuspendSale, CreateManualInvoice
<1>9. PICK c, d : /\ c = customer /\ d = customer' /\ c \in Customers /\ d \in Customers
                  /\ d.outstanding = c.outstanding + b /\ d.credit = c.credit
                  /\ d.points = c.points
  BY <1>4 DEF Wrote
<1>10. DueNow(x) \/ DueOf[x] = 0 \/ d.outstanding <= Limit
  <2>1. CASE j \notin Receivable \/ j = "DUE_NOW"
    BY <1>1, <1>6, <1>7, <2>1 DEF DueNow
  <2>2. CASE j = "DEFERRED"
    <3>1. p.op = "invoice" /\ b = Price
      BY <1>1, <2>2 DEF SuspendSale, CreateManualInvoice, Receivable
    <3>2. b = 0 \/ b <= Limit - c.outstanding
      BY <1>1, <1>9, <2>2, <3>1 DEF TillFresh, WithinCredit
    <3>3. PICK o \in Nat : o = c.outstanding
      BY <1>9, CustomerTyped
    <3>4. QED
      BY <1>3, <1>7, <1>9, <3>2, <3>3, TillConstants
  <2>3. QED
    BY <2>1, <2>2 DEF Receivable
<1>11. UNCHANGED <<claims, discounts, ledger>> /\ ledger \in Ledgers
  BY TillTypes DEF SuspendSale, CreateManualInvoice
<1>12. SalesFollowed(sales', h, d, ledger)
  <2>1. PICK q, m, l : q = sales /\ m = sales' /\ l = ledger
    OBVIOUS
  <2>2. /\ Extended(Sales, q, m, n) /\ x = m[n] /\ h = h - One(x)
        /\ l \in Ledgers /\ SalesFollowed(q, h, c, l)
    BY <1>2, <1>5, <1>7, <1>8, <1>9, <1>11, <2>1 DEF TillOrderly
  <2>3. d.points = c.points + x.earned
    BY <1>6, <1>9, CustomerTyped
  <2>4. SalesFollowed(m, h, d, l)
    BY <1>6, <1>7, <1>9, <1>10, <2>2, <2>3, FollowsAdded
  <2>5. QED
    BY <2>1, <2>4
<1>13. CreditIs(d, ledger)
  BY <1>9 DEF TillOrderly, CreditIs
<1>14. QED
  BY <1>8, <1>9, <1>11, <1>12, <1>13 DEF TillOrderly

-----------------------------------------------------------------------------
(***************************************************************************)
(* Checkout: so do discarding, voiding and paying.                         *)
(***************************************************************************)
LEMMA OrderlyDiscarded ==
    ASSUME TillCore, TillOrderly, NEW p, TillPlanOK(p), TillFresh(p), DeleteSuspendedSale(p)
    PROVE  TillOrderly'
<1>1. PICK n, x, y : n = p.sale /\ x = sales[n] /\ y = sales'[n]
  OBVIOUS
<1>2. /\ Replaced(Sales, sales, sales', n) /\ Ended(x, y, "CANCELLED", x.invoice)
      /\ x.status = "SUSPENDED"
  BY <1>1, SaleDiscarded DEF DeleteSuspendedSale, TillFresh
<1>3. UNCHANGED <<onHand, customer, discounts, claims, ledger>>
  BY DEF DeleteSuspendedSale
<1>4. PICK q, m, h, c, l : /\ q = sales /\ m = sales' /\ h = onHand /\ c = customer /\ l = ledger
                           /\ h \in Nat /\ c \in Customers /\ l \in Ledgers
                           /\ SalesFollowed(q, h, c, l)
  BY TillTypes DEF TillOrderly
<1>5. /\ x \in Sales /\ y \in Sales /\ y.type = x.type /\ y.earned = x.earned
      /\ y.due = x.due /\ y.total = x.total /\ y.paid = x.paid
      /\ y.status = "CANCELLED" /\ y.invoice = x.invoice
  BY <1>2 DEF Ended
<1>6. /\ y.due = y.total - y.paid
      /\ DueNow(x) => DueNow(y)
      /\ ~VoidedWholesale(x)
      /\ One(x) = 0 /\ One(y) = 0
  <2>1. x.due = x.total - x.paid
    BY <1>1, <1>2, <1>4 DEF SalesFollowed, DuesRight, Replaced
  <2>2. QED
    BY <1>2, <1>5, <2>1 DEF DueNow, VoidedWholesale, One
<1>7. DueOf[x] = DueOf[y]
  BY <1>2, <1>5 DEF DueOf, Carries
<1>8. DueOf[x] \in Int
  BY <1>5, SaleNumbers
<1>9. /\ h = h + (One(x) - One(y)) /\ c.outstanding <= c.outstanding
      /\ c.outstanding - c.outstanding = (l.noted - l.noted) + (DueOf[y] - DueOf[x])
  <2>1. c.outstanding \in Nat /\ l.noted \in Int
    BY <1>4, CustomerTyped, LedgerTyped
  <2>2. QED
    BY <1>4, <1>6, <1>7, <1>8, <2>1
<1>10. Replaced(Sales, q, m, n) /\ x = q[n] /\ y = m[n]
  BY <1>1, <1>2, <1>4
<1>11. SaleMoves(x, y, h, h)
  BY <1>4, <1>5, <1>6, <1>9 DEF SaleMoves
<1>12. AccountMoves(x, y, c, c, l, l)
  BY <1>4, <1>9 DEF AccountMoves
<1>13. SalesFollowed(m, h, c, l)
  BY <1>4, <1>10, <1>11, <1>12, FollowsReplaced
<1>14. QED
  BY <1>3, <1>4, <1>13 DEF TillOrderly

LEMMA OrderlyVoided ==
    ASSUME TillCore, TillOrderly, NEW p, TillPlanOK(p), TillFresh(p), CancelSale(p)
    PROVE  TillOrderly'
<1>1. PICK n, x, y, a, f :
             n = p.sale /\ x = sales[n] /\ y = sales'[n] /\ a = p.due /\ f = Forgiven(-p.due)
  OBVIOUS
<1>2. PICK q, m, h, i, c, d, l, k :
             /\ q = sales /\ m = sales' /\ h = onHand /\ i = onHand'
             /\ c = customer /\ d = customer' /\ l = ledger /\ k = ledger'
  OBVIOUS
<1>3. /\ Replaced(Sales, q, m, n) /\ Ended(x, y, "VOIDED", VoidedInvoice(x)) /\ a \in Nat
      /\ Wrote(c, d, c.outstanding + (-a) + f, c.points - p.paid, c.credit)
      /\ Noted(l, k, f, l.stray \/ (a > 0 /\ ~Charged(n)))
      /\ k.voided /\ TillKept
  BY <1>1, <1>2, SaleVoided
<1>4. /\ x.status \in {"COMPLETED", "SUSPENDED"} /\ a = x.due
      /\ (p.restores <=> x.type # "WHOLESALE" /\ x.status = "COMPLETED")
      /\ x = q[n] /\ y = m[n]
  BY <1>1, <1>2 DEF CancelSale, TillFresh
<1>5. SalesFollowed(q, h, c, l) /\ h \in Nat /\ i \in Nat /\ c \in Customers /\ l \in Ledgers
      /\ CreditIs(c, l)
  BY <1>2, <1>3, TillTypes DEF TillOrderly, TillKept, TillCore, TillTyped
<1>6. /\ x \in Sales /\ y \in Sales /\ y.type = x.type /\ y.earned = x.earned
      /\ y.due = x.due /\ y.total = x.total /\ y.paid = x.paid
      /\ y.status = "VOIDED" /\ y.invoice = VoidedInvoice(x)
  BY <1>3 DEF Ended
<1>7. y.due = y.total - y.paid
  BY <1>3, <1>4, <1>5, <1>6 DEF SalesFollowed, DuesRight, Replaced
<1>8. /\ DueNow(x) => DueNow(y)
      /\ ~VoidedWholesale(x) /\ One(y) = 0 /\ DueOf[y] = 0
  BY <1>4, <1>6 DEF DueNow, VoidedWholesale, One, VoidedInvoice, DueOf, Carries
<1>9. VoidedWholesale(y) \/ i = h + (One(x) - One(y))
  <2>1. i = h + IF p.restores THEN 1 ELSE 0
    BY <1>2 DEF CancelSale
  <2>2. CASE x.type = "WHOLESALE"
    BY <1>6, <2>2 DEF VoidedWholesale
  <2>3. CASE x.type # "WHOLESALE"
    <3>1. One(x) = IF p.restores THEN 1 ELSE 0
      BY <1>4, <2>3 DEF One
    <3>2. QED
      BY <1>5, <1>8, <2>1, <3>1
  <2>4. QED
    BY <2>2, <2>3
<1>10. /\ d \in Customers /\ k \in Ledgers /\ d.outstanding = c.outstanding + (-a) + f
       /\ d.credit = c.credit
       /\ k.redeemed = l.redeemed /\ k.adjusted = l.adjusted /\ k.noted = l.noted + f
       /\ k.stray = (l.stray \/ (a > 0 /\ ~Charged(n)))
  BY <1>3 DEF Wrote, Noted
<1>11. /\ f \in Nat /\ d.outstanding <= c.outstanding
  <2>1. -a \in Int /\ -a <= 0
    BY <1>3
  <2>2. Owed(-a) <= c.outstanding /\ Owed(-a) = c.outstanding + (-a) + f /\ f \in Nat
    BY <1>1, <1>2, <1>5, <2>1, OwedIs
  <2>3. QED
    BY <1>10, <2>2
<1>12. Charged(n) <=> Carries(x)
  BY <1>1 DEF Charged, Carries
<1>13. k.stray \/ d.outstanding - c.outstanding = (k.noted - l.noted) + (DueOf[y] - DueOf[x])
  <2>1. CASE ~k.stray
    <3>1. DueOf[x] = a
      <4>1. a = 0 \/ Carries(x)
        <5>1. ~(a > 0 /\ ~Charged(n))
          BY ONLY <1>10, <2>1, Zenon
        <5>2. a > 0 => Carries(x)
          BY <1>12, <5>1
        <5>3. a > 0 \/ a = 0
          BY <1>3
        <5>4. QED
          BY <5>2, <5>3
      <4>2. DueOf[x] = IF Carries(x) THEN a ELSE 0
        BY <1>4, <1>6 DEF DueOf
      <4>3. QED
        BY <4>1, <4>2
    <3>2. c.outstanding \in Nat /\ l.noted \in Int
      BY <1>5, CustomerTyped, LedgerTyped
    <3>3. QED
      BY <1>3, <1>8, <1>10, <1>11, <3>1, <3>2
  <2>2. QED
    BY <2>1
<1>14. l.noteMade => k.noteMade
  BY <1>2 DEF CancelSale
<1>15. SaleMoves(x, y, h, i)
  BY <1>5, <1>6, <1>7, <1>8, <1>9 DEF SaleMoves
<1>16. AccountMoves(x, y, c, d, l, k)
  BY <1>3, <1>5, <1>10, <1>11, <1>13, <1>14 DEF AccountMoves
<1>17. SalesFollowed(m, i, d, k)
  BY <1>3, <1>4, <1>5, <1>15, <1>16, FollowsReplaced
<1>18. CreditIs(d, k) /\ UNCHANGED <<discounts, claims>>
  BY <1>5, <1>10 DEF CreditIs, CancelSale
<1>19. QED
  BY <1>2, <1>17, <1>18 DEF TillOrderly

LEMMA OrderlyPaid ==
    ASSUME TillCore, TillOrderly, NEW p, TillPlanOK(p), TillFresh(p), PaySale(p)
    PROVE  TillOrderly'
<1>1. PICK n, x, y, f : n = p.sale /\ x = sales[n] /\ y = sales'[n] /\ f = Forgiven(-1)
  OBVIOUS
<1>2. PICK q, m, h, c, d, l, k :
             /\ q = sales /\ m = sales' /\ h = onHand
             /\ c = customer /\ d = customer' /\ l = ledger /\ k = ledger'
  OBVIOUS
<1>3. /\ Replaced(Sales, q, m, n) /\ PaidOn(x, y, p.paid + 1)
      /\ Wrote(c, d, c.outstanding + (-1) + f, c.points, c.credit)
      /\ Noted(l, k, f, l.stray \/ ~Charged(n))
      /\ k.noteMade = l.noteMade /\ k.voided = l.voided
  BY <1>1, <1>2, SalePaid DEF Posted
<1>4. x.due > 0 /\ p.paid = x.paid /\ x = q[n] /\ y = m[n]
  BY <1>1, <1>2 DEF PaySale, TillFresh
<1>5. /\ SalesFollowed(q, h, c, l) /\ h \in Nat /\ c \in Customers /\ l \in Ledgers
      /\ CreditIs(c, l)
  BY <1>2, TillTypes DEF TillOrderly
<1>6. /\ x \in Sales /\ y \in Sales /\ y.type = x.type /\ y.earned = x.earned
      /\ y.total = x.total /\ y.paid = x.paid + 1 /\ y.due = NotNegative(x.total - (x.paid + 1))
      /\ y.status = x.status /\ y.invoice = x.invoice
  BY <1>3, <1>4 DEF PaidOn
<1>7. y.due = y.total - y.paid /\ y.due = x.due - 1 /\ x.due \in Nat
  <2>1. PICK a, b, e : a = x.total /\ b = x.paid /\ e = x.due /\ e = a - b
    BY <1>3, <1>4, <1>5 DEF SalesFollowed, DuesRight, Replaced
  <2>2. a \in Nat /\ b \in Nat /\ e \in Nat /\ e > 0
    BY <1>4, <1>6, <2>1, SaleTyped
  <2>3. a - (b + 1) \in Int /\ a - (b + 1) >= 0 /\ a - (b + 1) = e - 1
    BY ONLY <2>1, <2>2
  <2>4. NotNegative(a - (b + 1)) = a - (b + 1)
    BY <2>3, CutOff
  <2>5. QED
    BY <1>6, <2>1, <2>2, <2>3, <2>4
<1>8. /\ DueNow(x) => DueNow(y)
      /\ VoidedWholesale(x) => VoidedWholesale(y)
      /\ One(y) = One(x) /\ One(x) \in Nat /\ (Carries(y) <=> Carries(x))
  BY <1>6 DEF DueNow, VoidedWholesale, One, Carries
<1>9. h = h + (One(x) - One(y))
  BY <1>5, <1>8
<1>10. /\ d \in Customers /\ k \in Ledgers /\ d.outstanding = c.outstanding + (-1) + f
       /\ d.credit = c.credit /\ d.points = c.points
       /\ k.redeemed = l.redeemed /\ k.adjusted = l.adjusted /\ k.noted = l.noted + f
       /\ k.stray = (l.stray \/ ~Charged(n))
  BY <1>3 DEF Wrote, Noted
<1>11. /\ f \in Nat /\ d.outstanding <= c.outstanding
  <2>1. Owed(-1) <= c.outstanding /\ Owed(-1) = c.outstanding + (-1) + f /\ f \in Nat
    BY <1>1, <1>2, <1>5, OwedIs
  <2>2. QED
    BY <1>10, <2>1
<1>12. Charged(n) <=> Carries(x)
  BY <1>1 DEF Charged, Carries
<1>13. k.stray \/ d.outstanding - c.outstanding = (k.noted - l.noted) + (DueOf[y] - DueOf[x])
  <2>1. CASE ~k.stray
    <3>1. DueOf[x] = x.due /\ DueOf[y] = x.due - 1
      BY <1>6, <1>7, <1>8, <1>10, <1>12, <2>1 DEF DueOf
    <3>2. c.outstanding \in Nat /\ l.noted \in Int
      BY <1>5, CustomerTyped, LedgerTyped
    <3>3. QED
      BY <1>7, <1>10, <1>11, <3>1, <3>2
  <2>2. QED
    BY <2>1
<1>14. SaleMoves(x, y, h, h)
  BY <1>5, <1>6, <1>7, <1>8, <1>9 DEF SaleMoves
<1>15. AccountMoves(x, y, c, d, l, k)
  BY <1>3, <1>5, <1>10, <1>11, <1>13 DEF AccountMoves
<1>16. SalesFollowed(m, h, d, k)
  BY <1>3, <1>4, <1>5, <1>14, <1>15, FollowsReplaced
<1>17. CreditIs(d, k) /\ UNCHANGED <<onHand, discounts, claims>>
  BY <1>5, <1>10 DEF CreditIs, PaySale
<1>18. QED
  BY <1>2, <1>16, <1>17 DEF TillOrderly

-----------------------------------------------------------------------------
(***************************************************************************)
(* Checkout: so do notes and points.                                       *)
(***************************************************************************)
LEMMA OrderlyNote ==
    ASSUME TillCore, TillOrderly, NEW p, TillPlanOK(p), CreateCreditDebitNote(p)
    PROVE  TillOrderly'
<1>1. PICK q, h, c, d, l, k :
             /\ q = sales /\ h = onHand
             /\ c = customer /\ d = customer' /\ l = ledger /\ k = ledger'
  OBVIOUS
<1>2. PICK b \in Int : b = p.by + Forgiven(p.by)
  <2>1. p.by \in Int /\ Forgiven(p.by) \in Nat
    BY TillTypes, NoteMade, OwedIs
  <2>2. QED
    BY <2>1
<1>3. /\ Wrote(c, d, c.outstanding + b, c.points, c.credit)
      /\ Noted(l, k, b, l.stray) /\ k.noteMade /\ k.voided = l.voided
  <2>1. p.by \in Int /\ Forgiven(p.by) \in Nat /\ c.outstanding \in Nat
    BY <1>1, TillTypes, NoteMade, OwedIs, CustomerTyped
  <2>2. c.outstanding + p.by + Forgiven(p.by) = c.outstanding + b
    BY <1>2, <2>1
  <2>3. QED
    BY <1>1, <1>2, <2>2, NoteMade DEF Posted
<1>4. /\ SalesFollowed(q, h, c, l) /\ CreditIs(c, l) /\ q \in Seq(Sales)
      /\ UNCHANGED <<sales, onHand, discounts, claims>>
  BY <1>1, TillTypes DEF TillOrderly, CreateCreditDebitNote
<1>5. /\ c \in Customers /\ l \in Ledgers
      /\ d.outstanding = c.outstanding + b /\ d.points = c.points /\ d.credit = c.credit
      /\ k.redeemed = l.redeemed /\ k.adjusted = l.adjusted /\ k.noted = l.noted + b
      /\ k.stray = l.stray
  BY <1>3 DEF Wrote, Noted
<1>6. DebtIs(q, d, k)
  <2>1. PICK e \in Int, o \in Nat, v \in Int :
               e = SeqSum(DueOf, q) /\ o = c.outstanding /\ v = l.noted
    BY <1>4, <1>5, SaleNumbers, SeqSumInt, CustomerTyped, LedgerTyped
  <2>2. o = v + e => o + b = (v + b) + e
    OBVIOUS
  <2>3. QED
    BY <1>4, <1>5, <2>1, <2>2 DEF SalesFollowed, DebtIs
<1>7. SalesFollowed(q, h, d, k) /\ CreditIs(d, k)
  BY <1>3, <1>4, <1>5, <1>6 DEF SalesFollowed, DebtLimited, PointsAre, CreditIs
<1>8. QED
  BY <1>1, <1>4, <1>7 DEF TillOrderly

LEMMA OrderlyRedeemed ==
    ASSUME TillCore, TillOrderly, NEW p, TillPlanOK(p), TillFresh(p), RedeemPoints(p)
    PROVE  TillOrderly'
<1>1. PICK q, h, c, d, l, k, r :
             /\ q = sales /\ h = onHand /\ r = p.key
             /\ c = customer /\ d = customer' /\ l = ledger /\ k = ledger'
  OBVIOUS
<1>2. /\ Wrote(c, d, c.outstanding, c.points - 1, c.credit + 1)
      /\ RedeemedMore(l, k, r) /\ l.redeemed[r] = 0
  BY <1>1, PointsRedeemed DEF RedeemPoints, TillFresh
<1>3. /\ SalesFollowed(q, h, c, l) /\ CreditIs(c, l) /\ q \in Seq(Sales)
      /\ UNCHANGED <<sales, onHand, discounts, claims>>
  BY <1>1, TillTypes DEF TillOrderly, RedeemPoints
<1>4. /\ c \in Customers /\ l \in Ledgers /\ k \in Ledgers /\ r \in Redemptions
      /\ d.outstanding = c.outstanding /\ d.points = c.points - 1 /\ d.credit = c.credit + 1
      /\ k.redeemed[r] = l.redeemed[r] + 1
      /\ \A s \in Redemptions \ {r} : k.redeemed[s] = l.redeemed[s]
      /\ k.adjusted = l.adjusted /\ k.noted = l.noted /\ k.noteMade = l.noteMade
      /\ k.voided = l.voided /\ k.stray = l.stray
  BY <1>2 DEF Wrote, RedeemedMore
<1>5. PICK f, g : f = l.redeemed /\ g = k.redeemed
  OBVIOUS
<1>6. f \in [Redemptions -> Nat] /\ g \in [Redemptions -> Nat]
  BY <1>4, <1>5, LedgerTyped
<1>7. PICK t \in Nat : t = SumFunction(f) /\ SumFunction(g) = t + 1
  <2>1. f \in [Redemptions -> Int] /\ g \in [Redemptions -> Int]
    BY <1>6
  <2>2. SumFunction(g) = SumFunction(f) + (g[r] - f[r])
    BY <1>4, <1>5, <2>1, RedemptionsAssumption, TotalUpdate
  <2>3. SumFunction(f) \in Nat /\ g[r] = f[r] + 1 /\ f[r] = 0
    BY <1>2, <1>4, <1>5, <1>6, RedemptionsAssumption, TotalNat
  <2>4. QED
    BY <2>2, <2>3
<1>8. CreditIs(d, k)
  <2>1. d.credit = SumFunction(g)
    BY <1>3, <1>4, <1>5, <1>7 DEF CreditIs
  <2>2. \A s \in Redemptions : g[s] <= 1
    BY <1>2, <1>3, <1>4, <1>5 DEF CreditIs
  <2>3. QED
    BY <1>5, <2>1, <2>2 DEF CreditIs
<1>9. PointsAre(q, d, k)
  <2>1. PICK e \in Int, n \in Int, v \in Int :
               e = SeqSum(EarnedBy, q) /\ n = c.points /\ v = l.adjusted
    BY <1>3, <1>4, SaleNumbers, SeqSumInt, CustomerTyped, LedgerTyped
  <2>2. n = e + v - t => n - 1 = e + v - (t + 1)
    OBVIOUS
  <2>3. QED
    BY <1>3, <1>4, <1>5, <1>7, <2>1, <2>2 DEF SalesFollowed, PointsAre
<1>10. SalesFollowed(q, h, d, k)
  BY <1>3, <1>4, <1>9 DEF SalesFollowed, DebtIs, DebtLimited
<1>11. QED
  BY <1>1, <1>3, <1>8, <1>10 DEF TillOrderly

LEMMA OrderlyAdjusted ==
    ASSUME TillCore, TillOrderly, NEW p, TillPlanOK(p), TillFresh(p), AdjustPoints(p)
    PROVE  TillOrderly'
<1>1. PICK q, h, c, d, l, k :
             /\ q = sales /\ h = onHand
             /\ c = customer /\ d = customer' /\ l = ledger /\ k = ledger'
  OBVIOUS
<1>2. p.points = c.points
  BY <1>1 DEF AdjustPoints, TillFresh
<1>3. PICK a \in Nat : /\ Wrote(c, d, c.outstanding, a, c.credit)
                       /\ k.adjusted = l.adjusted + a - c.points
  BY <1>1, <1>2, PointsAdjusted
<1>4. /\ k.redeemed = l.redeemed /\ k.noted = l.noted /\ k.noteMade = l.noteMade
      /\ k.voided = l.voided /\ k.stray = l.stray
  BY <1>1, PointsAdjusted
<1>5. /\ SalesFollowed(q, h, c, l) /\ CreditIs(c, l) /\ q \in Seq(Sales) /\ l \in Ledgers
      /\ UNCHANGED <<sales, onHand, discounts, claims>>
  BY <1>1, TillTypes DEF TillOrderly, AdjustPoints
<1>6. c \in Customers /\ d.outstanding = c.outstanding /\ d.points = a /\ d.credit = c.credit
  BY <1>3 DEF Wrote
<1>7. PointsAre(q, d, k)
  <2>1. PICK e \in Int, n \in Int, v \in Int, t \in Nat :
               /\ e = SeqSum(EarnedBy, q) /\ n = c.points /\ v = l.adjusted
               /\ t = SumFunction(l.redeemed)
    BY <1>5, <1>6, SaleNumbers, SeqSumInt, CustomerTyped, LedgerTyped, RedeemedTyped
  <2>2. n = e + v - t => a = e + (v + a - n) - t
    OBVIOUS
  <2>3. QED
    BY <1>3, <1>4, <1>5, <1>6, <2>1, <2>2 DEF SalesFollowed, PointsAre
<1>8. SalesFollowed(q, h, d, k) /\ CreditIs(d, k)
  BY <1>4, <1>5, <1>6, <1>7 DEF SalesFollowed, DebtIs, DebtLimited, CreditIs
<1>9. QED
  BY <1>1, <1>5, <1>8 DEF TillOrderly

LEMMA TillWriteOrderly ==
    ASSUME TillCore, TillOrderly, NEW p, TillPlanOK(p), TillFresh(p), TillWrite(p)
    PROVE  TillOrderly'
BY OrderlyDiscounts, OrderlyCheckout, OrderlySuspended, OrderlyDiscarded, OrderlyVoided,
   OrderlyPaid, OrderlyNote, OrderlyRedeemed, OrderlyAdjusted DEF TillWrite

-----------------------------------------------------------------------------
(***************************************************************************)
(* Checkout: what is invariant while no call was overtaken.                *)
(***************************************************************************)
LEMMA TillOrderlySame == TillOrderly /\ UNCHANGED tillRecords => TillOrderly'
BY DEF TillOrderly, tillRecords

LEMMA TillOrderlyInit == TillInit => TillOrderly
<1> SUFFICES ASSUME TillInit PROVE TillOrderly
  OBVIOUS
<1>1. PICK q, c, l : /\ q = sales /\ c = customer /\ l = ledger
                     /\ q = <<>> /\ onHand = TillStock /\ discounts = <<>> /\ claims = 0
  BY DEF TillInit
<1>2. /\ c.outstanding = 0 /\ c.points = 0 /\ c.credit = 0
      /\ l.noted = 0 /\ l.adjusted = 0 /\ l.redeemed \in [Redemptions -> {0}]
      /\ \A k \in Redemptions : l.redeemed[k] = 0
  BY <1>1 DEF TillInit
<1>3. SumFunction(l.redeemed) = 0
  BY <1>2, RedemptionsAssumption, TotalZero
<1>4. SeqSum(DueOf, q) = 0 /\ SeqSum(EarnedBy, q) = 0
  BY <1>1, SeqSumEmpty
<1>5. DOMAIN q = {} /\ CompletedIn(q) = {} /\ DOMAIN discounts = {}
  BY <1>1 DEF CompletedIn
<1>6. StockIs(q, onHand)
  <2>1. Cardinality(CompletedIn(q)) = 0
    BY <1>5, FS_EmptySet
  <2>2. QED
    BY <1>1, <2>1, TillConstants DEF StockIs
<1>7. SalesFollowed(q, onHand, c, l)
  BY <1>2, <1>3, <1>4, <1>5, <1>6, TillConstants
     DEF SalesFollowed, DuesRight, DebtIs, DebtLimited, PointsAre
<1>8. CreditIs(c, l)
  BY <1>2, <1>3 DEF CreditIs
<1>9. QED
  BY <1>1, <1>5, <1>7, <1>8 DEF TillOrderly, UsedOnce

TillConditional == ~tillOvertaken => TillOrderly

LEMMA TillConditionalStep ==
    TillInv /\ TillConditional /\ [TillNext]_tillVars => TillConditional'
<1> SUFFICES ASSUME TillInv, TillConditional, [TillNext]_tillVars, ~tillOvertaken'
             PROVE  TillOrderly'
  BY DEF TillConditional
<1>1. TillCore
  BY DEF TillInv
<1>2. CASE UNCHANGED tillVars
  BY <1>2, TillOrderlySame DEF tillVars, TillConditional
<1>3. CASE TillAlone
  BY <1>1, <1>3, TillPlanned, TillWriteOrderly DEF TillAlone, TillConditional
<1>4. CASE TillPause
  BY <1>4, TillOrderlySame DEF TillPause, TillConditional
<1>5. CASE TillResume
  <2>1. CASE TillWrite(slowTill) /\ tillOvertaken' = (slowTill \notin TillPlans)
    <3>1. slowTill \in TillPlans /\ ~tillOvertaken
      BY <1>5, <2>1 DEF TillResume, TillInv, TillSlowOK
    <3>2. PICK q : q = slowTill
      OBVIOUS
    <3>3. QED
      BY <1>1, <2>1, <3>1, <3>2, TillPlanned, TillWriteOrderly DEF TillConditional
  <2>2. CASE UNCHANGED <<tillRecords, tillOvertaken>>
    BY <2>2, TillOrderlySame DEF TillConditional
  <2>3. QED
    BY <1>5, <2>1, <2>2 DEF TillResume
<1>6. QED
  BY <1>2, <1>3, <1>4, <1>5 DEF TillNext

LEMMA TillInductive == TillSpec => [](TillInv /\ TillConditional)
<1>1. TillInit => TillConditional
  BY TillOrderlyInit DEF TillConditional
<1>2. QED
  BY <1>1, TillConditionalStep, TillInvHolds, PTL DEF TillSpec

\* What the properties sum is what the proofs sum.
LEMMA SaleSums ==
    ASSUME TillCore
    PROVE  /\ SumFunctionOnSet(Due, {s \in DOMAIN sales : Charged(s)}) = SeqSum(DueOf, sales)
           /\ SumFunction(Earned) = SeqSum(EarnedBy, sales)
<1>1. PICK q, R : q = sales /\ R = {s \in DOMAIN sales : Charged(s)}
  OBVIOUS
<1>2. q \in Seq(Sales) /\ IsFiniteSet(DOMAIN q) /\ \A s \in DOMAIN q : q[s] \in Sales
  BY <1>1, TillTypes, SequenceDomain
<1>3. R \subseteq DOMAIN q /\ \A s \in DOMAIN q : s \in R <=> Carries(q[s])
  BY <1>1 DEF Charged, Carries
<1>4. PICK h : h = OverSeq(DueOf, q)
  OBVIOUS
<1>5. h \in [DOMAIN q -> Int]
  BY <1>2, <1>4, SaleNumbers, SeqSumInt
<1>6. /\ \A s \in R : h[s] = Due[s]
      /\ \A s \in DOMAIN q \ R : h[s] = 0
  <2>1. \A s \in DOMAIN q : h[s] = DueOf[q[s]] /\ Due[s] = q[s].due
    BY <1>1, <1>4 DEF OverSeq, Due
  <2>2. \A x \in Sales : DueOf[x] = IF Carries(x) THEN x.due ELSE 0
    BY DEF DueOf
  <2>3. QED
    BY <1>2, <1>3, <2>1, <2>2
<1>7. SumFunctionOnSet(Due, R) = SumFunction(h)
  BY <1>2, <1>3, <1>5, <1>6, SumWithin
<1>8. Earned = OverSeq(EarnedBy, q)
  BY <1>1, <1>2 DEF Earned, OverSeq, EarnedBy
<1>9. QED
  BY <1>1, <1>4, <1>7, <1>8 DEF SeqSum

\* Each key sells once, however calls overlap; unless one was overtaken, a
\* receipt and an approval serve one sale each, and stock on hand is what was
\* not sold (checkout, cancelSale).
THEOREM SalesAreSoldOnce == TillSpec => []SoldOnce
<1>1. TillInv /\ TillConditional => SoldOnce
  <2> SUFFICES ASSUME TillInv, TillConditional PROVE SoldOnce
    OBVIOUS
  <2>1. TillTypeOK /\ TillCore
    BY DEF TillInv
  <2>2. \A s, t \in DOMAIN sales : sales[s].key = sales[t].key /\ sales[s].key # "none" => s = t
    BY <2>1, TillTypes DEF KeysOnce
  <2>3. ASSUME ~tillOvertaken
        PROVE  /\ claims <= 1
               /\ \A d \in DOMAIN discounts : discounts[d].uses <= 1
               /\ \/ \E s \in SalesIn({"VOIDED"}) : sales[s].type = "WHOLESALE"
                  \/ onHand + Cardinality(Completed) = TillStock
    <3>1. TillOrderly
      BY <2>3 DEF TillConditional
    <3>2. claims <= 1 /\ UsedOnce(discounts) /\ StockIs(sales, onHand)
      BY <3>1 DEF TillOrderly, SalesFollowed
    <3>3. Completed = CompletedIn(sales)
      BY DEF Completed, SalesIn, CompletedIn
    <3>4. \A d \in DOMAIN discounts : discounts[d].uses <= 1
      BY <3>2 DEF UsedOnce
    <3>5. QED
      BY <3>2, <3>3, <3>4 DEF StockIs, VoidedWholesale, SalesIn
  <2>4. QED
    BY <2>1, <2>2, <2>3 DEF SoldOnce
<1>2. QED
  BY <1>1, TillInductive, PTL

\* Unless a call was overtaken or a credit was stray, the customer owes what is
\* due of completed sales and of invoices issued by hand, and what notes added
\* or forgave; within the limit, unless a note was made or an invoice is due
\* at once (checkout, createManualInvoice, cancelSale, recordPayment).
THEOREM DebtIsSales == TillSpec => []DebtFollowsSales
<1>1. TillInv /\ TillConditional => DebtFollowsSales
  <2> SUFFICES ASSUME TillInv, TillConditional, ~tillOvertaken, ~ledger.stray
               PROVE  /\ customer.outstanding =
                           ledger.noted
                             + SumFunctionOnSet(Due, {s \in DOMAIN sales : Charged(s)})
                      /\ \/ ledger.noteMade
                         \/ \E s \in DOMAIN sales : sales[s].invoice \in {"DUE_NOW", "VOIDED"}
                         \/ customer.outstanding <= Limit
    BY DEF DebtFollowsSales
  <2>1. /\ DebtIs(sales, customer, ledger) /\ DebtLimited(sales, customer, ledger)
        /\ TillCore
    BY DEF TillInv, TillConditional, TillOrderly, SalesFollowed
  <2>2. QED
    BY <2>1, SaleSums DEF DebtIs, DebtLimited, DueNow
<1>2. QED
  BY <1>1, TillInductive, PTL

\* Points are never negative unless a sale was voided, however calls overlap.
\* Unless one was overtaken, a redemption gives its credit once, and while no
\* sale was voided the points are those earned and adjusted less those
\* redeemed (checkout, redeemPoints, adjustPoints).
THEOREM PointsAreSales == TillSpec => []PointsFollowSales
<1>1. TillInv /\ TillConditional => PointsFollowSales
  <2> SUFFICES ASSUME TillInv, TillConditional PROVE PointsFollowSales
    OBVIOUS
  <2>1. TillCore
    BY DEF TillInv
  <2>2. ~ledger.voided => customer.points >= 0
    BY <2>1, TillTypes DEF NoDebtOfPoints
  <2>3. ASSUME ~tillOvertaken
        PROVE  /\ customer.credit = SumFunction(ledger.redeemed)
               /\ \A k \in Redemptions : ledger.redeemed[k] <= 1
               /\ ~ledger.voided =>
                    customer.points =
                      SumFunction(Earned) + ledger.adjusted - SumFunction(ledger.redeemed)
    <3>1. CreditIs(customer, ledger) /\ PointsAre(sales, customer, ledger)
      BY <2>3 DEF TillConditional, TillOrderly, SalesFollowed
    <3>2. QED
      BY <2>1, <3>1, SaleSums DEF CreditIs, PointsAre
  <2>4. QED
    BY <2>2, <2>3 DEF PointsFollowSales
<1>2. QED
  BY <1>1, TillInductive, PTL

-----------------------------------------------------------------------------
\* WholesaleOrder, from here on.
USE OrderedAssumption, BoundsAssumption

-----------------------------------------------------------------------------
(***************************************************************************)
(* The inductive invariant.                                                *)
(***************************************************************************)
PartRecords == [hold: Nat, qty: Nat, left: Nat]

\* A plan that can be written, however old it is.
PlanOK(p) ==
    /\ p.op = "approve" => p.order \in DOMAIN orders
    /\ p.op = "fulfil" => p.order \in DOMAIN orders /\ p.parts \in [Items -> PartRecords]
    /\ p.op \in {"invoice", "generate"} =>
         p.order \in DOMAIN orders /\ \A i \in Items : orders[p.order].shipped[i] >= Ordered[i]
    /\ p.op \in {"cancel", "void"} =>
         p.order \in DOMAIN orders /\ p.shipped \in [Items -> Nat]

\* Orders are not deleted, and what was shipped is not less later.
Grows ==
    /\ DOMAIN orders \subseteq DOMAIN orders'
    /\ \A o \in DOMAIN orders, i \in Items : orders'[o].shipped[i] >= orders[o].shipped[i]

Net(i) == [o \in DOMAIN orders |-> orders[o].shipped[i] - orders[o].returned[i]]

Typed ==
    /\ quotation \in Quotations
    /\ orders \in Seq(Orders)
    /\ balance \in [Items -> [onHand: Int, reserved: Int, available: Int]]

FullyShipped ==
    \A o \in DOMAIN orders :
      orders[o].status = "COMPLETED" \/ orders[o].invoices > 0
        => \A i \in Items : orders[o].shipped[i] >= Ordered[i]

OnHand == \A i \in Items : balance[i].onHand = Opening[i] - SumFunction(Net(i))

Core == Typed /\ FullyShipped /\ OnHand

SlowOK == slow # NoPlan => PlanOK(slow) /\ overtaken < MaxOvertaken

Inv == TypeOK /\ Core /\ SlowOK

LEMMA OrdersAre ==
    ASSUME Typed
    PROVE  /\ DOMAIN orders = 1..Len(orders) /\ Len(orders) \in Nat
           /\ IsFiniteSet(DOMAIN orders)
           /\ \A o \in DOMAIN orders : orders[o] \in Orders
BY SequenceDomain DEF Typed

LEMMA NetTyped == Typed => \A i \in Items : /\ Net(i) \in [DOMAIN orders -> Int]
                                            /\ SumFunction(Net(i)) \in Int
<1> SUFFICES ASSUME Typed, NEW i \in Items
             PROVE  Net(i) \in [DOMAIN orders -> Int] /\ SumFunction(Net(i)) \in Int
  OBVIOUS
<1>1. IsFiniteSet(DOMAIN orders) /\ \A o \in DOMAIN orders : orders[o] \in Orders
  BY OrdersAre
<1>2. Net(i) \in [DOMAIN orders -> Int]
  BY <1>1 DEF Net, Orders
<1>3. QED
  BY <1>1, <1>2, TotalInt

\* Whatever is written meanwhile, a plan can still be written.
LEMMA PlanKept ==
    ASSUME NEW p, PlanOK(p), Grows, orders \in Seq(Orders), orders' \in Seq(Orders)
    PROVE  PlanOK(p)'
<1>1. \A o \in DOMAIN orders : orders[o] \in Orders /\ orders'[o] \in Orders
  BY SequenceDomain DEF Grows
<1>2. \A o \in DOMAIN orders, i \in Items :
        /\ orders[o].shipped[i] \in Nat /\ orders'[o].shipped[i] \in Nat
        /\ orders'[o].shipped[i] >= orders[o].shipped[i]
  BY <1>1 DEF Orders, Grows
<1>3. ASSUME p.op \in {"invoice", "generate"}
      PROVE  /\ p.order \in DOMAIN orders'
             /\ \A i \in Items : orders'[p.order].shipped[i] >= Ordered[i]
  <2>1. p.order \in DOMAIN orders /\ \A i \in Items : orders[p.order].shipped[i] >= Ordered[i]
    BY <1>3 DEF PlanOK
  <2>2. \A i \in Items : orders'[p.order].shipped[i] >= Ordered[i]
    <3>1. PICK o : o = p.order
      OBVIOUS
    <3>2. TAKE i \in Items
    <3>3. orders[o].shipped[i] >= Ordered[i] /\ o \in DOMAIN orders /\ Ordered[i] \in Nat
      BY <2>1, <3>1
    <3>4. PICK a \in Nat, b \in Nat, c \in Nat :
            a = orders[o].shipped[i] /\ b = orders'[o].shipped[i] /\ c = Ordered[i]
      BY <1>2, <3>3
    <3>5. b >= a /\ a >= c
      BY <1>2, <3>3, <3>4
    <3>6. orders'[o].shipped[i] >= Ordered[i]
      BY <3>4, <3>5
    <3>7. QED
      BY <3>1, <3>6
  <2>3. QED
    BY <2>1, <2>2 DEF Grows
<1>4. QED
  BY <1>3 DEF PlanOK, Grows

\* The plans there are can be written.
LEMMA PlansOK ==
    ASSUME Typed, FullyShipped, NEW p \in Plans
    PROVE  PlanOK(p)
<1>1. \A o \in DOMAIN orders : orders[o] \in Orders
  BY OrdersAre
<1>2. CASE p \in QuotationPlans
  BY <1>2 DEF QuotationPlans, PlanOK
<1>3. CASE p \in ApprovePlans
  BY <1>3 DEF ApprovePlans, InStatus, PlanOK
<1>4. CASE p \in FulfilPlans
  <2>1. PICK o \in InStatus({"CONFIRMED"}) :
          \E f \in Parts(o) : p = [op |-> "fulfil", order |-> o, parts |-> f]
    BY <1>4 DEF FulfilPlans
  <2>2. PICK f \in Parts(o) : p = [op |-> "fulfil", order |-> o, parts |-> f]
    BY <2>1
  <2>3. o \in DOMAIN orders /\ orders[o] \in Orders
    BY <1>1 DEF InStatus
  <2>4. ASSUME NEW i \in Items PROVE PartsOf(orders[o].holds[i]) \subseteq PartRecords
    <3>1. PICK hs : hs = orders[o].holds[i]
      OBVIOUS
    <3>2. hs \in Seq(Holds)
      BY <2>3, <3>1 DEF Orders
    <3>3. DOMAIN hs = 1..Len(hs) /\ Len(hs) \in Nat /\ \A h \in DOMAIN hs : hs[h].qty \in Nat
      <4>1. DOMAIN hs = 1..Len(hs) /\ Len(hs) \in Nat /\ \A h \in DOMAIN hs : hs[h] \in Holds
        BY <3>2, SequenceDomain
      <4>2. QED
        BY <4>1 DEF Holds
    <3>4. ASSUME NEW x \in PartsOf(hs) PROVE x \in PartRecords
      <4>1. CASE x = [hold |-> 0, qty |-> 0, left |-> 0]
        BY <4>1 DEF PartRecords
      <4>2. CASE x # [hold |-> 0, qty |-> 0, left |-> 0]
        <5>1. PICK h \in Active(hs) :
                \E q \in 1..hs[h].qty : x = [hold |-> h, qty |-> q, left |-> hs[h].qty - q]
          BY <4>2 DEF PartsOf
        <5>2. PICK q \in 1..hs[h].qty : x = [hold |-> h, qty |-> q, left |-> hs[h].qty - q]
          BY <5>1
        <5>3. h \in Nat /\ hs[h].qty \in Nat
          BY <3>3 DEF Active
        <5>4. q \in Nat /\ hs[h].qty - q \in Nat
          BY <5>3
        <5>5. QED
          BY <5>2, <5>3, <5>4 DEF PartRecords
      <4>3. QED
        BY <4>1, <4>2
    <3>5. QED
      BY <3>1, <3>4
  <2>5. f \in [Items -> PartRecords]
    <3>1. /\ f \in [Items -> UNION {PartsOf(orders[o].holds[i]) : i \in Items}]
          /\ \A i \in Items : f[i] \in PartsOf(orders[o].holds[i])
      BY DEF Parts
    <3>2. \A i \in Items : f[i] \in PartRecords
      BY <2>4, <3>1
    <3>3. QED
      BY <3>1, <3>2
  <2>6. QED
    BY <2>2, <2>3, <2>5 DEF PlanOK
<1>5. CASE p \in InvoicePlans
  <2>1. PICK op \in {"invoice", "generate"}, o \in NotInvoiced : p = [op |-> op, order |-> o]
    BY <1>5 DEF InvoicePlans
  <2>2. o \in DOMAIN orders /\ orders[o].status = "COMPLETED"
    BY DEF NotInvoiced, InStatus
  <2>3. QED
    BY <2>1, <2>2 DEF PlanOK, FullyShipped
<1>6. CASE p \in EndPlans
  <2>1. PICK op \in {"cancel", "void"}, o \in InStatus({"DRAFT", "CONFIRMED", "COMPLETED"}) :
          p = [op |-> op, order |-> o,
               found |-> [i \in Items |-> Active(orders[o].holds[i])],
               shipped |-> orders[o].shipped]
    BY <1>6 DEF EndPlans
  <2>2. o \in DOMAIN orders
    BY DEF InStatus
  <2>3. orders[o].shipped \in [Items -> Nat]
    BY <1>1, <2>2 DEF Orders
  <2>4. QED
    BY <2>1, <2>2, <2>3 DEF PlanOK
<1>7. QED
  BY <1>2, <1>3, <1>4, <1>5, <1>6 DEF Plans

-----------------------------------------------------------------------------
(***************************************************************************)
(* One order becomes another.                                              *)
(***************************************************************************)
Rows == [Items -> [onHand: Int, reserved: Int, available: Int]]

LEMMA InitOK == Init => Inv
<1> SUFFICES ASSUME Init PROVE Inv
  OBVIOUS
<1>1. orders = <<>> /\ DOMAIN orders = {} /\ orders \in Seq(Orders)
  BY DEF Init
<1>2. balance \in Rows
  BY DEF Init, Rows
<1>3. Typed
  BY <1>1, <1>2 DEF Init, Typed, Quotations, Rows
<1>4. TypeOK
  BY <1>3 DEF Typed, TypeOK, Init, NoPlan
<1>5. FullyShipped
  BY <1>1 DEF FullyShipped
<1>6. OnHand
  <2> SUFFICES ASSUME NEW i \in Items
               PROVE  balance[i].onHand = Opening[i] - SumFunction(Net(i))
    BY DEF OnHand
  <2>1. DOMAIN Net(i) = {}
    BY <1>1 DEF Net
  <2>2. SumFunction(Net(i)) = 0
    BY <2>1, TotalEmpty
  <2>3. balance[i].onHand = Opening[i]
    BY DEF Init
  <2>4. QED
    BY <2>2, <2>3
<1>7. QED
  BY <1>3, <1>4, <1>5, <1>6 DEF Inv, Core, SlowOK, Init

\* What one record is worth to the quantity on hand.
NetOf(r, i) == r.shipped[i] - r.returned[i]
Proper(r) == r.status = "COMPLETED" \/ r.invoices > 0 => \A i \in Items : r.shipped[i] >= Ordered[i]

LEMMA NetOfInt ==
    ASSUME NEW r \in Orders, NEW i \in Items
    PROVE  NetOf(r, i) \in Int
BY DEF NetOf, Orders

\* The order becomes n, and the row moves by what n changes.
Becomes(o, n) ==
    /\ o \in DOMAIN orders /\ n \in Orders
    /\ orders' = [orders EXCEPT ![o] = n]
    /\ Proper(n)
    /\ \A i \in Items : n.shipped[i] >= orders[o].shipped[i]
    /\ quotation' = quotation
    /\ balance' \in Rows
    /\ \A i \in Items : balance'[i].onHand = balance[i].onHand - (NetOf(n, i) - NetOf(orders[o], i))

\* A write to one order keeps the invariant.
LEMMA OneOrder ==
    ASSUME Core, NEW o, NEW n, Becomes(o, n)
    PROVE  Core' /\ Grows
<1>1. /\ Typed /\ FullyShipped /\ OnHand /\ DOMAIN orders = 1..Len(orders)
      /\ \A k \in DOMAIN orders : orders[k] \in Orders
      /\ IsFiniteSet(DOMAIN orders)
  BY OrdersAre DEF Core
<1>2. orders \in Seq(Orders) /\ o \in DOMAIN orders /\ n \in Orders /\ Proper(n)
  BY <1>1 DEF Typed, Becomes
<1>3. /\ orders' \in Seq(Orders) /\ DOMAIN orders' = DOMAIN orders
      /\ orders'[o] = n /\ \A k \in DOMAIN orders \ {o} : orders'[k] = orders[k]
  <2>1. PICK r : r = orders'
    OBVIOUS
  <2>2. r = [orders EXCEPT ![o] = n]
    BY <2>1 DEF Becomes
  <2>3. /\ r \in Seq(Orders) /\ DOMAIN r = DOMAIN orders
        /\ r[o] = n /\ \A k \in DOMAIN orders \ {o} : r[k] = orders[k]
    BY <1>2, <2>2, SequenceSet
  <2>4. QED
    BY <2>1, <2>3
<1>4. Grows
  <2>1. ASSUME NEW k \in DOMAIN orders, NEW i \in Items
        PROVE  orders'[k].shipped[i] >= orders[k].shipped[i]
    <3>1. CASE k = o
      BY <1>3, <3>1 DEF Becomes
    <3>2. CASE k # o
      <4>1. orders[k].shipped[i] \in Nat
        BY <1>1 DEF Orders
      <4>2. orders'[k] = orders[k]
        BY <1>3, <3>2
      <4>3. QED
        BY <4>1, <4>2
    <3>3. QED
      BY <3>1, <3>2
  <2>2. QED
    BY <1>3, <2>1 DEF Grows
<1>5. Typed'
  BY <1>1, <1>3 DEF Typed, Becomes, Rows
<1>6. FullyShipped'
  <2>1. ASSUME NEW k \in DOMAIN orders', orders'[k].status = "COMPLETED" \/ orders'[k].invoices > 0,
               NEW i \in Items
        PROVE  orders'[k].shipped[i] >= Ordered[i]
    <3>1. CASE k = o
      BY <1>2, <1>3, <2>1, <3>1 DEF Proper
    <3>2. CASE k # o
      BY <1>1, <1>3, <2>1, <3>2 DEF FullyShipped
    <3>3. QED
      BY <3>1, <3>2
  <2>2. QED
    BY <2>1 DEF FullyShipped
<1>7. OnHand'
  <2> SUFFICES ASSUME NEW i \in Items
               PROVE  balance'[i].onHand = Opening[i] - SumFunction(Net(i)')
    BY DEF OnHand
  <2>1. PICK S : S = DOMAIN orders
    OBVIOUS
  <2>2. PICK f : f = Net(i)
    OBVIOUS
  <2>3. PICK e : e = Net(i)'
    OBVIOUS
  <2>4. f \in [S -> Int] /\ \A k \in S : f[k] = NetOf(orders[k], i)
    BY <1>1, <2>1, <2>2, NetTyped DEF Net, NetOf
  <2>5. DOMAIN e = S /\ \A k \in S : e[k] = NetOf(orders'[k], i)
    BY <1>3, <2>1, <2>3 DEF Net, NetOf
  <2>6. e \in [S -> Int]
    <3>1. \A k \in S : e[k] \in Int
      <4>1. TAKE k \in S
      <4>2. orders'[k] \in Orders
        BY <1>1, <1>2, <1>3, <2>1
      <4>3. QED
        BY <2>5, <4>2, NetOfInt
    <3>2. e = [k \in S |-> e[k]]
      BY <2>3, <2>5 DEF Net
    <3>3. QED
      BY <3>1, <3>2
  <2>7. \A k \in S \ {o} : e[k] = f[k]
    BY <1>3, <2>1, <2>4, <2>5
  <2>8. o \in S /\ IsFiniteSet(S)
    BY <1>1, <1>2, <2>1
  <2>9. SumFunction(e) = SumFunction(f) + (e[o] - f[o])
    BY ONLY <2>4, <2>6, <2>7, <2>8, TotalUpdate
  <2>10. SumFunction(f) \in Int
    BY ONLY <2>4, <2>8, TotalInt
  <2>11. e[o] = NetOf(n, i) /\ f[o] = NetOf(orders[o], i)
    BY <1>3, <2>4, <2>5, <2>8
  <2>12. balance[i].onHand = Opening[i] - SumFunction(f)
    BY <1>1, <2>2 DEF OnHand
  <2>13. balance'[i].onHand = balance[i].onHand - (e[o] - f[o])
    BY <2>11 DEF Becomes
  <2>14. Opening[i] \in Int /\ e[o] \in Int /\ f[o] \in Int
    BY <2>4, <2>6, <2>8
  <2>15. balance'[i].onHand = Opening[i] - SumFunction(e)
    BY <2>9, <2>10, <2>12, <2>13, <2>14
  <2>16. QED
    BY <2>3, <2>15
<1>8. QED
  BY <1>4, <1>5, <1>6, <1>7 DEF Core

-----------------------------------------------------------------------------
(***************************************************************************)
(* Quotations.                                                             *)
(***************************************************************************)
LEMMA TypesNow ==
    ASSUME Core
    PROVE  /\ Typed /\ DOMAIN orders = 1..Len(orders) /\ Len(orders) \in Nat
           /\ \A o \in DOMAIN orders : orders[o] \in Orders
           /\ \A i \in Items : /\ balance[i].onHand \in Int
                               /\ balance[i].reserved \in Int
                               /\ balance[i].available \in Int
                               /\ Ordered[i] \in Nat \ {0} /\ Opening[i] \in Nat
BY OrdersAre DEF Core, Typed

LEMMA AcceptOK ==
    ASSUME Core, NEW p, AcceptQuotation(p) \/ RejectQuotation(p)
    PROVE  Core' /\ Grows
<1>1. quotation' \in Quotations /\ UNCHANGED <<orders, balance>>
  BY DEF AcceptQuotation, RejectQuotation, Quotations
<1>2. Typed'
  BY <1>1 DEF Core, Typed
<1>3. FullyShipped' /\ OnHand'
  BY <1>1 DEF Core, FullyShipped, OnHand, Net
<1>4. Grows
  <2>1. \A o \in DOMAIN orders, i \in Items : orders[o].shipped[i] \in Nat
    BY TypesNow DEF Orders
  <2>2. QED
    BY <1>1, <2>1 DEF Grows
<1>5. QED
  BY <1>2, <1>3, <1>4 DEF Core

LEMMA NewOrderIs ==
    /\ NewOrder \in Orders /\ Proper(NewOrder)
    /\ \A i \in Items : NetOf(NewOrder, i) = 0
<1>1. NewOrder \in Orders
  BY DEF NewOrder, Orders, Statuses
<1>2. QED
  BY <1>1 DEF NewOrder, Proper, NetOf

LEMMA ConvertOK ==
    ASSUME Core, NEW p, ConvertQuotation(p)
    PROVE  Core' /\ Grows
<1>1. /\ Typed /\ FullyShipped /\ OnHand /\ DOMAIN orders = 1..Len(orders)
      /\ \A k \in DOMAIN orders : orders[k] \in Orders
      /\ IsFiniteSet(DOMAIN orders) /\ orders \in Seq(Orders)
  BY OrdersAre DEF Core, Typed
<1>2. PICK o : o = Len(orders) + 1
  OBVIOUS
<1>3. /\ orders' \in Seq(Orders) /\ DOMAIN orders' = DOMAIN orders \cup {o}
      /\ o \notin DOMAIN orders
      /\ orders'[o] = NewOrder /\ \A k \in DOMAIN orders : orders'[k] = orders[k]
  <2>1. PICK r : r = orders'
    OBVIOUS
  <2>2. r = Append(orders, NewOrder)
    BY <2>1 DEF ConvertQuotation
  <2>3. /\ r \in Seq(Orders) /\ DOMAIN r = DOMAIN orders \cup {o} /\ o \notin DOMAIN orders
        /\ r[o] = NewOrder /\ \A k \in DOMAIN orders : r[k] = orders[k]
    BY <1>1, <1>2, <2>2, NewOrderIs, SequenceAppend
  <2>4. QED
    BY <2>1, <2>3
<1>4. Grows
  <2>1. \A k \in DOMAIN orders, i \in Items : orders[k].shipped[i] \in Nat
    BY <1>1 DEF Orders
  <2>2. QED
    BY <1>3, <2>1 DEF Grows
<1>5. Typed'
  BY <1>1, <1>3 DEF Typed, ConvertQuotation, Quotations
<1>6. FullyShipped'
  BY <1>1, <1>3, NewOrderIs DEF FullyShipped, Proper
<1>7. OnHand'
  <2> SUFFICES ASSUME NEW i \in Items
               PROVE  balance'[i].onHand = Opening[i] - SumFunction(Net(i)')
    BY DEF OnHand
  <2>1. PICK S : S = DOMAIN orders
    OBVIOUS
  <2>2. PICK f : f = Net(i)
    OBVIOUS
  <2>3. PICK e : e = Net(i)'
    OBVIOUS
  <2>4. f \in [S -> Int] /\ \A k \in S : f[k] = NetOf(orders[k], i)
    BY <1>1, <2>1, <2>2, NetTyped DEF Net, NetOf
  <2>5. DOMAIN e = S \cup {o} /\ \A k \in S \cup {o} : e[k] = NetOf(orders'[k], i)
    BY <1>3, <2>1, <2>3 DEF Net, NetOf
  <2>6. e[o] = 0 /\ \A k \in S : e[k] = f[k]
    BY <1>3, <2>1, <2>4, <2>5, NewOrderIs
  <2>7. e \in [S \cup {o} -> Int]
    <3>1. e = [k \in S \cup {o} |-> e[k]]
      BY <2>3, <2>5 DEF Net
    <3>2. \A k \in S \cup {o} : e[k] \in Int
      BY <2>4, <2>6
    <3>3. QED
      BY <3>1, <3>2
  <2>8. IsFiniteSet(S) /\ o \notin S
    BY <1>1, <1>3, <2>1
  <2>9. SumFunction(e) = SumFunction(f) + e[o]
    BY ONLY <2>4, <2>6, <2>7, <2>8, TotalAdd
  <2>10. SumFunction(f) \in Int
    BY ONLY <2>4, <2>8, TotalInt
  <2>11. balance'[i].onHand = Opening[i] - SumFunction(f)
    BY <1>1, <2>2 DEF OnHand, ConvertQuotation
  <2>12. SumFunction(e) = SumFunction(f)
    BY <2>6, <2>9, <2>10
  <2>13. QED
    BY <2>3, <2>11, <2>12
<1>8. QED
  BY <1>4, <1>5, <1>6, <1>7 DEF Core

LEMMA HoldsAre ==
    ASSUME NEW r \in Orders, NEW i \in Items
    PROVE  /\ r.holds[i] \in Seq(Holds) /\ DOMAIN r.holds[i] = 1..Len(r.holds[i])
           /\ Len(r.holds[i]) \in Nat /\ IsFiniteSet(DOMAIN r.holds[i])
           /\ \A h \in DOMAIN r.holds[i] : r.holds[i][h] \in Holds
           /\ r.shipped[i] \in Nat /\ r.returned[i] \in Nat /\ r.invoices \in Nat
<1>1. r.holds[i] \in Seq(Holds) /\ r.shipped[i] \in Nat /\ r.returned[i] \in Nat /\ r.invoices \in Nat
  BY DEF Orders
<1>2. PICK hs : hs = r.holds[i]
  OBVIOUS
<1>3. hs \in Seq(Holds)
  BY <1>1, <1>2
<1>4. /\ DOMAIN hs = 1..Len(hs) /\ Len(hs) \in Nat /\ IsFiniteSet(DOMAIN hs)
      /\ \A h \in DOMAIN hs : hs[h] \in Holds
  BY <1>3, SequenceDomain
<1>5. QED
  BY <1>1, <1>2, <1>4

-----------------------------------------------------------------------------
(***************************************************************************)
(* Approval and fulfilment.                                                *)
(***************************************************************************)
Row == [onHand: Int, reserved: Int, available: Int]

LEMMA FieldStatus ==
    ASSUME NEW r \in Orders, NEW x \in Statuses, NEW q, q = [r EXCEPT !.status = x]
    PROVE  /\ q \in Orders /\ q.status = x
           /\ q.holds = r.holds /\ q.shipped = r.shipped
           /\ q.returned = r.returned /\ q.invoices = r.invoices
BY DEF Orders

LEMMA FieldHolds ==
    ASSUME NEW r \in Orders, NEW x \in [Items -> Seq(Holds)], NEW q, q = [r EXCEPT !.holds = x]
    PROVE  /\ q \in Orders /\ q.holds = x
           /\ q.status = r.status /\ q.shipped = r.shipped
           /\ q.returned = r.returned /\ q.invoices = r.invoices
BY DEF Orders

LEMMA FieldShipped ==
    ASSUME NEW r \in Orders, NEW x \in [Items -> Nat], NEW q, q = [r EXCEPT !.shipped = x]
    PROVE  /\ q \in Orders /\ q.shipped = x
           /\ q.holds = r.holds /\ q.status = r.status
           /\ q.returned = r.returned /\ q.invoices = r.invoices
BY DEF Orders

LEMMA FieldReturned ==
    ASSUME NEW r \in Orders, NEW x \in [Items -> Nat], NEW q, q = [r EXCEPT !.returned = x]
    PROVE  /\ q \in Orders /\ q.returned = x
           /\ q.holds = r.holds /\ q.shipped = r.shipped
           /\ q.status = r.status /\ q.invoices = r.invoices
BY DEF Orders

LEMMA RowsAre == Core => balance \in [Items -> Row]
BY DEF Core, Typed, Row

\* What the record r of order o becomes.
ApprovedAs(o, r, n) ==
    /\ orders' = [orders EXCEPT ![o] = n]
    /\ n.status = "CONFIRMED"
    /\ n.holds = [i \in Items |-> Append(r.holds[i], [qty |-> Ordered[i], active |-> TRUE])]
    /\ n.shipped = r.shipped /\ n.returned = r.returned /\ n.invoices = r.invoices

LEMMA ApproveIs ==
    ASSUME Core, NEW p, ApproveOrder(p), NEW o \in DOMAIN orders, p.order = o,
           NEW r, r = orders[o]
    PROVE  \E n \in Orders : ApprovedAs(o, r, n)
<1>2. o = p.order /\ r \in Orders /\ r = orders[o]
  BY TypesNow
<1>3. orders' = [orders EXCEPT ![o].status = "CONFIRMED",
                    ![o].holds = [i \in Items |->
                       Append(@[i], [qty |-> Ordered[i], active |-> TRUE])]]
  BY <1>2 DEF ApproveOrder
<1>4. PICK hs : hs = [i \in Items |-> Append(r.holds[i], [qty |-> Ordered[i], active |-> TRUE])]
  OBVIOUS
<1>5. hs \in [Items -> Seq(Holds)]
  <2>1. \A i \in Items : Append(r.holds[i], [qty |-> Ordered[i], active |-> TRUE]) \in Seq(Holds)
    <3>1. TAKE i \in Items
    <3>2. r.holds[i] \in Seq(Holds)
      BY <1>2, HoldsAre
    <3>3. [qty |-> Ordered[i], active |-> TRUE] \in Holds
      BY DEF Holds
    <3>4. QED
      BY <3>2, <3>3
  <2>2. QED
    BY <1>4, <2>1
<1>6. PICK q : q = [r EXCEPT !.status = "CONFIRMED"]
  OBVIOUS
<1>7. PICK n : n = [q EXCEPT !.holds = hs]
  OBVIOUS
<1>8. /\ q \in Orders /\ q.status = "CONFIRMED"
      /\ q.holds = r.holds /\ q.shipped = r.shipped
      /\ q.returned = r.returned /\ q.invoices = r.invoices
  <2>1. "CONFIRMED" \in Statuses
    BY DEF Statuses
  <2>2. QED
    BY <1>2, <1>6, <2>1, FieldStatus
<1>9. /\ n \in Orders /\ n.holds = hs /\ n.status = q.status /\ n.shipped = q.shipped
      /\ n.returned = q.returned /\ n.invoices = q.invoices
  BY <1>5, <1>7, <1>8, FieldHolds
<1>10. orders' = [orders EXCEPT ![o] = n]
  BY <1>2, <1>3, <1>4, <1>6, <1>7, <1>8
<1>11. ApprovedAs(o, r, n)
  BY <1>4, <1>8, <1>9, <1>10 DEF ApprovedAs
<1>12. QED
  BY <1>9, <1>11

LEMMA ApproveRows ==
    ASSUME Core, NEW p, ApproveOrder(p)
    PROVE  /\ quotation' = quotation /\ balance' \in Rows
           /\ \A i \in Items :
                /\ balance'[i].onHand = balance[i].onHand
                /\ balance'[i].reserved = balance[i].reserved + Ordered[i]
                /\ balance'[i].available = balance[i].available - Ordered[i]
<1>1. /\ quotation' = quotation
      /\ balance' = [i \in Items |-> [balance[i] EXCEPT !.reserved = @ + Ordered[i],
                                                        !.available = @ - Ordered[i]]]
  BY DEF ApproveOrder
<1>2. \A i \in Items : /\ balance'[i] \in Row
                        /\ balance'[i].onHand = balance[i].onHand
                        /\ balance'[i].reserved = balance[i].reserved + Ordered[i]
                        /\ balance'[i].available = balance[i].available - Ordered[i]
  <2>1. TAKE i \in Items
  <2>2. PICK b, x, y, q :
          /\ b = balance[i] /\ x = balance[i].reserved + Ordered[i]
          /\ y = balance[i].available - Ordered[i]
          /\ q = [b EXCEPT !.reserved = x, !.available = y]
    OBVIOUS
  <2>3. b \in Row /\ x \in Int /\ y \in Int
    BY <2>2, RowsAre DEF Row
  <2>4. q \in Row /\ q.onHand = b.onHand /\ q.reserved = x /\ q.available = y
    <3>1. q = [b EXCEPT !.reserved = x, !.available = y]
      BY <2>2
    <3>2. QED
      BY ONLY <2>3, <3>1 DEF Row
  <2>5. balance'[i] = q
    BY <1>1, <2>2
  <2>6. QED
    BY <2>2, <2>4, <2>5
<1>3. balance' \in Rows
  BY <1>1, <1>2 DEF Rows, Row
<1>4. QED
  BY <1>1, <1>2, <1>3

LEMMA ApproveOK ==
    ASSUME Core, NEW p, ApproveOrder(p), PlanOK(p)
    PROVE  Core' /\ Grows
<1>1. PICK o : o = p.order
  OBVIOUS
<1>2. o \in DOMAIN orders /\ p.order = o
  BY <1>1 DEF ApproveOrder, PlanOK
<1>3. PICK r : r = orders[o]
  OBVIOUS
<1>4. r \in Orders
  BY <1>2, <1>3, TypesNow
<1>5. PICK n \in Orders : ApprovedAs(o, r, n)
  BY <1>2, <1>3, ApproveIs
<1>6. Proper(n)
  <2>1. r.invoices > 0 => \A i \in Items : r.shipped[i] >= Ordered[i]
    BY <1>2, <1>3 DEF Core, FullyShipped
  <2>2. QED
    BY <1>5, <2>1 DEF Proper, ApprovedAs
<1>7. \A i \in Items : n.shipped[i] >= r.shipped[i] /\ NetOf(n, i) - NetOf(r, i) = 0
  BY <1>4, <1>5, HoldsAre DEF NetOf, ApprovedAs
<1>8. \A i \in Items : balance'[i].onHand = balance[i].onHand - (NetOf(n, i) - NetOf(r, i))
  <2>1. TAKE i \in Items
  <2>2. balance[i].onHand \in Int
    BY TypesNow
  <2>3. QED
    BY <1>7, <2>2, ApproveRows
<1>9. Becomes(o, n)
  BY <1>2, <1>3, <1>5, <1>6, <1>7, <1>8, ApproveRows DEF Becomes, ApprovedAs
<1>10. QED
  BY <1>9, OneOrder

\* What fulfilment leaves of the reservations of a line.
LEMMA DrawTyped ==
    ASSUME NEW hs \in Seq(Holds), NEW part \in PartRecords
    PROVE  Draw(hs, part) \in Seq(Holds)
<1>1. DOMAIN hs = 1..Len(hs) /\ \A h \in DOMAIN hs : hs[h] \in Holds
  BY SequenceDomain
<1>2. CASE part.qty = 0
  BY <1>2 DEF Draw
<1>3. CASE part.qty # 0 /\ part.hold \notin DOMAIN hs
  <2>1. PICK k, x : k = part.hold /\ x = part.left
    OBVIOUS
  <2>2. hs \in [1..Len(hs) -> Holds] /\ Len(hs) \in Nat /\ k \notin 1..Len(hs)
    BY <1>1, <1>3, <2>1
  <2>3. [hs EXCEPT ![k].active = FALSE] = hs /\ [hs EXCEPT ![k].qty = x] = hs
    BY <2>2
  <2>4. QED
    BY <1>3, <2>1, <2>3 DEF Draw
<1>4. CASE part.qty # 0 /\ part.hold \in DOMAIN hs
  <2>1. PICK h : h = part.hold
    OBVIOUS
  <2>2. h \in DOMAIN hs /\ hs[h] \in Holds /\ part.left \in Nat
    BY <1>1, <1>4, <2>1 DEF PartRecords
  <2>3. CASE part.left = 0
    <3>1. PICK a : a = [hs[h] EXCEPT !.active = FALSE]
      OBVIOUS
    <3>2. a \in Holds
      BY <2>2, <3>1 DEF Holds
    <3>3. Draw(hs, part) = [hs EXCEPT ![h] = a]
      BY <1>4, <2>1, <2>3, <3>1 DEF Draw
    <3>4. QED
      BY <2>2, <3>2, <3>3, SequenceSet
  <2>4. CASE part.left # 0
    <3>1. PICK a : a = [hs[h] EXCEPT !.qty = part.left]
      OBVIOUS
    <3>2. a \in Holds
      BY <2>2, <2>4, <3>1 DEF Holds
    <3>3. Draw(hs, part) = [hs EXCEPT ![h] = a]
      BY <1>4, <2>1, <2>4, <3>1 DEF Draw
    <3>4. QED
      BY <2>2, <3>2, <3>3, SequenceSet
  <2>5. QED
    BY <2>3, <2>4
<1>5. QED
  BY <1>2, <1>3, <1>4

Sent(r, p) == [i \in Items |-> r.shipped[i] + p.parts[i].qty]

FulfilledAs(p, o, r, n) ==
    /\ orders' = [orders EXCEPT ![o] = n]
    /\ n.status = IF Whole(Sent(r, p)) THEN "COMPLETED" ELSE "CONFIRMED"
    /\ n.holds = [i \in Items |-> Draw(r.holds[i], p.parts[i])]
    /\ n.shipped = Sent(r, p) /\ n.returned = r.returned /\ n.invoices = r.invoices

LEMMA FulfilIs ==
    ASSUME Core, NEW p, FulfilOrder(p), NEW o \in DOMAIN orders, p.order = o,
           p.parts \in [Items -> PartRecords], NEW r, r = orders[o]
    PROVE  \E n \in Orders : FulfilledAs(p, o, r, n)
<1>1. o = p.order /\ r \in Orders /\ r = orders[o]
  BY TypesNow
<1>2. PICK sh : sh = Sent(r, p)
  OBVIOUS
<1>3. PICK st : st = IF Whole(sh) THEN "COMPLETED" ELSE "CONFIRMED"
  OBVIOUS
<1>4. PICK hs : hs = [i \in Items |-> Draw(r.holds[i], p.parts[i])]
  OBVIOUS
<1>5. sh = [i \in Items |-> orders[o].shipped[i] + p.parts[i].qty]
  BY <1>1, <1>2 DEF Sent
<1>6. orders' = [orders EXCEPT ![o].shipped = sh,
                    ![o].holds = [i \in Items |-> Draw(@[i], p.parts[i])],
                    ![o].status = IF Whole(sh) THEN "COMPLETED" ELSE "CONFIRMED"]
  BY <1>1, <1>5 DEF FulfilOrder
<1>7. \A i \in Items : p.parts[i] \in PartRecords /\ p.parts[i].qty \in Nat
  BY DEF PartRecords
<1>8. hs \in [Items -> Seq(Holds)]
  <2>1. \A i \in Items : Draw(r.holds[i], p.parts[i]) \in Seq(Holds)
    <3>1. TAKE i \in Items
    <3>2. r.holds[i] \in Seq(Holds)
      BY <1>1, HoldsAre
    <3>3. QED
      BY <1>7, <3>2, DrawTyped
  <2>2. QED
    BY <1>4, <2>1
<1>9. sh \in [Items -> Nat]
  BY <1>1, <1>2, <1>7, HoldsAre DEF Sent
<1>10. st \in Statuses
  BY <1>3 DEF Statuses
<1>11. PICK q : q = [r EXCEPT !.shipped = sh]
  OBVIOUS
<1>12. PICK u : u = [q EXCEPT !.holds = hs]
  OBVIOUS
<1>13. PICK n : n = [u EXCEPT !.status = st]
  OBVIOUS
<1>14. /\ q \in Orders /\ q.shipped = sh
       /\ q.holds = r.holds /\ q.status = r.status
       /\ q.returned = r.returned /\ q.invoices = r.invoices
  BY <1>1, <1>9, <1>11, FieldShipped
<1>15. /\ u \in Orders /\ u.holds = hs /\ u.status = q.status /\ u.shipped = q.shipped
       /\ u.returned = q.returned /\ u.invoices = q.invoices
  BY <1>8, <1>12, <1>14, FieldHolds
<1>16. /\ n \in Orders /\ n.status = st
       /\ n.holds = u.holds /\ n.shipped = u.shipped
       /\ n.returned = u.returned /\ n.invoices = u.invoices
  BY <1>10, <1>13, <1>15, FieldStatus
<1>17. orders' = [orders EXCEPT ![o].shipped = sh,
                    ![o].holds = [i \in Items |-> Draw(@[i], p.parts[i])],
                    ![o].status = st]
  BY <1>3, <1>6
<1>18. orders' = [orders EXCEPT ![o] = n]
  BY <1>1, <1>4, <1>11, <1>12, <1>13, <1>14, <1>17
<1>19. n.status = IF Whole(Sent(r, p)) THEN "COMPLETED" ELSE "CONFIRMED"
  BY <1>2, <1>3, <1>16
<1>20. FulfilledAs(p, o, r, n)
  BY <1>2, <1>4, <1>14, <1>15, <1>16, <1>18, <1>19 DEF FulfilledAs
<1>21. QED
  BY <1>16, <1>20

LEMMA FulfilRows ==
    ASSUME Core, NEW p, FulfilOrder(p), p.parts \in [Items -> PartRecords]
    PROVE  /\ quotation' = quotation /\ balance' \in Rows
           /\ \A i \in Items :
                /\ balance'[i].onHand = balance[i].onHand - p.parts[i].qty
                /\ balance'[i].reserved = balance[i].reserved - p.parts[i].qty
                /\ balance'[i].available = balance[i].available
<1>1. /\ quotation' = quotation
      /\ balance' = [i \in Items |-> [balance[i] EXCEPT !.onHand = @ - p.parts[i].qty,
                                                        !.reserved = @ - p.parts[i].qty]]
  BY DEF FulfilOrder
<1>2. \A i \in Items : /\ balance'[i] \in Row
                        /\ balance'[i].onHand = balance[i].onHand - p.parts[i].qty
                        /\ balance'[i].reserved = balance[i].reserved - p.parts[i].qty
                        /\ balance'[i].available = balance[i].available
  <2>1. TAKE i \in Items
  <2>2. PICK b, x, y, q :
          /\ b = balance[i] /\ x = balance[i].onHand - p.parts[i].qty
          /\ y = balance[i].reserved - p.parts[i].qty
          /\ q = [b EXCEPT !.onHand = x, !.reserved = y]
    OBVIOUS
  <2>3. p.parts[i].qty \in Nat
    BY DEF PartRecords
  <2>4. b \in Row /\ x \in Int /\ y \in Int
    BY <2>2, <2>3, RowsAre DEF Row
  <2>5. q \in Row /\ q.onHand = x /\ q.reserved = y /\ q.available = b.available
    <3>1. q = [b EXCEPT !.onHand = x, !.reserved = y]
      BY <2>2
    <3>2. QED
      BY ONLY <2>4, <3>1 DEF Row
  <2>6. balance'[i] = q
    BY <1>1, <2>2
  <2>7. QED
    BY <2>2, <2>5, <2>6
<1>3. balance' \in Rows
  BY <1>1, <1>2 DEF Rows, Row
<1>4. QED
  BY <1>1, <1>2, <1>3

LEMMA FulfilOK ==
    ASSUME Core, NEW p, FulfilOrder(p), PlanOK(p)
    PROVE  Core' /\ Grows
<1>1. PICK o : o = p.order
  OBVIOUS
<1>2. o \in DOMAIN orders /\ p.order = o /\ p.parts \in [Items -> PartRecords]
  BY <1>1 DEF FulfilOrder, PlanOK
<1>3. PICK r : r = orders[o]
  OBVIOUS
<1>4. r \in Orders
  BY <1>2, <1>3, TypesNow
<1>5. PICK n \in Orders : FulfilledAs(p, o, r, n)
  BY <1>2, <1>3, FulfilIs
<1>6. \A i \in Items : p.parts[i].qty \in Nat
  BY <1>2 DEF PartRecords
<1>7. \A i \in Items : Sent(r, p)[i] = r.shipped[i] + p.parts[i].qty
  BY DEF Sent
<1>8. Proper(n)
  <2>1. r.invoices > 0 => \A i \in Items : r.shipped[i] >= Ordered[i]
    BY <1>2, <1>3 DEF Core, FullyShipped
  <2>2. ASSUME r.invoices > 0, NEW i \in Items PROVE Sent(r, p)[i] >= Ordered[i]
    <3>1. PICK a \in Nat, b \in Nat, c \in Nat :
            a = r.shipped[i] /\ b = p.parts[i].qty /\ c = Ordered[i]
      BY <1>4, <1>6, HoldsAre
    <3>2. a >= c
      BY <2>1, <2>2, <3>1
    <3>3. QED
      BY <1>7, <3>1, <3>2
  <2>3. ASSUME n.status = "COMPLETED" PROVE \A i \in Items : Sent(r, p)[i] >= Ordered[i]
    BY <1>5, <2>3 DEF Whole, FulfilledAs
  <2>4. QED
    BY <1>5, <2>2, <2>3 DEF Proper, FulfilledAs
<1>9. \A i \in Items : /\ n.shipped[i] >= r.shipped[i]
                        /\ NetOf(n, i) - NetOf(r, i) = p.parts[i].qty
  <2>1. TAKE i \in Items
  <2>2. PICK a \in Nat, b \in Nat, c \in Nat :
            a = r.shipped[i] /\ b = p.parts[i].qty /\ c = r.returned[i]
    BY <1>4, <1>6, HoldsAre
  <2>3. NetOf(n, i) = (a + b) - c /\ NetOf(r, i) = a - c /\ n.shipped[i] = a + b
    BY <1>5, <1>7, <2>2 DEF NetOf, FulfilledAs
  <2>4. QED
    BY <2>2, <2>3
<1>10. \A i \in Items : balance'[i].onHand = balance[i].onHand - (NetOf(n, i) - NetOf(r, i))
  BY <1>2, <1>9, FulfilRows
<1>11. Becomes(o, n)
  BY <1>2, <1>3, <1>5, <1>8, <1>9, <1>10, FulfilRows DEF Becomes, FulfilledAs
<1>12. QED
  BY <1>11, OneOrder

-----------------------------------------------------------------------------
(***************************************************************************)
(* Invoices and endings.                                                   *)
(***************************************************************************)
LEMMA InvoiceOK ==
    ASSUME Core, NEW p, InvoiceOrder(p) \/ GenerateInvoice(p), PlanOK(p)
    PROVE  Core' /\ Grows
<1>1. PICK o : o = p.order
  OBVIOUS
<1>2. /\ o \in DOMAIN orders /\ \A i \in Items : orders[o].shipped[i] >= Ordered[i]
      /\ Invoice(o)
  BY <1>1 DEF InvoiceOrder, GenerateInvoice, PlanOK
<1>3. PICK r : r = orders[o]
  OBVIOUS
<1>4. r \in Orders
  BY <1>2, <1>3, TypesNow
<1>5. PICK x : x = r.invoices + 1
  OBVIOUS
<1>6. PICK n : n = [r EXCEPT !.invoices = x]
  OBVIOUS
<1>7. x \in Nat
  BY <1>4, <1>5 DEF Orders
<1>8. /\ n \in Orders /\ n.status = r.status /\ n.holds = r.holds /\ n.shipped = r.shipped
      /\ n.returned = r.returned /\ n.invoices = x
  BY <1>4, <1>6, <1>7 DEF Orders
<1>9. orders' = [orders EXCEPT ![o] = n]
  BY <1>2, <1>3, <1>5, <1>6 DEF Invoice
<1>10. Proper(n)
  BY <1>2, <1>3, <1>8 DEF Proper
<1>11. \A i \in Items : n.shipped[i] >= r.shipped[i] /\ NetOf(n, i) - NetOf(r, i) = 0
  BY <1>4, <1>8, HoldsAre DEF NetOf
<1>12. quotation' = quotation /\ balance' = balance /\ balance' \in Rows
  BY <1>2 DEF Invoice, Rows, Core, Typed
<1>13. \A i \in Items : balance'[i].onHand = balance[i].onHand - (NetOf(n, i) - NetOf(r, i))
  <2>1. TAKE i \in Items
  <2>2. balance[i].onHand \in Int
    BY TypesNow
  <2>3. QED
    BY <1>11, <1>12, <2>2
<1>14. Becomes(o, n)
  BY <1>2, <1>3, <1>8, <1>9, <1>10, <1>11, <1>12, <1>13 DEF Becomes
<1>15. QED
  BY <1>14, OneOrder

\* What some of the reservations of a line hold.
LEMMA HeldNat ==
    ASSUME NEW hs \in Seq(Holds), NEW S, S \subseteq DOMAIN hs
    PROVE  Held(hs, S) \in Nat
<1>1. /\ DOMAIN hs = 1..Len(hs) /\ IsFiniteSet(DOMAIN hs)
      /\ \A h \in DOMAIN hs : hs[h] \in Holds
  BY SequenceDomain
<1>2. PICK f : f = [h \in DOMAIN hs |-> hs[h].qty]
  OBVIOUS
<1>3. \A h \in S : f[h] \in Nat
  BY <1>1, <1>2 DEF Holds
<1>4. IsFiniteSet(S)
  BY <1>1, FS_Subset
<1>5. SumFunctionOnSet(f, S) \in Nat
  BY <1>3, <1>4, SumNat
<1>6. QED
  BY <1>2, <1>5 DEF Held

LEMMA ReleasedNat ==
    ASSUME Core, NEW p, p.order \in DOMAIN orders, NEW i \in Items
    PROVE  Released(p, i) \in Nat
<1>1. PICK hs : hs = orders[p.order].holds[i]
  OBVIOUS
<1>2. hs \in Seq(Holds)
  BY <1>1, TypesNow, HoldsAre
<1>3. PICK S : S = StillActive(p, i)
  OBVIOUS
<1>4. S \subseteq DOMAIN hs
  BY <1>1, <1>3 DEF StillActive, Active
<1>5. Held(hs, S) \in Nat
  BY <1>2, <1>4, HeldNat
<1>6. QED
  BY <1>1, <1>3, <1>5 DEF Released

\* What ending leaves of reservations, when it found F of them.
Freed(hs, F) == [h \in DOMAIN hs |-> [hs[h] EXCEPT !.active = @ /\ h \notin F]]

LEMMA FreedTyped ==
    ASSUME NEW hs \in Seq(Holds), NEW F
    PROVE  /\ Freed(hs, F) \in Seq(Holds) /\ DOMAIN Freed(hs, F) = DOMAIN hs
           /\ Len(Freed(hs, F)) = Len(hs)
           /\ \A h \in DOMAIN hs : /\ Freed(hs, F)[h].qty = hs[h].qty
                                   /\ Freed(hs, F)[h].active = (hs[h].active /\ h \notin F)
<1>1. /\ DOMAIN hs = 1..Len(hs) /\ Len(hs) \in Nat
      /\ \A h \in DOMAIN hs : hs[h] \in Holds
  BY SequenceDomain
<1>2. ASSUME NEW h \in DOMAIN hs
      PROVE  /\ [hs[h] EXCEPT !.active = @ /\ h \notin F] \in Holds
             /\ [hs[h] EXCEPT !.active = @ /\ h \notin F].qty = hs[h].qty
             /\ [hs[h] EXCEPT !.active = @ /\ h \notin F].active = (hs[h].active /\ h \notin F)
  <2>1. PICK b, c : b = hs[h] /\ c = (hs[h].active /\ h \notin F)
    OBVIOUS
  <2>2. b \in Holds /\ c \in BOOLEAN
    BY <1>1, <2>1
  <2>3. PICK q : q = [b EXCEPT !.active = c]
    OBVIOUS
  <2>4. q \in Holds /\ q.qty = b.qty /\ q.active = c
    BY ONLY <2>2, <2>3 DEF Holds
  <2>5. q = [hs[h] EXCEPT !.active = @ /\ h \notin F]
    BY <2>1, <2>3
  <2>6. QED
    BY <2>1, <2>4, <2>5
<1>3. PICK q : q = Freed(hs, F)
  OBVIOUS
<1>4. q \in [1..Len(hs) -> Holds]
  BY <1>1, <1>2, <1>3 DEF Freed
<1>5. q \in Seq(Holds) /\ Len(q) = Len(hs)
  BY <1>1, <1>4
<1>6. QED
  BY <1>1, <1>2, <1>3, <1>4, <1>5 DEF Freed

EndedAs(p, o, r, n) ==
    /\ orders' = [orders EXCEPT ![o] = n]
    /\ n.holds = [i \in Items |-> Freed(r.holds[i], p.found[i])]
    /\ n.shipped = r.shipped /\ n.invoices = r.invoices

LEMMA CancelIs ==
    ASSUME Core, NEW p, CancelOrder(p), NEW o \in DOMAIN orders, p.order = o,
           NEW r, r = orders[o]
    PROVE  \E n \in Orders : /\ EndedAs(p, o, r, n) /\ n.status = "CANCELLED"
                             /\ n.returned = r.returned
<1>1. o = p.order /\ r \in Orders /\ r = orders[o]
  BY TypesNow
<1>2. PICK hs : hs = [i \in Items |-> Emptied(p, i)]
  OBVIOUS
<1>3. hs = [i \in Items |-> Freed(r.holds[i], p.found[i])]
  BY <1>1, <1>2 DEF Emptied, Freed
<1>4. hs \in [Items -> Seq(Holds)]
  <2>1. \A i \in Items : Freed(r.holds[i], p.found[i]) \in Seq(Holds)
    <3>1. TAKE i \in Items
    <3>2. r.holds[i] \in Seq(Holds)
      BY <1>1, HoldsAre
    <3>3. QED
      BY <3>2, FreedTyped
  <2>2. QED
    BY <1>3, <2>1
<1>5. orders' = [orders EXCEPT ![o].status = "CANCELLED", ![o].holds = hs]
  BY <1>1, <1>2 DEF CancelOrder
<1>6. PICK q : q = [r EXCEPT !.status = "CANCELLED"]
  OBVIOUS
<1>7. PICK n : n = [q EXCEPT !.holds = hs]
  OBVIOUS
<1>8. /\ q \in Orders /\ q.status = "CANCELLED"
      /\ q.holds = r.holds /\ q.shipped = r.shipped
      /\ q.returned = r.returned /\ q.invoices = r.invoices
  <2>1. "CANCELLED" \in Statuses
    BY DEF Statuses
  <2>2. QED
    BY <1>1, <1>6, <2>1, FieldStatus
<1>9. /\ n \in Orders /\ n.holds = hs /\ n.status = q.status /\ n.shipped = q.shipped
      /\ n.returned = q.returned /\ n.invoices = q.invoices
  BY <1>4, <1>7, <1>8, FieldHolds
<1>10. orders' = [orders EXCEPT ![o] = n]
  BY <1>1, <1>5, <1>6, <1>7, <1>8
<1>11. EndedAs(p, o, r, n)
  BY <1>3, <1>8, <1>9, <1>10 DEF EndedAs
<1>12. QED
  BY <1>8, <1>9, <1>11

LEMMA VoidIs ==
    ASSUME Core, NEW p, VoidSale(p), NEW o \in DOMAIN orders, p.order = o,
           p.shipped \in [Items -> Nat], NEW r, r = orders[o]
    PROVE  \E n \in Orders : /\ EndedAs(p, o, r, n) /\ n.status = "VOIDED"
                             /\ \A i \in Items : n.returned[i] = r.returned[i] + p.shipped[i]
<1>1. o = p.order /\ r \in Orders /\ r = orders[o]
  BY TypesNow
<1>2. PICK hs : hs = [i \in Items |-> Emptied(p, i)]
  OBVIOUS
<1>3. hs = [i \in Items |-> Freed(r.holds[i], p.found[i])]
  BY <1>1, <1>2 DEF Emptied, Freed
<1>4. hs \in [Items -> Seq(Holds)]
  <2>1. \A i \in Items : Freed(r.holds[i], p.found[i]) \in Seq(Holds)
    <3>1. TAKE i \in Items
    <3>2. r.holds[i] \in Seq(Holds)
      BY <1>1, HoldsAre
    <3>3. QED
      BY <3>2, FreedTyped
  <2>2. QED
    BY <1>3, <2>1
<1>5. orders' = [orders EXCEPT ![o].status = "VOIDED",
                   ![o].returned = [i \in Items |-> @[i] + p.shipped[i]],
                   ![o].holds = hs]
  BY <1>1, <1>2 DEF VoidSale
<1>6. PICK rt : rt = [i \in Items |-> r.returned[i] + p.shipped[i]]
  OBVIOUS
<1>7. rt \in [Items -> Nat]
  <2>1. \A i \in Items : r.returned[i] \in Nat /\ p.shipped[i] \in Nat
    BY <1>1, HoldsAre
  <2>2. QED
    BY <1>6, <2>1
<1>8. PICK q : q = [r EXCEPT !.status = "VOIDED"]
  OBVIOUS
<1>9. PICK u : u = [q EXCEPT !.returned = rt]
  OBVIOUS
<1>10. PICK n : n = [u EXCEPT !.holds = hs]
  OBVIOUS
<1>11. /\ q \in Orders /\ q.status = "VOIDED"
       /\ q.holds = r.holds /\ q.shipped = r.shipped
       /\ q.returned = r.returned /\ q.invoices = r.invoices
  <2>1. "VOIDED" \in Statuses
    BY DEF Statuses
  <2>2. QED
    BY <1>1, <1>8, <2>1, FieldStatus
<1>12. /\ u \in Orders /\ u.returned = rt /\ u.holds = q.holds /\ u.shipped = q.shipped
       /\ u.status = q.status /\ u.invoices = q.invoices
  BY <1>7, <1>9, <1>11, FieldReturned
<1>13. /\ n \in Orders /\ n.holds = hs /\ n.status = u.status /\ n.shipped = u.shipped
       /\ n.returned = u.returned /\ n.invoices = u.invoices
  BY SMTT(30), <1>4, <1>10, <1>12, FieldHolds
<1>14. orders' = [orders EXCEPT ![o] = n]
  BY <1>1, <1>5, <1>6, <1>8, <1>9, <1>10, <1>11, <1>12
<1>15. EndedAs(p, o, r, n)
  BY <1>3, <1>11, <1>12, <1>13, <1>14 DEF EndedAs
<1>16. QED
  BY <1>6, <1>11, <1>12, <1>13, <1>15

LEMMA CancelRows ==
    ASSUME Core, NEW p, CancelOrder(p), p.order \in DOMAIN orders
    PROVE  /\ quotation' = quotation /\ balance' \in Rows
           /\ \A i \in Items :
                /\ balance'[i].onHand = balance[i].onHand
                /\ balance'[i].reserved = balance[i].reserved - Released(p, i)
                /\ balance'[i].available = balance[i].available + Released(p, i)
<1>1. /\ quotation' = quotation
      /\ balance' = [i \in Items |-> [balance[i] EXCEPT !.reserved = @ - Released(p, i),
                                                        !.available = @ + Released(p, i)]]
  BY DEF CancelOrder
<1>2. \A i \in Items : /\ balance'[i] \in Row
                        /\ balance'[i].onHand = balance[i].onHand
                        /\ balance'[i].reserved = balance[i].reserved - Released(p, i)
                        /\ balance'[i].available = balance[i].available + Released(p, i)
  <2>1. TAKE i \in Items
  <2>2. PICK b, x, y, q :
          /\ b = balance[i] /\ x = balance[i].reserved - Released(p, i)
          /\ y = balance[i].available + Released(p, i)
          /\ q = [b EXCEPT !.reserved = x, !.available = y]
    OBVIOUS
  <2>3. b \in Row /\ x \in Int /\ y \in Int
    BY <2>2, RowsAre, ReleasedNat DEF Row
  <2>4. q \in Row /\ q.onHand = b.onHand /\ q.reserved = x /\ q.available = y
    <3>1. q = [b EXCEPT !.reserved = x, !.available = y]
      BY <2>2
    <3>2. QED
      BY ONLY <2>3, <3>1 DEF Row
  <2>5. balance'[i] = q
    BY <1>1, <2>2
  <2>6. QED
    BY <2>2, <2>4, <2>5
<1>3. balance' \in Rows
  BY <1>1, <1>2 DEF Rows, Row
<1>4. QED
  BY <1>1, <1>2, <1>3

LEMMA VoidRows ==
    ASSUME Core, NEW p, VoidSale(p), p.order \in DOMAIN orders, p.shipped \in [Items -> Nat]
    PROVE  /\ quotation' = quotation /\ balance' \in Rows
           /\ \A i \in Items :
                /\ balance'[i].onHand = balance[i].onHand + p.shipped[i]
                /\ balance'[i].reserved = balance[i].reserved - Released(p, i)
                /\ balance'[i].available = balance[i].available + Released(p, i) + p.shipped[i]
<1>1. /\ quotation' = quotation
      /\ balance' = [i \in Items |->
                       [balance[i] EXCEPT !.onHand = @ + p.shipped[i],
                                          !.reserved = @ - Released(p, i),
                                          !.available = @ + Released(p, i) + p.shipped[i]]]
  BY DEF VoidSale
<1>2. \A i \in Items :
        /\ balance'[i] \in Row
        /\ balance'[i].onHand = balance[i].onHand + p.shipped[i]
        /\ balance'[i].reserved = balance[i].reserved - Released(p, i)
        /\ balance'[i].available = balance[i].available + Released(p, i) + p.shipped[i]
  <2>1. TAKE i \in Items
  <2>2. PICK b, x, y, z, q :
          /\ b = balance[i] /\ x = balance[i].reserved - Released(p, i)
          /\ y = balance[i].available + Released(p, i) + p.shipped[i]
          /\ z = balance[i].onHand + p.shipped[i]
          /\ q = [b EXCEPT !.onHand = z, !.reserved = x, !.available = y]
    OBVIOUS
  <2>3. p.shipped[i] \in Int
    OBVIOUS
  <2>4. b \in Row /\ x \in Int /\ y \in Int /\ z \in Int
    BY <2>2, <2>3, RowsAre, ReleasedNat DEF Row
  <2>5. q \in Row /\ q.onHand = z /\ q.reserved = x /\ q.available = y
    <3>1. q = [b EXCEPT !.onHand = z, !.reserved = x, !.available = y]
      BY <2>2
    <3>2. QED
      BY ONLY <2>4, <3>1 DEF Row
  <2>6. balance'[i] = q
    BY <1>1, <2>2
  <2>7. QED
    BY <2>2, <2>5, <2>6
<1>3. balance' \in Rows
  BY <1>1, <1>2 DEF Rows, Row
<1>4. QED
  BY <1>1, <1>2, <1>3

LEMMA EndOK ==
    ASSUME Core, NEW p, CancelOrder(p) \/ VoidSale(p), PlanOK(p)
    PROVE  Core' /\ Grows
<1>1. PICK o : o = p.order
  OBVIOUS
<1>2. o \in DOMAIN orders /\ p.order = o /\ p.shipped \in [Items -> Nat]
  BY <1>1 DEF CancelOrder, VoidSale, PlanOK
<1>3. PICK r : r = orders[o]
  OBVIOUS
<1>4. r \in Orders
  BY <1>2, <1>3, TypesNow
<1>5. r.invoices > 0 => \A i \in Items : r.shipped[i] >= Ordered[i]
  BY <1>2, <1>3 DEF Core, FullyShipped
<1>6. CASE CancelOrder(p)
  <2>1. PICK n \in Orders : /\ EndedAs(p, o, r, n) /\ n.status = "CANCELLED"
                            /\ n.returned = r.returned
    BY <1>2, <1>3, <1>6, CancelIs
  <2>2. Proper(n)
    BY <1>5, <2>1 DEF Proper, EndedAs
  <2>3. \A i \in Items : n.shipped[i] >= r.shipped[i] /\ NetOf(n, i) - NetOf(r, i) = 0
    BY <1>4, <2>1, HoldsAre DEF NetOf, EndedAs
  <2>4. \A i \in Items : balance'[i].onHand = balance[i].onHand - (NetOf(n, i) - NetOf(r, i))
    <3>1. TAKE i \in Items
    <3>2. balance[i].onHand \in Int
      BY TypesNow
    <3>3. QED
      BY <1>2, <1>6, <2>3, <3>2, CancelRows
  <2>5. Becomes(o, n)
    BY <1>2, <1>3, <1>6, <2>1, <2>2, <2>3, <2>4, CancelRows DEF Becomes, EndedAs
  <2>6. QED
    BY <2>5, OneOrder
<1>7. CASE VoidSale(p)
  <2>1. PICK n \in Orders : /\ EndedAs(p, o, r, n) /\ n.status = "VOIDED"
                            /\ \A i \in Items : n.returned[i] = r.returned[i] + p.shipped[i]
    BY <1>2, <1>3, <1>7, VoidIs
  <2>2. Proper(n)
    BY <1>5, <2>1 DEF Proper, EndedAs
  <2>3. \A i \in Items : n.shipped[i] >= r.shipped[i] /\ NetOf(n, i) - NetOf(r, i) = 0 - p.shipped[i]
    <3>1. TAKE i \in Items
    <3>2. PICK a \in Nat, b \in Nat, c \in Nat :
            a = r.shipped[i] /\ b = p.shipped[i] /\ c = r.returned[i]
      BY <1>2, <1>4, HoldsAre
    <3>3. NetOf(n, i) = a - (c + b) /\ NetOf(r, i) = a - c /\ n.shipped[i] = a
      BY <2>1, <3>2 DEF NetOf, EndedAs
    <3>4. QED
      BY <3>2, <3>3
  <2>4. \A i \in Items : balance'[i].onHand = balance[i].onHand - (NetOf(n, i) - NetOf(r, i))
    <3>1. TAKE i \in Items
    <3>2. balance[i].onHand \in Int /\ p.shipped[i] \in Int
      BY <1>2, TypesNow
    <3>3. QED
      BY <1>2, <1>7, <2>3, <3>2, VoidRows
  <2>5. Becomes(o, n)
    BY <1>2, <1>3, <1>7, <2>1, <2>2, <2>3, <2>4, VoidRows DEF Becomes, EndedAs
  <2>6. QED
    BY <2>5, OneOrder
<1>8. QED
  BY <1>6, <1>7

-----------------------------------------------------------------------------
(***************************************************************************)
(* However calls overlap.                                                  *)
(***************************************************************************)
LEMMA WriteOK ==
    ASSUME Core, NEW p, Write(p), PlanOK(p)
    PROVE  Core' /\ Grows
BY AcceptOK, ConvertOK, ApproveOK, FulfilOK, InvoiceOK, EndOK DEF Write

LEMMA CoreTypes ==
    Core /\ slow.op \in Slow \cup {"none"} /\ overtaken \in 0..MaxOvertaken => TypeOK
BY DEF Core, Typed, TypeOK

LEMMA CoreTypesThen ==
    (Core /\ slow.op \in Slow \cup {"none"} /\ overtaken \in 0..MaxOvertaken => TypeOK)'
BY CoreTypes, PTL

LEMMA AloneOK == Inv /\ Alone => Inv'
<1> SUFFICES ASSUME Inv, Alone PROVE Inv'
  OBVIOUS
<1>1. PICK p \in Plans : Write(p)
  BY DEF Alone
<1>2. Core /\ Typed /\ FullyShipped /\ SlowOK /\ TypeOK /\ UNCHANGED <<slow, overtaken>>
  BY DEF Inv, Core, Alone
<1>3. Core' /\ Grows
  BY <1>1, <1>2, PlansOK, WriteOK
<1>4. TypeOK'
  BY <1>2, <1>3, CoreTypesThen DEF TypeOK
<1>5. SlowOK'
  <2>1. ASSUME slow # NoPlan PROVE PlanOK(slow)'
    <3>1. PICK q : q = slow
      OBVIOUS
    <3>2. PlanOK(q) /\ orders \in Seq(Orders) /\ orders' \in Seq(Orders)
      BY <1>2, <1>3, <2>1, <3>1 DEF SlowOK, Core, Typed
    <3>3. PlanOK(q)'
      BY <1>3, <3>2, PlanKept
    <3>4. slow' = q
      BY <1>2, <3>1
    <3>5. QED
      BY <3>3, <3>4 DEF PlanOK
  <2>2. QED
    BY <1>2, <2>1 DEF SlowOK
<1>6. QED
  BY <1>3, <1>4, <1>5 DEF Inv

LEMMA CoreSame == Core /\ UNCHANGED records => Core'
BY DEF Core, Typed, FullyShipped, OnHand, Net, records

LEMMA PauseOK == Inv /\ Pause => Inv'
<1> SUFFICES ASSUME Inv, Pause PROVE Inv'
  OBVIOUS
<1>1. /\ Core /\ Typed /\ FullyShipped /\ TypeOK
      /\ UNCHANGED <<records, overtaken>> /\ overtaken < MaxOvertaken
      /\ slow' \in Plans /\ slow'.op \in Slow
  BY DEF Inv, Core, Pause
<1>2. Core'
  BY <1>1, CoreSame
<1>3. TypeOK'
  BY <1>1, <1>2, CoreTypesThen DEF TypeOK
<1>4. SlowOK'
  <2>1. PICK q : q = slow'
    OBVIOUS
  <2>2. PlanOK(q)
    BY <1>1, <2>1, PlansOK
  <2>3. PlanOK(q)'
    BY <1>1, <2>2 DEF PlanOK, records
  <2>4. PlanOK(slow)'
    BY <2>1, <2>3 DEF PlanOK
  <2>5. QED
    BY <1>1, <2>4 DEF SlowOK
<1>5. QED
  BY <1>2, <1>3, <1>4 DEF Inv

LEMMA ResumeOK == Inv /\ Resume => Inv'
<1> SUFFICES ASSUME Inv, Resume PROVE Inv'
  OBVIOUS
<1>1. /\ Core /\ TypeOK /\ slow # NoPlan /\ slow' = NoPlan
      /\ PlanOK(slow) /\ overtaken < MaxOvertaken /\ overtaken \in 0..MaxOvertaken
  BY DEF Inv, SlowOK, Resume, TypeOK
<1>2. SlowOK' /\ slow'.op = "none"
  BY <1>1 DEF SlowOK, NoPlan
<1>3. Core' /\ overtaken' \in 0..MaxOvertaken
  <2>1. CASE Write(slow) /\ overtaken' = overtaken + (IF slow \in Plans THEN 0 ELSE 1)
    <3>1. PICK q : q = slow
      OBVIOUS
    <3>2. Write(q) /\ PlanOK(q)
      BY <1>1, <2>1, <3>1
    <3>3. Core'
      BY <1>1, <3>2, WriteOK
    <3>4. PICK n \in {0, 1} : overtaken' = overtaken + n
      BY <2>1
    <3>5. QED
      BY <1>1, <3>3, <3>4
  <2>2. CASE UNCHANGED <<records, overtaken>>
    BY <1>1, <2>2, CoreSame
  <2>3. QED
    BY <2>1, <2>2 DEF Resume
<1>4. TypeOK'
  BY <1>2, <1>3, CoreTypesThen
<1>5. QED
  BY <1>2, <1>3, <1>4 DEF Inv

LEMMA NextOK == Inv /\ [Next]_vars => Inv'
<1>1. ASSUME Inv, UNCHANGED vars PROVE Inv'
  <2>1. UNCHANGED records /\ slow' = slow /\ overtaken' = overtaken
    BY <1>1 DEF vars
  <2>2. Core'
    BY <1>1, <2>1, CoreSame DEF Inv
  <2>3. TypeOK'
    BY <1>1, <2>1, <2>2, CoreTypesThen DEF Inv, TypeOK
  <2>4. SlowOK'
    BY <1>1, <2>1 DEF Inv, SlowOK, PlanOK, records
  <2>5. QED
    BY <2>2, <2>3, <2>4 DEF Inv
<1>2. QED
  BY <1>1, AloneOK, PauseOK, ResumeOK DEF Next

\* However calls overlap, every order and every plan of a slow call keeps its
\* type, what a call has found shipped stays shipped, and each row's quantity on
\* hand is down by what its orders shipped and did not put back.
THEOREM InvHolds == Spec => []Inv
<1>1. QED
  BY InitOK, NextOK, PTL DEF Spec

\* However calls overlap, an order that is COMPLETED or was invoiced has been
\* shipped in full, and stock on hand is down by what was shipped and not put
\* back, to the piece (fulfilOrder, invoiceOrder, generateInvoice, cancelSale).
THEOREM OrdersAreShipped == Spec => []SoldIsShipped
<1>1. Inv => SoldIsShipped
  <2> SUFFICES ASSUME Inv PROVE SoldIsShipped
    OBVIOUS
  <2>1. TypeOK /\ FullyShipped /\ OnHand
    BY DEF Inv, Core
  <2>2. \A i \in Items :
          balance[i].onHand = Opening[i] -
            SumFunction([o \in DOMAIN orders |-> orders[o].shipped[i] - orders[o].returned[i]])
    BY <2>1 DEF OnHand, Net
  <2>3. QED
    BY <2>1, <2>2 DEF SoldIsShipped, FullyShipped
<1>2. QED
  BY <1>1, InvHolds, PTL

-----------------------------------------------------------------------------
(***************************************************************************)
(* The shape of an order.                                                  *)
(***************************************************************************)
\* What the active reservations of a line hold.
HeldIn(hs) == Held(hs, Active(hs))

\* One line of an order: a DRAFT has reserved nothing, a CONFIRMED order holds
\* what is left to ship, in its one reservation, and any other order nothing.
Line(r, i) ==
    /\ r.status = "DRAFT" => r.holds[i] = <<>> /\ r.shipped[i] = 0
    /\ r.status = "CONFIRMED" =>
         /\ Len(r.holds[i]) = 1
         /\ IF r.holds[i][1].active THEN r.holds[i][1].qty = Ordered[i] - r.shipped[i]
                                    ELSE r.shipped[i] = Ordered[i]
    /\ r.status \in {"COMPLETED", "CANCELLED", "VOIDED"} => Active(r.holds[i]) = {}
    /\ r.returned[i] = IF r.status = "VOIDED" THEN r.shipped[i] ELSE 0

Shape(r) ==
    /\ \A i \in Items : Line(r, i)
    /\ r.invoices <= IF r.status \in {"DRAFT", "CONFIRMED"} THEN 0 ELSE 1

ReservedBy(i) == [o \in DOMAIN orders |-> HeldIn(orders[o].holds[i])]

OneOfQuotation == Len(orders) = IF quotation = "CONVERTED_TO_ORDER" THEN 1 ELSE 0

Reserved ==
    \A i \in Items : /\ balance[i].reserved = SumFunction(ReservedBy(i))
                     /\ balance[i].onHand = balance[i].reserved + balance[i].available

Orderly ==
    /\ OneOfQuotation
    /\ \A o \in DOMAIN orders : Shape(orders[o])
    /\ Reserved

LEMMA HeldInNat ==
    ASSUME NEW hs \in Seq(Holds)
    PROVE  HeldIn(hs) \in Nat
<1>1. PICK S : S = Active(hs)
  OBVIOUS
<1>2. S \subseteq DOMAIN hs
  BY <1>1 DEF Active
<1>3. Held(hs, S) \in Nat
  BY <1>2, HeldNat
<1>4. QED
  BY <1>1, <1>3 DEF HeldIn

LEMMA NoneHeld ==
    ASSUME NEW hs, Active(hs) = {}
    PROVE  HeldIn(hs) = 0
BY SumEmpty DEF HeldIn, Held

LEMMA OneHeld ==
    ASSUME NEW hs \in Seq(Holds), Len(hs) = 1
    PROVE  HeldIn(hs) = IF hs[1].active THEN hs[1].qty ELSE 0
<1>1. DOMAIN hs = {1} /\ hs[1] \in Holds
  BY SequenceDomain
<1>2. CASE ~hs[1].active
  <2>1. Active(hs) = {}
    BY <1>1, <1>2 DEF Active
  <2>2. QED
    BY <1>2, <2>1, NoneHeld
<1>3. CASE hs[1].active
  <2>1. Active(hs) = {1}
    BY <1>1, <1>3 DEF Active
  <2>2. PICK f : f = [h \in DOMAIN hs |-> hs[h].qty]
    OBVIOUS
  <2>3. f[1] = hs[1].qty /\ f[1] \in Int /\ f \in [{1} -> Int]
    BY <1>1, <2>2 DEF Holds
  <2>4. IsFiniteSet({1}) /\ IsFiniteSet({})
    BY FS_EmptySet, FS_Singleton
  <2>5. SumFunctionOnSet(f, {} \cup {1}) = SumFunctionOnSet(f, {}) + f[1]
    BY <2>3, <2>4, SumAdd
  <2>6. SumFunctionOnSet(f, {}) = 0
    BY SumEmpty
  <2>7. {} \cup {1} = {1}
    OBVIOUS
  <2>8. SumFunctionOnSet(f, {1}) = f[1]
    BY <2>3, <2>5, <2>6, <2>7
  <2>9. QED
    BY <1>3, <2>1, <2>2, <2>3, <2>8 DEF HeldIn, Held
<1>4. QED
  BY <1>2, <1>3

\* What a line of this shape holds.
Open(r, i) == IF r.status = "CONFIRMED" THEN Ordered[i] - r.shipped[i] ELSE 0

\* The reservations of a line hold what it still has to ship.
LEMMA LineHolds ==
    ASSUME NEW r \in Orders, NEW i \in Items, Line(r, i)
    PROVE  HeldIn(r.holds[i]) = Open(r, i)
<1>1. PICK hs : hs = r.holds[i]
  OBVIOUS
<1>2. hs \in Seq(Holds) /\ r.shipped[i] \in Nat
  BY <1>1, HoldsAre
<1>3. r.status \in Statuses
  BY DEF Orders
<1>4. CASE r.status = "DRAFT"
  <2>1. hs = <<>>
    BY <1>1, <1>4 DEF Line
  <2>2. Active(hs) = {}
    BY <2>1 DEF Active
  <2>3. QED
    BY <1>1, <1>4, <2>2, NoneHeld DEF Open
<1>5. CASE r.status = "CONFIRMED"
  <2>1. Len(hs) = 1 /\ IF hs[1].active THEN hs[1].qty = Ordered[i] - r.shipped[i]
                                       ELSE r.shipped[i] = Ordered[i]
    BY <1>1, <1>5 DEF Line
  <2>2. HeldIn(hs) = IF hs[1].active THEN hs[1].qty ELSE 0
    BY <1>2, <2>1, OneHeld
  <2>3. HeldIn(hs) = Ordered[i] - r.shipped[i]
    BY <1>2, <2>1, <2>2
  <2>4. QED
    BY <1>1, <1>5, <2>3 DEF Open
<1>6. CASE r.status \in {"COMPLETED", "CANCELLED", "VOIDED"}
  <2>1. Active(hs) = {}
    BY <1>1, <1>6 DEF Line
  <2>2. QED
    BY <1>1, <1>6, <2>1, NoneHeld DEF Open
<1>7. QED
  BY <1>3, <1>4, <1>5, <1>6 DEF Statuses

LEMMA ReservedTyped ==
    ASSUME Typed, NEW i \in Items
    PROVE  ReservedBy(i) \in [DOMAIN orders -> Int]
<1>1. \A o \in DOMAIN orders : HeldIn(orders[o].holds[i]) \in Int
  <2>1. TAKE o \in DOMAIN orders
  <2>2. PICK hs : hs = orders[o].holds[i]
    OBVIOUS
  <2>3. hs \in Seq(Holds)
    BY <2>2, OrdersAre, HoldsAre
  <2>4. QED
    BY <2>2, <2>3, HeldInNat
<1>2. QED
  BY <1>1 DEF ReservedBy

\* One order becomes n, of the right shape, and the row moves by what it holds.
Turns(o, n) ==
    /\ o \in DOMAIN orders /\ n \in Orders
    /\ orders' = [orders EXCEPT ![o] = n]
    /\ Shape(n)
    /\ quotation' = quotation
    /\ \A i \in Items :
         /\ balance'[i].reserved = balance[i].reserved + (Open(n, i) - Open(orders[o], i))
         /\ balance'[i].onHand = balance'[i].reserved + balance'[i].available

\* A write to one order keeps the order of the records.
LEMMA OneTurns ==
    ASSUME Core, Orderly, NEW o, NEW n, Turns(o, n)
    PROVE  Orderly'
<1>1. /\ Typed /\ DOMAIN orders = 1..Len(orders)
      /\ \A k \in DOMAIN orders : orders[k] \in Orders /\ Shape(orders[k])
      /\ IsFiniteSet(DOMAIN orders)
  BY OrdersAre DEF Core, Orderly
<1>2. orders \in Seq(Orders) /\ o \in DOMAIN orders /\ n \in Orders /\ Shape(n)
  BY <1>1 DEF Typed, Turns
<1>3. /\ DOMAIN orders' = DOMAIN orders /\ Len(orders') = Len(orders)
      /\ orders'[o] = n /\ \A k \in DOMAIN orders \ {o} : orders'[k] = orders[k]
  <2>1. PICK r : r = orders'
    OBVIOUS
  <2>2. r = [orders EXCEPT ![o] = n]
    BY <2>1 DEF Turns
  <2>3. /\ DOMAIN r = DOMAIN orders /\ Len(r) = Len(orders)
        /\ r[o] = n /\ \A k \in DOMAIN orders \ {o} : r[k] = orders[k]
    BY <1>2, <2>2, SequenceSet
  <2>4. QED
    BY <2>1, <2>3
<1>4. OneOfQuotation'
  BY <1>3 DEF OneOfQuotation, Orderly, Turns
<1>5. (\A k \in DOMAIN orders : Shape(orders[k]))'
  <2>1. ASSUME NEW k \in DOMAIN orders' PROVE Shape(orders'[k])
    BY <1>1, <1>2, <1>3, <2>1
  <2>2. QED
    BY <2>1 DEF Shape, Line
<1>6. Reserved'
  <2> SUFFICES ASSUME NEW i \in Items
               PROVE  /\ balance'[i].reserved = SumFunction(ReservedBy(i)')
                      /\ balance'[i].onHand = balance'[i].reserved + balance'[i].available
    BY DEF Reserved
  <2>1. PICK S : S = DOMAIN orders
    OBVIOUS
  <2>2. PICK f : f = ReservedBy(i)
    OBVIOUS
  <2>3. PICK e : e = ReservedBy(i)'
    OBVIOUS
  <2>4. f \in [S -> Int] /\ \A k \in S : f[k] = HeldIn(orders[k].holds[i])
    BY <1>1, <2>1, <2>2, ReservedTyped DEF ReservedBy
  <2>5. /\ DOMAIN e = S /\ \A k \in S : e[k] = HeldIn(orders'[k].holds[i])
        /\ e = [k \in S |-> e[k]]
    BY <1>3, <2>1, <2>3 DEF ReservedBy, HeldIn, Held, Active
  <2>6. \A k \in S \ {o} : e[k] = f[k]
    BY <1>3, <2>1, <2>4, <2>5
  <2>7. o \in S /\ IsFiniteSet(S)
    BY <1>1, <1>2, <2>1
  <2>8. e[o] = Open(n, i) /\ f[o] = Open(orders[o], i)
    <3>1. e[o] = HeldIn(n.holds[i]) /\ f[o] = HeldIn(orders[o].holds[i])
      BY <1>3, <2>4, <2>5, <2>7
    <3>2. Line(n, i) /\ Line(orders[o], i)
      BY <1>1, <1>2 DEF Shape
    <3>3. QED
      BY <1>1, <1>2, <3>1, <3>2, LineHolds
  <2>9. e[o] \in Int
    <3>1. n.shipped[i] \in Nat /\ Ordered[i] \in Nat
      BY <1>2, HoldsAre
    <3>2. QED
      BY <2>8, <3>1 DEF Open
  <2>10. e \in [S -> Int]
    <3>1. \A k \in S : e[k] \in Int
      BY <2>4, <2>6, <2>9
    <3>2. QED
      BY <2>5, <3>1
  <2>11. SumFunction(e) = SumFunction(f) + (e[o] - f[o])
    BY ONLY <2>4, <2>6, <2>7, <2>10, TotalUpdate
  <2>12. balance[i].reserved = SumFunction(f)
    BY <2>2 DEF Orderly, Reserved
  <2>13. balance'[i].reserved = SumFunction(e)
    BY <2>8, <2>11, <2>12 DEF Turns
  <2>14. QED
    BY <2>3, <2>13 DEF Turns
<1>7. QED
  BY <1>4, <1>5, <1>6 DEF Orderly

\* What is known of a plan of this moment.
LEMMA PlanOf ==
    ASSUME NEW p \in Plans
    PROVE  /\ p.op \in {"accept", "reject"} => quotation = "DRAFT"
           /\ p.op = "convert" => quotation = "ACCEPTED"
           /\ p.op = "approve" => p.order \in InStatus({"DRAFT"})
           /\ p.op = "fulfil" => /\ p.order \in InStatus({"CONFIRMED"})
                                 /\ p.parts \in Parts(p.order)
           /\ p.op \in {"invoice", "generate"} => p.order \in NotInvoiced
           /\ p.op \in {"cancel", "void"} =>
                /\ p.order \in InStatus({"DRAFT", "CONFIRMED", "COMPLETED"})
                /\ p.found = [i \in Items |-> Active(orders[p.order].holds[i])]
                /\ p.shipped = orders[p.order].shipped
<1>1. CASE p \in QuotationPlans
  <2>1. PICK op \in IF quotation = "DRAFT" THEN {"accept", "reject"}
                    ELSE IF quotation = "ACCEPTED" THEN {"convert"} ELSE {} : p = [op |-> op]
    BY <1>1 DEF QuotationPlans
  <2>2. QED
    BY <2>1
<1>2. CASE p \in ApprovePlans
  BY <1>2 DEF ApprovePlans
<1>3. CASE p \in FulfilPlans
  BY <1>3 DEF FulfilPlans
<1>4. CASE p \in InvoicePlans
  BY <1>4 DEF InvoicePlans
<1>5. CASE p \in EndPlans
  BY <1>5 DEF EndPlans
<1>6. QED
  BY <1>1, <1>2, <1>3, <1>4, <1>5 DEF Plans

-----------------------------------------------------------------------------
(***************************************************************************)
(* Quotations, approval and fulfilment of orders of this shape.            *)
(***************************************************************************)
LEMMA QuotationOrderly ==
    ASSUME Core, Orderly, NEW p \in Plans, AcceptQuotation(p) \/ RejectQuotation(p)
    PROVE  Orderly'
<1>1. /\ quotation = "DRAFT" /\ quotation' \in {"ACCEPTED", "REJECTED"}
      /\ UNCHANGED <<orders, balance>>
  BY PlanOf DEF AcceptQuotation, RejectQuotation
<1>2. OneOfQuotation'
  BY <1>1 DEF Orderly, OneOfQuotation
<1>3. (\A o \in DOMAIN orders : Shape(orders[o]))'
  <2>1. ASSUME NEW k \in DOMAIN orders' PROVE Shape(orders'[k])
    BY <1>1 DEF Orderly
  <2>2. QED
    BY <2>1 DEF Shape, Line
<1>4. Reserved'
  <2>1. \A i \in Items : ReservedBy(i)' = ReservedBy(i)
    BY <1>1 DEF ReservedBy, HeldIn, Held, Active
  <2>2. QED
    BY <1>1, <2>1 DEF Orderly, Reserved
<1>5. QED
  BY <1>2, <1>3, <1>4 DEF Orderly

LEMMA ConvertOrderly ==
    ASSUME Core, Orderly, NEW p \in Plans, ConvertQuotation(p)
    PROVE  Orderly'
<1>1. /\ quotation = "ACCEPTED" /\ quotation' = "CONVERTED_TO_ORDER" /\ balance' = balance
      /\ orders' = Append(orders, NewOrder) /\ orders \in Seq(Orders)
  BY PlanOf DEF ConvertQuotation, Core, Typed
<1>2. Len(orders) = 0 /\ DOMAIN orders = {}
  BY <1>1, TypesNow DEF Orderly, OneOfQuotation
<1>3. Len(orders') = 1 /\ DOMAIN orders' = {1} /\ orders'[1] = NewOrder
  <2>1. PICK r : r = orders'
    OBVIOUS
  <2>2. r = Append(orders, NewOrder)
    BY <1>1, <2>1
  <2>3. /\ DOMAIN r = DOMAIN orders \cup {Len(orders) + 1} /\ Len(r) = Len(orders) + 1
        /\ r[Len(orders) + 1] = NewOrder
    BY <1>1, <2>2, NewOrderIs, SequenceAppend
  <2>4. QED
    BY <1>2, <2>1, <2>3
<1>4. OneOfQuotation'
  BY <1>1, <1>3 DEF OneOfQuotation
<1>5. Shape(NewOrder) /\ \A i \in Items : HeldIn(NewOrder.holds[i]) = 0
  <2>1. \A i \in Items : NewOrder.holds[i] = <<>> /\ Active(<<>>) = {}
    BY DEF NewOrder, Active
  <2>2. QED
    BY <2>1, NoneHeld DEF Shape, Line, NewOrder
<1>6. (\A o \in DOMAIN orders : Shape(orders[o]))'
  <2>1. ASSUME NEW k \in DOMAIN orders' PROVE Shape(orders'[k])
    BY <1>3, <1>5
  <2>2. QED
    BY <2>1 DEF Shape, Line
<1>7. Reserved'
  <2> SUFFICES ASSUME NEW i \in Items
               PROVE  /\ balance[i].reserved = SumFunction(ReservedBy(i)')
                      /\ balance[i].onHand = balance[i].reserved + balance[i].available
    BY <1>1 DEF Reserved
  <2>1. PICK e : e = ReservedBy(i)'
    OBVIOUS
  <2>2. e = [k \in {1} |-> e[k]] /\ e[1] = 0
    BY <1>3, <1>5, <2>1 DEF ReservedBy, HeldIn, Held, Active
  <2>3. e \in [{1} -> {0}]
    BY <2>2
  <2>4. SumFunction(e) = 0
    BY <2>3, FS_Singleton, TotalZero
  <2>5. DOMAIN ReservedBy(i) = {}
    BY <1>2 DEF ReservedBy
  <2>6. balance[i].reserved = 0
    BY <2>5, TotalEmpty DEF Orderly, Reserved
  <2>7. QED
    BY <2>1, <2>4, <2>6 DEF Orderly, Reserved
<1>8. QED
  BY <1>4, <1>6, <1>7 DEF Orderly

LEMMA ApproveLine ==
    ASSUME NEW r \in Orders, NEW n \in Orders, NEW i \in Items, Line(r, i), r.status = "DRAFT",
           n.status = "CONFIRMED",
           n.holds[i] = Append(r.holds[i], [qty |-> Ordered[i], active |-> TRUE]),
           n.shipped[i] = r.shipped[i], n.returned[i] = r.returned[i]
    PROVE  Line(n, i) /\ Open(n, i) = Ordered[i] /\ Open(r, i) = 0
<1>1. r.holds[i] = <<>> /\ r.shipped[i] = 0 /\ r.returned[i] = 0
  BY DEF Line
<1>2. n.holds[i] = <<[qty |-> Ordered[i], active |-> TRUE]>>
  BY <1>1
<1>3. Ordered[i] \in Nat
  OBVIOUS
<1>4. Line(n, i)
  BY <1>1, <1>2, <1>3 DEF Line
<1>5. QED
  BY <1>1, <1>3, <1>4 DEF Open

LEMMA ApproveOrderly ==
    ASSUME Core, Orderly, NEW p \in Plans, ApproveOrder(p)
    PROVE  Orderly'
<1>1. PICK o : o = p.order
  OBVIOUS
<1>2. p.order = o /\ o \in DOMAIN orders /\ orders[o].status = "DRAFT"
  BY <1>1, PlanOf DEF ApproveOrder, InStatus
<1>3. PICK r : r = orders[o]
  OBVIOUS
<1>4. r \in Orders /\ Shape(r) /\ r.status = "DRAFT"
  BY <1>2, <1>3, TypesNow DEF Orderly
<1>5. PICK n \in Orders : ApprovedAs(o, r, n)
  BY <1>2, <1>3, ApproveIs
<1>6. \A i \in Items : Line(n, i) /\ Open(n, i) = Ordered[i] /\ Open(r, i) = 0
  <2>1. TAKE i \in Items
  <2>2. /\ n.status = "CONFIRMED"
        /\ n.holds[i] = Append(r.holds[i], [qty |-> Ordered[i], active |-> TRUE])
        /\ n.shipped[i] = r.shipped[i] /\ n.returned[i] = r.returned[i]
    BY <1>5 DEF ApprovedAs
  <2>3. QED
    BY <1>4, <2>2, ApproveLine DEF Shape
<1>7. Shape(n)
  BY <1>4, <1>5, <1>6 DEF Shape, ApprovedAs
<1>8. \A i \in Items :
        /\ balance'[i].reserved = balance[i].reserved + (Open(n, i) - Open(r, i))
        /\ balance'[i].onHand = balance'[i].reserved + balance'[i].available
  <2>1. TAKE i \in Items
  <2>2. PICK a, b, c, d : /\ a = balance[i].reserved /\ b = balance[i].available
                          /\ c = Ordered[i] /\ d = balance[i].onHand
    OBVIOUS
  <2>3. a \in Int /\ b \in Int /\ c \in Int /\ d = a + b
    BY <2>2, TypesNow DEF Orderly, Reserved
  <2>4. /\ balance'[i].reserved = a + c /\ balance'[i].available = b - c
        /\ balance'[i].onHand = d
    BY <2>2, ApproveRows
  <2>5. a + c = a + (c - 0) /\ d = (a + c) + (b - c)
    BY <2>3
  <2>6. QED
    BY <1>6, <2>2, <2>4, <2>5
<1>9. Turns(o, n)
  BY <1>2, <1>3, <1>5, <1>7, <1>8, ApproveRows DEF Turns, ApprovedAs
<1>10. QED
  BY <1>9, OneTurns

\* Fulfilment keeps the shape of a line.
LEMMA DrawLine ==
    ASSUME NEW r \in Orders, NEW n \in Orders, NEW i \in Items, Line(r, i),
           r.status = "CONFIRMED", NEW part \in PartsOf(r.holds[i]),
           n.holds[i] = Draw(r.holds[i], part), n.shipped[i] = r.shipped[i] + part.qty,
           n.returned[i] = r.returned[i],
           n.status = "CONFIRMED" \/ (n.status = "COMPLETED" /\ n.shipped[i] >= Ordered[i])
    PROVE  Line(n, i) /\ Open(n, i) = Open(r, i) - part.qty
<1>1. PICK hs, s, c, ns : hs = r.holds[i] /\ s = r.shipped[i] /\ c = Ordered[i] /\ ns = n.holds[i]
  OBVIOUS
<1>2. /\ hs \in Seq(Holds) /\ s \in Nat /\ c \in Nat \ {0}
      /\ Len(hs) = 1 /\ DOMAIN hs = {1} /\ hs[1] \in Holds
      /\ IF hs[1].active THEN hs[1].qty = c - s ELSE s = c
  <2>1. hs \in Seq(Holds) /\ s \in Nat /\ c \in Nat \ {0}
    BY <1>1, HoldsAre
  <2>2. Len(hs) = 1 /\ IF hs[1].active THEN hs[1].qty = c - s ELSE s = c
    BY <1>1 DEF Line
  <2>3. DOMAIN hs = {1} /\ hs[1] \in Holds
    BY <2>1, <2>2, SequenceDomain
  <2>4. QED
    BY <2>1, <2>2, <2>3
<1>3. ns = Draw(hs, part) /\ r.returned[i] = 0 /\ n.returned[i] = 0
  BY <1>1 DEF Line
<1>4. CASE part = [hold |-> 0, qty |-> 0, left |-> 0]
  <2>1. part.qty = 0 /\ ns = hs /\ n.shipped[i] = s
    BY <1>1, <1>2, <1>3, <1>4 DEF Draw
  <2>2. CASE n.status = "CONFIRMED"
    <3>1. Line(n, i)
      BY <1>1, <1>2, <1>3, <2>1, <2>2 DEF Line
    <3>2. QED
      BY <1>1, <1>2, <2>1, <2>2, <3>1 DEF Open
  <2>3. CASE n.status = "COMPLETED" /\ s >= c
    <3>1. ~hs[1].active /\ s = c
      BY <1>2, <2>3 DEF Holds
    <3>2. Active(ns) = {}
      BY <1>2, <2>1, <3>1 DEF Active
    <3>3. Line(n, i)
      BY <1>1, <1>3, <2>3, <3>2 DEF Line
    <3>4. QED
      BY <1>1, <1>2, <2>1, <2>3, <3>1, <3>3 DEF Open
  <2>4. QED
    BY <1>1, <2>1, <2>2, <2>3
<1>5. CASE part # [hold |-> 0, qty |-> 0, left |-> 0]
  <2>0. PICK h \in Active(hs) :
          \E q \in 1..hs[h].qty : part = [hold |-> h, qty |-> q, left |-> hs[h].qty - q]
    BY <1>1, <1>5 DEF PartsOf
  <2>1. PICK q \in 1..hs[h].qty : part = [hold |-> h, qty |-> q, left |-> hs[h].qty - q]
    BY <2>0
  <2>2. h = 1 /\ hs[1].active /\ hs[1].qty = c - s /\ hs[1].qty \in Nat
    BY <1>2, <2>1 DEF Active, Holds
  <2>3. /\ part.hold = 1 /\ part.qty = q /\ part.left = (c - s) - q
        /\ q \in Nat /\ q >= 1 /\ q <= c - s
    BY <2>1, <2>2
  <2>4. n.shipped[i] = s + q
    BY <1>1, <2>3
  <2>5. CASE part.left = 0
    <3>1. PICK a : a = [hs[1] EXCEPT !.active = FALSE]
      OBVIOUS
    <3>2. a \in Holds /\ a.active = FALSE
      BY ONLY <1>2, <3>1 DEF Holds
    <3>3. ns = [hs EXCEPT ![1] = a]
      BY <1>3, <2>3, <2>5, <3>1 DEF Draw
    <3>4. Len(ns) = 1 /\ DOMAIN ns = {1} /\ ns[1] = a
      BY <1>2, <3>2, <3>3, SequenceSet
    <3>5. Active(ns) = {}
      BY <3>2, <3>4 DEF Active
    <3>6. s + q = c
      <4>1. s \in Nat /\ c \in Nat /\ q \in Nat /\ (c - s) - q = 0
        BY <1>2, <2>3, <2>5
      <4>2. QED
        BY ONLY <4>1
    <3>7. Line(n, i)
      BY <1>1, <1>3, <2>4, <3>2, <3>4, <3>5, <3>6 DEF Line
    <3>8. QED
      BY <1>1, <1>2, <2>3, <2>4, <3>6, <3>7 DEF Open
  <2>6. CASE part.left # 0
    <3>1. PICK a : a = [hs[1] EXCEPT !.qty = part.left]
      OBVIOUS
    <3>2. part.left \in Nat \ {0}
      BY <1>2, <2>3, <2>6
    <3>3. a \in Holds /\ a.active = hs[1].active /\ a.qty = part.left
      BY ONLY <1>2, <3>1, <3>2 DEF Holds
    <3>4. ns = [hs EXCEPT ![1] = a]
      BY <1>3, <2>3, <2>6, <3>1 DEF Draw
    <3>5. Len(ns) = 1 /\ DOMAIN ns = {1} /\ ns[1] = a
      BY <1>2, <3>3, <3>4, SequenceSet
    <3>6. s + q < c /\ part.left = c - (s + q)
      BY <1>2, <2>3, <3>2
    <3>7. n.status = "CONFIRMED"
      BY <1>1, <1>2, <2>3, <2>4, <3>6
    <3>8. Line(n, i)
      BY ZenonT(60), <1>1, <1>3, <2>2, <2>4, <3>3, <3>5, <3>6, <3>7 DEF Line
    <3>9. QED
      BY <1>1, <1>2, <2>3, <2>4, <3>6, <3>7, <3>8 DEF Open
  <2>7. QED
    BY <2>5, <2>6
<1>6. QED
  BY <1>4, <1>5

-----------------------------------------------------------------------------
(***************************************************************************)
(* Until a call is overtaken.                                              *)
(***************************************************************************)
LEMMA FulfilOrderly ==
    ASSUME Core, FullyShipped, Orderly, NEW p \in Plans, FulfilOrder(p)
    PROVE  Orderly'
<1>1. PICK o : o = p.order
  OBVIOUS
<1>2. /\ p.order = o /\ o \in DOMAIN orders /\ orders[o].status = "CONFIRMED"
      /\ p.parts \in Parts(o)
  BY <1>1, PlanOf DEF FulfilOrder, InStatus
<1>3. p.parts \in [Items -> PartRecords]
  <2>1. PlanOK(p) /\ p.op = "fulfil"
    BY PlansOK DEF Core, FulfilOrder
  <2>2. QED
    BY <2>1 DEF PlanOK
<1>4. PICK r : r = orders[o]
  OBVIOUS
<1>5. r \in Orders /\ Shape(r) /\ r.status = "CONFIRMED"
  BY <1>2, <1>4, TypesNow DEF Orderly
<1>6. PICK n \in Orders : FulfilledAs(p, o, r, n)
  BY <1>2, <1>3, <1>4, FulfilIs
<1>7. \A i \in Items : Line(n, i) /\ Open(n, i) = Open(r, i) - p.parts[i].qty
  <2>1. TAKE i \in Items
  <2>2. PICK part : part = p.parts[i]
    OBVIOUS
  <2>3. part \in PartsOf(r.holds[i])
    BY <1>2, <1>4, <2>2 DEF Parts
  <2>4. /\ n.holds[i] = Draw(r.holds[i], part) /\ n.shipped[i] = r.shipped[i] + part.qty
        /\ n.returned[i] = r.returned[i]
    BY <1>6, <2>2 DEF FulfilledAs, Sent
  <2>5. n.status = "CONFIRMED" \/ (n.status = "COMPLETED" /\ n.shipped[i] >= Ordered[i])
    BY <1>6 DEF FulfilledAs, Whole
  <2>6. Line(r, i)
    BY <1>5 DEF Shape
  <2>7. Line(n, i) /\ Open(n, i) = Open(r, i) - part.qty
    BY <1>5, <2>3, <2>4, <2>5, <2>6, DrawLine
  <2>8. QED
    BY <2>2, <2>7
<1>8. Shape(n)
  <2>1. r.invoices <= 0 /\ n.invoices = r.invoices /\ r.invoices \in Nat
    BY <1>5, <1>6 DEF Shape, FulfilledAs, Orders
  <2>2. QED
    BY <1>7, <2>1 DEF Shape
<1>9. \A i \in Items :
        /\ balance'[i].reserved = balance[i].reserved + (Open(n, i) - Open(r, i))
        /\ balance'[i].onHand = balance'[i].reserved + balance'[i].available
  <2>1. TAKE i \in Items
  <2>2. PICK a, b, c, d, x : /\ a = balance[i].reserved /\ b = balance[i].available
                             /\ c = p.parts[i].qty /\ d = balance[i].onHand /\ x = Open(r, i)
    OBVIOUS
  <2>3. a \in Int /\ b \in Int /\ c \in Int /\ d = a + b
    BY <1>3, <2>2, TypesNow DEF Orderly, Reserved, PartRecords
  <2>4. x \in Int
    BY <1>5, <2>2, HoldsAre DEF Open
  <2>5. /\ balance'[i].reserved = a - c /\ balance'[i].available = b
        /\ balance'[i].onHand = d - c
    BY <1>3, <2>2, FulfilRows
  <2>6. a - c = a + ((x - c) - x) /\ d - c = (a - c) + b
    BY <2>3, <2>4
  <2>7. QED
    BY <1>7, <2>2, <2>5, <2>6
<1>10. Turns(o, n)
  BY <1>2, <1>3, <1>4, <1>6, <1>8, <1>9, FulfilRows DEF Turns, FulfilledAs
<1>11. QED
  BY <1>10, OneTurns

LEMMA InvoiceOrderly ==
    ASSUME Core, Orderly, NEW p \in Plans, InvoiceOrder(p) \/ GenerateInvoice(p)
    PROVE  Orderly'
<1>1. PICK o : o = p.order
  OBVIOUS
<1>2. /\ p.order = o /\ o \in DOMAIN orders /\ orders[o].status = "COMPLETED"
      /\ orders[o].invoices = 0 /\ Invoice(o)
  BY <1>1, PlanOf DEF InvoiceOrder, GenerateInvoice, NotInvoiced, InStatus
<1>3. PICK r : r = orders[o]
  OBVIOUS
<1>4. r \in Orders /\ Shape(r) /\ r.status = "COMPLETED" /\ r.invoices = 0
  BY <1>2, <1>3, TypesNow DEF Orderly
<1>5. PICK n : n = [r EXCEPT !.invoices = 1]
  OBVIOUS
<1>6. /\ n \in Orders /\ n.status = r.status /\ n.holds = r.holds /\ n.shipped = r.shipped
      /\ n.returned = r.returned /\ n.invoices = 1
  BY <1>4, <1>5 DEF Orders
<1>7. orders' = [orders EXCEPT ![o] = n]
  <2>1. orders' = [orders EXCEPT ![o] = [r EXCEPT !.invoices = r.invoices + 1]]
    BY <1>2, <1>3 DEF Invoice
  <2>2. QED
    BY <1>4, <1>5, <2>1
<1>8. \A i \in Items : Line(n, i) /\ Open(n, i) = Open(r, i)
  BY <1>4, <1>6 DEF Shape, Line, Open
<1>9. Shape(n)
  BY <1>4, <1>6, <1>8 DEF Shape
<1>10. quotation' = quotation /\ balance' = balance
  BY <1>2 DEF Invoice
<1>11. \A i \in Items :
        /\ balance'[i].reserved = balance[i].reserved + (Open(n, i) - Open(r, i))
        /\ balance'[i].onHand = balance'[i].reserved + balance'[i].available
  <2>1. TAKE i \in Items
  <2>2. Open(r, i) \in Int /\ balance[i].reserved \in Int
    BY <1>4, HoldsAre, TypesNow DEF Open
  <2>3. QED
    BY <1>8, <1>10, <2>2 DEF Orderly, Reserved
<1>12. Turns(o, n)
  BY <1>2, <1>3, <1>6, <1>7, <1>9, <1>10, <1>11 DEF Turns
<1>13. QED
  BY <1>12, OneTurns

\* What an ending finds, it frees, so that nothing is left.
LEMMA FreedNone ==
    ASSUME NEW hs \in Seq(Holds)
    PROVE  Active(Freed(hs, Active(hs))) = {}
BY FreedTyped DEF Active

\* An ending releases what the order holds.
LEMMA ReleasedAll ==
    ASSUME Core, Orderly, NEW p, NEW o \in DOMAIN orders, p.order = o, NEW i \in Items,
           p.found = [j \in Items |-> Active(orders[o].holds[j])],
           NEW r, r = orders[o]
    PROVE  Released(p, i) = Open(r, i)
<1>1. r \in Orders /\ Line(r, i)
  BY TypesNow DEF Orderly, Shape
<1>2. PICK hs : hs = r.holds[i]
  OBVIOUS
<1>3. StillActive(p, i) = Active(hs)
  BY <1>2 DEF StillActive
<1>4. Released(p, i) = HeldIn(hs)
  BY <1>2, <1>3 DEF Released, HeldIn
<1>5. QED
  BY <1>1, <1>2, <1>4, LineHolds

LEMMA EndOrderly ==
    ASSUME Core, Orderly, NEW p \in Plans, CancelOrder(p) \/ VoidSale(p)
    PROVE  Orderly'
<1>1. PICK o : o = p.order
  OBVIOUS
<1>2. /\ p.order = o /\ o \in DOMAIN orders
      /\ orders[o].status \in {"DRAFT", "CONFIRMED", "COMPLETED"}
      /\ p.found = [i \in Items |-> Active(orders[o].holds[i])]
      /\ p.shipped = orders[o].shipped
  <2>1. p.op \in {"cancel", "void"}
    BY DEF CancelOrder, VoidSale
  <2>2. /\ p.order \in InStatus({"DRAFT", "CONFIRMED", "COMPLETED"})
        /\ p.found = [i \in Items |-> Active(orders[p.order].holds[i])]
        /\ p.shipped = orders[p.order].shipped
    BY <2>1, PlanOf
  <2>3. QED
    BY <1>1, <2>2 DEF InStatus
<1>3. PICK r : r = orders[o]
  OBVIOUS
<1>4. /\ r \in Orders /\ Shape(r) /\ r.status \in {"DRAFT", "CONFIRMED", "COMPLETED"}
      /\ p.shipped = r.shipped /\ p.shipped \in [Items -> Nat]
  BY <1>2, <1>3, TypesNow DEF Orderly, Orders
<1>5. \A i \in Items : /\ r.returned[i] = 0 /\ r.shipped[i] \in Nat /\ Open(r, i) \in Int
                       /\ Released(p, i) = Open(r, i)
  <2>1. TAKE i \in Items
  <2>2. r.shipped[i] \in Nat /\ Open(r, i) \in Int
    BY <1>4, HoldsAre DEF Open
  <2>3. r.returned[i] = 0
    BY <1>4 DEF Shape, Line
  <2>4. Released(p, i) = Open(r, i)
    BY <1>2, <1>3, ReleasedAll
  <2>5. QED
    BY <2>2, <2>3, <2>4
<1>6. ASSUME NEW n \in Orders, EndedAs(p, o, r, n), NEW i \in Items PROVE Active(n.holds[i]) = {}
  <2>1. PICK hs : hs = r.holds[i]
    OBVIOUS
  <2>2. hs \in Seq(Holds)
    BY <1>4, <2>1, HoldsAre
  <2>3. n.holds[i] = Freed(hs, Active(hs))
    BY <1>2, <1>3, <1>6, <2>1 DEF EndedAs
  <2>4. QED
    BY <2>2, <2>3, FreedNone
<1>7. r.invoices <= 1
  BY <1>4 DEF Shape, Orders
<1>8. CASE CancelOrder(p)
  <2>1. PICK n \in Orders : /\ EndedAs(p, o, r, n) /\ n.status = "CANCELLED"
                            /\ n.returned = r.returned
    BY <1>2, <1>3, <1>8, CancelIs
  <2>2. \A i \in Items : Line(n, i) /\ Open(n, i) = 0
    BY <1>5, <1>6, <2>1 DEF Line, Open
  <2>3. Shape(n)
    BY <1>7, <2>1, <2>2 DEF Shape, EndedAs
  <2>4. \A i \in Items :
          /\ balance'[i].reserved = balance[i].reserved + (Open(n, i) - Open(r, i))
          /\ balance'[i].onHand = balance'[i].reserved + balance'[i].available
    <3>1. TAKE i \in Items
    <3>2. PICK a, b, d, x : /\ a = balance[i].reserved /\ b = balance[i].available
                            /\ d = balance[i].onHand /\ x = Open(r, i)
      OBVIOUS
    <3>3. a \in Int /\ b \in Int /\ x \in Int /\ d = a + b
      BY <1>5, <3>2, TypesNow DEF Orderly, Reserved
    <3>4. /\ balance'[i].reserved = a - x /\ balance'[i].available = b + x
          /\ balance'[i].onHand = d
      BY <1>2, <1>5, <1>8, <3>2, CancelRows
    <3>5. a - x = a + (0 - x) /\ d = (a - x) + (b + x)
      BY <3>3
    <3>6. QED
      BY <2>2, <3>2, <3>4, <3>5
  <2>5. Turns(o, n)
    BY <1>2, <1>3, <1>8, <2>1, <2>3, <2>4, CancelRows DEF Turns, EndedAs
  <2>6. QED
    BY <2>5, OneTurns
<1>9. CASE VoidSale(p)
  <2>1. PICK n \in Orders : /\ EndedAs(p, o, r, n) /\ n.status = "VOIDED"
                            /\ \A i \in Items : n.returned[i] = r.returned[i] + p.shipped[i]
    BY <1>2, <1>3, <1>4, <1>9, VoidIs
  <2>2. \A i \in Items : Line(n, i) /\ Open(n, i) = 0
    <3>1. TAKE i \in Items
    <3>2. n.returned[i] = r.shipped[i] /\ n.shipped[i] = r.shipped[i]
      BY <1>4, <1>5, <2>1 DEF EndedAs
    <3>3. QED
      BY <1>6, <2>1, <3>2 DEF Line, Open
  <2>3. Shape(n)
    BY <1>7, <2>1, <2>2 DEF Shape, EndedAs
  <2>4. \A i \in Items :
          /\ balance'[i].reserved = balance[i].reserved + (Open(n, i) - Open(r, i))
          /\ balance'[i].onHand = balance'[i].reserved + balance'[i].available
    <3>1. TAKE i \in Items
    <3>2. PICK a, b, d, x, y : /\ a = balance[i].reserved /\ b = balance[i].available
                               /\ d = balance[i].onHand /\ x = Open(r, i) /\ y = p.shipped[i]
      OBVIOUS
    <3>3. a \in Int /\ b \in Int /\ x \in Int /\ y \in Int /\ d = a + b
      BY <1>4, <1>5, <3>2, TypesNow DEF Orderly, Reserved
    <3>4. /\ balance'[i].reserved = a - x /\ balance'[i].available = b + x + y
          /\ balance'[i].onHand = d + y
      BY <1>2, <1>4, <1>5, <1>9, <3>2, VoidRows
    <3>5. a - x = a + (0 - x) /\ d + y = (a - x) + (b + x + y)
      BY <3>3
    <3>6. QED
      BY <2>2, <3>2, <3>4, <3>5
  <2>5. Turns(o, n)
    BY <1>2, <1>3, <1>4, <1>9, <2>1, <2>3, <2>4, VoidRows DEF Turns, EndedAs
  <2>6. QED
    BY <2>5, OneTurns
<1>10. QED
  BY <1>8, <1>9

LEMMA WriteOrderly ==
    ASSUME Core, Orderly, NEW p \in Plans, Write(p)
    PROVE  Orderly'
<1>1. FullyShipped
  BY DEF Core
<1>2. QED
  BY <1>1, QuotationOrderly, ConvertOrderly, ApproveOrderly, FulfilOrderly, InvoiceOrderly,
     EndOrderly DEF Write

LEMMA OrderlySame == Orderly /\ UNCHANGED records => Orderly'
<1> SUFFICES ASSUME Orderly, UNCHANGED records PROVE Orderly'
  OBVIOUS
<1>1. UNCHANGED <<quotation, orders, balance>>
  BY DEF records
<1>2. OneOfQuotation'
  BY <1>1 DEF Orderly, OneOfQuotation
<1>3. (\A o \in DOMAIN orders : Shape(orders[o]))'
  <2>1. ASSUME NEW k \in DOMAIN orders' PROVE Shape(orders'[k])
    BY <1>1 DEF Orderly
  <2>2. QED
    BY <2>1 DEF Shape, Line
<1>4. Reserved'
  <2>1. \A i \in Items : ReservedBy(i)' = ReservedBy(i)
    BY <1>1 DEF ReservedBy, HeldIn, Held, Active
  <2>2. QED
    BY <1>1, <2>1 DEF Orderly, Reserved
<1>5. QED
  BY <1>2, <1>3, <1>4 DEF Orderly

LEMMA OrderlyInit == Init => Orderly
<1> SUFFICES ASSUME Init PROVE Orderly
  OBVIOUS
<1>1. orders = <<>> /\ DOMAIN orders = {} /\ Len(orders) = 0 /\ quotation = "DRAFT"
  BY DEF Init
<1>2. ASSUME NEW i \in Items
      PROVE  /\ balance[i].reserved = SumFunction(ReservedBy(i))
             /\ balance[i].onHand = balance[i].reserved + balance[i].available
  <2>1. DOMAIN ReservedBy(i) = {}
    BY <1>1 DEF ReservedBy
  <2>2. SumFunction(ReservedBy(i)) = 0
    BY <2>1, TotalEmpty
  <2>3. balance[i].reserved = 0 /\ balance[i].onHand = Opening[i] /\ balance[i].available = Opening[i]
    BY DEF Init
  <2>4. QED
    BY <2>2, <2>3
<1>3. QED
  BY <1>1, <1>2 DEF Orderly, OneOfQuotation, Reserved

Conditional == overtaken = 0 => Orderly

LEMMA ConditionalStep == Inv /\ Conditional /\ [Next]_vars => Conditional'
<1> SUFFICES ASSUME Inv, Conditional, [Next]_vars, overtaken' = 0 PROVE Orderly'
  BY DEF Conditional
<1>1. Core /\ overtaken \in Nat
  BY DEF Inv, TypeOK
<1>2. CASE UNCHANGED vars
  BY <1>2, OrderlySame DEF vars, Conditional
<1>3. CASE Alone
  BY <1>1, <1>3, WriteOrderly DEF Alone, Conditional
<1>4. CASE Pause
  BY <1>4, OrderlySame DEF Pause, Conditional
<1>5. CASE Resume
  <2>1. CASE Write(slow) /\ overtaken' = overtaken + (IF slow \in Plans THEN 0 ELSE 1)
    <3>1. slow \in Plans /\ overtaken = 0
      BY <1>1, <2>1
    <3>2. PICK q : q = slow
      OBVIOUS
    <3>3. QED
      BY <1>1, <2>1, <3>1, <3>2, WriteOrderly DEF Conditional
  <2>2. CASE UNCHANGED <<records, overtaken>>
    BY <2>2, OrderlySame DEF Conditional
  <2>3. QED
    BY <1>5, <2>1, <2>2 DEF Resume
<1>6. QED
  BY <1>2, <1>3, <1>4, <1>5 DEF Next

LEMMA HeldByIs ==
    ASSUME Typed, NEW o \in DOMAIN orders, NEW i \in Items, Shape(orders[o])
    PROVE  HeldBy(o, i) = Open(orders[o], i)
BY OrdersAre, LineHolds DEF HeldBy, HeldIn, Shape

\* Unless a call was overtaken, an approved order holds exactly what it still
\* has to ship and any other nothing, each row's reserved quantity is what the
\* orders hold, a voided order has put back what it shipped, and a quotation
\* becomes one order, an order one invoice (approveOrder, fulfilOrder,
\* cancelOrder, cancelSale, convertQuotation, invoiceOrder).
THEOREM HoldsAreOrders == Spec => []HoldsFollowOrder
<1>1. Inv /\ Conditional => HoldsFollowOrder
  <2> SUFFICES ASSUME Inv, Conditional, overtaken = 0
               PROVE  /\ \A o \in DOMAIN orders, i \in Items :
                           /\ HeldBy(o, i) = IF orders[o].status = "CONFIRMED"
                                               THEN Ordered[i] - orders[o].shipped[i] ELSE 0
                           /\ orders[o].returned[i] = IF orders[o].status = "VOIDED"
                                                        THEN orders[o].shipped[i] ELSE 0
                      /\ \A i \in Items :
                           /\ balance[i].reserved =
                                SumFunction([o \in DOMAIN orders |-> HeldBy(o, i)])
                           /\ balance[i].onHand = balance[i].reserved + balance[i].available
                      /\ Len(orders) <= 1
                      /\ \A o \in DOMAIN orders : orders[o].invoices <= 1
    BY DEF HoldsFollowOrder
  <2>1. Orderly /\ Typed
    BY DEF Conditional, Inv, Core
  <2>2. \A o \in DOMAIN orders, i \in Items :
          /\ HeldBy(o, i) = Open(orders[o], i) /\ Line(orders[o], i)
    BY <2>1, HeldByIs DEF Orderly, Shape
  <2>3. \A i \in Items :
          balance[i].reserved = SumFunction([o \in DOMAIN orders |-> HeldBy(o, i)])
    BY <2>1 DEF Orderly, Reserved, ReservedBy, HeldBy, HeldIn
  <2>4. \A o \in DOMAIN orders : orders[o].invoices <= 1
    <3>1. TAKE o \in DOMAIN orders
    <3>2. Shape(orders[o]) /\ orders[o].invoices \in Nat
      BY <2>1, OrdersAre DEF Orderly, Orders
    <3>3. QED
      BY <3>2 DEF Shape
  <2>5. Len(orders) <= 1
    BY <2>1 DEF Orderly, OneOfQuotation
  <2>6. QED
    BY <2>1, <2>2, <2>3, <2>4, <2>5 DEF Orderly, Reserved, Open, Line
<1>2. Init => Conditional
  BY OrderlyInit DEF Conditional
<1>3. QED
  BY <1>1, <1>2, ConditionalStep, InvHolds, PTL DEF Spec

=============================================================================
