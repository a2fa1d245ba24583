--------------------------- MODULE OnlineOrderProofs ---------------------------
(***************************************************************************)
(* Proofs about OnlineOrder and Cart.                                      *)
(*                                                                         *)
(* OnlineOrder: for any number of attempts, tasks and reservations, and    *)
(* any choice of the operations that may be overtaken (Slow) and of the    *)
(* statuses set by hand (Overrides).                                       *)
(*                                                                         *)
(* Inv is inductive for every choice.  Its heart is PlanOK: what a call    *)
(* read remains worth acting on, because attempts, payments and the wish   *)
(* to pay at the door are only ever added (Grows).  The other three        *)
(* invariants do depend on a read that is still fresh, so each of those    *)
(* theorems names the operations that must not be overtaken.               *)
(*                                                                         *)
(* Cart: for any carts, variants, quantities and keys, and any choice of   *)
(* the operations that may be overtaken.  CartInv is inductive by itself;  *)
(* CartOrderly rests on it, and on what CartFresh says of a call that      *)
(* still sees what it read.                                                *)
(***************************************************************************)
EXTENDS OnlineOrder, Cart, Sums

-----------------------------------------------------------------------------
(***************************************************************************)
(* The payments that checkouts posted, when an attempt is added or         *)
(* changes.                                                                *)
(***************************************************************************)
Numbered(s) == [i \in DOMAIN s |-> s[i].posted]

LEMMA SeqDomain ==
    ASSUME TypeOK
    PROVE  /\ DOMAIN attempts = 1..Len(attempts) /\ Len(attempts) \in Nat
           /\ IsFiniteSet(DOMAIN attempts)
           /\ \A i \in DOMAIN attempts : attempts[i] \in Attempts
           /\ Numbered(attempts) \in [DOMAIN attempts -> Nat]
<1>1. attempts \in Seq(Attempts)
  BY DEF TypeOK
<1>2. DOMAIN attempts = 1..Len(attempts) /\ Len(attempts) \in Nat
  BY <1>1
<1>3. IsFiniteSet(1..Len(attempts))
  BY <1>2, FS_Interval
<1>4. \A i \in DOMAIN attempts : attempts[i] \in Attempts
  BY <1>1
<1>5. QED
  BY <1>2, <1>3, <1>4 DEF Numbered, Attempts

LEMMA PostedType ==
    ASSUME TypeOK
    PROVE  Posted \in Nat /\ Paid \in Nat
           /\ \A i \in DOMAIN attempts : attempts[i].posted <= Posted
<1> DEFINE f == Numbered(attempts)
<1>1. f \in [DOMAIN attempts -> Nat] /\ IsFiniteSet(DOMAIN attempts)
  BY SeqDomain
<1>2. Posted = SumFunction(f) /\ \A i \in DOMAIN attempts : f[i] = attempts[i].posted
  BY DEF Posted, Numbered
<1> HIDE DEF f
<1>3. SumFunction(f) \in Nat /\ \A i \in DOMAIN attempts : f[i] <= SumFunction(f)
  BY <1>1, TotalNat
<1>4. QED
  BY <1>2, <1>3 DEF Paid, TypeOK

\* A new attempt has nothing posted.
LEMMA PostedAppend ==
    ASSUME TypeOK, NEW a \in Attempts, a.posted = 0, attempts' = Append(attempts, a)
    PROVE  /\ attempts' \in Seq(Attempts)
           /\ DOMAIN attempts' = DOMAIN attempts \cup {Len(attempts) + 1}
           /\ Len(attempts') = Len(attempts) + 1
           /\ \A i \in DOMAIN attempts : attempts'[i] = attempts[i]
           /\ attempts'[Len(attempts) + 1] = a
           /\ Posted' = Posted
<1>1. attempts \in Seq(Attempts)
  BY DEF TypeOK
<1>2. DOMAIN attempts = 1..Len(attempts) /\ Len(attempts) \in Nat
  BY SeqDomain
<1>3. attempts' \in Seq(Attempts) /\ Len(attempts') = Len(attempts) + 1
  BY <1>1
<1>4. DOMAIN attempts' = DOMAIN attempts \cup {Len(attempts) + 1}
  BY <1>2, <1>3
<1>5. \A i \in DOMAIN attempts : attempts'[i] = attempts[i]
  BY <1>1
<1>6. attempts'[Len(attempts) + 1] = a
  BY <1>1
<1> DEFINE f == Numbered(attempts)
           e == Numbered(attempts')
           y == Len(attempts) + 1
           S == DOMAIN attempts
<1>7. f \in [S -> Int] /\ IsFiniteSet(S) /\ y \notin S
  BY <1>2, SeqDomain DEF Attempts, Numbered
<1>8. e \in [S \cup {y} -> Int] /\ e[y] = 0 /\ \A i \in S : e[i] = f[i]
  BY <1>4, <1>5, <1>6, <1>7, SeqDomain DEF Numbered, Attempts
<1>9. Posted = SumFunction(f) /\ Posted' = SumFunction(e)
  BY DEF Posted, Numbered
<1> HIDE DEF f, e, y, S
<1>10. SumFunction(e) = SumFunction(f) + e[y]
  BY <1>7, <1>8, TotalAdd
<1>11. SumFunction(f) \in Int
  BY <1>7, TotalInt
<1>12. Posted' = Posted
  BY <1>8, <1>9, <1>10, <1>11
<1>13. QED
  BY <1>3, <1>4, <1>5, <1>6, <1>12

\* One attempt changes.
LEMMA PostedSet ==
    ASSUME TypeOK, NEW i \in DOMAIN attempts, NEW a \in Attempts,
           attempts' = [attempts EXCEPT ![i] = a]
    PROVE  /\ attempts' \in Seq(Attempts)
           /\ DOMAIN attempts' = DOMAIN attempts /\ Len(attempts') = Len(attempts)
           /\ attempts'[i] = a /\ \A j \in DOMAIN attempts \ {i} : attempts'[j] = attempts[j]
           /\ Posted' = Posted + (a.posted - attempts[i].posted)
<1>1. attempts \in Seq(Attempts)
  BY DEF TypeOK
<1>2. /\ attempts' \in Seq(Attempts)
      /\ DOMAIN attempts' = DOMAIN attempts /\ Len(attempts') = Len(attempts)
      /\ attempts'[i] = a /\ \A j \in DOMAIN attempts \ {i} : attempts'[j] = attempts[j]
  BY <1>1
<1> DEFINE f == Numbered(attempts)
           e == Numbered(attempts')
           S == DOMAIN attempts
<1>3. f \in [S -> Int] /\ IsFiniteSet(S)
  BY SeqDomain DEF Numbered, Attempts
<1>4. /\ e \in [S -> Int] /\ \A j \in S \ {i} : e[j] = f[j]
      /\ e[i] = a.posted /\ f[i] = attempts[i].posted
  BY <1>2, SeqDomain DEF Numbered, Attempts
<1>5. Posted = SumFunction(f) /\ Posted' = SumFunction(e)
  BY DEF Posted, Numbered
<1>6. i \in S
  OBVIOUS
<1> HIDE DEF f, e, S
<1>7. SumFunction(e) = SumFunction(f) + (e[i] - f[i])
  BY <1>3, <1>4, <1>6, TotalUpdate
<1>8. QED
  BY <1>2, <1>4, <1>5, <1>7

-----------------------------------------------------------------------------
(***************************************************************************)
(* The inductive invariant, and the plans of the calls.                    *)
(***************************************************************************)
\* What the call p is worth when it writes, whatever was committed since.
PlanOK(p) ==
    /\ p.attempt \in 0..Len(attempts) /\ p.found \subseteq Holds
    /\ p.op = "callback" => p.attempt \in DOMAIN attempts /\ p.value \in {"PLACED", "CANCELLED", "EXPIRED"}
    /\ p.op = "acceptCod" => p.attempt \in DOMAIN attempts /\ isCOD
    /\ p.op = "placeCod" => isCOD
    /\ p.op = "setStatus" =>
         p.value \in PaymentStatuses /\ (p.value = "PAID" => Paid > 0)
    /\ p.op = "setPaid" => p.value \in Statuses
    /\ p.op = "reject" => p.value \in {"FAILED", "CANCELLED"}
    /\ p.op = "dispatch" => Paid > 0 \/ isCOD

PostedOnce ==
    \A i \in DOMAIN attempts :
      attempts[i].posted = IF attempts[i].transaction = "SUCCESS" THEN 1 ELSE 0
PaidForReal == payment = "PAID" => Paid > 0
Inv ==
    /\ TypeOK /\ packing.waiting + packing.assigned <= MaxTasks
    /\ PostedOnce /\ PaidForReal /\ SoldIsPaid
    /\ PlanOK(slow)

\* What every write does: attempts and money are only added.
Grows ==
    /\ Len(attempts) <= Len(attempts') /\ Len(attempts') \in Nat
    /\ DOMAIN attempts \subseteq DOMAIN attempts'
    /\ isCOD => isCOD'
    /\ Paid \in Nat /\ Paid' \in Nat /\ Paid <= Paid'

LEMMA PlanKept ==
    ASSUME TypeOK, NEW p, PlanOK(p), Grows
    PROVE  PlanOK(p)'
<1>1. Len(attempts) \in Nat
  BY SeqDomain
<1>2. p.attempt \in 0..Len(attempts')
  BY <1>1 DEF PlanOK, Grows
<1>3. QED
  BY <1>2 DEF PlanOK, Grows

LEMMA JustOK ==
    ASSUME TypeOK, NEW op,
           op \notin {"callback", "acceptCod", "placeCod", "setStatus", "setPaid",
                      "reject", "dispatch"}
    PROVE  PlanOK(Just(op))
<1> DEFINE p == Just(op)
<1>1. p.op = op /\ p.attempt = 0 /\ p.found = {}
  BY DEF Just, Plan
<1> HIDE DEF p
<1>2. 0 \in 0..Len(attempts)
  BY SeqDomain
<1>3. PlanOK(p)
  BY <1>1, <1>2 DEF PlanOK
<1>4. QED
  BY <1>3 DEF p

LEMMA MaxIn ==
    ASSUME TypeOK, NEW S, S \subseteq DOMAIN attempts, S # {}
    PROVE  Max(S) \in S
<1>1. S \subseteq Int /\ IsFiniteSet(S)
  BY SeqDomain, FS_Subset
<1>2. PICK m \in S : \A x \in S : m >= x
  <2>1. \E m \in S : \A x \in S : x <= m
    BY <1>1, MaxSet
  <2>2. QED
    BY <1>1, <2>1
<1>3. QED
  BY <1>2 DEF Max

LEMMA PlansOK ==
    ASSUME Inv, NEW p \in Plans
    PROVE  PlanOK(p)
<1>1. TypeOK /\ PaidForReal
  BY DEF Inv
<1>2. Len(attempts) \in Nat /\ DOMAIN attempts = 1..Len(attempts)
  BY <1>1, SeqDomain
<1>3. ActiveHolds \subseteq Holds /\ {} \subseteq Holds /\ 0 \in 0..Len(attempts)
  BY <1>2 DEF ActiveHolds
<1>4. status \in Statuses /\ payment \in PaymentStatuses
  BY <1>1 DEF TypeOK
<1>5. CASE p \in PaymentPlans
  <2>1. CASE \E i \in DOMAIN attempts :
               p = Plan("callback", i, IF Closed THEN status ELSE "PLACED", {})
    <3>1. PICK i \in DOMAIN attempts :
               p = Plan("callback", i, IF Closed THEN status ELSE "PLACED", {})
      BY <2>1
    <3>2. p.op = "callback" /\ p.attempt = i /\ p.found = {}
          /\ p.value \in {"PLACED", "CANCELLED", "EXPIRED"}
      BY <3>1 DEF Plan, Closed
    <3>3. QED
      BY <1>2, <1>3, <3>2 DEF PlanOK
  <2>2. CASE p = Just("payByMpesa") \/ p = Just("payAtDoor")
    BY <1>1, <2>2, JustOK
  <2>3. CASE PendingCod # {} /\ p = Plan("acceptCod", Max(PendingCod), "", {})
    <3>1. Max(PendingCod) \in PendingCod /\ PendingCod \subseteq DOMAIN attempts
      BY <1>1, <2>3, MaxIn DEF PendingCod, PendingAttempts
    <3>2. isCOD
      BY <3>1 DEF isCOD, PendingCod, PendingAttempts
    <3>3. p.op = "acceptCod" /\ p.attempt \in DOMAIN attempts /\ p.found = {}
      BY <2>3, <3>1 DEF Plan
    <3>4. QED
      BY <1>2, <1>3, <3>2, <3>3 DEF PlanOK
  <2>4. CASE p = Plan("setStatus", 0, payment, {})
    BY <1>1, <1>3, <1>4, <2>4 DEF Plan, PlanOK, PaidForReal
  <2>5. CASE p = Plan("setPaid", 0, status, {})
    BY <1>3, <1>4, <2>5 DEF Plan, PlanOK
  <2>6. QED
    BY <1>5, <2>1, <2>2, <2>3, <2>4, <2>5 DEF PaymentPlans, Only
<1>6. CASE p \in StockPlans
  <2>1. CASE \E op \in {"confirm", "reserve", "assignPicker"} : p = Just(op)
    BY <1>1, <2>1, JustOK
  <2>2. CASE p = Plan("reject", 0, IF payment = "PAID" THEN "FAILED" ELSE "CANCELLED",
                      ActiveHolds)
    BY <1>3, <2>2 DEF Plan, PlanOK
  <2>3. CASE p = Plan("release", 0, "", ActiveHolds)
    BY <1>3, <2>3 DEF Plan, PlanOK
  <2>4. QED
    BY <1>6, <2>1, <2>2, <2>3 DEF StockPlans, Only
<1>7. CASE p \in ShippingPlans
  <2>1. CASE \E op \in {"ready", "failDelivery"} : p = Just(op)
    BY <1>1, <2>1, JustOK
  <2>2. CASE MayShip /\ p = Plan("dispatch", 0, "", ActiveHolds)
    <3>1. Paid > 0 \/ isCOD
      BY <1>1, <2>2 DEF MayShip, PaidForReal
    <3>2. QED
      BY <1>3, <2>2, <3>1 DEF Plan, PlanOK
  <2>3. CASE p = Plan("deliver", 0, IF isCOD THEN "CASH" ELSE "PREPAID", {})
    BY <1>3, <2>3 DEF Plan, PlanOK
  <2>4. QED
    BY <1>7, <2>1, <2>2, <2>3 DEF ShippingPlans, Only
<1>8. QED
  BY <1>5, <1>6, <1>7 DEF Plans

\* The two forms in which a call changes an attempt.
LEMMA SettleShape ==
    ASSUME TypeOK, NEW i \in DOMAIN attempts,
           NEW s \in {"COMPLETED", "FAILED"},
           NEW t \in {"SUCCESS", "FAILED", "REVIEW_REQUIRED"}, NEW x \in Nat,
           Settle(i, s, t, x)
    PROVE  attempts' = [attempts EXCEPT ![i] =
                          [method |-> attempts[i].method, status |-> s,
                           transaction |-> t, posted |-> attempts[i].posted + x]]
<1> DEFINE a == attempts[i]
           r1 == [a EXCEPT !.status = s]
           r2 == [r1 EXCEPT !.transaction = t]
           r3 == [r2 EXCEPT !.posted = r2.posted + x]
           e == [attempts EXCEPT ![i].status = s]
           b == [e EXCEPT ![i].transaction = t]
           c == [b EXCEPT ![i].posted = b[i].posted + x]
<1>1. attempts' = c
  BY DEF Settle
<1>2. a \in Attempts /\ attempts \in Seq(Attempts)
  BY SeqDomain DEF TypeOK
<1>3. r3 = [method |-> a.method, status |-> s, transaction |-> t, posted |-> a.posted + x]
  <2>1. r1 = [method |-> a.method, status |-> s, transaction |-> a.transaction,
              posted |-> a.posted]
    BY <1>2 DEF Attempts
  <2>2. r1 \in Attempts
    BY <1>2, <2>1 DEF Attempts
  <2> HIDE DEF r1
  <2>3. r2 = [method |-> a.method, status |-> s, transaction |-> t, posted |-> a.posted]
    BY <2>1, <2>2 DEF Attempts
  <2>4. r2 \in Attempts
    BY <1>2, <2>3 DEF Attempts
  <2> HIDE DEF r2
  <2>5. QED
    BY <2>3, <2>4 DEF Attempts
<1> HIDE DEF r1, r2, r3
<1>4. e = [attempts EXCEPT ![i] = r1]
  BY DEF r1
<1>5. e[i] = r1 /\ b = [e EXCEPT ![i] = r2]
  BY <1>2, <1>4 DEF r2
<1>6. b = [attempts EXCEPT ![i] = r2]
  BY <1>2, <1>4, <1>5
<1>7. b[i] = r2 /\ c = [b EXCEPT ![i] = r3]
  BY <1>2, <1>6 DEF r3
<1>8. c = [attempts EXCEPT ![i] = r3]
  BY <1>2, <1>6, <1>7
<1>9. QED
  BY <1>1, <1>3, <1>8

LEMMA CompleteShape ==
    ASSUME TypeOK, NEW i \in DOMAIN attempts,
           attempts' = [attempts EXCEPT ![i].status = "COMPLETED"]
    PROVE  attempts' = [attempts EXCEPT ![i] =
                          [method |-> attempts[i].method, status |-> "COMPLETED",
                           transaction |-> attempts[i].transaction,
                           posted |-> attempts[i].posted]]
<1> DEFINE a == attempts[i]
           r == [a EXCEPT !.status = "COMPLETED"]
<1>1. a \in Attempts
  BY SeqDomain
<1>2. r = [method |-> a.method, status |-> "COMPLETED", transaction |-> a.transaction,
           posted |-> a.posted]
  BY <1>1 DEF Attempts
<1>3. attempts' = [attempts EXCEPT ![i] = r]
  OBVIOUS
<1>4. QED
  BY <1>2, <1>3

-----------------------------------------------------------------------------
(***************************************************************************)
(* The money of the order: every write keeps MoneyOK.                      *)
(***************************************************************************)
\* The types of everything but the slow call.
OrderTypes ==
    /\ status \in Statuses /\ payment \in PaymentStatuses
    /\ fulfilment \in FulfilmentStatuses
    /\ attempts \in Seq(Attempts) /\ byHand \in Nat /\ cash \in Nat
    /\ hold \in [Holds -> {"NONE", "ACTIVE", "RELEASED", "FULFILLED"}]
    /\ picking \in 0..MaxTasks
    /\ packing \in [waiting: 0..MaxTasks, assigned: 0..MaxTasks]
    /\ dispatched \in BOOLEAN /\ sales \in Nat
Core ==
    /\ OrderTypes /\ packing.waiting + packing.assigned <= MaxTasks
    /\ PostedOnce /\ PaidForReal /\ SoldIsPaid

\* What a write does to the money of the order.
MoneyOK ==
    /\ attempts' \in Seq(Attempts) /\ byHand' \in Nat /\ cash' \in Nat
    /\ PostedOnce' /\ Grows /\ PaidForReal'

LEMMA MoneySame ==
    ASSUME Inv, UNCHANGED moneyVars, PaidForReal'
    PROVE  MoneyOK
<1>1. TypeOK /\ PostedOnce
  BY DEF Inv
<1>2. Paid \in Nat /\ Len(attempts) \in Nat
  BY <1>1, PostedType, SeqDomain
<1>3. Paid' = Paid /\ PostedOnce' /\ isCOD' = isCOD
  BY <1>1 DEF Paid, Posted, PostedOnce, isCOD, moneyVars
<1>4. QED
  BY <1>1, <1>2, <1>3 DEF MoneyOK, Grows, TypeOK, moneyVars

LEMMA MoneyAppend ==
    ASSUME Inv, NEW m \in {"MPESA", "CASH_ON_DELIVERY"},
           NEW s \in {"PENDING", "COMPLETED"}, NEW t \in {"NONE", "PENDING"},
           NewAttempt(m, s, t)
    PROVE  MoneyOK /\ (m = "CASH_ON_DELIVERY" => isCOD')
<1> DEFINE a == [method |-> m, status |-> s, transaction |-> t, posted |-> 0]
           n == Len(attempts)
<1>1. TypeOK /\ PostedOnce /\ PaidForReal
  BY DEF Inv
<1>2. a \in Attempts /\ a.posted = 0 /\ a.transaction = t /\ a.method = m
  BY DEF Attempts
<1>3. attempts' = Append(attempts, a) /\ UNCHANGED <<payment, byHand, cash>>
  BY DEF NewAttempt, orderVars
<1> HIDE DEF a
<1>4. /\ attempts' \in Seq(Attempts)
      /\ DOMAIN attempts' = DOMAIN attempts \cup {n + 1}
      /\ Len(attempts') = n + 1
      /\ \A i \in DOMAIN attempts : attempts'[i] = attempts[i]
      /\ attempts'[n + 1] = a
      /\ Posted' = Posted
  BY <1>1, <1>2, <1>3, PostedAppend
<1>5. Paid \in Nat /\ n \in Nat
  BY <1>1, PostedType, SeqDomain
<1>6. Paid' = Paid
  BY <1>3, <1>4 DEF Paid
<1>7. PostedOnce'
  BY <1>1, <1>2, <1>4 DEF PostedOnce
<1>8. isCOD => isCOD'
  BY <1>4 DEF isCOD
<1>9. m = "CASH_ON_DELIVERY" => isCOD'
  BY <1>2, <1>4 DEF isCOD
<1>10. Grows
  BY <1>4, <1>5, <1>6, <1>8 DEF Grows
<1>11. PaidForReal'
  BY <1>1, <1>3, <1>6 DEF PaidForReal
<1>12. byHand' \in Nat /\ cash' \in Nat
  BY <1>1, <1>3 DEF TypeOK
<1>13. QED
  BY <1>4, <1>7, <1>9, <1>10, <1>11, <1>12 DEF MoneyOK

\* One attempt, or none, changes; money is only added.
LEMMA MoneySet ==
    ASSUME Inv, NEW i \in DOMAIN attempts, NEW a \in Attempts,
           attempts' = [attempts EXCEPT ![i] = a],
           a.method = attempts[i].method, attempts[i].posted <= a.posted,
           a.posted = IF a.transaction = "SUCCESS" THEN 1 ELSE 0,
           byHand' \in Nat, byHand <= byHand', cash' = cash,
           payment' = "PAID" => byHand' > 0 \/ a.posted > 0 \/ Paid > 0
    PROVE  MoneyOK
<1>1. TypeOK /\ PostedOnce
  BY DEF Inv
<1>2. /\ attempts' \in Seq(Attempts)
      /\ DOMAIN attempts' = DOMAIN attempts /\ Len(attempts') = Len(attempts)
      /\ attempts'[i] = a /\ \A j \in DOMAIN attempts \ {i} : attempts'[j] = attempts[j]
      /\ Posted' = Posted + (a.posted - attempts[i].posted)
  BY <1>1, PostedSet
<1>3. /\ Posted \in Nat /\ Paid \in Nat /\ Len(attempts) \in Nat
      /\ attempts[i].posted <= Posted /\ attempts[i] \in Attempts
      /\ byHand \in Nat /\ cash \in Nat
  BY <1>1, PostedType, SeqDomain DEF TypeOK
<1>4. a.posted \in Nat /\ attempts[i].posted \in Nat
  BY <1>3 DEF Attempts
<1>5. Posted' \in Nat /\ Posted <= Posted' /\ a.posted <= Posted'
  BY SMTT(30), <1>2, <1>3, <1>4
<1>6. Paid = Posted + byHand + cash /\ Paid' = Posted' + byHand' + cash
  BY DEF Paid
<1>7. Paid' \in Nat /\ Paid <= Paid'
  BY <1>3, <1>5, <1>6
<1>8. PaidForReal'
  BY <1>3, <1>4, <1>5, <1>6, <1>7 DEF PaidForReal
<1>9. PostedOnce'
  BY <1>1, <1>2 DEF PostedOnce
<1>10. isCOD => isCOD'
  BY <1>2 DEF isCOD
<1>11. Grows
  BY <1>2, <1>3, <1>7, <1>10 DEF Grows
<1>12. QED
  BY <1>2, <1>3, <1>8, <1>9, <1>11 DEF MoneyOK

LEMMA MoneyAccept ==
    ASSUME Inv, NEW p, PlanOK(p), ConfirmCashOnDelivery(p)
    PROVE  MoneyOK
<1>1. TypeOK /\ PostedOnce
  BY DEF Inv
<1>2. PICK i \in DOMAIN attempts : i = p.attempt
  BY DEF PlanOK, ConfirmCashOnDelivery
<1> DEFINE b == attempts[i]
           a == [method |-> b.method, status |-> "COMPLETED",
                 transaction |-> b.transaction, posted |-> b.posted]
<1>3. attempts' = [attempts EXCEPT ![i].status = "COMPLETED"]
  BY <1>2 DEF ConfirmCashOnDelivery
<1>4. attempts' = [attempts EXCEPT ![i] = a]
  BY <1>1, <1>3, CompleteShape
<1>5. b \in Attempts
  BY <1>1, SeqDomain
<1>6. a \in Attempts /\ a.method = b.method /\ a.posted = b.posted /\ b.posted \in Nat
  BY <1>5 DEF Attempts
<1>7. a.posted = IF a.transaction = "SUCCESS" THEN 1 ELSE 0
  BY <1>1 DEF PostedOnce
<1>8. /\ byHand' \in Nat /\ byHand' = byHand /\ cash' = cash /\ payment' # "PAID"
      /\ byHand <= byHand' /\ b.posted <= a.posted
  BY <1>1, <1>6 DEF ConfirmCashOnDelivery, TypeOK
<1> HIDE DEF a
<1>9. QED
  BY <1>4, <1>6, <1>7, <1>8, MoneySet

LEMMA MoneyCallback ==
    ASSUME Inv, NEW p, PlanOK(p), MpesaCallback(p)
    PROVE  MoneyOK
<1>1. TypeOK /\ PostedOnce
  BY DEF Inv
<1>2. PICK i \in DOMAIN attempts : i = p.attempt
  BY DEF PlanOK, MpesaCallback
<1>3. PICK s \in {"COMPLETED", "FAILED"}, t \in {"SUCCESS", "FAILED", "REVIEW_REQUIRED"},
           x \in {0, 1} :
        /\ Settle(i, s, t, x) /\ x = (IF t = "SUCCESS" THEN 1 ELSE 0)
        /\ payment' = "PAID" => x = 1 \/ payment = "PAID"
  BY <1>2 DEF MpesaCallback
<1> DEFINE b == attempts[i]
           a == [method |-> b.method, status |-> s, transaction |-> t,
                 posted |-> b.posted + x]
<1>4. attempts' = [attempts EXCEPT ![i] = a]
  BY <1>1, <1>3, SettleShape
<1>5. b \in Attempts
  BY <1>1, SeqDomain
<1>6. b.posted = 0
  BY <1>1, <1>2 DEF MpesaCallback, Awaited, PostedOnce
<1>7. a \in Attempts /\ a.method = b.method /\ a.posted = x /\ a.transaction = t
  BY <1>3, <1>5, <1>6 DEF Attempts
<1>8. byHand' \in Nat /\ byHand' = byHand /\ cash' = cash /\ byHand <= byHand'
  BY <1>1 DEF MpesaCallback, TypeOK
<1>9. payment' = "PAID" => a.posted > 0 \/ Paid > 0
  BY <1>3, <1>7 DEF Inv, PaidForReal
<1>10. a.posted = (IF a.transaction = "SUCCESS" THEN 1 ELSE 0) /\ b.posted <= a.posted
  BY <1>3, <1>6, <1>7
<1> HIDE DEF a
<1>11. QED
  BY <1>4, <1>7, <1>8, <1>9, <1>10, MoneySet

LEMMA MoneySetPaid ==
    ASSUME Inv, NEW p, PlanOK(p), SetPaid(p)
    PROVE  MoneyOK
<1>1. TypeOK /\ PostedOnce
  BY DEF Inv
<1>2. Paid \in Nat /\ byHand \in Nat /\ cash \in Nat /\ Posted \in Nat
  BY <1>1, PostedType DEF TypeOK
<1>3. /\ byHand' \in Nat /\ byHand <= byHand' /\ cash' = cash
      /\ byHand' > 0 \/ (Paid > 0 /\ byHand' = byHand)
  BY <1>2 DEF SetPaid
<1>4. CASE PendingAttempts # {}
  <2>1. PICK i \in DOMAIN attempts : i = Max(PendingAttempts)
    BY <1>1, <1>4, MaxIn DEF PendingAttempts
  <2> DEFINE b == attempts[i]
             a == [method |-> b.method, status |-> "COMPLETED",
                   transaction |-> b.transaction, posted |-> b.posted]
  <2>2. attempts' = [attempts EXCEPT ![i].status = "COMPLETED"]
    BY <1>4, <2>1 DEF SetPaid
  <2>3. attempts' = [attempts EXCEPT ![i] = a]
    BY <1>1, <2>2, CompleteShape
  <2>4. b \in Attempts
    BY <1>1, SeqDomain
  <2>5. a \in Attempts /\ a.method = b.method /\ a.posted = b.posted /\ b.posted \in Nat
    BY <2>4 DEF Attempts
  <2>6. a.posted = IF a.transaction = "SUCCESS" THEN 1 ELSE 0
    BY <1>1 DEF PostedOnce
  <2>7. b.posted <= a.posted
    BY <2>5
  <2> HIDE DEF a
  <2>8. QED
    BY <1>3, <2>3, <2>5, <2>6, <2>7, MoneySet
<1>5. CASE PendingAttempts = {}
  <2>1. attempts' = attempts
    BY <1>5 DEF SetPaid
  <2>2. Len(attempts) \in Nat
    BY <1>1, SeqDomain
  <2>3. PostedOnce' /\ isCOD' = isCOD /\ Posted' = Posted
    BY <1>1, <2>1 DEF PostedOnce, isCOD, Posted
  <2>4. Paid' \in Nat /\ Paid <= Paid' /\ Paid' > 0
    <3>1. Paid = Posted + byHand + cash
      BY DEF Paid
    <3>2. Paid' = Posted' + byHand' + cash'
      BY DEF Paid
    <3>3. Paid' = Posted + byHand' + cash
      BY <1>3, <2>3, <3>2
    <3>4. Posted \in Nat /\ byHand \in Nat /\ byHand' \in Nat /\ cash \in Nat /\ byHand <= byHand'
      BY <1>2, <1>3
    <3>5. PICK a \in Nat, x \in Nat, y \in Nat, c \in Nat :
            a = Posted /\ x = byHand /\ y = byHand' /\ c = cash
      BY <3>4
    <3>6. Paid = a + x + c /\ Paid' = a + y + c /\ x <= y
      BY <3>1, <3>3, <3>4, <3>5
    <3>7. Paid' \in Nat /\ Paid <= Paid' /\ (y > 0 => Paid' > 0)
      BY <3>6
    <3>8. QED
      BY <1>2, <1>3, <3>5, <3>7
  <2>5. QED
    BY <1>1, <1>3, <2>1, <2>2, <2>3, <2>4, <1>2
       DEF MoneyOK, Grows, PaidForReal, TypeOK
<1>6. QED
  BY <1>4, <1>5

LEMMA MoneyDelivered ==
    ASSUME Inv, NEW p, PlanOK(p), ConfirmDelivery(p)
    PROVE  MoneyOK
<1>1. TypeOK /\ PostedOnce /\ PaidForReal
  BY DEF Inv
<1>2. /\ Paid \in Nat /\ byHand \in Nat /\ cash \in Nat /\ Posted \in Nat
      /\ Len(attempts) \in Nat
  BY <1>1, PostedType, SeqDomain DEF TypeOK
<1>3. attempts' = attempts /\ byHand' = byHand
  BY DEF ConfirmDelivery
<1>4. (cash' = cash /\ payment' = payment) \/ cash' = cash + 1
  BY DEF ConfirmDelivery
<1>5. PostedOnce' /\ isCOD' = isCOD /\ Posted' = Posted
  BY <1>1, <1>3 DEF PostedOnce, isCOD, Posted
<1>6. Paid' \in Nat /\ Paid <= Paid' /\ cash' \in Nat
  BY <1>2, <1>3, <1>4, <1>5 DEF Paid
<1>7. PaidForReal'
  BY <1>1, <1>2, <1>3, <1>4, <1>5 DEF PaidForReal, Paid
<1>8. QED
  BY <1>1, <1>2, <1>3, <1>5, <1>6, <1>7 DEF MoneyOK, Grows, TypeOK

-----------------------------------------------------------------------------
(***************************************************************************)
(* The rest of the order.                                                  *)
(***************************************************************************)
LEMMA HoldsTyped ==
    ASSUME TypeOK, NEW found, NEW end \in {"RELEASED", "FULFILLED"},
           SettleHolds(found, end)
    PROVE  hold' \in [Holds -> {"NONE", "ACTIVE", "RELEASED", "FULFILLED"}]
BY DEF SettleHolds, TypeOK

LEMMA WriteMoney ==
    ASSUME Inv, NEW p, PlanOK(p), Write(p)
    PROVE  MoneyOK
<1>1. TypeOK /\ PaidForReal
  BY DEF Inv
<1>2. CASE PayByMpesa(p)
  BY <1>2, MoneyAppend DEF PayByMpesa
<1>3. CASE PayAtDoor(p)
  BY <1>3, MoneyAppend DEF PayAtDoor
<1>4. CASE PlaceCod(p)
  BY <1>4, MoneySame DEF PlaceCod, PaidForReal
<1>5. CASE ConfirmCashOnDelivery(p)
  BY <1>5, MoneyAccept
<1>6. CASE MpesaCallback(p)
  BY <1>6, MoneyCallback
<1>7. CASE SetStatus(p)
  <2>1. UNCHANGED moneyVars /\ (payment' = "PAID" => Paid > 0)
    BY <1>7 DEF SetStatus, PlanOK
  <2>2. Paid' = Paid
    BY <2>1 DEF Paid, Posted, moneyVars
  <2>3. QED
    BY <2>1, <2>2, MoneySame DEF PaidForReal
<1>8. CASE SetPaid(p)
  BY <1>8, MoneySetPaid
<1>9. CASE ConfirmDelivery(p)
  BY <1>9, MoneyDelivered
<1>10. CASE UNCHANGED <<payment, moneyVars>>
  <2>1. Paid' = Paid
    BY <1>10 DEF Paid, Posted, moneyVars
  <2>2. PaidForReal'
    BY <1>1, <1>10, <2>1 DEF PaidForReal
  <2>3. QED
    BY <1>10, <2>2, MoneySame
<1>11. QED
  BY <1>2, <1>3, <1>4, <1>5, <1>6, <1>7, <1>8, <1>9, <1>10
     DEF Write, ConfirmOrder, RejectOrder, ReserveStock, ReleaseReservation,
         AssignPicker, ReadyForDispatch, DispatchOrder

\* Goods leave once money was posted or cash on delivery was asked for, and
\* what was posted or asked for stays.
LEMMA SoldKept ==
    ASSUME Inv, Grows, sales' = sales \/ Paid > 0 \/ isCOD
    PROVE  SoldIsPaid'
BY DEF Inv, Grows, SoldIsPaid

LEMMA WriteSold ==
    ASSUME Inv, NEW p, PlanOK(p), Write(p)
    PROVE  SoldIsPaid'
<1>1. Grows
  BY WriteMoney DEF MoneyOK
<1>2. CASE DispatchOrder(p)
  BY <1>1, <1>2, SoldKept DEF DispatchOrder, PlanOK
<1>3. CASE ~DispatchOrder(p)
  <2>1. sales' = sales
    BY <1>3 DEF Write, PayByMpesa, PayAtDoor, NewAttempt, PlaceCod,
       ConfirmCashOnDelivery, MpesaCallback, SetStatus, SetPaid, ConfirmOrder,
       RejectOrder, ReserveStock, ReleaseReservation, AssignPicker,
       ReadyForDispatch, ConfirmDelivery, goodsVars
  <2>2. QED
    BY <1>1, <2>1, SoldKept
<1>4. QED
  BY <1>2, <1>3

LEMMA WriteTyped ==
    ASSUME Inv, NEW p, PlanOK(p), Write(p)
    PROVE  OrderTypes' /\ packing' = packing
<1> USE DEF OrderTypes
<1>1. /\ TypeOK /\ OrderTypes
      /\ attempts' \in Seq(Attempts) /\ byHand' \in Nat /\ cash' \in Nat
  BY WriteMoney DEF Inv, MoneyOK, TypeOK
<1>2. CASE PayByMpesa(p) \/ PayAtDoor(p)
  BY <1>1, <1>2 DEF PayByMpesa, PayAtDoor, NewAttempt, orderVars, taskVars, goodsVars
<1>3. CASE PlaceCod(p)
  BY <1>1, <1>3 DEF PlaceCod, taskVars, goodsVars, Statuses, PaymentStatuses
<1>4. CASE ConfirmCashOnDelivery(p)
  BY <1>1, <1>4 DEF ConfirmCashOnDelivery, taskVars, goodsVars, Statuses, PaymentStatuses
<1>5. CASE MpesaCallback(p)
  <2>1. p.value \in Statuses
    BY <1>5 DEF MpesaCallback, PlanOK, Statuses
  <2>2. status' \in Statuses
    BY <1>1, <1>5, <2>1 DEF MpesaCallback
  <2>3. payment' \in PaymentStatuses
    BY <1>1, <1>5 DEF MpesaCallback, Received, PaymentStatuses
  <2>4. QED
    BY <1>1, <1>5, <2>2, <2>3 DEF MpesaCallback, taskVars, goodsVars
<1>6. CASE SetStatus(p)
  <2>1. p.value \in PaymentStatuses
    BY <1>6 DEF SetStatus, PlanOK
  <2>2. QED
    BY <1>1, <1>6, <2>1, OverridesAssumption DEF SetStatus, taskVars, goodsVars
<1>7. CASE SetPaid(p)
  <2>1. p.value \in Statuses
    BY <1>7 DEF SetPaid, PlanOK
  <2>2. QED
    BY <1>1, <1>7, <2>1, OverridesAssumption
       DEF SetPaid, taskVars, goodsVars, PaymentStatuses
<1>8. CASE ConfirmOrder(p)
  BY <1>1, <1>8 DEF ConfirmOrder, taskVars, goodsVars, Statuses, FulfilmentStatuses
<1>9. CASE RejectOrder(p)
  <2>1. p.value \in FulfilmentStatuses
    BY <1>9 DEF RejectOrder, PlanOK, FulfilmentStatuses
  <2>2. hold' \in [Holds -> {"NONE", "ACTIVE", "RELEASED", "FULFILLED"}]
    BY <1>1, <1>9, HoldsTyped DEF RejectOrder
  <2>3. QED
    BY <1>1, <1>9, <2>1, <2>2 DEF RejectOrder, taskVars, Statuses
<1>10. CASE ReserveStock(p)
  <2>1. hold' \in [Holds -> {"NONE", "ACTIVE", "RELEASED", "FULFILLED"}]
    BY <1>1, <1>10 DEF ReserveStock
  <2>2. QED
    BY <1>1, <1>10, <2>1 DEF ReserveStock, taskVars, FulfilmentStatuses
<1>11. CASE ReleaseReservation(p)
  <2>1. hold' \in [Holds -> {"NONE", "ACTIVE", "RELEASED", "FULFILLED"}]
    BY <1>1, <1>11, HoldsTyped DEF ReleaseReservation
  <2>2. QED
    BY <1>1, <1>11, <2>1 DEF ReleaseReservation, taskVars, FulfilmentStatuses
<1>12. CASE AssignPicker(p)
  <2>1. picking' \in 0..MaxTasks
    BY <1>1, <1>12, BoundsAssumption DEF AssignPicker
  <2>2. QED
    BY <1>1, <1>12, <2>1 DEF AssignPicker, goodsVars, FulfilmentStatuses
<1>13. CASE ReadyForDispatch(p)
  BY <1>1, <1>13 DEF ReadyForDispatch, taskVars, goodsVars, FulfilmentStatuses
<1>14. CASE DispatchOrder(p)
  <2>1. hold' \in [Holds -> {"NONE", "ACTIVE", "RELEASED", "FULFILLED"}]
    BY <1>1, <1>14, HoldsTyped DEF DispatchOrder
  <2>2. QED
    BY <1>1, <1>14, <2>1 DEF DispatchOrder, taskVars, Statuses, FulfilmentStatuses
<1>15. CASE ConfirmDelivery(p)
  BY <1>1, <1>15 DEF ConfirmDelivery, taskVars, goodsVars, Statuses,
     PaymentStatuses, FulfilmentStatuses
<1>16. QED
  BY <1>2, <1>3, <1>4, <1>5, <1>6, <1>7, <1>8, <1>9, <1>10, <1>11, <1>12,
     <1>13, <1>14, <1>15 DEF Write

LEMMA WriteOK ==
    ASSUME Inv, NEW p, PlanOK(p), Write(p)
    PROVE  MoneyOK /\ Core'
<1>1. MoneyOK /\ SoldIsPaid' /\ OrderTypes' /\ packing' = packing
  BY WriteMoney, WriteSold, WriteTyped
<1>2. QED
  BY <1>1 DEF Core, MoneyOK, Inv

\* The picker's and the packer's own steps.
LEMMA TaskOK ==
    ASSUME Inv, CompletePicking \/ AssignPacker \/ CompletePacking
    PROVE  MoneyOK /\ Core'
<1> DEFINE w == packing.waiting
           a == packing.assigned
<1>1. TypeOK /\ PaidForReal /\ SoldIsPaid /\ w + a <= MaxTasks /\ MaxTasks \in Nat
  BY BoundsAssumption DEF Inv
<1>2. /\ packing = [waiting |-> w, assigned |-> a]
      /\ w \in 0..MaxTasks /\ a \in 0..MaxTasks /\ picking \in 0..MaxTasks
  BY <1>1 DEF TypeOK
<1>3. /\ UNCHANGED <<status, payment, moneyVars, goodsVars>>
      /\ fulfilment' \in FulfilmentStatuses
  BY DEF CompletePicking, AssignPacker, CompletePacking, FulfilmentStatuses
<1>4. PICK u \in Int, v \in Int :
        /\ packing' = [waiting |-> u, assigned |-> v]
        /\ u \in 0..MaxTasks /\ v \in 0..MaxTasks /\ u + v <= MaxTasks
        /\ picking' \in 0..MaxTasks
  <2>1. CASE CompletePicking
    <3>1. packing' = [waiting |-> w + 1, assigned |-> a]
      BY <1>2, <2>1 DEF CompletePicking
    <3>2. w + a < MaxTasks /\ picking' = picking - 1 /\ picking > 0
      BY <2>1 DEF CompletePicking, OpenPicking
    <3> HIDE DEF w, a
    <3>3. w + 1 \in 0..MaxTasks /\ w + 1 + a <= MaxTasks /\ picking' \in 0..MaxTasks
      BY <1>1, <1>2, <3>2
    <3>4. QED
      BY <1>2, <3>1, <3>3
  <2>2. CASE AssignPacker
    <3>1. packing' = [waiting |-> w - 1, assigned |-> a + 1] /\ w > 0 /\ picking' = picking
      BY <2>2 DEF AssignPacker
    <3> HIDE DEF w, a
    <3>2. w - 1 \in 0..MaxTasks /\ a + 1 \in 0..MaxTasks /\ (w - 1) + (a + 1) <= MaxTasks
      BY <1>1, <1>2, <3>1
    <3>3. QED
      BY <1>2, <3>1, <3>2
  <2>3. CASE CompletePacking /\ w > 0 /\ packing' = [packing EXCEPT !.waiting = @ - 1]
    <3>1. packing' = [waiting |-> w - 1, assigned |-> a] /\ picking' = picking
      BY <1>2, <2>3 DEF CompletePacking
    <3> HIDE DEF w, a
    <3>2. w - 1 \in 0..MaxTasks /\ (w - 1) + a <= MaxTasks
      BY <1>1, <1>2, <2>3
    <3>3. QED
      BY <1>2, <3>1, <3>2
  <2>4. CASE CompletePacking /\ a > 0 /\ packing' = [packing EXCEPT !.assigned = @ - 1]
    <3>1. packing' = [waiting |-> w, assigned |-> a - 1] /\ picking' = picking
      BY <1>2, <2>4 DEF CompletePacking
    <3> HIDE DEF w, a
    <3>2. a - 1 \in 0..MaxTasks /\ w + (a - 1) <= MaxTasks
      BY <1>1, <1>2, <2>4
    <3>3. QED
      BY <1>2, <3>1, <3>2
  <2>5. QED
    BY <2>1, <2>2, <2>3, <2>4 DEF CompletePacking
<1>5. Paid' = Paid /\ isCOD' = isCOD
  BY <1>3 DEF Paid, Posted, isCOD, moneyVars
<1>6. PaidForReal' /\ SoldIsPaid'
  BY <1>1, <1>3, <1>5 DEF PaidForReal, SoldIsPaid, goodsVars
<1>7. MoneyOK
  BY <1>3, <1>6, MoneySame
<1>8. packing' \in [waiting: 0..MaxTasks, assigned: 0..MaxTasks]
  BY <1>4
<1>9. packing.waiting' + packing.assigned' <= MaxTasks
  BY <1>4
<1>10. OrderTypes'
  BY <1>1, <1>3, <1>4, <1>8 DEF OrderTypes, TypeOK, moneyVars, goodsVars
<1>11. QED
  BY <1>6, <1>7, <1>9, <1>10 DEF Core, MoneyOK

-----------------------------------------------------------------------------
(***************************************************************************)
(* The invariant holds, whichever calls are overtaken.                     *)
(***************************************************************************)
LEMMA InitOK == Init => Inv
<1> SUFFICES ASSUME Init PROVE Inv
  OBVIOUS
<1> USE DEF Init
<1>1. slow.op = "none" /\ slow.attempt = 0 /\ slow.found = {}
  BY DEF NoPlan, Plan
<1>2. attempts = << >> /\ Len(attempts) = 0 /\ DOMAIN attempts = {}
  OBVIOUS
<1>3. TypeOK
  <2>1. attempts \in Seq(Attempts) /\ 0 \in 0..MaxTasks
    BY BoundsAssumption
  <2>2. hold \in [Holds -> {"NONE", "ACTIVE", "RELEASED", "FULFILLED"}]
    OBVIOUS
  <2>3. slow.attempt \in 0..Len(attempts) /\ slow.found \subseteq Holds
    BY <1>1, <1>2
  <2>4. QED
    BY <1>1, <2>1, <2>2, <2>3
       DEF TypeOK, Statuses, PaymentStatuses, FulfilmentStatuses
<1>4. packing.waiting + packing.assigned <= MaxTasks
  BY BoundsAssumption
<1>5. PostedOnce /\ PaidForReal /\ SoldIsPaid
  BY <1>2 DEF PostedOnce, PaidForReal, SoldIsPaid
<1>6. PlanOK(slow)
  <2>1. slow.attempt \in 0..Len(attempts)
    BY <1>1, <1>2
  <2>2. QED
    BY <1>1, <2>1 DEF PlanOK
<1>7. QED
  BY <1>3, <1>4, <1>5, <1>6 DEF Inv

LEMMA SlowTyped ==
    ASSUME Inv
    PROVE  TypeOK /\ PlanOK(slow) /\ slow.op \in Slow \cup {"none", "placeCod"}
BY DEF Inv, TypeOK

LEMMA NoPlanOK ==
    ASSUME TypeOK
    PROVE  PlanOK(NoPlan) /\ NoPlan.op = "none"
<1>1. PlanOK(Just("none"))
  BY JustOK
<1>2. Just("none") = NoPlan /\ NoPlan.op = "none"
  BY DEF Just, NoPlan, Plan
<1>3. QED
  BY <1>1, <1>2

LEMMA NextOK == Inv /\ [Next]_vars => Inv'
<1> SUFFICES ASSUME Inv, [Next]_vars PROVE Inv'
  OBVIOUS
<1>1. TypeOK /\ PlanOK(slow) /\ slow.op \in Slow \cup {"none", "placeCod"}
  BY SlowTyped
<1>2. CASE Alone
  <2>1. MoneyOK /\ Core'
    BY <1>2, PlansOK, WriteOK, TaskOK DEF Alone
  <2>2. slow' = slow
    BY <1>2 DEF Alone
  <2>3. PICK q : q = slow
    OBVIOUS
  <2>4. PlanOK(q)'
    BY <1>1, <2>1, <2>3, PlanKept DEF MoneyOK
  <2>5. slow'.op \in Slow \cup {"none", "placeCod"}
    BY <1>1, <2>2
  <2>6. QED
    BY <1>1, <2>1, <2>2, <2>3, <2>4, <2>5 DEF Core, OrderTypes, Inv, TypeOK, PlanOK
<1>3. CASE UNCHANGED <<orderVars, moneyVars, taskVars, goodsVars>>
           /\ PlanOK(slow)' /\ slow'.op \in Slow \cup {"none", "placeCod"}
  <2>1. OrderTypes' /\ (packing.waiting + packing.assigned <= MaxTasks)'
    BY <1>1, <1>3 DEF OrderTypes, TypeOK, Inv, orderVars, moneyVars, taskVars, goodsVars
  <2>2. PostedOnce' /\ Paid' = Paid /\ isCOD' = isCOD
    BY <1>3 DEF Inv, PostedOnce, Paid, Posted, isCOD, moneyVars
  <2>3. PaidForReal' /\ SoldIsPaid'
    BY <1>3, <2>2 DEF Inv, PaidForReal, SoldIsPaid, orderVars, goodsVars
  <2>4. QED
    BY <1>3, <2>1, <2>2, <2>3 DEF OrderTypes, Inv, TypeOK, PlanOK
<1>4. CASE Pause
  <2>1. PlanOK(slow') /\ slow'.op \in Slow
    BY <1>4, PlansOK DEF Pause
  <2>2. UNCHANGED <<orderVars, moneyVars, taskVars, goodsVars>>
    BY <1>4 DEF Pause
  <2>3. Paid' = Paid /\ isCOD' = isCOD /\ attempts' = attempts
    BY <2>2 DEF Paid, Posted, isCOD, moneyVars
  <2>4. PlanOK(slow)'
    BY <2>1, <2>3 DEF PlanOK
  <2>5. QED
    BY <1>3, <2>1, <2>2, <2>4
<1>5. CASE PauseToPlaceCod
  <2>1. NewAttempt("CASH_ON_DELIVERY", "COMPLETED", "NONE") /\ slow' = Just("placeCod")
    BY <1>5 DEF PauseToPlaceCod
  <2>2. MoneyOK /\ isCOD'
    BY <2>1, MoneyAppend
  <2>3. UNCHANGED <<orderVars, taskVars, goodsVars>>
    BY <2>1 DEF NewAttempt
  <2>4. OrderTypes' /\ (packing.waiting + packing.assigned <= MaxTasks)'
    BY <1>1, <2>2, <2>3 DEF MoneyOK, OrderTypes, TypeOK, Inv, orderVars, taskVars, goodsVars
  <2>5. sales' = sales
    BY <2>3 DEF goodsVars
  <2>6. SoldIsPaid'
    BY <2>2, <2>5, SoldKept DEF MoneyOK
  <2>7. slow'.op = "placeCod" /\ slow'.attempt = 0 /\ slow'.found = {}
    BY <2>1 DEF Just, Plan
  <2>8. PlanOK(slow)'
    BY <2>2, <2>7 DEF PlanOK, MoneyOK, Grows
  <2>9. QED
    BY <2>2, <2>4, <2>6, <2>7, <2>8 DEF MoneyOK, OrderTypes, Inv, TypeOK, PlanOK
<1>6. CASE Resume /\ Write(slow)
  <2>1. MoneyOK /\ Core'
    BY <1>1, <1>6, WriteOK
  <2>2. slow' = NoPlan
    BY <1>6 DEF Resume
  <2>3. PlanOK(NoPlan) /\ slow'.op = "none"
    BY <1>1, <2>2, NoPlanOK
  <2>4. PlanOK(NoPlan)'
    BY <1>1, <2>1, <2>3, PlanKept DEF MoneyOK
  <2>5. QED
    BY <2>1, <2>2, <2>3, <2>4 DEF Core, OrderTypes, Inv, TypeOK, PlanOK, NoPlan, Plan
<1>7. CASE UNCHANGED <<orderVars, moneyVars, taskVars, goodsVars>> /\ slow' = NoPlan
  <2>1. PlanOK(NoPlan) /\ slow'.op = "none"
    BY <1>1, <1>7, NoPlanOK
  <2>2. Paid' = Paid /\ isCOD' = isCOD /\ attempts' = attempts
    BY <1>7 DEF Paid, Posted, isCOD, moneyVars
  <2>3. PlanOK(slow)'
    BY <1>7, <2>1, <2>2 DEF PlanOK
  <2>4. QED
    BY <1>3, <1>7, <2>1, <2>3
<1>8. CASE UNCHANGED vars
  <2>1. UNCHANGED <<orderVars, moneyVars, taskVars, goodsVars>> /\ slow' = slow
    BY <1>8 DEF vars
  <2>2. Paid' = Paid /\ isCOD' = isCOD /\ attempts' = attempts
    BY <2>1 DEF Paid, Posted, isCOD, moneyVars
  <2>3. PlanOK(slow)'
    BY <1>1, <2>1, <2>2 DEF PlanOK
  <2>4. QED
    BY <1>1, <1>3, <2>1, <2>3
<1>9. QED
  BY <1>2, <1>4, <1>5, <1>6, <1>7, <1>8 DEF Next, Resume

\* Inv, whichever calls are overtaken and whatever the back office sets.
THEOREM InvHolds == Spec => []Inv
BY InitOK, NextOK, PTL DEF Spec

\* On records of the right type, a checkout that succeeded has exactly one
\* payment, and the others none (handleMpesaCallback), whichever calls are
\* overtaken and whatever the back office sets.
THEOREM CheckoutIsPostedOnce == Spec => []CheckoutPostsOnce
<1>1. Inv => CheckoutPostsOnce
  BY DEF Inv, PostedOnce, CheckoutPostsOnce
<1>2. QED
  BY <1>1, InvHolds, PTL

\* Goods leave (dispatchOrder) only when money was posted, or cash on delivery
\* was asked for: again whichever calls are overtaken.
THEOREM GoodsArePaid == Spec => []SoldIsPaid
<1>1. Inv => SoldIsPaid
  BY DEF Inv
<1>2. QED
  BY <1>1, InvHolds, PTL

-----------------------------------------------------------------------------
(***************************************************************************)
(* What a call knows when nothing was committed since it read the order.   *)
(***************************************************************************)
Fresh(p) ==
    /\ p.op = "deliver" => status = "DISPATCHED"
    /\ p.op = "setPaid" => p.value = status
    /\ p.op = "setStatus" => p.value = payment
    /\ p.op = "reserve" => status = "CONFIRMED"
    /\ p.op = "reject" => p.found = ActiveHolds

\* A call that read the order a while ago, and is not one of ops.
Late(p, ops) == p.op \notin ops

LEMMA PlansFresh ==
    ASSUME NEW p \in Plans
    PROVE  Fresh(p)
<1>1. ASSUME NEW op \in {"payByMpesa", "payAtDoor", "confirm", "assignPicker",
                         "ready", "failDelivery"},
             p = Just(op)
      PROVE  Fresh(p)
  BY <1>1 DEF Just, Plan, Fresh
<1>2. CASE p \in PaymentPlans
  <2>1. CASE \E i, v : p = Plan("callback", i, v, {}) \/ p = Plan("acceptCod", i, v, {})
    <3>1. p.op = "callback" \/ p.op = "acceptCod"
      BY <2>1 DEF Plan
    <3>2. QED
      BY <3>1 DEF Fresh
  <2>2. CASE p = Plan("setStatus", 0, payment, {})
    BY <2>2 DEF Plan, Fresh
  <2>3. CASE p = Plan("setPaid", 0, status, {})
    BY <2>3 DEF Plan, Fresh
  <2>4. QED
    BY <1>1, <1>2, <2>1, <2>2, <2>3 DEF PaymentPlans, Only
<1>3. CASE p \in StockPlans
  <2>1. CASE \E v : p = Plan("reject", 0, v, ActiveHolds)
    BY <2>1 DEF Plan, Fresh
  <2>2. CASE p = Plan("release", 0, "", ActiveHolds)
    BY <2>2 DEF Plan, Fresh
  <2>3. CASE status = "CONFIRMED" /\ p = Just("reserve")
    BY <2>3 DEF Just, Plan, Fresh
  <2>4. QED
    BY <1>1, <1>3, <2>1, <2>2, <2>3 DEF StockPlans, Only
<1>4. CASE p \in ShippingPlans
  <2>1. CASE p = Plan("dispatch", 0, "", ActiveHolds)
    BY <2>1 DEF Plan, Fresh
  <2>2. CASE status = "DISPATCHED" /\ \E v : p = Plan("deliver", 0, v, {})
    BY <2>2 DEF Plan, Fresh
  <2>3. QED
    BY <1>1, <1>4, <2>1, <2>2 DEF ShippingPlans, Only
<1>5. QED
  BY <1>2, <1>3, <1>4 DEF Plans

\* Who writes in a step, and with what.
LEMMA WhoWrites ==
    ASSUME Inv, [Next]_vars,
           NEW ops, ops \cap Slow = {}, "none" \notin ops, "placeCod" \notin ops
    PROVE  \/ \E p : Write(p) /\ PlanOK(p) /\ (Fresh(p) \/ Late(p, ops))
           \/ CompletePicking \/ AssignPacker \/ CompletePacking
           \/ \/ NewAttempt("CASH_ON_DELIVERY", "COMPLETED", "NONE")
              \/ UNCHANGED <<orderVars, moneyVars, taskVars, goodsVars>>
<1>1. TypeOK /\ PlanOK(slow) /\ slow.op \in Slow \cup {"none", "placeCod"}
  BY SlowTyped
<1>2. CASE Alone
  BY <1>2, PlansOK, PlansFresh DEF Alone
<1>3. CASE Resume
  BY <1>1, <1>3 DEF Resume, Late
<1>4. CASE Pause \/ PauseToPlaceCod \/ UNCHANGED vars
  BY <1>4 DEF Pause, PauseToPlaceCod, vars
<1>5. QED
  BY <1>2, <1>3, <1>4 DEF Next

-----------------------------------------------------------------------------
(***************************************************************************)
(* Cash is collected once: a delivery is confirmed from DISPATCHED, which  *)
(* only the one dispatch writes.                                           *)
(***************************************************************************)
CashOnce ==
    \/ cash = 0
    \/ cash = 1 /\ dispatched /\ status # "DISPATCHED"

LEMMA CashWrite ==
    ASSUME Inv, CashOnce, "DISPATCHED" \notin Overrides, NEW p, PlanOK(p), Write(p),
           Fresh(p) \/ Late(p, {"deliver", "setPaid"})
    PROVE  CashOnce'
<1>1. CASE DispatchOrder(p)
  BY <1>1 DEF DispatchOrder, FirstDispatch, moneyVars, CashOnce
<1>2. CASE ConfirmDelivery(p)
  <2>1. CASE p.op = "deliver"
    <3>1. status = "DISPATCHED"
      BY <2>1 DEF Fresh, Late
    <3>2. cash = 0 /\ cash' \in {0, 1} /\ dispatched /\ dispatched' = dispatched
          /\ status' = "DELIVERED"
      BY <1>2, <2>1, <3>1 DEF ConfirmDelivery, CashOnce, goodsVars
    <3>3. QED
      BY <3>2 DEF CashOnce
  <2>2. CASE p.op # "deliver"
    BY <1>2, <2>2 DEF ConfirmDelivery, CashOnce, goodsVars
  <2>3. QED
    BY <2>1, <2>2
<1>3. CASE MpesaCallback(p)
  <2>1. p.value # "DISPATCHED"
    BY <1>3 DEF MpesaCallback, PlanOK
  <2>2. QED
    BY <1>3, <2>1 DEF MpesaCallback, CashOnce, goodsVars
<1>4. CASE SetPaid(p)
  <2>1. p.value = status
    BY <1>4 DEF SetPaid, Fresh, Late
  <2>2. QED
    BY <1>4, <2>1 DEF SetPaid, CashOnce, goodsVars
<1>5. CASE SetStatus(p)
  BY <1>5 DEF SetStatus, CashOnce, moneyVars, goodsVars
<1>6. CASE UNCHANGED <<cash, dispatched>> /\ (status' = status \/ status' # "DISPATCHED")
  BY <1>6 DEF CashOnce
<1>7. QED
  BY <1>1, <1>2, <1>3, <1>4, <1>5, <1>6
     DEF Write, PayByMpesa, PayAtDoor, NewAttempt, PlaceCod, ConfirmCashOnDelivery,
         ConfirmOrder, RejectOrder, ReserveStock, ReleaseReservation, AssignPicker,
         ReadyForDispatch, orderVars, moneyVars, goodsVars

LEMMA CashStep ==
    ASSUME {"deliver", "setPaid"} \cap Slow = {}, "DISPATCHED" \notin Overrides
    PROVE  Inv /\ CashOnce /\ [Next]_vars => CashOnce'
<1> SUFFICES ASSUME Inv, CashOnce, [Next]_vars PROVE CashOnce'
  OBVIOUS
<1>1. CASE \E p : Write(p) /\ PlanOK(p) /\ (Fresh(p) \/ Late(p, {"deliver", "setPaid"}))
  BY <1>1, CashWrite
<1>2. CASE UNCHANGED <<status, cash, dispatched>>
  BY <1>2 DEF CashOnce
<1>3. QED
  BY <1>1, <1>2, WhoWrites
     DEF CompletePicking, AssignPacker, CompletePacking, NewAttempt, orderVars,
         moneyVars, goodsVars

\* Goods leave only paid for, or for cash that the courier collects at most
\* once (confirmDelivery), although the payment status may be reset and the
\* order confirmed and packed again.  A slow deliver posts the cash twice; a
\* slow setPaid, or an override, that writes DISPATCHED back lets the courier
\* collect again.
THEOREM CashIsCollectedOnce ==
    ASSUME {"deliver", "setPaid"} \cap Slow = {}, "DISPATCHED" \notin Overrides
    PROVE  Spec => []SoldIsPaidOrCash
<1>1. Init => CashOnce
  BY DEF Init, CashOnce
<1>2. Inv /\ CashOnce /\ [Next]_vars => CashOnce'
  BY CashStep
<1>3. Inv /\ CashOnce => SoldIsPaidOrCash
  BY DEF Inv, CashOnce, SoldIsPaidOrCash
<1>4. QED
  BY <1>1, <1>2, <1>3, InvHolds, PTL DEF Spec

-----------------------------------------------------------------------------
(***************************************************************************)
(* The stock an order holds.  HoldsFollowStatus is inductive beside Inv.   *)
(***************************************************************************)
LEMMA HoldsSame ==
    ASSUME HoldsFollowStatus, hold' = hold,
           status' = status \/ status' # "REJECTED",
           fulfilment' = fulfilment \/ fulfilment' # "RESERVED"
    PROVE  HoldsFollowStatus'
BY DEF HoldsFollowStatus, ActiveHolds

LEMMA HoldsGo ==
    ASSUME NEW found, NEW end \in {"RELEASED", "FULFILLED"}, SettleHolds(found, end)
    PROVE  ActiveHolds' = ActiveHolds \ found
BY DEF SettleHolds, ActiveHolds

LEMMA HoldsWrite ==
    ASSUME Inv, HoldsFollowStatus, "REJECTED" \notin Overrides, NEW p, PlanOK(p),
           Write(p), Fresh(p) \/ Late(p, {"reject", "reserve", "setPaid"})
    PROVE  HoldsFollowStatus'
<1> USE DEF HoldsFollowStatus
<1>1. CASE RejectOrder(p)
  <2>1. p.found = ActiveHolds /\ p.value # "RESERVED"
    BY <1>1 DEF RejectOrder, Fresh, Late, PlanOK
  <2>2. ActiveHolds' = {}
    BY <1>1, <2>1, HoldsGo DEF RejectOrder
  <2>3. QED
    BY <1>1, <2>1, <2>2 DEF RejectOrder
<1>2. CASE ReserveStock(p)
  <2>1. status' = "CONFIRMED"
    BY <1>2 DEF ReserveStock, Fresh, Late
  <2>2. ActiveHolds' # {}
    BY <1>2 DEF ReserveStock, ActiveHolds, Inv, TypeOK
  <2>3. QED
    BY <2>1, <2>2
<1>3. CASE ReleaseReservation(p)
  <2>1. ActiveHolds' = ActiveHolds \ p.found
    BY <1>3, HoldsGo DEF ReleaseReservation
  <2>2. QED
    BY <1>3, <2>1 DEF ReleaseReservation
<1>4. CASE DispatchOrder(p)
  BY <1>4 DEF DispatchOrder
<1>5. CASE MpesaCallback(p)
  <2>1. p.value # "REJECTED"
    BY <1>5 DEF MpesaCallback, PlanOK
  <2>2. QED
    BY <1>5, <2>1, HoldsSame DEF MpesaCallback, goodsVars
<1>6. CASE SetPaid(p)
  <2>1. p.value = status
    BY <1>6 DEF SetPaid, Fresh, Late
  <2>2. QED
    BY <1>6, <2>1, HoldsSame DEF SetPaid, goodsVars
<1>7. CASE SetStatus(p)
  BY <1>7, HoldsSame DEF SetStatus, goodsVars
<1>8. CASE /\ hold' = hold
           /\ status' = status \/ status' # "REJECTED"
           /\ fulfilment' = fulfilment \/ fulfilment' # "RESERVED"
  BY <1>8, HoldsSame
<1>9. QED
  BY <1>1, <1>2, <1>3, <1>4, <1>5, <1>6, <1>7, <1>8
     DEF Write, PayByMpesa, PayAtDoor, NewAttempt, PlaceCod, ConfirmCashOnDelivery,
         ConfirmOrder, AssignPicker, ReadyForDispatch, ConfirmDelivery, orderVars,
         goodsVars

LEMMA HoldsStep ==
    ASSUME {"reject", "reserve", "setPaid"} \cap Slow = {}, "REJECTED" \notin Overrides
    PROVE  Inv /\ HoldsFollowStatus /\ [Next]_vars => HoldsFollowStatus'
<1> SUFFICES ASSUME Inv, HoldsFollowStatus, [Next]_vars PROVE HoldsFollowStatus'
  OBVIOUS
<1>1. CASE \E p : /\ Write(p) /\ PlanOK(p)
                  /\ Fresh(p) \/ Late(p, {"reject", "reserve", "setPaid"})
  BY <1>1, HoldsWrite
<1>2. CASE /\ hold' = hold /\ status' = status
           /\ fulfilment' = fulfilment \/ fulfilment' # "RESERVED"
  BY <1>2, HoldsSame
<1>3. QED
  BY <1>1, <1>2, WhoWrites
     DEF CompletePicking, AssignPacker, CompletePacking, NewAttempt, orderVars,
         goodsVars

\* A rejected order promises no stock (rejectOrder), and an order that shows as
\* RESERVED has stock held for it (reserveStock), whatever was released,
\* rejected or shipped before.
THEOREM HoldsFollow ==
    ASSUME {"reject", "reserve", "setPaid"} \cap Slow = {}, "REJECTED" \notin Overrides
    PROVE  Spec => []HoldsFollowStatus
<1>1. Init => HoldsFollowStatus
  BY DEF Init, HoldsFollowStatus
<1>2. Inv /\ HoldsFollowStatus /\ [Next]_vars => HoldsFollowStatus'
  BY HoldsStep
<1>3. QED
  BY <1>1, <1>2, InvHolds, PTL DEF Spec

-----------------------------------------------------------------------------
(***************************************************************************)
(* The payment an order shows.                                             *)
(***************************************************************************)
LEMMA ShownWrite ==
    ASSUME Inv, CheckoutPaymentShown, NEW p, PlanOK(p), Write(p),
           Fresh(p) \/ Late(p, {"setStatus"})
    PROVE  CheckoutPaymentShown'
<1>1. MoneyOK /\ TypeOK
  BY WriteMoney DEF Inv
<1>2. isCOD => isCOD'
  BY <1>1 DEF MoneyOK, Grows
<1>3. CASE payment' # "UNPAID" \/ isCOD
  BY <1>2, <1>3 DEF CheckoutPaymentShown
<1>4. CASE Posted' = Posted /\ payment' = payment
  BY <1>2, <1>4 DEF CheckoutPaymentShown
<1>5. CASE PayByMpesa(p) \/ PayAtDoor(p)
  <2>1. payment' = payment
    BY <1>5 DEF PayByMpesa, PayAtDoor, NewAttempt, orderVars
  <2>2. PICK a : a \in Attempts /\ a.posted = 0 /\ attempts' = Append(attempts, a)
    <3>1. PICK m \in {"MPESA", "CASH_ON_DELIVERY"}, s \in {"NONE", "PENDING"} :
             attempts' = Append(attempts, [method |-> m, status |-> "PENDING",
                                           transaction |-> s, posted |-> 0])
      BY <1>5 DEF PayByMpesa, PayAtDoor, NewAttempt
    <3>2. [method |-> m, status |-> "PENDING", transaction |-> s, posted |-> 0]
             \in Attempts
      BY DEF Attempts
    <3>3. QED
      BY <3>1, <3>2
  <2>3. Posted' = Posted
    BY <1>1, <2>2, PostedAppend
  <2>4. QED
    BY <1>4, <2>1, <2>3
<1>6. CASE MpesaCallback(p)
  <2>1. CASE payment' # "UNPAID"
    BY <1>3, <2>1
  <2>2. CASE payment' = "UNPAID"
    <3>1. PICK i \in DOMAIN attempts : i = p.attempt
      BY <1>6 DEF PlanOK, MpesaCallback
    <3>2. Settle(i, "FAILED", "FAILED", 0) /\ payment' = payment
      BY <1>6, <2>2, <3>1 DEF MpesaCallback, Received
    <3> DEFINE b == attempts[i]
               a == [method |-> b.method, status |-> "FAILED",
                     transaction |-> "FAILED", posted |-> b.posted + 0]
    <3>3. attempts' = [attempts EXCEPT ![i] = a]
      BY <1>1, <3>2, SettleShape
    <3>4. b \in Attempts
      BY <1>1, SeqDomain
    <3>5. a \in Attempts /\ a.posted = b.posted /\ b.posted \in Nat
      BY <3>4 DEF Attempts
    <3> HIDE DEF a
    <3>6. Posted' = Posted + (a.posted - b.posted) /\ Posted \in Nat
      BY <1>1, <3>3, <3>5, PostedSet, PostedType
    <3>7. QED
      BY <1>4, <3>2, <3>5, <3>6
  <2>3. QED
    BY <2>1, <2>2
<1>7. CASE PlaceCod(p) \/ ConfirmCashOnDelivery(p)
  BY <1>3, <1>7 DEF PlaceCod, ConfirmCashOnDelivery, PlanOK
<1>8. CASE SetStatus(p)
  <2>1. payment' = payment /\ attempts' = attempts
    BY <1>8 DEF SetStatus, Fresh, Late, moneyVars
  <2>2. QED
    BY <1>4, <2>1 DEF Posted
<1>9. CASE SetPaid(p)
  BY <1>3, <1>9 DEF SetPaid
<1>10. CASE attempts' = attempts /\ (payment' = payment \/ payment' # "UNPAID")
  BY <1>3, <1>4, <1>10 DEF Posted
<1>11. QED
  BY <1>5, <1>6, <1>7, <1>8, <1>9, <1>10
     DEF Write, ConfirmOrder, RejectOrder, ReserveStock, ReleaseReservation,
         AssignPicker, ReadyForDispatch, DispatchOrder, ConfirmDelivery, moneyVars

LEMMA ShownStep ==
    ASSUME "setStatus" \notin Slow
    PROVE  Inv /\ CheckoutPaymentShown /\ [Next]_vars => CheckoutPaymentShown'
<1> SUFFICES ASSUME Inv, CheckoutPaymentShown, [Next]_vars PROVE CheckoutPaymentShown'
  OBVIOUS
<1>1. CASE \E p : Write(p) /\ PlanOK(p) /\ (Fresh(p) \/ Late(p, {"setStatus"}))
  BY <1>1, ShownWrite
<1>2. CASE UNCHANGED <<payment, attempts>>
  BY <1>2 DEF CheckoutPaymentShown, Posted, isCOD
<1>3. CASE NewAttempt("CASH_ON_DELIVERY", "COMPLETED", "NONE")
  BY <1>3, MoneyAppend DEF CheckoutPaymentShown
<1>4. QED
  BY <1>1, <1>2, <1>3, WhoWrites
     DEF CompletePicking, AssignPacker, CompletePacking, orderVars, moneyVars

\* Money that came in through a checkout shows on the order, as PAID or as
\* something to review, unless the customer also chose to pay at the door: when
\* the back office's override of the status is not overtaken, for it writes the
\* payment status back as it was read.
THEOREM PaymentShows ==
    ASSUME "setStatus" \notin Slow
    PROVE  Spec => []CheckoutPaymentShown
<1>1. Init => CheckoutPaymentShown
  <2>1. ASSUME Init PROVE Posted = 0
    <3> DEFINE f == [i \in DOMAIN attempts |-> attempts[i].posted]
    <3>1. DOMAIN f = {}
      BY <2>1 DEF Init
    <3>2. Posted = SumFunctionOnSet(f, {})
      BY <3>1 DEF Posted, SumFunction
    <3>3. QED
      BY <3>2, SumEmpty
  <2>2. QED
    BY <2>1 DEF CheckoutPaymentShown
<1>2. Inv /\ CheckoutPaymentShown /\ [Next]_vars => CheckoutPaymentShown'
  BY ShownStep
<1>3. QED
  BY <1>1, <1>2, InvHolds, PTL DEF Spec

-----------------------------------------------------------------------------
(***************************************************************************)
(* Cart: the plans of its calls.                                           *)
(***************************************************************************)
\* What a call of the cart is worth when it writes, whatever has happened
\* since: carts are only added.
CartPlanOK(p) ==
    /\ p.op \in {"add", "update", "remove", "place"} => p.cart \in DOMAIN carts
    /\ p.op \in {"add", "update", "remove"} => p.variant \in Variants
    /\ p.op = "add" => p.qty \in Nat /\ p.had \in Nat
    /\ p.op = "update" => p.qty \in Nat
    /\ p.op = "place" => p.items \in Contents /\ p.key \in Keys \cup {"none"} /\ p.customer \in Nat

\* Someone with the shopper's number was noted down at the till.
WalkedIn == "WALK_IN" \in {customers[i] : i \in DOMAIN customers}

\* What it has read, while it is so still.
CartFresh(p) ==
    /\ p.op = "add" => p.had = carts[p.cart].items[p.variant]
    /\ p.op = "place" =>
         /\ p.items = carts[p.cart].items
         /\ p.customer = 0 => customers = <<>> \/ WalkedIn

CartOps == {"add", "update", "remove", "place"}

LEMMA CartsTyped ==
    ASSUME CartTypeOK
    PROVE  /\ DOMAIN carts = 1..Len(carts) /\ Len(carts) \in Nat
           /\ \A c \in DOMAIN carts : carts[c] \in Carts
           /\ \A c \in DOMAIN carts, v \in Variants :
                /\ carts[c].items[v] \in Nat /\ carts[c].rows[v] \in Nat /\ carts[c].wanted[v] \in Int
           /\ DOMAIN orders = 1..Len(orders) /\ Len(orders) \in Nat
           /\ \A o \in DOMAIN orders : orders[o] \in Orders
           /\ DOMAIN customers = 1..Len(customers) /\ Len(customers) \in Nat
<1>1. carts \in Seq(Carts) /\ orders \in Seq(Orders) /\ customers \in Seq({"WALK_IN", "RETAIL"})
  BY DEF CartTypeOK
<1>2. /\ DOMAIN carts = 1..Len(carts) /\ Len(carts) \in Nat
      /\ \A c \in DOMAIN carts : carts[c] \in Carts
  BY ONLY <1>1, SequenceDomain
<1>3. /\ DOMAIN orders = 1..Len(orders) /\ Len(orders) \in Nat
      /\ \A o \in DOMAIN orders : orders[o] \in Orders
  BY ONLY <1>1, SequenceDomain
<1>4. DOMAIN customers = 1..Len(customers) /\ Len(customers) \in Nat
  BY ONLY <1>1, SequenceDomain
<1>5. \A c \in DOMAIN carts, v \in Variants :
        /\ carts[c].items[v] \in Nat /\ carts[c].rows[v] \in Nat /\ carts[c].wanted[v] \in Int
  BY ONLY <1>2 DEF Carts, Contents
<1>6. QED
  BY ONLY <1>2, <1>3, <1>4, <1>5

LEMMA AddPlanRead ==
    ASSUME CartTypeOK, NEW p \in AddPlans
    PROVE  p.op = "add" /\ CartPlanOK(p) /\ CartFresh(p)
<1>1. PICK c \in DOMAIN carts, v \in Variants, q \in Quantities :
        p = [op |-> "add", cart |-> c, variant |-> v, qty |-> q,
             had |-> carts[c].items[v], row |-> carts[c].rows[v]]
  BY DEF AddPlans
<1>2. carts[c].items[v] \in Nat /\ q \in Nat
  BY CartsTyped, QuantitiesAssumption
<1>3. QED
  BY ONLY <1>1, <1>2 DEF CartPlanOK, CartFresh

LEMMA RowPlanRead ==
    ASSUME CartTypeOK, NEW p \in RowPlans
    PROVE  p.op \in {"update", "remove"} /\ CartPlanOK(p) /\ CartFresh(p)
<1>1. PICK c \in DOMAIN carts : p \in UpdatePlans(c) \cup RemovePlans(c)
  BY DEF RowPlans
<1>2. CASE p \in UpdatePlans(c)
  <2>1. PICK v \in InCart(c), q \in Quantities :
          p = [op |-> "update", cart |-> c, variant |-> v, qty |-> q, row |-> carts[c].rows[v]]
    BY ONLY <1>2 DEF UpdatePlans
  <2>2. v \in Variants /\ q \in Nat
    BY ONLY <2>1, QuantitiesAssumption DEF InCart
  <2>3. QED
    BY ONLY <1>1, <2>1, <2>2 DEF CartPlanOK, CartFresh
<1>3. CASE p \in RemovePlans(c)
  <2>1. PICK v \in InCart(c) :
          p = [op |-> "remove", cart |-> c, variant |-> v, row |-> carts[c].rows[v]]
    BY ONLY <1>3 DEF RemovePlans
  <2>2. v \in Variants
    BY ONLY <2>1 DEF InCart
  <2>3. QED
    BY ONLY <1>1, <2>1, <2>2 DEF CartPlanOK, CartFresh
<1>4. QED
  BY <1>1, <1>2, <1>3

\* A customer is found by number, unless there is none or one of the till.
LEMMA FoundCustomer ==
    ASSUME CartTypeOK, NEW i \in Found
    PROVE  i \in Nat /\ (i = 0 => customers = <<>> \/ WalkedIn)
<1>1. CASE customers = <<>>
  BY <1>1 DEF Found
<1>2. CASE customers # <<>>
  <2>1. PICK j \in DOMAIN customers : i = IF customers[j] = "WALK_IN" THEN 0 ELSE j
    BY <1>2 DEF Found
  <2>2. j \in 1..Len(customers) /\ Len(customers) \in Nat
    BY CartsTyped
  <2>3. CASE customers[j] = "WALK_IN"
    BY <2>1, <2>3 DEF WalkedIn
  <2>4. CASE customers[j] # "WALK_IN"
    <3>1. i = j
      BY ONLY <2>1, <2>4
    <3>2. QED
      BY ONLY <3>1, <2>2
  <2>5. QED
    BY <2>3, <2>4
<1>3. QED
  BY <1>1, <1>2

LEMMA PlacePlanRead ==
    ASSUME CartTypeOK, NEW p \in PlacePlans
    PROVE  p.op = "place" /\ CartPlanOK(p) /\ CartFresh(p)
<1>1. PICK k \in {k \in Keys \cup {"none"} : ~KeyUsed(k)},
           s \in {s \in previews : Matches(s)}, i \in Found :
        p = [op |-> "place", key |-> k, cart |-> s.cart, items |-> s.items,
             customer |-> i, number |-> Len(orders) + 1]
  BY DEF PlacePlans
<1>2. k \in Keys \cup {"none"}
  BY ONLY <1>1
<1>3. s \in previews /\ Matches(s)
  BY ONLY <1>1
<1>4. s.cart \in DOMAIN carts /\ s.items \in Contents
  BY <1>3 DEF CartTypeOK
<1>5. s.items = carts[s.cart].items
  BY <1>3 DEF Matches
<1>6. i \in Nat /\ (i = 0 => customers = <<>> \/ WalkedIn)
  BY FoundCustomer
<1>7. QED
  BY ONLY <1>1, <1>2, <1>4, <1>5, <1>6 DEF CartPlanOK, CartFresh

LEMMA CartPlanRead ==
    ASSUME CartTypeOK, NEW p \in CartPlans
    PROVE  p.op \in CartOps /\ CartPlanOK(p) /\ CartFresh(p)
BY AddPlanRead, RowPlanRead, PlacePlanRead DEF CartPlans, CartOps

\* A plan stays one while carts are only added.
LEMMA CartPlanKept ==
    ASSUME NEW p, CartPlanOK(p), DOMAIN carts \subseteq DOMAIN carts'
    PROVE  CartPlanOK(p)'
BY DEF CartPlanOK, Contents

-----------------------------------------------------------------------------
(***************************************************************************)
(* Cart: what was ordered from a cart, when an order is added.             *)
(***************************************************************************)
LEMMA OrderedType ==
    ASSUME CartTypeOK, NEW c, NEW v \in Variants
    PROVE  /\ IsFiniteSet(DOMAIN orders) /\ Ordered(c, v) \in [DOMAIN orders -> Nat]
           /\ SumFunction(Ordered(c, v)) \in Nat
<1>1. IsFiniteSet(DOMAIN orders) /\ \A o \in DOMAIN orders : orders[o] \in Orders
  <2>1. orders \in Seq(Orders)
    BY DEF CartTypeOK
  <2>2. QED
    BY ONLY <2>1, SequenceDomain
<1>2. \A o \in DOMAIN orders : orders[o].items[v] \in Nat
  BY ONLY <1>1, v \in Variants DEF Orders, Contents
<1>3. Ordered(c, v) \in [DOMAIN orders -> Nat]
  BY <1>2 DEF Ordered
<1>4. QED
  BY <1>1, <1>3, TotalNat

LEMMA OrderedNothing ==
    ASSUME CartTypeOK, NEW c, NEW v \in Variants, \A o \in DOMAIN orders : orders[o].cart # c
    PROVE  SumFunction(Ordered(c, v)) = 0
<1>1. IsFiniteSet(DOMAIN orders)
  BY OrderedType
<1>2. Ordered(c, v) \in [DOMAIN orders -> {0}]
  BY DEF Ordered
<1>3. QED
  BY ONLY <1>1, <1>2, TotalZero

LEMMA OrderedAppend ==
    ASSUME CartTypeOK, NEW x \in Orders, orders' = Append(orders, x), NEW c, NEW v \in Variants
    PROVE  SumFunction(Ordered(c, v))' =
             SumFunction(Ordered(c, v)) + IF x.cart = c THEN x.items[v] ELSE 0
<1> DEFINE S == DOMAIN orders
           y == Len(orders) + 1
           f == Ordered(c, v)
           e == Ordered(c, v)'
<1>1. orders \in Seq(Orders) /\ x \in Orders
  BY DEF CartTypeOK
<1>2. /\ DOMAIN orders' = S \cup {y} /\ y \notin S
      /\ \A o \in S : orders'[o] = orders[o]
      /\ orders'[y] = x
  <2> SUFFICES ASSUME NEW q, q = orders', q = Append(orders, x)
               PROVE  /\ DOMAIN q = DOMAIN orders \cup {Len(orders) + 1}
                      /\ Len(orders) + 1 \notin DOMAIN orders
                      /\ \A o \in DOMAIN orders : q[o] = orders[o]
                      /\ q[Len(orders) + 1] = x
    OBVIOUS
  <2>1. DOMAIN orders = 1..Len(orders) /\ Len(orders) \in Nat
    BY ONLY <1>1
  <2>2. DOMAIN q = 1..(Len(orders) + 1)
    BY ONLY <1>1, q = Append(orders, x)
  <2>3. (\A o \in DOMAIN orders : q[o] = orders[o]) /\ q[Len(orders) + 1] = x
    BY ONLY <1>1, <2>1, q = Append(orders, x)
  <2>4. QED
    BY ONLY <2>1, <2>2, <2>3
<1>3. f \in [S -> Nat] /\ IsFiniteSet(S)
  BY OrderedType
<1>4. x.items[v] \in Nat
  BY DEF Orders, Contents
<1>5. e = [o \in DOMAIN orders' |-> IF orders'[o].cart = c THEN orders'[o].items[v] ELSE 0]
  BY DEF Ordered
<1>6. \A o \in S : e[o] = IF orders[o].cart = c THEN orders[o].items[v] ELSE 0
  BY ONLY <1>2, <1>5
<1>7. \A o \in S : f[o] = IF orders[o].cart = c THEN orders[o].items[v] ELSE 0
  BY DEF Ordered
<1>8. e[y] = IF x.cart = c THEN x.items[v] ELSE 0
  BY ONLY <1>2, <1>5
<1> HIDE DEF f, e, S, y
<1>9. DOMAIN e = S \cup {y} /\ e = [o \in S \cup {y} |-> e[o]]
  BY ONLY <1>2, <1>5
<1>10. \A o \in S : e[o] = f[o] /\ f[o] \in Int
  BY ONLY <1>3, <1>6, <1>7
<1>11. e[y] \in Int
  BY ONLY <1>4, <1>8
<1>12. e \in [S \cup {y} -> Int]
  BY ONLY <1>9, <1>10, <1>11
<1>13. SumFunction(e) = SumFunction(f) + e[y]
  <2>1. f \in [S -> Int]
    BY ONLY <1>3
  <2>2. QED
    BY ONLY <1>2, <1>3, <1>10, <1>12, <2>1, TotalAdd
<1>14. QED
  BY ONLY <1>8, <1>13 DEF e, f

-----------------------------------------------------------------------------
(***************************************************************************)
(* Cart: a row of a cart is written.                                       *)
(***************************************************************************)
\* In r, the row of v in cart c of q has quantity n and is the k-th, and m has
\* been wanted.
RowWritten(q, r, c, v, n, k, m) ==
    r = [q EXCEPT ![c] = [items |-> [q[c].items EXCEPT ![v] = n],
                          rows |-> [q[c].rows EXCEPT ![v] = k],
                          wanted |-> [q[c].wanted EXCEPT ![v] = m]]]

LEMMA CartExcept ==
    ASSUME NEW a, NEW b, NEW d, NEW v, NEW n, NEW y, y = [items |-> a, rows |-> b, wanted |-> d]
    PROVE  /\ [y EXCEPT !.items[v] = n] = [items |-> [a EXCEPT ![v] = n], rows |-> b, wanted |-> d]
           /\ [y EXCEPT !.rows[v] = @ + 1] = [items |-> a, rows |-> [b EXCEPT ![v] = b[v] + 1], wanted |-> d]
           /\ [y EXCEPT !.wanted[v] = @ + n] = [items |-> a, rows |-> b, wanted |-> [d EXCEPT ![v] = d[v] + n]]
OBVIOUS

LEMMA CartShape ==
    ASSUME NEW x \in Carts, NEW v \in Variants, NEW n, NEW m
    PROVE  [items |-> [x.items EXCEPT ![v] = n], rows |-> x.rows, wanted |-> [x.wanted EXCEPT ![v] = m]]
             = [items |-> [x.items EXCEPT ![v] = n], rows |-> [x.rows EXCEPT ![v] = x.rows[v]],
                wanted |-> [x.wanted EXCEPT ![v] = m]]
BY DEF Carts, Contents

LEMMA RowShape ==
    ASSUME NEW q \in Seq(Carts), NEW c \in DOMAIN q, NEW v \in Variants, NEW n, NEW ch,
           NEW w, w = [q EXCEPT ![c].wanted[v] = @ + ch],
           NEW r, r = [w EXCEPT ![c].items[v] = n]
    PROVE  RowWritten(q, r, c, v, n, q[c].rows[v], q[c].wanted[v] + ch)
<1>1. q[c] \in Carts
  BY SequenceDomain
<1> DEFINE x == q[c]
           y == [items |-> x.items, rows |-> x.rows, wanted |-> [x.wanted EXCEPT ![v] = x.wanted[v] + ch]]
           z == [items |-> [x.items EXCEPT ![v] = n], rows |-> x.rows,
                 wanted |-> [x.wanted EXCEPT ![v] = x.wanted[v] + ch]]
<1>2. x = [items |-> x.items, rows |-> x.rows, wanted |-> x.wanted]
  BY <1>1 DEF Carts
<1>3. [x EXCEPT !.wanted[v] = @ + ch] = y
  BY ONLY <1>2, CartExcept
<1>4. w = [q EXCEPT ![c] = y]
  BY ONLY <1>3, w = [q EXCEPT ![c].wanted[v] = @ + ch]
<1>5. w[c] = y
  BY ONLY <1>4, c \in DOMAIN q
<1>6. [y EXCEPT !.items[v] = n] = z
  BY ONLY CartExcept
<1>7. r = [w EXCEPT ![c] = z]
  BY ONLY <1>5, <1>6, r = [w EXCEPT ![c].items[v] = n]
<1>8. r = [q EXCEPT ![c] = z]
  <2> HIDE DEF y, z
  <2>1. QED
    BY ONLY <1>4, <1>7, q \in Seq(Carts)
<1>9. z = [items |-> [x.items EXCEPT ![v] = n], rows |-> [x.rows EXCEPT ![v] = x.rows[v]],
           wanted |-> [x.wanted EXCEPT ![v] = x.wanted[v] + ch]]
  BY ONLY <1>1, CartShape, v \in Variants
<1>10. QED
  BY ONLY <1>8, <1>9 DEF RowWritten

LEMMA NewRowShape ==
    ASSUME NEW q \in Seq(Carts), NEW c \in DOMAIN q, NEW v \in Variants, NEW n, NEW ch,
           NEW w, w = [q EXCEPT ![c].wanted[v] = @ + ch],
           NEW r, r = [w EXCEPT ![c].items[v] = n, ![c].rows[v] = @ + 1]
    PROVE  RowWritten(q, r, c, v, n, q[c].rows[v] + 1, q[c].wanted[v] + ch)
<1>1. PICK s : s = [w EXCEPT ![c].items[v] = n]
  OBVIOUS
<1>2. RowWritten(q, s, c, v, n, q[c].rows[v], q[c].wanted[v] + ch)
  BY ONLY <1>1, RowShape, q \in Seq(Carts), c \in DOMAIN q, v \in Variants,
          w = [q EXCEPT ![c].wanted[v] = @ + ch]
<1>3. r = [s EXCEPT ![c].rows[v] = @ + 1]
  BY ONLY <1>1, r = [w EXCEPT ![c].items[v] = n, ![c].rows[v] = @ + 1]
<1>4. q[c] \in Carts
  BY SequenceDomain
<1> DEFINE x == q[c]
           y == [items |-> [x.items EXCEPT ![v] = n], rows |-> [x.rows EXCEPT ![v] = x.rows[v]],
                 wanted |-> [x.wanted EXCEPT ![v] = x.wanted[v] + ch]]
           z == [items |-> [x.items EXCEPT ![v] = n], rows |-> [x.rows EXCEPT ![v] = x.rows[v] + 1],
                 wanted |-> [x.wanted EXCEPT ![v] = x.wanted[v] + ch]]
<1>5. s = [q EXCEPT ![c] = y]
  BY ONLY <1>2 DEF RowWritten
<1>6. s[c] = y
  BY ONLY <1>5, c \in DOMAIN q
<1>7. [y EXCEPT !.rows[v] = @ + 1] = z
  <2>1. y.rows[v] = x.rows[v]
    BY <1>4 DEF Carts, Contents
  <2>2. [y.rows EXCEPT ![v] = y.rows[v] + 1] = [x.rows EXCEPT ![v] = x.rows[v] + 1]
    <3>1. x.rows \in [Variants -> Nat]
      BY <1>4 DEF Carts, Contents
    <3>2. y.rows = [x.rows EXCEPT ![v] = x.rows[v]]
      OBVIOUS
    <3>3. QED
      BY ONLY <3>1, <3>2, <2>1
  <2>3. [y EXCEPT !.rows[v] = @ + 1] =
          [items |-> y.items, rows |-> [y.rows EXCEPT ![v] = y.rows[v] + 1], wanted |-> y.wanted]
    BY ONLY SMTT(30), CartExcept
  <2>4. QED
    BY ONLY <2>2, <2>3
<1>8. r = [s EXCEPT ![c] = z]
  BY ONLY <1>3, <1>6, <1>7
<1>9. r = [q EXCEPT ![c] = z]
  <2> HIDE DEF y, z
  <2>1. QED
    BY ONLY <1>5, <1>8, q \in Seq(Carts)
<1>10. QED
  BY ONLY <1>9 DEF RowWritten

LEMMA RowWriting ==
    ASSUME NEW q \in Seq(Carts), NEW c \in DOMAIN q, NEW v \in Variants,
           NEW n \in Nat, NEW k \in Nat, NEW m \in Int, NEW r, RowWritten(q, r, c, v, n, k, m)
    PROVE  /\ r \in Seq(Carts) /\ DOMAIN r = DOMAIN q
           /\ r[c].items[v] = n /\ r[c].wanted[v] = m
           /\ \A d \in DOMAIN q, u \in Variants :
                d # c \/ u # v => r[d].items[u] = q[d].items[u] /\ r[d].wanted[u] = q[d].wanted[u]
<1>1. q[c] \in Carts
  BY SequenceDomain
<1> DEFINE x == [items |-> [q[c].items EXCEPT ![v] = n], rows |-> [q[c].rows EXCEPT ![v] = k],
                 wanted |-> [q[c].wanted EXCEPT ![v] = m]]
<1>2. x \in Carts
  <2>1. /\ [q[c].items EXCEPT ![v] = n] \in Contents /\ [q[c].rows EXCEPT ![v] = k] \in Contents
        /\ [q[c].wanted EXCEPT ![v] = m] \in [Variants -> Int]
    BY <1>1 DEF Carts, Contents
  <2>2. QED
    BY <2>1 DEF Carts
<1>3. /\ x.items[v] = n /\ x.wanted[v] = m
      /\ \A u \in Variants : u # v => x.items[u] = q[c].items[u] /\ x.wanted[u] = q[c].wanted[u]
  BY <1>1 DEF Carts, Contents
<1>4. r = [q EXCEPT ![c] = x]
  BY DEF RowWritten
<1> HIDE DEF x
<1>5. r \in Seq(Carts) /\ DOMAIN r = DOMAIN q /\ r[c] = x /\ \A d \in DOMAIN q : d # c => r[d] = q[d]
  BY ONLY <1>2, <1>4, q \in Seq(Carts), c \in DOMAIN q
<1>6. QED
  BY ONLY <1>3, <1>5

-----------------------------------------------------------------------------
(***************************************************************************)
(* Cart: the inductive invariant.                                          *)
(***************************************************************************)
CartRecordsOK ==
    /\ carts \in Seq(Carts)
    /\ \A s \in previews : s.cart \in DOMAIN carts /\ s.items \in Contents
    /\ orders \in Seq(Orders)
    /\ customers \in Seq({"WALK_IN", "RETAIL"})

OrdersHaveCarts == \A o \in DOMAIN orders : orders[o].cart \in DOMAIN carts

OrderedOnce ==
    \A o, p \in DOMAIN orders :
      orders[o].cart = orders[p].cart \/ (KeyUsed(orders[o].key) /\ orders[o].key = orders[p].key)
        => o = p

CartInv ==
    /\ CartTypeOK /\ OrdersHaveCarts /\ OrderedOnce
    /\ CartPlanOK(slowCart) /\ (slowCart # NoCartPlan => ~cartOvertaken)

\* Unless a call was overtaken.
Kept ==
    \A c \in DOMAIN carts, v \in Variants :
      carts[c].items[v] + SumFunction(Ordered(c, v)) = carts[c].wanted[v]
OneShopper == WalkedIn \/ Len(customers) <= 1
CartOrderly == ~cartOvertaken => Kept /\ OneShopper

\* What every step leaves behind.
CartSafe ==
    CartRecordsOK' /\ OrdersHaveCarts' /\ OrderedOnce' /\ DOMAIN carts \subseteq DOMAIN carts'

LEMMA RowWriteSafe ==
    ASSUME CartInv, UNCHANGED <<previews, orders, customers>>,
           NEW c \in DOMAIN carts, NEW v \in Variants, NEW n \in Nat, NEW k \in Nat, NEW m \in Int,
           RowWritten(carts, carts', c, v, n, k, m)
    PROVE  /\ CartSafe /\ OneShopper' = OneShopper
           /\ Kept /\ n - carts[c].items[v] = m - carts[c].wanted[v] => Kept'
<1>1. CartTypeOK /\ carts \in Seq(Carts)
  BY DEF CartInv, CartTypeOK
<1>2. PICK r : r = carts'
  OBVIOUS
<1>3. /\ r \in Seq(Carts) /\ DOMAIN r = DOMAIN carts
      /\ r[c].items[v] = n /\ r[c].wanted[v] = m
      /\ \A d \in DOMAIN carts, u \in Variants :
           d # c \/ u # v => r[d].items[u] = carts[d].items[u] /\ r[d].wanted[u] = carts[d].wanted[u]
  BY ONLY <1>1, <1>2, RowWriting, c \in DOMAIN carts, v \in Variants, n \in Nat, k \in Nat, m \in Int,
          RowWritten(carts, carts', c, v, n, k, m)
<1>4. previews' = previews /\ orders' = orders /\ customers' = customers /\ carts' = r
  BY <1>2
<1>5. CartRecordsOK'
  BY ONLY <1>1, <1>3, <1>4 DEF CartTypeOK, CartRecordsOK, Contents
<1>6. OrdersHaveCarts' /\ OrderedOnce'
  BY ONLY <1>3, <1>4, CartInv DEF CartInv, OrdersHaveCarts, OrderedOnce, KeyUsed
<1>7. CartSafe
  BY ONLY <1>3, <1>4, <1>5, <1>6 DEF CartSafe
<1>8. OneShopper' = OneShopper
  BY ONLY <1>4 DEF OneShopper, WalkedIn
<1>9. ASSUME Kept, n - carts[c].items[v] = m - carts[c].wanted[v] PROVE Kept'
  <2> SUFFICES ASSUME NEW d \in DOMAIN carts', NEW u \in Variants
               PROVE  (carts[d].items[u] + SumFunction(Ordered(d, u)) = carts[d].wanted[u])'
    BY DEF Kept
  <2>0. SumFunction(Ordered(d, u))' = SumFunction(Ordered(d, u)) /\ d \in DOMAIN carts
    BY ONLY <1>3, <1>4, d \in DOMAIN carts' DEF Ordered
  <2>1. carts[d].items[u] + SumFunction(Ordered(d, u)) = carts[d].wanted[u]
    BY <1>9, <2>0 DEF Kept
  <2>2. CASE d # c \/ u # v
    BY ONLY <1>3, <1>4, <2>0, <2>1, <2>2, u \in Variants
  <2>3. CASE d = c /\ u = v
    <3>1. carts[c].items[v] \in Nat /\ carts[c].wanted[v] \in Int
      BY <1>1, CartsTyped
    <3>2. SumFunction(Ordered(c, v)) \in Nat
      BY <1>1, OrderedType
    <3>3. PICK a \in Int, w \in Int, t \in Int :
            a = carts[c].items[v] /\ w = carts[c].wanted[v] /\ t = SumFunction(Ordered(c, v))
      BY ONLY <3>1, <3>2
    <3>4. n - a = m - w /\ a + t = w
      BY ONLY <1>9, <2>1, <2>3, <3>3
    <3>5. n + t = m
      BY ONLY <3>4, n \in Nat, m \in Int, a \in Int, w \in Int, t \in Int
    <3>6. QED
      BY ONLY <1>3, <1>4, <2>0, <2>3, <3>3, <3>5
  <2>4. QED
    BY ONLY <2>2, <2>3
<1>10. QED
  BY <1>7, <1>8, <1>9

LEMMA AddSafe ==
    ASSUME CartInv, NEW p, CartPlanOK(p), AddItemToCart(p)
    PROVE  CartSafe /\ OneShopper' = OneShopper /\ (Kept /\ CartFresh(p) => Kept')
<1>1. p.op = "add" /\ p.cart \in DOMAIN carts /\ p.variant \in Variants /\ p.qty \in Nat /\ p.had \in Nat
  BY DEF CartPlanOK, AddItemToCart
<1>2. carts \in Seq(Carts) /\ CartTypeOK
  BY DEF CartInv, CartTypeOK
<1>3. PICK c \in DOMAIN carts, v \in Variants, b \in Nat, h \in Nat :
        c = p.cart /\ v = p.variant /\ b = p.qty /\ h = p.had
  BY ONLY <1>1
<1>4. carts[c].items[v] \in Nat /\ carts[c].rows[v] \in Nat /\ carts[c].wanted[v] \in Int
  BY <1>2, CartsTyped
<1>5. CartFresh(p) => h = carts[c].items[v]
  BY ONLY <1>1, <1>3 DEF CartFresh
<1>6. UNCHANGED <<previews, orders, customers>>
  BY DEF AddItemToCart
<1>7. CASE p.had > 0
  <2>1. carts' = [Want(p.cart, p.variant, p.qty) EXCEPT ![p.cart].items[p.variant] = p.had + p.qty]
    BY <1>7 DEF AddItemToCart
  <2>2. PICK w : w = [carts EXCEPT ![c].wanted[v] = @ + b]
    OBVIOUS
  <2>3. carts' = [w EXCEPT ![c].items[v] = h + b]
    BY ONLY <2>1, <2>2, <1>3 DEF Want
  <2>4. RowWritten(carts, carts', c, v, h + b, carts[c].rows[v], carts[c].wanted[v] + b)
    BY ONLY <1>2, <2>2, <2>3, RowShape, c \in DOMAIN carts, v \in Variants
  <2>5. h + b \in Nat /\ carts[c].wanted[v] + b \in Int
    BY ONLY <1>4, h \in Nat, b \in Nat
  <2>6. /\ CartSafe /\ OneShopper' = OneShopper
        /\ Kept /\ (h + b) - carts[c].items[v] = (carts[c].wanted[v] + b) - carts[c].wanted[v] => Kept'
    BY <1>4, <1>6, <2>4, <2>5, RowWriteSafe
  <2>7. h = carts[c].items[v] =>
          (h + b) - carts[c].items[v] = (carts[c].wanted[v] + b) - carts[c].wanted[v]
    BY ONLY <1>4, h \in Nat, b \in Nat
  <2>8. QED
    BY ONLY <1>5, <2>6, <2>7
<1>8. CASE ~(p.had > 0)
  <2>1. /\ carts[p.cart].items[p.variant] = 0
        /\ carts' = [Want(p.cart, p.variant, p.qty) EXCEPT
                       ![p.cart].items[p.variant] = p.qty, ![p.cart].rows[p.variant] = @ + 1]
    BY <1>8 DEF AddItemToCart
  <2>2. PICK w : w = [carts EXCEPT ![c].wanted[v] = @ + b]
    OBVIOUS
  <2>3. carts' = [w EXCEPT ![c].items[v] = b, ![c].rows[v] = @ + 1]
    BY ONLY <2>1, <2>2, <1>3 DEF Want
  <2>4. RowWritten(carts, carts', c, v, b, carts[c].rows[v] + 1, carts[c].wanted[v] + b)
    BY ONLY <1>2, <2>2, <2>3, NewRowShape, c \in DOMAIN carts, v \in Variants
  <2>5. carts[c].rows[v] + 1 \in Nat /\ carts[c].wanted[v] + b \in Int
    BY ONLY <1>4, b \in Nat
  <2>6. /\ CartSafe /\ OneShopper' = OneShopper
        /\ Kept /\ b - carts[c].items[v] = (carts[c].wanted[v] + b) - carts[c].wanted[v] => Kept'
    BY <1>6, <2>4, <2>5, RowWriteSafe
  <2>7. b - carts[c].items[v] = (carts[c].wanted[v] + b) - carts[c].wanted[v]
    BY ONLY <1>3, <1>4, <2>1, b \in Nat
  <2>8. QED
    BY ONLY <2>6, <2>7
<1>9. QED
  BY <1>7, <1>8

LEMMA SetRowSafe ==
    ASSUME CartInv, NEW p, p.cart \in DOMAIN carts, p.variant \in Variants, NEW n \in Nat, SetRow(p, n)
    PROVE  CartSafe /\ OneShopper' = OneShopper /\ (Kept => Kept')
<1>1. carts \in Seq(Carts) /\ CartTypeOK
  BY DEF CartInv, CartTypeOK
<1>2. PICK c \in DOMAIN carts, v \in Variants : c = p.cart /\ v = p.variant
  OBVIOUS
<1>3. carts[c].items[v] \in Nat /\ carts[c].rows[v] \in Nat /\ carts[c].wanted[v] \in Int
  BY <1>1, CartsTyped
<1>4. UNCHANGED <<previews, orders, customers>>
  BY DEF SetRow
<1>5. PICK ch \in Int : ch = n - carts[c].items[v]
  BY ONLY <1>3, n \in Nat
<1>6. carts' = [Want(p.cart, p.variant, n - carts[p.cart].items[p.variant]) EXCEPT
                  ![p.cart].items[p.variant] = n]
  BY DEF SetRow
<1>7. PICK w : w = [carts EXCEPT ![c].wanted[v] = @ + ch]
  OBVIOUS
<1>8. carts' = [w EXCEPT ![c].items[v] = n]
  BY ONLY <1>2, <1>5, <1>6, <1>7 DEF Want
<1>9. RowWritten(carts, carts', c, v, n, carts[c].rows[v], carts[c].wanted[v] + ch)
  BY ONLY <1>1, <1>7, <1>8, RowShape, c \in DOMAIN carts, v \in Variants
<1>10. carts[c].wanted[v] + ch \in Int
  BY ONLY <1>3, ch \in Int
<1>11. /\ CartSafe /\ OneShopper' = OneShopper
       /\ Kept /\ n - carts[c].items[v] = (carts[c].wanted[v] + ch) - carts[c].wanted[v] => Kept'
  BY <1>3, <1>4, <1>9, <1>10, RowWriteSafe
<1>12. n - carts[c].items[v] = (carts[c].wanted[v] + ch) - carts[c].wanted[v]
  BY ONLY <1>3, <1>5, ch \in Int, n \in Nat
<1>13. QED
  BY ONLY <1>11, <1>12

LEMMA EnrolSafe ==
    ASSUME CartTypeOK, NEW n, customers' = Enrolled(n)
    PROVE  /\ customers' \in Seq({"WALK_IN", "RETAIL"})
           /\ OneShopper /\ (n = 0 => customers = <<>> \/ WalkedIn) => OneShopper'
<1>1. customers \in Seq({"WALK_IN", "RETAIL"})
  BY DEF CartTypeOK
<1>2. CASE n # 0
  <2>1. customers' = customers
    BY <1>2 DEF Enrolled
  <2>2. QED
    BY ONLY <1>1, <1>2, <2>1 DEF OneShopper, WalkedIn
<1>3. CASE n = 0
  <2>1. PICK q : q = customers'
    OBVIOUS
  <2>2. q = Append(customers, "RETAIL")
    BY <1>3, <2>1 DEF Enrolled
  <2>3. q \in Seq({"WALK_IN", "RETAIL"}) /\ Len(q) = Len(customers) + 1
        /\ DOMAIN customers \subseteq DOMAIN q /\ \A i \in DOMAIN customers : q[i] = customers[i]
    BY ONLY <1>1, <2>2
  <2>4. WalkedIn => WalkedIn'
    BY ONLY <2>1, <2>3 DEF WalkedIn
  <2>5. customers = <<>> => Len(q) <= 1
    BY ONLY <2>3
  <2>6. WalkedIn' \/ Len(q) <= 1 => OneShopper'
    BY ONLY <2>1 DEF OneShopper
  <2>7. customers = <<>> \/ WalkedIn => OneShopper'
    BY ONLY <2>4, <2>5, <2>6
  <2>8. QED
    BY <1>3, <2>1, <2>3, <2>7
<1>4. QED
  BY <1>2, <1>3

\* An order with its own cart and key is added.
LEMMA OrderAdded ==
    ASSUME CartInv, NEW c \in DOMAIN carts, NEW x \in Orders, x.cart = c,
           \A o \in DOMAIN orders : orders[o].cart # c,
           ~KeyUsed(x.key), orders' = Append(orders, x), DOMAIN carts' = DOMAIN carts
    PROVE  orders' \in Seq(Orders) /\ OrdersHaveCarts' /\ OrderedOnce'
<1>1. orders \in Seq(Orders)
  BY DEF CartInv, CartTypeOK
<1> DEFINE S == DOMAIN orders
           y == Len(orders) + 1
<1>2. PICK q : q = orders' /\ q = Append(orders, x)
  OBVIOUS
<1>3. q \in Seq(Orders) /\ DOMAIN q = S \cup {y} /\ (\A o \in S : q[o] = orders[o]) /\ q[y] = x
  <2>1. S = 1..Len(orders) /\ Len(orders) \in Nat
    BY ONLY <1>1
  <2>2. q \in Seq(Orders) /\ DOMAIN q = 1..(Len(orders) + 1)
    BY ONLY <1>1, <1>2, x \in Orders
  <2>3. (\A o \in DOMAIN orders : q[o] = orders[o]) /\ q[Len(orders) + 1] = x
    BY ONLY <1>1, <1>2, <2>1
  <2>4. QED
    BY ONLY <2>1, <2>2, <2>3
<1> HIDE DEF S, y
<1>4. OrdersHaveCarts'
  BY <1>2, <1>3 DEF CartInv, OrdersHaveCarts, S
<1>5. \A o \in S : q[o].cart # x.cart
  BY ONLY <1>3, x.cart = c, \A o \in DOMAIN orders : orders[o].cart # c DEF S
<1>6. \A o \in S : q[o].key # x.key \/ x.key = "none"
  BY ONLY <1>3, ~KeyUsed(x.key) DEF KeyUsed, S
<1>7. \A o, p \in S : q[o].cart = q[p].cart \/ (q[o].key # "none" /\ q[o].key = q[p].key) => o = p
  BY <1>3 DEF CartInv, OrderedOnce, KeyUsed, S
<1>8. \A o, p \in S \cup {y} :
        q[o].cart = q[p].cart \/ (q[o].key # "none" /\ q[o].key = q[p].key) => o = p
  BY ONLY <1>3, <1>5, <1>6, <1>7
<1>9. OrderedOnce'
  BY ONLY <1>2, <1>3, <1>8 DEF OrderedOnce, KeyUsed
<1>10. QED
  BY ONLY <1>2, <1>3, <1>4, <1>9

LEMMA PlaceSafe ==
    ASSUME CartInv, NEW p, CartPlanOK(p), PlaceOrder(p)
    PROVE  /\ CartSafe /\ (Kept /\ CartFresh(p) => Kept')
           /\ OneShopper /\ CartFresh(p) => OneShopper'
<1>1. /\ p.op = "place" /\ p.cart \in DOMAIN carts
      /\ p.items \in Contents /\ p.key \in Keys \cup {"none"} /\ p.customer \in Nat
  BY DEF CartPlanOK, PlaceOrder
<1>2. CartTypeOK /\ carts \in Seq(Carts) /\ orders \in Seq(Orders)
  BY DEF CartInv, CartTypeOK
<1>3. customers' = Enrolled(p.customer) /\ previews' = previews
  BY DEF PlaceOrder
<1>4. /\ customers' \in Seq({"WALK_IN", "RETAIL"})
      /\ OneShopper /\ (p.customer = 0 => customers = <<>> \/ WalkedIn) => OneShopper'
  BY <1>2, <1>3, EnrolSafe
<1>5. CartFresh(p) => p.items = carts[p.cart].items /\ (p.customer = 0 => customers = <<>> \/ WalkedIn)
  BY <1>1 DEF CartFresh
<1>6. CASE Unique(p)
  <2>1. PICK c \in DOMAIN carts, i \in Contents, k \in Keys \cup {"none"} :
          c = p.cart /\ i = p.items /\ k = p.key
    BY <1>1
  <2>2. PICK x : x = [cart |-> c, key |-> k, items |-> i]
    OBVIOUS
  <2>3. c \in Nat
    BY <1>2, CartsTyped
  <2>4. x \in Orders /\ x.cart = c /\ x.key = k /\ x.items = i
    BY ONLY <2>2, <2>3, i \in Contents, k \in Keys \cup {"none"} DEF Orders
  <2>5. orders' = Append(orders, x) /\ carts' = [carts EXCEPT ![c].items = Nothing]
    BY <1>6, <2>1, <2>2 DEF PlaceOrder
  <2>6. (\A o \in DOMAIN orders : orders[o].cart # c) /\ ~KeyUsed(x.key)
    BY <1>6, <2>1, <2>4 DEF Unique
  <2>7. carts[c] \in Carts
    BY <1>2, CartsTyped
  <2>8. PICK z : z = [items |-> Nothing, rows |-> carts[c].rows, wanted |-> carts[c].wanted]
    OBVIOUS
  <2>9. [carts[c] EXCEPT !.items = Nothing] = z
    BY ONLY <2>7, <2>8 DEF Carts
  <2>10. carts' = [carts EXCEPT ![c] = z]
    BY ONLY <2>5, <2>9
  <2>11. Nothing \in Contents
    BY DEF Nothing, Contents
  <2>12. z \in Carts /\ z.wanted = carts[c].wanted /\ z.items = Nothing
    BY ONLY <2>7, <2>8, <2>11 DEF Carts
  <2>13. PICK r : r = carts' /\ r = [carts EXCEPT ![c] = z]
    BY <2>10
  <2>14. r \in Seq(Carts) /\ DOMAIN r = DOMAIN carts /\ r[c] = z /\ \A d \in DOMAIN carts : d # c => r[d] = carts[d]
    BY ONLY <1>2, <2>12, <2>13, c \in DOMAIN carts
  <2>15. orders' \in Seq(Orders) /\ OrdersHaveCarts' /\ OrderedOnce'
    BY <2>4, <2>5, <2>6, <2>13, <2>14, OrderAdded
  <2>16. CartRecordsOK'
    BY ONLY <1>2, <1>3, <1>4, <2>13, <2>14, <2>15 DEF CartTypeOK, CartRecordsOK, Contents
  <2>17. CartSafe
    BY ONLY <2>13, <2>14, <2>15, <2>16 DEF CartSafe
  <2>18. ASSUME Kept, CartFresh(p) PROVE Kept'
    <3> SUFFICES ASSUME NEW d \in DOMAIN carts', NEW u \in Variants
                 PROVE  (carts[d].items[u] + SumFunction(Ordered(d, u)) = carts[d].wanted[u])'
      BY DEF Kept
    <3>1. d \in DOMAIN carts /\ carts' = r
      BY ONLY <2>13, <2>14, d \in DOMAIN carts'
    <3>2. carts[d].items[u] + SumFunction(Ordered(d, u)) = carts[d].wanted[u]
      BY <2>18, <3>1 DEF Kept
    <3>3. SumFunction(Ordered(d, u))' =
            SumFunction(Ordered(d, u)) + IF x.cart = d THEN x.items[u] ELSE 0
      BY <1>2, <2>4, <2>5, OrderedAppend
    <3>4. SumFunction(Ordered(d, u)) \in Nat
      BY <1>2, OrderedType
    <3>5. CASE d # c
      BY ONLY <2>4, <2>14, <3>1, <3>2, <3>3, <3>4, <3>5
    <3>6. CASE d = c
      <4>1. i = carts[c].items
        BY <1>5, <2>1, <2>18
      <4>2. r[c].items[u] = 0 /\ r[c].wanted[u] = carts[c].wanted[u]
        BY ONLY <2>12, <2>14, u \in Variants DEF Nothing
      <4>3. PICK a \in Nat, t \in Nat : a = carts[c].items[u] /\ t = SumFunction(Ordered(c, u))
        <5>1. carts[c].items[u] \in Nat
          BY <1>2, CartsTyped
        <5>2. QED
          BY ONLY <3>4, <3>6, <5>1
      <4>4. SumFunction(Ordered(c, u))' = t + a
        BY ONLY <2>4, <3>3, <3>6, <4>1, <4>3
      <4>5. a + t = carts[c].wanted[u]
        BY ONLY <3>2, <3>6, <4>3
      <4>6. 0 + (t + a) = a + t
        BY ONLY a \in Nat, t \in Nat
      <4>7. QED
        BY ONLY <3>1, <3>6, <4>2, <4>4, <4>5, <4>6
    <3>7. QED
      BY <3>5, <3>6
  <2>19. QED
    BY <1>4, <1>5, <2>17, <2>18
<1>7. CASE ~Unique(p)
  <2>1. carts' = carts /\ orders' = orders
    BY <1>7 DEF PlaceOrder
  <2>2. CartRecordsOK'
    BY ONLY <1>2, <1>3, <1>4, <2>1 DEF CartTypeOK, CartRecordsOK, Contents
  <2>3. CartSafe
    BY ONLY <2>1, <2>2, CartInv DEF CartInv, CartSafe, OrdersHaveCarts, OrderedOnce, KeyUsed
  <2>4. Kept => Kept'
    BY ONLY <2>1 DEF Kept, Ordered
  <2>5. QED
    BY <1>4, <1>5, <2>3, <2>4
<1>8. QED
  BY <1>6, <1>7

LEMMA NewCartSafe ==
    ASSUME CartInv, NEW n \in Contents, NewCart(n)
    PROVE  CartSafe /\ OneShopper' = OneShopper /\ (Kept => Kept')
<1>1. CartTypeOK /\ carts \in Seq(Carts)
  BY DEF CartInv, CartTypeOK
<1>2. PICK z : z = [items |-> n, wanted |-> n,
                    rows |-> [v \in Variants |-> IF n[v] > 0 THEN 1 ELSE 0]]
  OBVIOUS
<1>3. z \in Carts /\ z.items = n /\ z.wanted = n
  <2>1. [v \in Variants |-> IF n[v] > 0 THEN 1 ELSE 0] \in Contents
    BY DEF Contents
  <2>2. n \in [Variants -> Int]
    BY DEF Contents
  <2>3. QED
    BY ONLY <1>2, <2>1, <2>2, n \in Contents DEF Carts
<1>4. PICK r : r = carts' /\ r = Append(carts, z)
  BY <1>2 DEF NewCart
<1>5. previews' = previews /\ orders' = orders /\ customers' = customers
  BY DEF NewCart
<1>6. PICK y : y = Len(carts) + 1
  OBVIOUS
<1>7. /\ r \in Seq(Carts) /\ DOMAIN r = DOMAIN carts \cup {y} /\ y \notin DOMAIN carts
      /\ r[y] = z /\ \A d \in DOMAIN carts : r[d] = carts[d]
  <2>1. DOMAIN carts = 1..Len(carts) /\ Len(carts) \in Nat
    BY ONLY <1>1
  <2>2. r \in Seq(Carts) /\ DOMAIN r = 1..(Len(carts) + 1)
    BY ONLY <1>1, <1>3, <1>4
  <2>3. (\A d \in DOMAIN carts : r[d] = carts[d]) /\ r[Len(carts) + 1] = z
    BY ONLY <1>1, <1>4, <2>1
  <2>4. QED
    BY ONLY <1>6, <2>1, <2>2, <2>3
<1>8. CartRecordsOK'
  BY ONLY <1>1, <1>4, <1>5, <1>7 DEF CartTypeOK, CartRecordsOK, Contents
<1>9. OrdersHaveCarts' /\ OrderedOnce'
  BY ONLY <1>4, <1>5, <1>7, CartInv DEF CartInv, OrdersHaveCarts, OrderedOnce, KeyUsed
<1>10. CartSafe
  BY ONLY <1>4, <1>7, <1>8, <1>9 DEF CartSafe
<1>11. OneShopper' = OneShopper
  BY ONLY <1>5 DEF OneShopper, WalkedIn
<1>12. ASSUME Kept PROVE Kept'
  <2> SUFFICES ASSUME NEW d \in DOMAIN carts', NEW u \in Variants
               PROVE  (carts[d].items[u] + SumFunction(Ordered(d, u)) = carts[d].wanted[u])'
    BY DEF Kept
  <2>1. SumFunction(Ordered(d, u))' = SumFunction(Ordered(d, u))
    BY ONLY <1>5 DEF Ordered
  <2>2. CASE d \in DOMAIN carts
    <3>1. carts[d].items[u] + SumFunction(Ordered(d, u)) = carts[d].wanted[u]
      BY <1>12, <2>2 DEF Kept
    <3>2. QED
      BY ONLY <1>4, <1>7, <2>1, <2>2, <3>1
  <2>3. CASE d = y
    <3>1. \A o \in DOMAIN orders : orders[o].cart # d
      BY ONLY <1>7, <2>3, CartInv DEF CartInv, OrdersHaveCarts
    <3>2. SumFunction(Ordered(d, u)) = 0
      BY <1>1, <3>1, OrderedNothing
    <3>3. n[u] \in Nat
      BY DEF Contents
    <3>4. n[u] + 0 = n[u]
      BY ONLY <3>3
    <3>5. carts'[d].items[u] = n[u] /\ carts'[d].wanted[u] = n[u]
      BY ONLY <1>3, <1>4, <1>7, <2>3
    <3>6. QED
      BY ONLY <2>1, <3>2, <3>4, <3>5
  <2>4. QED
    BY ONLY <1>4, <1>7, <2>2, <2>3, d \in DOMAIN carts'
<1>13. QED
  BY <1>10, <1>11, <1>12

LEMMA CartWriteSafe ==
    ASSUME CartInv, NEW p, CartPlanOK(p), CartWrite(p)
    PROVE  CartSafe /\ (Kept /\ OneShopper /\ CartFresh(p) => Kept' /\ OneShopper')
<1>1. CASE AddItemToCart(p)
  BY <1>1, AddSafe
<1>2. CASE UpdateCartItemQuantity(p)
  <2>1. p.cart \in DOMAIN carts /\ p.variant \in Variants /\ p.qty \in Nat /\ SetRow(p, p.qty)
    BY <1>2 DEF CartPlanOK, UpdateCartItemQuantity
  <2>2. QED
    BY <2>1, SetRowSafe
<1>3. CASE RemoveItemFromCart(p)
  <2>1. p.cart \in DOMAIN carts /\ p.variant \in Variants /\ SetRow(p, 0)
    BY <1>3 DEF CartPlanOK, RemoveItemFromCart
  <2>2. QED
    BY <2>1, SetRowSafe
<1>4. CASE PlaceOrder(p)
  BY <1>4, PlaceSafe
<1>5. QED
  BY <1>1, <1>2, <1>3, <1>4 DEF CartWrite

LEMMA PreviewSafe ==
    ASSUME CartInv, PreviewCheckout
    PROVE  CartSafe /\ (Kept => Kept') /\ OneShopper' = OneShopper
<1>1. carts' = carts /\ orders' = orders /\ customers' = customers
  BY DEF PreviewCheckout
<1>2. PICK c \in DOMAIN carts : previews' = previews \cup {[cart |-> c, items |-> carts[c].items]}
  BY DEF PreviewCheckout
<1>3. CartTypeOK /\ carts[c].items \in Contents
  BY CartsTyped DEF CartInv, Carts
<1>4. CartRecordsOK'
  BY ONLY <1>1, <1>2, <1>3 DEF CartTypeOK, CartRecordsOK, Contents
<1>5. CartSafe
  BY ONLY <1>1, <1>4, CartInv DEF CartInv, CartSafe, OrdersHaveCarts, OrderedOnce, KeyUsed
<1>6. QED
  BY ONLY <1>1, <1>5 DEF Kept, Ordered, OneShopper, WalkedIn

LEMMA CreateSafe ==
    ASSUME CartInv, CreateCart \/ Reorder
    PROVE  CartSafe /\ (Kept => Kept') /\ OneShopper' = OneShopper
<1>1. CASE CreateCart
  <2>1. Nothing \in Contents
    BY DEF Nothing, Contents
  <2>2. QED
    BY <1>1, <2>1, NewCartSafe DEF CreateCart
<1>2. CASE Reorder
  <2>1. PICK o \in DOMAIN orders, skipped \in SUBSET Variants :
          NewCart([v \in Variants |-> IF v \in skipped THEN 0 ELSE orders[o].items[v]])
    BY <1>2 DEF Reorder
  <2>2. orders[o] \in Orders
    BY CartsTyped DEF CartInv
  <2>3. [v \in Variants |-> IF v \in skipped THEN 0 ELSE orders[o].items[v]] \in Contents
    BY <2>2 DEF Orders, Contents
  <2>4. QED
    BY <2>1, <2>3, NewCartSafe
<1>3. QED
  BY <1>1, <1>2

\* A safe step on the records and a plan that holds are the invariant again.
LEMMA CartInvAgain ==
    ASSUME CartInv, CartSafe, CartPlanOK(slowCart'), slowCart'.op \in SlowCart \cup {"none"},
           cartOvertaken' \in BOOLEAN, slowCart' # NoCartPlan => ~cartOvertaken'
    PROVE  CartInv'
<1>1. CartPlanOK(slowCart)'
  BY CartPlanKept DEF CartSafe, CartPlanOK, Contents
<1>2. QED
  BY <1>1 DEF CartInv, CartTypeOK, CartSafe, CartRecordsOK

LEMMA NoCartPlanOK == NoCartPlan.op = "none" /\ CartPlanOK(NoCartPlan)
BY DEF NoCartPlan, CartPlanOK

LEMMA CartAloneStep ==
    ASSUME CartInv, CartAlone
    PROVE  CartInv' /\ (CartOrderly => CartOrderly')
<1>1. UNCHANGED <<slowCart, cartOvertaken>>
  BY DEF CartAlone
<1>2. CartTypeOK
  BY DEF CartInv
<1>3. CartSafe /\ (Kept /\ OneShopper => Kept' /\ OneShopper')
  <2>1. CASE \E p \in CartPlans : CartWrite(p)
    <3>1. PICK p \in CartPlans : CartWrite(p)
      BY <2>1
    <3>2. CartPlanOK(p) /\ CartFresh(p)
      BY <1>2, CartPlanRead
    <3>3. QED
      BY <3>1, <3>2, CartWriteSafe
  <2>2. CASE CreateCart \/ Reorder
    BY <2>2, CreateSafe
  <2>3. CASE PreviewCheckout
    BY <2>3, PreviewSafe
  <2>4. QED
    BY <2>1, <2>2, <2>3 DEF CartAlone
<1>4. CartInv'
  <2>1. CartPlanOK(slowCart') /\ slowCart'.op \in SlowCart \cup {"none"} /\ cartOvertaken' \in BOOLEAN
          /\ (slowCart' # NoCartPlan => ~cartOvertaken')
    BY <1>1 DEF CartInv, CartTypeOK
  <2>2. QED
    BY <1>3, <2>1, CartInvAgain
<1>5. CartOrderly => CartOrderly'
  BY <1>1, <1>3 DEF CartOrderly
<1>6. QED
  BY <1>4, <1>5

LEMMA CartPauseStep ==
    ASSUME CartInv, CartPause
    PROVE  CartInv' /\ (CartOrderly => CartOrderly')
<1>1. /\ carts' = carts /\ previews' = previews /\ orders' = orders /\ cartOvertaken' = cartOvertaken
  BY DEF CartPause
<1>2. CartTypeOK
  BY DEF CartInv
<1>3. PICK p \in CartPlans :
        /\ p.op \in SlowCart
        /\ \/ slowCart' = p /\ UNCHANGED customers
           \/ /\ p.op = "place" /\ p.customer = 0
              /\ customers' = Enrolled(0)
              /\ slowCart' = [p EXCEPT !.customer = Len(customers')]
  BY DEF CartPause
<1>4. CartPlanOK(p) /\ CartFresh(p)
  BY <1>2, CartPlanRead
<1>5. Kept' = Kept
  BY ONLY <1>1 DEF Kept, Ordered
<1>6. CASE slowCart' = p /\ UNCHANGED customers
  <2>1. CartSafe /\ OneShopper' = OneShopper
    BY ONLY <1>1, <1>6, CartInv
       DEF CartInv, CartTypeOK, CartSafe, CartRecordsOK, OrdersHaveCarts, OrderedOnce, KeyUsed,
           OneShopper, WalkedIn, Contents
  <2>2. CartInv'
    <3>1. CartPlanOK(slowCart') /\ slowCart'.op \in SlowCart \cup {"none"} /\ cartOvertaken' \in BOOLEAN
          /\ (slowCart' # NoCartPlan => ~cartOvertaken')
      BY <1>1, <1>2, <1>3, <1>4, <1>6 DEF CartTypeOK, CartPause
    <3>2. QED
      BY <2>1, <3>1, CartInvAgain
  <2>3. QED
    BY <1>1, <1>5, <2>1, <2>2 DEF CartOrderly
<1>7. CASE /\ p.op = "place" /\ p.customer = 0
           /\ customers' = Enrolled(0)
           /\ slowCart' = [p EXCEPT !.customer = Len(customers')]
  <2>1. customers' \in Seq({"WALK_IN", "RETAIL"}) /\ (OneShopper => OneShopper')
    BY <1>2, <1>4, <1>7, EnrolSafe DEF CartFresh
  <2>2. CartSafe
    BY ONLY <1>1, <2>1, CartInv
       DEF CartInv, CartTypeOK, CartSafe, CartRecordsOK, OrdersHaveCarts, OrderedOnce, KeyUsed, Contents
  <2>3. PICK n \in Nat : n = Len(customers')
    BY ONLY <2>1
  <2>4. PICK s : s = slowCart' /\ s = [p EXCEPT !.customer = n]
    BY <1>7, <2>3
  <2>5. p \in PlacePlans
    BY <1>2, <1>7, AddPlanRead, RowPlanRead DEF CartPlans
  <2>6. s.op = p.op /\ s.cart = p.cart /\ s.key = p.key /\ s.items = p.items /\ s.customer = n
    BY <2>4, <2>5 DEF PlacePlans
  <2>7. CartPlanOK(s)
    BY ONLY <1>4, <1>7, <2>6, n \in Nat DEF CartPlanOK
  <2>8. CartInv'
    <3>1. CartPlanOK(slowCart') /\ slowCart'.op \in SlowCart \cup {"none"} /\ cartOvertaken' \in BOOLEAN
          /\ (slowCart' # NoCartPlan => ~cartOvertaken')
      BY <1>1, <1>2, <1>3, <2>4, <2>6, <2>7 DEF CartTypeOK, CartPause
    <3>2. QED
      BY <2>2, <3>1, CartInvAgain
  <2>9. QED
    BY <1>1, <1>5, <2>1, <2>8 DEF CartOrderly
<1>8. QED
  BY <1>3, <1>6, <1>7

LEMMA CartResumeStep ==
    ASSUME CartInv, CartResume
    PROVE  CartInv' /\ (CartOrderly => CartOrderly')
<1>1. slowCart' = NoCartPlan
  BY DEF CartResume
<1>2. CartTypeOK /\ CartPlanOK(slowCart)
  BY DEF CartInv
<1>3. ~cartOvertaken
  BY DEF CartInv, CartResume
<1>4. CASE CartWrite(slowCart) /\ cartOvertaken' = (slowCart \notin CartPlans)
  <2>1. CartSafe /\ (Kept /\ OneShopper /\ CartFresh(slowCart) => Kept' /\ OneShopper')
    BY <1>2, <1>4, CartWriteSafe
  <2>2. CartInv'
    BY <1>1, <1>4, <2>1, CartInvAgain, NoCartPlanOK
  <2>3. ~cartOvertaken' => CartFresh(slowCart)
    BY <1>2, <1>4, CartPlanRead
  <2>4. QED
    BY <1>3, <2>1, <2>2, <2>3 DEF CartOrderly
<1>5. CASE UNCHANGED <<cartRecords, cartOvertaken>>
  <2>1. carts' = carts /\ previews' = previews /\ orders' = orders /\ customers' = customers
    BY <1>5 DEF cartRecords
  <2>2. CartSafe /\ Kept' = Kept /\ OneShopper' = OneShopper
    BY ONLY <2>1, CartInv
       DEF CartInv, CartTypeOK, CartSafe, CartRecordsOK, OrdersHaveCarts, OrderedOnce, KeyUsed,
           OneShopper, WalkedIn, Contents, Kept, Ordered
  <2>3. CartInv'
    BY <1>1, <1>2, <1>5, <2>2, CartInvAgain, NoCartPlanOK DEF CartTypeOK
  <2>4. QED
    BY <1>5, <2>2, <2>3 DEF CartOrderly
<1>6. QED
  BY <1>4, <1>5 DEF CartResume

LEMMA CartInvInit == CartInit => CartInv /\ CartOrderly
<1> SUFFICES ASSUME CartInit PROVE CartInv /\ CartOrderly
  OBVIOUS
<1>1. carts = <<>> /\ previews = {} /\ orders = <<>> /\ slowCart = NoCartPlan /\ cartOvertaken = FALSE
  BY DEF CartInit
<1>2. customers = <<>> \/ customers = <<"WALK_IN">>
  BY DEF CartInit
<1>3. customers \in Seq({"WALK_IN", "RETAIL"}) /\ Len(customers) <= 1
  <2>1. CASE customers = <<>>
    BY ONLY <2>1
  <2>2. CASE customers = <<"WALK_IN">>
    <3>1. customers \in Seq({"WALK_IN"}) /\ Len(customers) = 1
      BY ONLY <2>2
    <3>2. \A i \in DOMAIN customers : customers[i] = "WALK_IN"
      BY ONLY <2>2
    <3>3. customers \in Seq({"WALK_IN", "RETAIL"})
      BY ONLY <3>1, <3>2
    <3>4. QED
      BY ONLY <3>1, <3>3
  <2>3. QED
    BY ONLY <1>2, <2>1, <2>2
<1>4. DOMAIN carts = {} /\ DOMAIN orders = {} /\ carts \in Seq(Carts) /\ orders \in Seq(Orders)
  BY ONLY <1>1
<1>5. CartTypeOK
  BY <1>1, <1>3, <1>4, NoCartPlanOK DEF CartTypeOK
<1>6. OrdersHaveCarts /\ OrderedOnce /\ Kept
  BY ONLY <1>4 DEF OrdersHaveCarts, OrderedOnce, Kept
<1>7. OneShopper
  BY ONLY <1>3 DEF OneShopper
<1>8. CartPlanOK(slowCart)
  BY <1>1, NoCartPlanOK
<1>9. QED
  BY <1>1, <1>5, <1>6, <1>7, <1>8 DEF CartInv, CartOrderly

LEMMA CartInvStep == CartInv /\ [CartNext]_cartVars => CartInv' /\ (CartOrderly => CartOrderly')
<1> SUFFICES ASSUME CartInv, [CartNext]_cartVars
             PROVE  CartInv' /\ (CartOrderly => CartOrderly')
  OBVIOUS
<1>1. CASE CartNext
  BY <1>1, CartAloneStep, CartPauseStep, CartResumeStep DEF CartNext
<1>2. CASE UNCHANGED cartVars
  <2>1. /\ carts' = carts /\ previews' = previews /\ orders' = orders /\ customers' = customers
        /\ slowCart' = slowCart /\ cartOvertaken' = cartOvertaken
    BY <1>2 DEF cartVars, cartRecords
  <2>2. QED
    BY ONLY <2>1, CartInv
       DEF CartInv, CartTypeOK, CartPlanOK, OrdersHaveCarts, OrderedOnce, KeyUsed,
           CartOrderly, OneShopper, WalkedIn, Contents, Kept, Ordered
<1>3. QED
  BY <1>1, <1>2

\* The records of the shop keep their types, every order is of a cart, a cart
\* becomes one order and an idempotency key stands for one, however calls
\* overlap (placeOrder).
THEOREM CartInvHolds == CartSpec => []CartInv
<1>1. CartInit => CartInv
  BY CartInvInit
<1>2. CartInv /\ [CartNext]_cartVars => CartInv'
  BY CartInvStep
<1>3. QED
  BY <1>1, <1>2, PTL DEF CartSpec

\* What the shopper has put into a cart and not taken out is in the cart or was
\* ordered from it, once, and the shopper is one customer, unless a call was
\* overtaken between its read and its write (addItemToCart, placeOrder).
THEOREM OrdersAreCarts == CartSpec => []OrdersFollowCarts
<1>1. CartInit => CartInv /\ CartOrderly
  BY CartInvInit
<1>2. CartInv /\ CartOrderly /\ [CartNext]_cartVars => CartInv' /\ CartOrderly'
  BY CartInvStep
<1>3. CartInv /\ CartOrderly => OrdersFollowCarts
  BY DEF CartInv, CartOrderly, OrderedOnce, Kept, OneShopper, WalkedIn, OrdersFollowCarts
<1>4. QED
  BY <1>1, <1>2, <1>3, PTL DEF CartSpec
=============================================================================
