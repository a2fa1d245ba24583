----------------------------- MODULE OnlineOrder -----------------------------
(***************************************************************************)
(* One storefront order, from its placement to its delivery: the payment   *)
(* attempts (storefront-payment.service.ts), the provider's callbacks      *)
(* (handleMpesaCallback in payments.service.ts), the status override of    *)
(* the back office (online-store.controller.ts) and the fulfilment steps   *)
(* (online-store-fulfilment.service.ts).                                   *)
(*                                                                         *)
(* A handler reads the order, decides, and writes it by id: the write does *)
(* not look at what it replaces.  What it decided is its plan: Plans are   *)
(* the calls the order, as it is now, would accept, and Write carries one  *)
(* out.  A call that runs alone is planned and written in one step; a slow *)
(* call is planned in one and written in a later one, others committed in  *)
(* between.  One slow call beside calls that run alone gives every overlap *)
(* of two calls, because reads commute.                                    *)
(***************************************************************************)
EXTENDS Integers, Sequences, SequencesExt

CONSTANTS
    Slow,          \* the operations that may be overtaken after their read
    Overrides,     \* the statuses the back office sets by hand
    Holds,         \* identifiers of the order's stock reservations
    MaxAttempts,   \* bound: payment attempts of the order
    MaxTasks       \* bound: picking, and packing, tasks open at once

VARIABLES
    status,      \* OnlineOrder.status
    payment,     \* OnlineOrder.paymentStatus
    fulfilment,  \* OnlineOrder.fulfilmentStatus
    attempts,    \* payment attempts, each with its M-Pesa transaction
    byHand,      \* payments posted by the back office
    cash,        \* payments posted on delivery
    hold,        \* status of each InventoryReservation of the order
    picking,     \* picking tasks not completed
    packing,     \* packing tasks not completed: waiting, and assigned
    dispatched,  \* the order has its OrderDispatch record
    sales,       \* Sale records made from the order
    slow         \* the plan of the overtaken call, if any

orderVars == <<status, payment, fulfilment>>
moneyVars == <<attempts, byHand, cash>>
taskVars == <<picking, packing>>
goodsVars == <<hold, dispatched, sales>>
vars == <<orderVars, moneyVars, taskVars, goodsVars, slow>>

Statuses == {"PENDING_PAYMENT", "PLACED", "CONFIRMED", "REJECTED", "CANCELLED",
             "EXPIRED", "DISPATCHED", "DELIVERED"}
PaymentStatuses == {"UNPAID", "PAID", "REVIEW_REQUIRED"}
FulfilmentStatuses ==
    {"UNFULFILLED", "RESERVATION_PENDING", "RESERVED", "RESERVATION_FAILED",
     "PICKING", "PICKED", "PACKING", "PACKED",
     "READY_FOR_DISPATCH", "DISPATCHED", "DELIVERED", "FAILED", "CANCELLED"}
Attempts ==
    [method: {"MPESA", "CASH_ON_DELIVERY"},
     status: {"PENDING", "COMPLETED", "FAILED"},
     transaction: {"NONE", "PENDING", "SUCCESS", "FAILED", "REVIEW_REQUIRED"},
     posted: Nat]

ASSUME OverridesAssumption == Overrides \subseteq Statuses
ASSUME BoundsAssumption == MaxAttempts \in Nat /\ MaxTasks \in Nat

-----------------------------------------------------------------------------
(***************************************************************************)
(* What a handler reads, and the plan it makes: the value it will write    *)
(* for a column, the reservations it found ACTIVE.                         *)
(***************************************************************************)
isCOD == \E i \in DOMAIN attempts : attempts[i].method = "CASH_ON_DELIVERY"
ActiveHolds == {h \in Holds : hold[h] = "ACTIVE"}
PendingAttempts == {i \in DOMAIN attempts : attempts[i].status = "PENDING"}
PendingCod == {i \in PendingAttempts : attempts[i].method = "CASH_ON_DELIVERY"}
Closed == status \in {"CANCELLED", "EXPIRED"}

FaultyAwaited(i) ==
    attempts[i].method = "MPESA" /\ attempts[i].transaction \in {"PENDING", "SUCCESS"}

\* The callback of attempt i has not been handled.  Two unique keys, of
\* MpesaCallbackEvent and of Payment.idempotencyKey, make the write look too.
Awaited(i) ==
    attempts[i].method = "MPESA" /\ attempts[i].transaction = "PENDING"

FaultyMayShip == TRUE
MayShip == isCOD \/ payment = "PAID"

Plan(op, i, value, found) ==
    [op |-> op, attempt |-> i, value |-> value, found |-> found]
NoPlan == Plan("none", 0, "", {})
Just(op) == Plan(op, 0, "", {})
Only(condition, plan) == IF condition THEN {plan} ELSE {}

PaymentPlans ==
    {Plan("callback", i, IF Closed THEN status ELSE "PLACED", {})
       : i \in {j \in DOMAIN attempts : Awaited(j)}}
    \* the 15 seconds between attempts may have passed, and forbid nothing here
    \cup Only(status = "PENDING_PAYMENT", Just("payByMpesa"))
    \cup Only(status = "PENDING_PAYMENT", Just("payAtDoor"))
    \cup Only(PendingCod # {}, Plan("acceptCod", Max(PendingCod), "", {}))
    \cup {Plan("setStatus", 0, payment, {})}
    \cup {Plan("setPaid", 0, status, {})}

StockPlans ==
    Only(/\ status \notin {"CONFIRMED", "CANCELLED", "EXPIRED", "REJECTED"}
         /\ payment = (IF isCOD THEN "UNPAID" ELSE "PAID"),
         Just("confirm"))
    \cup Only(status \notin {"CANCELLED", "REJECTED"},
              Plan("reject", 0, IF payment = "PAID" THEN "FAILED" ELSE "CANCELLED",
                   ActiveHolds))
    \* the status stays CONFIRMED, so reserveStock may be repeated
    \cup Only(status = "CONFIRMED", Just("reserve"))
    \cup {Plan("release", 0, "", ActiveHolds)}
    \cup Only(fulfilment \in {"RESERVED", "RESERVATION_FAILED", "UNFULFILLED"},
              Just("assignPicker"))

ShippingPlans ==
    Only(fulfilment = "PACKED", Just("ready"))
    \cup Only(fulfilment = "READY_FOR_DISPATCH" /\ MayShip,
              Plan("dispatch", 0, "", ActiveHolds))
    \* an order with any cash on delivery attempt is paid for at the door,
    \* whatever its paymentStatus says
    \cup Only(status = "DISPATCHED",
              Plan("deliver", 0, IF isCOD THEN "CASH" ELSE "PREPAID", {}))
    \cup Only(status = "DISPATCHED", Just("failDelivery"))

Plans == PaymentPlans \cup StockPlans \cup ShippingPlans

TypeOK ==
    /\ status \in Statuses
    /\ payment \in PaymentStatuses
    /\ fulfilment \in FulfilmentStatuses
    /\ attempts \in Seq(Attempts)
    /\ byHand \in Nat
    /\ cash \in Nat
    /\ hold \in [Holds -> {"NONE", "ACTIVE", "RELEASED", "FULFILLED"}]
    /\ picking \in 0..MaxTasks
    /\ packing \in [waiting: 0..MaxTasks, assigned: 0..MaxTasks]
    /\ dispatched \in BOOLEAN
    /\ sales \in Nat
    /\ slow.op \in Slow \cup {"none", "placeCod"}
    /\ slow.attempt \in 0..Len(attempts)
    /\ slow.found \subseteq Holds

Init ==
    /\ status = "PENDING_PAYMENT"
    /\ payment = "UNPAID"
    /\ fulfilment = "UNFULFILLED"
    /\ attempts = <<>>
    /\ byHand = 0
    /\ cash = 0
    /\ hold = [h \in Holds |-> "NONE"]
    /\ picking = 0
    /\ packing = [waiting |-> 0, assigned |-> 0]
    /\ dispatched = FALSE
    /\ sales = 0
    /\ slow = NoPlan

-----------------------------------------------------------------------------
(***************************************************************************)
(* Paying.                                                                 *)
(***************************************************************************)
NewAttempt(method, state, transaction) ==
    /\ Len(attempts) < MaxAttempts
    /\ attempts' = Append(attempts, [method |-> method, status |-> state,
                                     transaction |-> transaction, posted |-> 0])
    /\ UNCHANGED <<orderVars, byHand, cash, taskVars, goodsVars>>

\* initiatePaymentAttempt
PayByMpesa(p) == p.op = "payByMpesa" /\ NewAttempt("MPESA", "PENDING", "PENDING")
PayAtDoor(p) == p.op = "payAtDoor" /\ NewAttempt("CASH_ON_DELIVERY", "PENDING", "NONE")

\* The second statement of initiatePaymentAttempt, when cash on delivery
\* needs no confirmation.
PlaceCod(p) ==
    /\ p.op = "placeCod"
    /\ status' = "PLACED"
    /\ payment' = "UNPAID"
    /\ UNCHANGED <<fulfilment, moneyVars, taskVars, goodsVars>>

\* confirmCashOnDelivery: the order's own status is not looked at.
ConfirmCashOnDelivery(p) ==
    /\ p.op = "acceptCod"
    /\ attempts' = [attempts EXCEPT ![p.attempt].status = "COMPLETED"]
    /\ status' = "PLACED"
    /\ payment' = "UNPAID"
    /\ UNCHANGED <<fulfilment, byHand, cash, taskVars, goodsVars>>

Settle(i, state, transaction, amount) ==
    attempts' = [attempts EXCEPT ![i].status = state,
                                 ![i].transaction = transaction,
                                 ![i].posted = @ + amount]

FaultyReceived(p) == IF p.value = "PLACED" THEN "PAID" ELSE payment

\* Money for an order that was read as closed has to be reviewed.
Received(p) == IF p.value = "PLACED" THEN "PAID" ELSE "REVIEW_REQUIRED"

\* handleMpesaCallback, its storefront branch.
MpesaCallback(p) ==
    /\ p.op = "callback"
    /\ Awaited(p.attempt)
    /\ \/ /\ Settle(p.attempt, "COMPLETED", "SUCCESS", 1)
          /\ status' = p.value
          /\ payment' = Received(p)
       \/ /\ Settle(p.attempt, "FAILED", "REVIEW_REQUIRED", 0)   \* a mismatch
          /\ payment' = "REVIEW_REQUIRED"
          /\ UNCHANGED status
       \/ /\ Settle(p.attempt, "FAILED", "FAILED", 0)
          /\ UNCHANGED <<status, payment>>
    /\ UNCHANGED <<fulfilment, byHand, cash, taskVars, goodsVars>>

Posted == SumFunction([i \in DOMAIN attempts |-> attempts[i].posted])
Paid == Posted + byHand + cash

\* updateOrderStatus with a status: any, whatever the old one.  The payment
\* status is written back as it was read.
SetStatus(p) ==
    /\ p.op = "setStatus"
    /\ status' \in Overrides
    /\ payment' = p.value
    /\ UNCHANGED <<fulfilment, moneyVars, taskVars, goodsVars>>

\* updateOrderStatus with paymentStatus PAID, and perhaps a status: it completes
\* the latest pending attempt, and posts a payment unless there is one.
SetPaid(p) ==
    /\ p.op = "setPaid"
    /\ attempts' = IF PendingAttempts = {} THEN attempts
                   ELSE [attempts EXCEPT ![Max(PendingAttempts)].status = "COMPLETED"]
    /\ byHand' = IF Paid = 0 THEN byHand + 1 ELSE byHand
    /\ status' \in Overrides \cup {p.value}
    /\ payment' = "PAID"
    /\ UNCHANGED <<fulfilment, cash, taskVars, goodsVars>>

-----------------------------------------------------------------------------
(***************************************************************************)
(* Confirming and reserving.  A refused call changes nothing: also the     *)
(* RESERVATION_FAILED that reserveStock writes is rolled back by its throw.*)
(***************************************************************************)
ConfirmOrder(p) ==
    /\ p.op = "confirm"
    /\ status' = "CONFIRMED"
    /\ fulfilment' = "RESERVATION_PENDING"
    /\ UNCHANGED <<payment, moneyVars, taskVars, goodsVars>>

\* releaseReservation and fulfillReservation skip a reservation that is no
\* longer ACTIVE.
SettleHolds(found, end) ==
    hold' = [h \in Holds |-> IF h \in found /\ hold[h] = "ACTIVE" THEN end
                             ELSE hold[h]]

FaultyRejectOrder(p) ==
    /\ p.op = "reject"
    /\ status' = "REJECTED"
    /\ fulfilment' = p.value
    /\ UNCHANGED <<payment, moneyVars, taskVars, goodsVars>>

RejectOrder(p) ==
    /\ p.op = "reject"
    /\ SettleHolds(p.found, "RELEASED")
    /\ status' = "REJECTED"
    /\ fulfilment' = p.value
    /\ UNCHANGED <<payment, moneyVars, taskVars, dispatched, sales>>

ReserveStock(p) ==
    /\ p.op = "reserve"
    /\ \E h \in Holds :
         /\ hold[h] = "NONE"
         /\ hold' = [hold EXCEPT ![h] = "ACTIVE"]
    /\ fulfilment' = "RESERVED"
    /\ UNCHANGED <<status, payment, moneyVars, taskVars, dispatched, sales>>

\* In any state of the order.
ReleaseReservation(p) ==
    /\ p.op = "release"
    /\ SettleHolds(p.found, "RELEASED")
    /\ fulfilment' = "UNFULFILLED"
    /\ UNCHANGED <<status, payment, moneyVars, taskVars, dispatched, sales>>

-----------------------------------------------------------------------------
(***************************************************************************)
(* Picking and packing.  The task decides, never the order's status.  What *)
(* pickItems records is left out, the sale is made of what was ordered; so *)
(* PICKED stands for PARTIALLY_PICKED too.                                 *)
(***************************************************************************)
AssignPicker(p) ==
    /\ p.op = "assignPicker"
    /\ picking < MaxTasks
    /\ picking' = picking + 1
    /\ fulfilment' = "PICKING"
    /\ UNCHANGED <<status, payment, moneyVars, packing, goodsVars>>

OpenPicking == picking > 0

CompletePicking ==
    /\ OpenPicking
    /\ packing.waiting + packing.assigned < MaxTasks
    /\ picking' = picking - 1
    /\ packing' = [packing EXCEPT !.waiting = @ + 1]
    /\ fulfilment' = "PICKED"
    /\ UNCHANGED <<status, payment, moneyVars, goodsVars>>

AssignPacker ==
    /\ packing.waiting > 0
    /\ packing' = [waiting |-> packing.waiting - 1, assigned |-> packing.assigned + 1]
    /\ fulfilment' = "PACKING"
    /\ UNCHANGED <<status, payment, moneyVars, picking, goodsVars>>

CompletePacking ==
    /\ \/ packing.waiting > 0 /\ packing' = [packing EXCEPT !.waiting = @ - 1]
       \/ packing.assigned > 0 /\ packing' = [packing EXCEPT !.assigned = @ - 1]
    /\ fulfilment' = "PACKED"
    /\ UNCHANGED <<status, payment, moneyVars, picking, goodsVars>>

ReadyForDispatch(p) ==
    /\ p.op = "ready"
    /\ fulfilment' = "READY_FOR_DISPATCH"
    /\ UNCHANGED <<status, payment, moneyVars, taskVars, goodsVars>>

-----------------------------------------------------------------------------
(***************************************************************************)
(* Dispatch and delivery.                                                  *)
(***************************************************************************)
\* OrderDispatch.onlineOrderId is unique: a second record fails the call.
FirstDispatch == ~dispatched

DispatchOrder(p) ==
    /\ p.op = "dispatch"
    /\ FirstDispatch
    /\ SettleHolds(p.found, "FULFILLED")
    /\ sales' = sales + 1
    /\ dispatched' = TRUE
    /\ status' = "DISPATCHED"
    /\ fulfilment' = "DISPATCHED"
    /\ UNCHANGED <<payment, moneyVars, taskVars>>

ConfirmDelivery(p) ==
    /\ dispatched
    /\ \/ /\ p.op = "deliver"
          /\ IF p.value = "CASH" THEN cash' = cash + 1 /\ payment' = "PAID"
                                 ELSE UNCHANGED <<cash, payment>>
          /\ status' = "DELIVERED"
          /\ fulfilment' = "DELIVERED"
       \/ /\ p.op = "failDelivery"
          /\ fulfilment' = "FAILED"
          /\ UNCHANGED <<status, payment, cash>>
    /\ UNCHANGED <<attempts, byHand, taskVars, goodsVars>>

-----------------------------------------------------------------------------
Write(p) ==
    \/ PayByMpesa(p) \/ PayAtDoor(p) \/ PlaceCod(p) \/ ConfirmCashOnDelivery(p)
    \/ MpesaCallback(p) \/ SetStatus(p) \/ SetPaid(p)
    \/ ConfirmOrder(p) \/ RejectOrder(p)
    \/ ReserveStock(p) \/ ReleaseReservation(p)
    \/ AssignPicker(p) \/ ReadyForDispatch(p)
    \/ DispatchOrder(p) \/ ConfirmDelivery(p)

Alone ==
    /\ \/ \E p \in Plans : Write(p)
       \/ CompletePicking
       \/ AssignPacker
       \/ CompletePacking
    /\ UNCHANGED slow

Pause ==
    /\ slow = NoPlan
    /\ slow' \in {p \in Plans : p.op \in Slow}
    /\ UNCHANGED <<orderVars, moneyVars, taskVars, goodsVars>>

\* Cash on delivery that needs no confirmation: the attempt is committed as
\* complete before the order is placed.
PauseToPlaceCod ==
    /\ slow = NoPlan
    /\ status = "PENDING_PAYMENT"
    /\ NewAttempt("CASH_ON_DELIVERY", "COMPLETED", "NONE")
    /\ slow' = Just("placeCod")

\* The slow call writes, or fails and leaves nothing more behind.
Resume ==
    /\ slow # NoPlan
    /\ slow' = NoPlan
    /\ \/ Write(slow)
       \/ UNCHANGED <<orderVars, moneyVars, taskVars, goodsVars>>

Next == Alone \/ Pause \/ PauseToPlaceCod \/ Resume

Spec == Init /\ [][Next]_vars

-----------------------------------------------------------------------------
\* On records of the right type, however callbacks of a checkout request are
\* repeated, delayed or overlap: a payment is posted for it exactly when its
\* transaction succeeded, and once (handleMpesaCallback).
CheckoutPostsOnce ==
    /\ TypeOK
    /\ \A i \in DOMAIN attempts :
         attempts[i].posted = IF attempts[i].transaction = "SUCCESS" THEN 1 ELSE 0

\* Goods only leave (dispatchOrder) when money has been posted for the order
\* or the customer asked, at some time, to pay at the door.
SoldIsPaid == sales > 0 => Paid > 0 \/ isCOD

\* Moreover the courier collects the cash (confirmDelivery) at most once,
\* although the payment status may be reset and the order confirmed and packed
\* again.
SoldIsPaidOrCash == SoldIsPaid /\ cash <= 1

\* A rejected order promises no stock: rejectOrder lets go of all of it, and
\* nothing reserves for the order afterwards.  An order the back office sees
\* as RESERVED has stock held for it (reserveStock), whatever was released,
\* rejected or shipped before.
HoldsFollowStatus ==
    /\ status = "REJECTED" => ActiveHolds = {}
    /\ fulfilment = "RESERVED" => ActiveHolds # {}

\* Money that came in through a checkout shows on the order, as PAID or as
\* something to review, unless the customer also chose to pay at the door.
CheckoutPaymentShown == Posted > 0 /\ ~isCOD => payment # "UNPAID"
=============================================================================
