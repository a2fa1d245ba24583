-------------------------------- MODULE Shift --------------------------------
(***************************************************************************)
(* The cash of one branch on one day: shifts with their cash movements,    *)
(* expenses and the daily reconciliation (shifts.service.ts), with the     *)
(* operations of other services that put cash in or out.  Every amount is  *)
(* one unit; that the person who may approve or review is another than the *)
(* one who asked is taken as given.                                        *)
(*                                                                         *)
(* A handler reads, decides and writes by id without looking again: a plan *)
(* holds what it read, and a slow call is overtaken by others that run     *)
(* alone between its read and its write.                                   *)
(***************************************************************************)
EXTENDS Integers, Sequences, SequencesExt, Functions, FiniteSetsExt

CONSTANTS
    Users,        \* who may run a shift
    ByHand,       \* the movement types recordCashMovement is called with, of
                  \* CASH_IN, CASH_OUT, BANKING and ADJUSTMENT
    MaxShifts,    \* bound: shifts of the day
    MaxMoves,     \* bound: movements of the day, opening floats left out
    MaxSales,     \* bound: cash payments of sales that stand at a time
    MaxExpenses,  \* bound: expenses of the day
    Slow          \* the operations that may be overtaken after their read

VARIABLES
    shifts,      \* Shift with its ShiftCashMovement totals
    expenses,    \* Expense with its settlement Payment
    sales,       \* COMPLETED incoming cash payments of a sale
    refunds,     \* COMPLETED cash refunds
    daily,       \* the DailyBranchReconciliation of the day
    bypassed,    \* history: cash was moved by a call that shifts and the
                 \* daily figures treat differently
    slow,        \* the plan of the overtaken call, if any
    overtaken    \* history: a call wrote after what it had read was changed

records == <<shifts, expenses, sales, refunds, daily, bypassed>>
vars == <<records, slow, overtaken>>

Into == {"OPENING_FLOAT", "CASH_SALE", "CASH_IN", "ADJUSTMENT"}
OutOf == {"CASH_REFUND", "CASH_EXPENSE", "CASH_OUT", "BANKING"}
Kinds == Into \cup OutOf

Shifts == [user: Users, status: {"OPEN", "REVIEW_REQUIRED", "CLOSED"},
           moves: [Kinds -> Nat], expected: Int]
Expenses == [status: {"SUBMITTED", "APPROVED", "REJECTED", "PAID", "REVERSED"},
             cash: BOOLEAN, settled: {"NONE", "COMPLETED", "REVERSED"}, reversals: Nat]

\* missed stands for expectedCash: it is expectedCash less what the drawers
\* held when it was computed.
Dailies == [status: {"NONE", "SUBMITTED", "APPROVED", "REVIEW_REQUIRED"}, missed: Int]

NoPlan == [op |-> "none"]

TypeOK ==
    /\ shifts \in Seq(Shifts)
    /\ expenses \in Seq(Expenses)
    /\ {sales, refunds} \subseteq Nat
    /\ daily \in Dailies
    /\ bypassed \in BOOLEAN
    /\ slow.op \in Slow \cup {"none"}
    /\ overtaken \in BOOLEAN

Init ==
    /\ shifts = <<>>
    /\ expenses = <<>>
    /\ sales = 0
    /\ refunds = 0
    /\ daily = [status |-> "NONE", missed |-> 0]
    /\ bypassed = FALSE
    /\ slow = NoPlan
    /\ overtaken = FALSE

-----------------------------------------------------------------------------
(***************************************************************************)
(* What the handlers compute.                                              *)
(***************************************************************************)
Total(moves, S) == SumFunctionOnSet(moves, S)

FaultyExpected(moves) == Total(moves, Kinds \ OutOf) - Total(moves, OutOf \ {"CASH_EXPENSE"})

\* endShift: what is not taken out was put in.
Expected(moves) == Total(moves, Kinds \ OutOf) - Total(moves, OutOf)

\* The daily figures take sales, refunds and expenses from their own records
\* and only the rest from the movements.
DayMoves(moves) ==
    Total(moves, {"OPENING_FLOAT", "CASH_IN"}) - Total(moves, {"CASH_OUT", "BANKING"})

PaidOut == Cardinality({e \in DOMAIN expenses : expenses[e].status = "PAID"})

DayDrawers == SumFunction([s \in DOMAIN shifts |-> DayMoves(shifts[s].moves)])

FaultyDayExpected == sales + DayDrawers - PaidOut
DayExpected == sales + DayDrawers - refunds - PaidOut

Drawer(moves) == Total(moves, Into) - Total(moves, OutOf)
Drawers == SumFunction([s \in DOMAIN shifts |-> Drawer(shifts[s].moves)])

-----------------------------------------------------------------------------
(***************************************************************************)
(* Plans.                                                                  *)
(***************************************************************************)
OpenShifts == {s \in DOMAIN shifts : shifts[s].status = "OPEN"}
ExpensesIn(status) == {e \in DOMAIN expenses : expenses[e].status = status}

ShiftPlans ==
    {[op |-> "start", user |-> u] :
       u \in {u \in Users : \A s \in DOMAIN shifts :
                shifts[s].user = u => shifts[s].status = "CLOSED"}}
    \cup {[op |-> "end", shift |-> s, expected |-> Expected(shifts[s].moves), exact |-> b] :
            s \in OpenShifts, b \in BOOLEAN}
    \cup {[op |-> "review", shift |-> s] :
            s \in {s \in DOMAIN shifts : shifts[s].status = "REVIEW_REQUIRED"}}

\* Cash in and out of a drawer needs an OPEN shift of the caller; payInvoice
\* asks for one and writes no movement to it.
CashPlans ==
    {[op |-> "move", shift |-> s, kind |-> k] : s \in OpenShifts, k \in ByHand}
    \cup {[op |-> op, shift |-> s] : op \in {"sell", "invoice", "refund"}, s \in OpenShifts}
    \cup {[op |-> "unsell", shift |-> s] : s \in IF sales > 0 THEN OpenShifts ELSE {}}

\* Without a shift of its own a cash expense is paid from any OPEN one.
ExpensePlans ==
    {[op |-> "create", cash |-> b] : b \in BOOLEAN}
    \cup {[op |-> "approve", expense |-> e] : e \in ExpensesIn("SUBMITTED")}
    \cup {[op |-> "reject", expense |-> e] : e \in DOMAIN expenses}
    \cup (UNION {{[op |-> "pay", expense |-> e, shift |-> s] :
                    s \in IF expenses[e].cash THEN OpenShifts ELSE {0}} :
                   e \in ExpensesIn("APPROVED")})
    \cup {[op |-> "reverse", expense |-> e] :
            e \in {e \in ExpensesIn("PAID") : expenses[e].settled = "COMPLETED"}}
    \cup (UNION {{[op |-> "unsettle", expense |-> e, shift |-> s] :
                    s \in IF expenses[e].cash THEN OpenShifts ELSE {0}} :
                   e \in {e \in DOMAIN expenses : expenses[e].settled = "COMPLETED"}})

DailyPlans ==
    {[op |-> "submit", new |-> daily.status = "NONE",
      missed |-> DayExpected - Drawers] :
       x \in {daily.status} \cap {"NONE", "REVIEW_REQUIRED"}}
    \cup {[op |-> op] : op \in IF daily.status = "SUBMITTED" THEN {"sign", "return"} ELSE {}}

Plans == ShiftPlans \cup CashPlans \cup ExpensePlans \cup DailyPlans

-----------------------------------------------------------------------------
(***************************************************************************)
(* Writes.                                                                 *)
(***************************************************************************)
NoMoves == [k \in Kinds |-> 0]

StartShift(p) ==
    /\ p.op = "start"
    /\ Len(shifts) < MaxShifts
    /\ shifts' = Append(shifts, [user |-> p.user, status |-> "OPEN",
                                 moves |-> [NoMoves EXCEPT !["OPENING_FLOAT"] = 1],
                                 expected |-> 0])
    /\ UNCHANGED <<expenses, sales, refunds, daily, bypassed>>

EndShift(p) ==
    /\ p.op = "end"
    /\ shifts' = [shifts EXCEPT ![p.shift].expected = p.expected,
                    ![p.shift].status = IF p.exact THEN "CLOSED" ELSE "REVIEW_REQUIRED"]
    /\ UNCHANGED <<expenses, sales, refunds, daily, bypassed>>

ReviewShift(p) ==
    /\ p.op = "review"
    /\ shifts' = [shifts EXCEPT ![p.shift].status = "CLOSED"]
    /\ UNCHANGED <<expenses, sales, refunds, daily, bypassed>>

\* A movement is inserted for the shift that was found OPEN.
Moved(s, kind) ==
    /\ SumFunction([t \in DOMAIN shifts |-> Total(shifts[t].moves, Kinds)])
         < MaxMoves + Len(shifts)
    /\ shifts' = [shifts EXCEPT ![s].moves[kind] = @ + 1]

RecordCashMovement(p) ==
    /\ p.op = "move"
    /\ Moved(p.shift, p.kind)
    /\ bypassed' = (bypassed \/ p.kind = "ADJUSTMENT")
    /\ UNCHANGED <<expenses, sales, refunds, daily>>

\* checkout and recordPayment.
SellForCash(p) ==
    /\ p.op = "sell"
    /\ sales < MaxSales
    /\ Moved(p.shift, "CASH_SALE")
    /\ sales' = sales + 1
    /\ UNCHANGED <<expenses, refunds, daily, bypassed>>

\* payInvoice.
PayInvoiceInCash(p) ==
    /\ p.op = "invoice"
    /\ sales < MaxSales
    /\ sales' = sales + 1
    /\ bypassed' = TRUE
    /\ UNCHANGED <<shifts, expenses, refunds, daily>>

\* reversePayment on a payment of a sale: it is no longer COMPLETED.
ReverseSale(p) ==
    /\ p.op = "unsell"
    /\ sales > 0
    /\ Moved(p.shift, "CASH_REFUND")
    /\ sales' = sales - 1
    /\ UNCHANGED <<expenses, refunds, daily, bypassed>>

RefundInCash(p) ==
    /\ p.op = "refund"
    /\ Moved(p.shift, "CASH_REFUND")
    /\ refunds' = refunds + 1
    /\ UNCHANGED <<expenses, sales, daily, bypassed>>

CreateExpense(p) ==
    /\ p.op = "create"
    /\ Len(expenses) < MaxExpenses
    /\ expenses' = Append(expenses, [status |-> "SUBMITTED", cash |-> p.cash,
                                     settled |-> "NONE", reversals |-> 0])
    /\ UNCHANGED <<shifts, sales, refunds, daily, bypassed>>

ApproveExpense(p) ==
    /\ p.op = "approve"
    /\ expenses' = [expenses EXCEPT ![p.expense].status = "APPROVED"]
    /\ UNCHANGED <<shifts, sales, refunds, daily, bypassed>>

\* No status is asked for: also one that is PAID or REVERSED is REJECTED.
RejectExpense(p) ==
    /\ p.op = "reject"
    /\ expenses' = [expenses EXCEPT ![p.expense].status = "REJECTED"]
    /\ bypassed' = (bypassed \/ expenses[p.expense].settled # "NONE")
    /\ UNCHANGED <<shifts, sales, refunds, daily>>

FaultyPayExpense(p) ==
    /\ p.op = "pay"
    /\ expenses' = [expenses EXCEPT ![p.expense].status = "PAID",
                                    ![p.expense].settled = "COMPLETED"]
    /\ IF expenses[p.expense].cash THEN Moved(p.shift, "CASH_EXPENSE") ELSE UNCHANGED shifts
    /\ bypassed' = (bypassed \/ ~expenses[p.expense].cash)
    /\ UNCHANGED <<sales, refunds, daily>>

\* The settlement's key is unique, so it is created once.
PayExpense(p) ==
    /\ p.op = "pay"
    /\ expenses[p.expense].settled = "NONE"
    /\ expenses' = [expenses EXCEPT ![p.expense].status = "PAID",
                                    ![p.expense].settled = "COMPLETED"]
    /\ IF expenses[p.expense].cash THEN Moved(p.shift, "CASH_EXPENSE") ELSE UNCHANGED shifts
    /\ bypassed' = (bypassed \/ ~expenses[p.expense].cash)
    /\ UNCHANGED <<sales, refunds, daily>>

\* So is that of its reversal; no movement puts the cash back.
ReverseExpense(p) ==
    /\ p.op = "reverse"
    /\ expenses[p.expense].status # "REVERSED"
    /\ expenses' = [expenses EXCEPT ![p.expense].status = "REVERSED",
                                    ![p.expense].settled = "REVERSED",
                                    ![p.expense].reversals = @ + 1]
    /\ bypassed' = TRUE
    /\ UNCHANGED <<shifts, sales, refunds, daily>>

\* reversePayment on the settlement of an expense leaves the expense PAID.
ReverseSettlement(p) ==
    /\ p.op = "unsettle"
    /\ expenses' = [expenses EXCEPT ![p.expense].settled = "REVERSED",
                                    ![p.expense].reversals = @ + 1]
    /\ IF expenses[p.expense].cash THEN Moved(p.shift, "CASH_REFUND") ELSE UNCHANGED shifts
    /\ bypassed' = TRUE
    /\ UNCHANGED <<sales, refunds, daily>>

\* One record of the day: a second one that is created fails.
ReconcileDailyBranch(p) ==
    /\ p.op = "submit"
    /\ p.new => daily.status = "NONE"
    /\ daily' = [status |-> "SUBMITTED", missed |-> p.missed]
    /\ UNCHANGED <<shifts, expenses, sales, refunds, bypassed>>

ApproveReconciliation(p) ==
    /\ p.op = "sign"
    /\ daily' = [daily EXCEPT !.status = "APPROVED"]
    /\ UNCHANGED <<shifts, expenses, sales, refunds, bypassed>>

ReturnReconciliation(p) ==
    /\ p.op = "return"
    /\ daily' = [daily EXCEPT !.status = "REVIEW_REQUIRED"]
    /\ UNCHANGED <<shifts, expenses, sales, refunds, bypassed>>

Write(p) ==
    \/ StartShift(p) \/ EndShift(p) \/ ReviewShift(p)
    \/ RecordCashMovement(p) \/ SellForCash(p) \/ PayInvoiceInCash(p)
    \/ ReverseSale(p) \/ RefundInCash(p)
    \/ CreateExpense(p) \/ ApproveExpense(p) \/ RejectExpense(p)
    \/ PayExpense(p) \/ ReverseExpense(p) \/ ReverseSettlement(p)
    \/ ReconcileDailyBranch(p) \/ ApproveReconciliation(p) \/ ReturnReconciliation(p)

-----------------------------------------------------------------------------
Alone ==
    /\ \E p \in Plans : Write(p)
    /\ UNCHANGED <<slow, overtaken>>

Pause ==
    /\ slow = NoPlan
    /\ ~overtaken
    /\ slow' \in {p \in Plans : p.op \in Slow}
    /\ UNCHANGED <<records, overtaken>>

\* The slow call writes, or fails.
Resume ==
    /\ slow # NoPlan
    /\ slow' = NoPlan
    /\ \/ Write(slow) /\ overtaken' = (slow \notin Plans)
       \/ UNCHANGED <<records, overtaken>>

Next == Alone \/ Pause \/ Resume

Spec == Init /\ [][Next]_vars

-----------------------------------------------------------------------------
Spent == SumFunction([s \in DOMAIN shifts |-> shifts[s].moves["CASH_EXPENSE"]])

\* However calls overlap, on records of the right type: the drawers have paid
\* each cash expense that was settled once, an expense is PAID only with a
\* settlement and REVERSED only after the settlement was (payExpense,
\* reverseExpense).
ExpensesSettledOnce ==
    /\ TypeOK
    /\ Spent = Cardinality({e \in DOMAIN expenses :
                              expenses[e].cash /\ expenses[e].settled # "NONE"})
    /\ \A e \in DOMAIN expenses :
         /\ expenses[e].status = "PAID" => expenses[e].settled # "NONE"
         /\ expenses[e].status = "REVERSED" => expenses[e].settled = "REVERSED"

\* Unless a call was overtaken: a shift that was ended expects what its
\* drawer holds, a user has one shift that is not CLOSED, and a settlement is
\* reversed once.
ClosedIsCounted ==
    ~overtaken =>
      /\ \A s \in DOMAIN shifts :
           shifts[s].status # "OPEN" => shifts[s].expected = Drawer(shifts[s].moves)
      /\ \A s, t \in DOMAIN shifts :
           s # t /\ shifts[s].user = shifts[t].user =>
             "CLOSED" \in {shifts[s].status, shifts[t].status}
      /\ \A e \in DOMAIN expenses : expenses[e].reversals <= 1

\* Unless a call was overtaken, or cash was moved by one of the calls that the
\* two sums treat differently (an ADJUSTMENT, payInvoice, an expense not paid
\* in cash, reversed, or rejected after it was paid): the cash expected for the
\* day is the cash in the drawers of its shifts.
DailyMatchesShifts ==
    ~overtaken /\ ~bypassed /\ daily.status # "NONE" => daily.missed = 0
=============================================================================
