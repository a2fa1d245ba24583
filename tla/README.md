# Verification of the perfume back office

TLA+ models of the parts of this server whose correctness depends on the order
in which things happen: stock and the documents that move it, sales, orders and
purchases, the money posted for them, and the sessions of the people who do all
this. The server is an Express application over one
PostgreSQL database; every operation is an HTTP handler, most of them one
database transaction, and any number of them run at once. Nothing runs in the
background: no timer, no queue, no worker. What can go wrong is therefore
what two handlers do to each other, what a caller does in an order nobody
expected, and what the M-Pesa provider repeats or delays.

## How the code is read

Prisma's `$transaction` uses PostgreSQL's default isolation, READ COMMITTED.
The server takes explicit row locks in only two places: `lockBalance`
(`inventory-write.service.ts`) and the customer ledger. Everywhere else a handler reads a
record, decides, and writes it by primary key; the write does not look at what
it replaces. All models share one reading of such a handler:

* a **read step** captures the committed values the handler decides on;
* a **write step** applies all its writes at once, at its commit. Nothing else
  can touch a row between the moment its lock is granted and the commit, so
  the two are one step;
* Prisma's `increment` and `decrement` apply to the row as it is at the write;
  every other value written is computed from what was captured;
* a handler that throws leaves nothing: the transaction rolls back.

Reads of one handler are taken at one instant. In the code they are spread
over the handler, which only narrows the window between read and write.
Reads of different handlers commute, so "one slow call, with others running
alone in between" covers every overlap of two calls.

Every module but `InventoryWrite` and `FifoBatches` has the same shape. `Plans` (or an operator of the same
role) is the set of calls the records, as they are now, would accept, each with
the values its handler captured; `Write(p)` carries a plan out, one operator
per handler. `Alone` plans and writes in one step, `Pause` plans a call whose
operation is in the constant `Slow`, and `Resume` writes it, or lets it fail,
after others have run. The history variable `overtaken` turns true when a call
writes that would not have been planned any more. Modules that share a run
with another carry the name of their component in these names (`DocumentNext`,
`tillOvertaken`, `SlowReturns`), so that one module can extend both. A property that holds in
spite of that says "however calls overlap"; the others are asked as long as
nothing was overtaken, and say what the server promises to callers who come
one at a time, in whatever order.

The server promises no progress by itself: each step is a request somebody has
to make. The one exception is time. `Session` counts down locks and tokens,
`Tick` is weakly fair, and nothing else is fair anywhere. The one liveness
property, `LockEnds`, needs no more: an account that was locked is unlocked
again, whatever passwords are tried meanwhile.

## Inventory of the system

| Component | State it keeps | Operations | What makes it correct | Module |
|---|---|---|---|---|
| Stock writer `services/inventory-write` | balance row (on hand, reserved, available, in transit, average cost), reservations, movements | receive, reserve, release, fulfil, deduct, adjust | no oversell; the columns, batches and journal agree; a reservation is settled once | `InventoryWrite`, `StockLedger` |
| FIFO draw (same file) | batches of a row | draw, fallback, receive, return | earliest expiry first; short only when empty | `FifoBatches` |
| Transfers `modules/transfers` | transfer, items, batch records; rows of two branches | create, submit, approve, pick, dispatch, receive | no unit appears or vanishes between branches | `StockTransfer` |
| Online orders `services/online-store-fulfilment`, `services/storefront-payment`, `modules/online-store` | order (three statuses), attempts, tasks, reservations, dispatch, sale | pay, callback, override, confirm, reject, reserve, release, pick, pack, dispatch, deliver | one payment per checkout; goods only against money; holds follow the order | `OnlineOrder` |
| Cart and checkout `services/cart`, `services/checkout` | carts and their rows, signed previews, orders, customers | add, set, remove, preview, place, reorder | a cart becomes one order of what it holds | `Cart` |
| Payments `modules/payments` | payments, allocations, invoices, M-Pesa transactions | record, STK push, callback, reverse, notes | amounts paid equal payments posted; reversed once | `Payments`; notes in `Checkout` |
| Returns (same service) and refunds `modules/payments/refund-workflow` | return requests, exchanges, refunds, store credit | create to complete; draft to processed | no more comes back than was sold, none is paid back twice | `Returns` |
| Customer ledger, loyalty | outstanding balance, points, store credit | debit, credit, redeem, adjust | the balances follow the sales | `Payments`, `Checkout` |
| Sales `modules/sales`: the till | sales, discount requests, invoices by hand | check out, suspend, discard, approve a discount, void | a checkout sells once; debt within the limit | `Checkout` |
| Sales: wholesale | quotations, orders, reservations, invoices | convert, approve, fulfil, invoice, cancel, void | an order holds what it still has to ship | `WholesaleOrder` |
| Counts, adjustments, issues | documents with an approval chain | create to post, recount, convert | stock is corrected once, by what was counted | `StockDocuments` |
| Procurement, goods receipts, suppliers | requisitions, orders, receipts, supplier balance | create to post, pay | stock and order follow the receipts | `Procurement` |
| Shipments, landed cost | costs of an import, allocations | add cost, status, allocate | shares add up to the cost, to the cent | `ImportShipment` |
| Sessions `modules/auth`, `modules/customer-auth`, `modules/users` | account, refresh tokens, reset tokens | login, refresh, reset, change, log out, suspend | a session ends when it is ended; a lock ends | `Session` |
| Shifts `modules/shifts` | shifts, cash movements, expenses, the day | start, move, end, review, approve, pay, reverse, reconcile | the drawer is what the movements say | `Shift` |
| Attendance, catalog, branches, users' master data, customers, organization, targets, reports, notifications, audit, storage, storefront content, permissions | master data, queries, append-only logs | single-row edits | unique keys | not modelled |

Components meet in three ways: they call the stock writer inside their own
transaction (sales, transfers, online orders, counts, adjustments, receipts,
returns); they write each other's records by id (the callback, the override
and the fulfilment steps all write the order); and they share the payment
table. Where a component is modelled apart from one it calls, the call is
reduced to what it changes: a sale at the till, for instance, moves one number
of stock in `Checkout`, which `InventoryWrite` shows to be kept in four columns.
A transaction over several balance rows behaves, row by row, like one
call of the stock writer per row whose write step is the commit, which is why
`InventoryWrite` need not know its callers.

## The modules

### InventoryWrite, StockLedger, InventoryWriteProofs

`InventoryWrite` is the stock writer, with the two services that write a
balance row themselves: `fulfilOrder` (part of a wholesale reservation) and
the quarantine branch of `completeReturn`. The order of statements in
`lockBalance` matters: it reads the row, and only then executes `SELECT ... FOR
UPDATE`, and returns what it read first. `Begin*` actions are the read step
(variable `seen`); `ReceiveStock`, `ReserveStock`, ... are the write step.
`InFlight` says how many calls may be between the two; 1 means calls never
overlap.

`StockLedger` is the abstract specification: stock is one number per row,
holds are a set of promises, and what is free is computed, not stored. It has
one rule: a promise or an issue needs free stock unless the branch allows
negative stock. With `InFlight = 1` the four stored columns, updated
separately, implement it (`LedgerImplemented`).

* `inventory_serial` (2 rows, one of them not yet created and allowed to go
  negative; 2 reservations; 4 calls; quantities 1..2; `InFlight = 1`): type
  invariant, `NoOversell`, `JournalChained`, `SettledOnce` and the refinement.
  Four calls are enough for reserve, part fulfilment, rest or release, and one
  more call that could be refused or oversell.
* `inventory_overlap` (2 calls in flight, 1 reservation, 4 calls): what
  survives. `Conserved` (three equations between on hand, reserved, available,
  quarantined, batches and journal) and `OverlapBounded`: a double settlement
  loses a promise and never invents one, and a row is oversold by at most one
  largest call for every call that can be in flight beside another, however
  many follow. `NoOversell`, `JournalChained` and `SettledOnce` are false
  here: the comment on the lock says "Row-level lock for concurrency
  protection", and two calls that overlap both decide on what they read before
  it.

### FifoBatches (InventoryWriteProofs), StockTransfer (SupplyProofs): MCStock

`FifoBatches` is one row's batches. `FifoOrder` is the order of the query,
`DrawLoop` the loop of `deductFromBatchesFIFO`, a recursive function on the
positions of that order, and `FifoDraw` the loop followed by its fallback.
Histories of receipts (by number, by id, under no batch), quarantined returns
and deductions reach the states it is checked in. The query that is commented
"Find active batches" does not ask for the batch status, so quarantined batches
are drawn from like any other; the model says so. The run `fifo_allocation` is
the counterexample to one batch per allocation: the fallback names the last
batch a second time, which `SaleItemBatch`'s unique key refuses.

`StockTransfer` has transfers between one source and one destination; all
items are of one variant, so that they compete for one row at each side, which
is the hard case. Here `overtaken` turns true only when a call writes a
transfer that changed since it was read: overlap of different transfers is
harmless, overlap on one is not. Quantities count hundredths, the unit of the
`Decimal(18, 2)` columns, so that the rounding of `batchShare` is modelled by
what it does. How a dispatch spreads over batches is any split of the
quantity; that the FIFO draw gives out exactly the quantity is what
`FifoBatches` checks and proves.

* `stock`: the batches of one row (two numbers, expiry after and before each
  other or none, three batches, quantities 1..2), and two transfers with three
  items, opening stock 4, requests of 3, 3 and 1, approvals of 0, 1 or 3, four
  receipt outcomes (whole, short, missing, damaged), every operation slow
  once. `DrawIsFair` compares the loop with a reference (a batch gives what is
  left of the quantity after all the batches before it gave everything), adds up
  what is allocated and what the records lose; `FirstExpiredFirstOut` says that
  the earliest expiry leaves first and that no batch goes negative while another
  has units. `SourceTracked` holds always; `HeldUntilDispatch`
  and `DestinationTracked` hold until a call overtakes another on the same
  transfer. Without that condition the second is refuted by two receipts of one
  transfer that both see DISPATCHED: the stock comes in twice.

Receipts list every item once (`ListedTimes = {1}`), as the back office's form
does; the handler does not insist, and an omitted item stays in transit for
ever. Nothing ever leaves DISCREPANCY_REVIEW, and nothing releases a picked
transfer: there is no cancel operation, and the 48 hour expiry of its
reservations is read by no code.

### OnlineOrder, Cart (OnlineOrderProofs): MCOnlineOrder

`Cart` is a shopper before the order: carts and their rows, the previews that
`previewCheckout` signs, the orders placed with them and the customers that
`placeOrder` creates on the way, outside its transaction. A row is written as
it was read plus what is added, and `wanted` is the history of what the shopper
put in and took out. `OnlineOrder` is one order from then on: its payment
attempts, provider transactions, reservations, tasks, dispatch and sale.
Reserve may fail for lack of stock, so stock itself is left to
`InventoryWrite`. `pickItems` and the PARTIALLY_PICKED status are folded into
PICKED, because the sale is made of the ordered quantities either way. The
RESERVATION_FAILED status that `reserveStock` writes is rolled back by its own
throw. The 15 second limit between attempts forbids nothing here.

* `online_orders`: one variant in up to two carts with two rows, quantities to
  2, one idempotency key or none, two customers, additions and orders
  overtaken once; or one order
  with 2 attempts, 2 reservations, 1 task of each kind, the override
  CANCELLED, callbacks and dispatches overtaken. `OrdersFollowCarts`: a cart
  is ordered once however calls overlap, and until one is overtaken what the
  shopper wanted is in the cart or in one order. `CheckoutPostsOnce`: however
  callbacks repeat, one payment for one successful checkout, because two
  unique keys look again at the write. `SoldIsPaidOrCash`, `HoldsFollowStatus`
  and `CheckoutPaymentShown` relate goods, holds and money to the order.

Which operations may be slow (`MCSlow`) is part of the statement. With reserve
or reject slow, a rejected order may keep a hold; with deliver slow, cash is
posted twice; with the status override slow, it writes back a payment status
it read before the callback. A confirmed order whose hold was released, or
never made, is picked, packed, dispatched and sold with no stock deducted,
although the check is worded "Order must be reserved before picking
assignment"; no property forbids it. A cart that was ordered can be filled
again and never ordered, because the order's `cartId` is unique.

### Payments (PaymentsProofs): MCPayments

Sales of one customer, each with at most one invoice, the payments posted for
them, M-Pesa requests and the customer's outstanding balance. A handler is an
operator of what it read (`read`): the sale and the invoice for the handlers
that take money, the payment and its allocation for a reversal. The balance is
the exception: `postCustomerBalanceEntry` locks the customer's row before it
reads, so `Owe` uses the balance as it is. Two unique keys are guards that
look at the records at the write: the event of a checkout (`Awaiting`,
`Excluded`) and the reversal of a payment (`Unreversed`).

Five handlers split one amount between a sale and its invoice, each in its own
way: `PaySale` leaves the invoice alone, `RecordOnInvoice` computes both dues
from the totals, `PayInvoice` subtracts from both dues,
`RecordVerifiedMpesaPayment` allocates what the invoice still takes, and
`Reverse` takes an allocation back. What holds of all five together is not
evident, and is what the run checks.

* `payments` (one sale of total 2 that may get an invoice, one M-Pesa request,
  amounts 1 and 2, at most four payments, every operation overtaken once).
  However calls overlap: `ReversedOnce`, `CheckoutPostsOnce`, and
  `BalanceFollowsPayments`, which compares each change of the balance with
  what the step posts and writes off. Until a call overtakes another:
  `PaidIsPosted`, of the sale, of its invoice and of the allocations. It is
  false once one has, because amounts paid are written as computed from an
  unlocked read; the balance is still right then, so that the customer's debt
  and the sale disagree. It stops being asked when a reversal has itself been
  reversed (`ReversalReversed`): `reversePayment` adds to the debt and takes
  from the sale whichever way the payment went.
* `payments_voided`: a sale is voided, its debt written off and its invoice
  VOIDED; `recordPayment` by the invoice's id takes a payment on it and sets
  it to PARTIALLY_PAID or PAID. `payInvoice` refuses the same call with "Only
  issued receivable invoices can accept payments".

A payment recorded on the sale leaves the invoice's amount due as it was, so
both can be collected; `PaidIsPosted` only says that the invoice never comes
out better paid than the sale. A sale and its invoice are touched only by
calls about that sale, so one sale shows every interleaving on them; several
sales meet only in the balance, which is locked. Left out here are the checks
that only refuse, references and receipts of payments, shift cash movements
(`Shift`), and the stock and loyalty side of `cancelSale` (`Checkout`).
`generateInvoice` runs alone: two that overlap could each create an invoice,
which the model's one invoice per sale cannot show. The second read of a
reversal, of the sale and the invoice inside its transaction, is taken at the
write. `ReversedOnce` and `CheckoutPostsOnce` do not depend on either.

### StockDocuments (BranchProofs): MCBranch

The documents that correct the stock of one variant: counts (create, start,
enter, submit, recount, approve, post), adjustments (create to post) and
reported issues (report to close, with their conversion into an adjustment),
while trade moves stock and shelf alike.

* `branch`, part `stock` (two on hand, one of them missing from the shelf; two
  documents of any kind; trade of one unit either way; approval and posting of
  counts, posting of adjustments and conversion of issues slow).
  `CountFindsShelf`: posting a count leaves on hand what is on the shelf, also
  when stock was traded after the counting, because what is posted is the
  variance. `StockFollowsDocuments`: until a call is overtaken every POSTED
  document has moved the stock once. Two postings of one adjustment that
  overlap move it twice.

### WholesaleOrder, Checkout (SalesProofs): MCSales

`WholesaleOrder` takes a quotation to an order, its approval (which reserves
each line), its fulfilment in parts, its invoice, and its cancellation or
voiding. Each row has its four columns again, since cancellation and voiding
look at what every reservation still holds. `Checkout` is the till: sales to
one customer on credit, suspended sales, approved discounts, payment receipts,
invoices made by hand, voiding, credit and debit notes, payments of a sale,
and points.

* `sales`: one quotation of two lines (2 of the first, 1 of the second) and
  two orders made from it, two calls overtaken; or two sales of price 2 to a
  customer with a credit limit of 2, with two idempotency keys, one redemption
  key, one discount, note or adjustment, checkouts and redemptions slow. `SoldIsShipped`
  holds however calls overlap; `HoldsFollowOrder` until one is overtaken (two
  approvals that overlap reserve twice). `SoldOnce`, `DebtFollowsSales` and
  `PointsFollowSales` compare stock, debt and points with the sales.

The history variables name the cases the code gets wrong, and the properties
leave those out and nothing else. Voiding takes the amount due off the
customer's balance, and a payment does, even if the sale was suspended and
never charged (`ledger.stray`). Credit beyond the debt is forgotten because the
ledger stops at zero; `ledger.noted` counts what was forgotten, and what notes
added. A debit note does not look at the credit limit (`ledger.noteMade`), nor
does an invoice by hand that is due at once. Voiding a WHOLESALE sale of the
till brings no stock back, because its movements are looked for under another
reference. A sale that is voided takes back points the customer may no longer
have (`ledger.voided`).

### Procurement, ImportShipment (SupplyProofs), Returns (PaymentsProofs): MCPurchasing

`Procurement` has requisitions, purchase orders, goods receipts and what the
supplier is owed, for one variant and one supplier. `ImportShipment` has a
shipment of an order, its costs, and `allocateCosts`, whose rounding to cents
is modelled exactly in tenths of a cent. `Returns` has return requests,
exchanges and the refund workflow of one paid sale, of the lines and sizes in
`SaleSizes`.

* `purchasing`: three documents (a requisition, two orders, two receipts at
  most), with posting, payment, conversion, cancellation and receipt creation
  slow; or a shipment with two costs of 0.5, 2 or 100 cents, by quantity or
  by value, over three lines of several sizes or four equal ones; or four
  returns, refunds and exchanges of a sale of two units of one line, three of a
  sale of two lines (refunded as store credit only, `SmallReturn`), processing
  slow. `ReceivedIsPosted` and `CostsAreAllocated` hold however calls overlap;
  `OrdersFollowReceipts`, `ReturnsFitSale`, `RefundsFitPaid` and
  `StoreCreditFollowsRefunds` are asked, in part or whole, until a call is
  overtaken.

`CostsAreAllocated` says that the shares of a cost come to the cost, to the
cent, and that each share is the exact one but for half a cent for each line:
the largest share takes whatever rounding left over or took too much. So a
share may be negative: two cents over four equal lines are 1, 1, 1 and -1. With
three lines none ever is, which is why the run has an order of four.

* `landed_cost`: an order that names one variant on two lines is allocated
  another amount than was booked, because shares are kept in a map by variant.

What the properties leave out: a receipt made while another is open is
compared with what was received until then, and posting compares with nothing,
so that together they may exceed the order (`crowded`); a refund may be given
for goods that inspection turned away (`TurnedAwayRefunded`); an M-Pesa refund
stays in PROCESSING, since nothing completes it, and so does an exchange whose
goods were worth more than their replacement. The second receipt of an order is charged the shipment's
whole landed cost again (`goods-receipts.service.ts:222`); costs of stock are
not modelled, so no property says so.

### Session (SessionProofs); Shift (BranchProofs): MCBranch

`Session` is one account, of a member of staff or of a shop customer, with its
refresh tokens in families, access tokens, reset tokens, failed attempts and
lock. `Shift` is one branch on one day: shifts with their cash movements by
every service that makes one, expenses with their approval and settlement, and
the reconciliation that is computed from sales, refunds and expenses instead
of from the movements.

* `sessions` (three sessions, two passwords, one reset token, a lock after two
  failures that lasts two ticks). `CurrentPasswordProved`: however logins,
  refreshes and changes of password overlap, what can be refreshed comes from a
  login with the current password, because the token carries a version that
  the change increments. `RotatedOnce`: until a call is overtaken, rotation
  leaves one live session per login. `LockEnds` is the liveness property.
* `branch`, part `cash` (two shifts, two movements beside the opening floats,
  one cash sale and one expense, its approval, payment, reversal and settlement
  slow). `ExpensesSettledOnce`, `ClosedIsCounted` and `DailyMatchesShifts`
  relate drawers, expenses and the day.

For staff, `authenticate` does not compare the token version, so that an
access token stays good until it expires after the session was revoked; the
property asks it of customers only. `payInvoice` takes cash without a cash
movement, and adjustments, expenses reversed or rejected late count in one of
the two sums only: `bypassed` names these calls and `DailyMatchesShifts` leaves
them out. A movement recorded while the shift is being ended misses the count,
which is why `ClosedIsCounted` is asked until a call is overtaken.

### Runs that hold two or three components

`MCStock`, `MCOnlineOrder`, `MCSales`, `MCPurchasing` and `MCBranch` give one
run to components that share people and tables but no variables of the models.
The variable `part` says whose behaviour it is; the other components stay in
their initial state, so that the run explores the sum of their states and not
the product. Where parts really meet (the batches under the balance row, the
columns under the ledger) the composition is a refinement or an invariant
across both, in `InventoryWrite`.

## Bounds

| Bound | Where | Why it is enough |
|---|---|---|
| 4 calls, at most 2 in flight | `InventoryWrite` | every overlapping pair after a call that prepares it and before one that suffers from it; reserve, part, part, release |
| quantities 1..2, opening 2 | `InventoryWrite` | exact fit, remainder and refusal all occur |
| 3 batches, quantities 1..2, at most 2 units of each | `FifoBatches` | draw inside a batch, at its edge, over several, and past the last |
| approvals 0, 1, 3 | `StockTransfer` | 3 splits over up to three batches, where rounding errs |
| one overtaken call | every module with `overtaken` | bounds the search after the first overtaking; the conditional properties ask for nothing later |
| 4 payments, amounts 1 and 2, one sale of 2 | `Payments` | part and full payment, overpayment refused, reversal and payment after it |
| 2 attempts, 1 open task | `OnlineOrder` | a late callback beside a second attempt, both methods mixed; tasks reopen |
| 2 carts, quantities to 2, 2 customers | `Cart` | an addition to a row and to none, a reorder into a second cart, a cart filled again, a customer made twice |
| 2 documents, trade of 1 | `StockDocuments` | a count beside an adjustment, an issue with the adjustment it becomes, two adjustments |
| 2 orders, 2 overtaken calls | `WholesaleOrder` | a quotation converted twice, approvals that overlap, and a call that suffers from it; stock for two of one line, for one and a half of the other |
| 2 sales, 1 extra | `Checkout` | the limit used up by the first; one discount, receipt or key wanted by two |
| 3 documents, quantities of 2 | `Procurement` | part receipts of 1, two open receipts of one order, an order cancelled between them |
| 2 costs of 5, 20 or 1000 tenths of a cent, lines of 1 to 3 units, 4 equal lines | `ImportShipment` | shares that round up, down and to nothing, a last share below nothing; a second allocation over the first |
| 3 or 4 returns and refunds, one unit a line | `Returns` | two documents that want the same unit, the same money or the same credit |
| 3 sessions, 2 passwords, lives of 1 and 2 ticks | `Session` | a login, its successor and a stranger; a change between read and write; expiry of each token before the other |
| 2 shifts, 2 moves, 1 expense | `Shift` | a second shift after the first was ended; a settlement, its reversal and one more movement |

Deadlock is not checked anywhere: a run ends when what its bounds allow is used
up.

## Proofs

Every component that has a model has proofs, and every safety invariant and
action property of the passing runs is a theorem. A theorem
holds for every value of the constants that satisfies the named ASSUMEs of the
component (TLC evaluates them on the runs), and for every choice of `Slow`, the
operations that may be overtaken, unless it says otherwise. The invariants
that are called unconditional hold however calls overlap; the others say
something only while no call was overtaken, as the code has no lock that would
let them say more. A proof module extends the components it is about:

| Proof module | Components |
|---|---|
| `InventoryWriteProofs` | `InventoryWrite` with `StockLedger`, `FifoBatches` |
| `SupplyProofs` | `StockTransfer`, `Procurement`, `ImportShipment` |
| `OnlineOrderProofs` | `OnlineOrder`, `Cart` |
| `PaymentsProofs` | `Payments`, `Returns` |
| `SalesProofs` | `WholesaleOrder`, `Checkout` |
| `BranchProofs` | `Shift`, `StockDocuments` |
| `SessionProofs` | `Session` |
| `Sums` | lemmas about sums |

Most properties compare a number with a sum over records, and a step changes
one record. `Sums` has what that takes: how `SumFunction` of the community
modules changes when its function does at one point, or gets another point;
sums over sequences; sums that are bounded or monotone, or taken in another
order. A sum is a fold, a
recursive function on sets, and what it computes is an induction. The library's
induction theorems take a predicate, which cannot be instantiated here; `Sums`
derives from well-foundedness the same principles for sets
(`NatSetInduction`, `SubsetInduction`: a set of numbers that has 0 and every
successor is `Nat`), which can.

The proofs about calls that may be overtaken have one shape. A call
keeps a plan, made from what it read. `PlanOK` (`ReadTyped` in some modules)
says what makes a plan harmless to write at any later time, and `Grows` (or
`Lasting`, `Kept`) what no step ever takes back: records are not deleted,
statuses do not return to NONE, what was shipped stays shipped. `Grows`
preserves `PlanOK`, so a write is sound whenever it comes. A call that is not
overtaken writes a plan that could be made at that moment (`PlanFresh`,
`Fresh`), which is what the conditional invariants need.

`InventoryWriteProofs`:

* `TypeCorrect` and `StockConserved` (`Conserved`), however many calls overlap.
  Each writer changes the columns and records of one row by increments, so the
  three equations are inductive together with the types; one step per action.
* `SerialNoOversell`, `SerialJournal`, `SerialSettledOnce`: if `InFlight = 1`,
  the row is never oversold, movements chain, and a reservation is settled at
  most once. None is inductive alone. What makes them true is that a call
  which is reading is alone and its captured values are still current; the
  invariant `SerialInv` says that: `OneAtATime` (at most one call reads),
  `Fresh` (what it captured is what the row holds), `JournalCurrent` (the last
  movement ends at the quantity on hand) and `NoOversell`.
* `OverlapIsBounded` (`OverlapBounded`), unconditional. That the reserved
  column never exceeds what the ACTIVE reservations hold follows from `Shared`:
  the column can be split among the reservations so that none has more than it
  still holds (a double settlement makes some shares smaller, even negative).
  The bound on overselling follows from `ClaimsBounded`: what the calls in
  flight have found room for exceeds what is available by at most `Slack`, one
  largest quantity for every call but one.
* `SerialImplementsLedger` (`LedgerImplemented`): with `InFlight = 1` every
  step is a step of `StockLedger` or a stutter under `Ledger == INSTANCE ...`
  of `InventoryWrite`. The mapping needs `Exact`: the reserved column is the
  sum of the holds, which is what the ledger computes.
* `DrawsAreFair` (`DrawIsFair`) and `FirstExpiredLeavesFirst`
  (`FirstExpiredFirstOut`), from the types alone (`BatchesTyped`), so that they
  hold of any batches. The order is sorted (`OrderIsSorted`) because expiry and
  age together tell any two batches apart: the number of batches before a batch
  is then a different one for each, below the number of all, and an injection
  between finite sets of the same size is onto. The loop is followed by
  induction (`LoopSteps`): after k batches, what is still asked for is what
  those k do not have, each of them gave its share and no other anything. That
  the records lose what was allocated is a double sum, by allocation and by
  batch. A batch that gives anything leaves nothing in those before it
  (`SharesFollowOrder`), which is the action property.

`SupplyProofs`:

* `SourceIsTracked` (`SourceTracked`), unconditional, from `Inv`: types, the
  columns of the source, and batches only for items that were dispatched.
* `StockIsHeld` (`HeldUntilDispatch`): while no call was overtaken, each item
  has the shape its transfer's status asks for (`Line`: what it holds, what
  left, which batches), and the source reserves the sum of what items hold.
* `DestinationIsTracked` (`DestinationTracked`), for receipts that list each
  item once (`ListedTimes` within {1}). The handler does not insist on that,
  and credits an item twice that is listed twice, so the hypothesis is
  needed. `Arrivals` says what is in transit and what has landed; that the
  rounded shares of a receipt miss the reported quantity by at most half a
  unit for each batch is the lemma `CreditClose`.
* `PostedIsReceived` (`ReceivedIsPosted`), unconditional, from `PurchaseInv`:
  an order has received the sum of what the postings of its receipts brought.
* `ReceiptsAreFollowed` (`OrdersFollowReceipts`): while no call was overtaken,
  `PurchaseOrderly` says what each status of an order, a receipt and a
  requisition stands for, and that what is still open fits into what was ordered
  unless receipts crowded each other.
* `CostsAllocatedToLines` (`CostsAreAllocated`), unconditional. A cost is shared
  out so that the largest line takes what the rounded shares of the others miss
  (`AllocatedIs`), so each cost's shares come to the cost; the total by variant
  is the total by cost, a double sum taken in the other order (`SumSwap`). Each
  rounded share is off by half a cent at most, so the largest is off by half a
  cent for each of the others.

`OnlineOrderProofs`:

* `CheckoutIsPostedOnce` (`CheckoutPostsOnce`) and `GoodsArePaid` (goods leave
  only if money was posted or cash on delivery asked for), unconditional.
* `CashIsCollectedOnce` (`SoldIsPaidOrCash`) if deliver and the payment
  override are not overtaken and nobody sets DISPATCHED by hand;
  `HoldsFollow` (`HoldsFollowStatus`) if reject, reserve and the payment
  override are not overtaken and nobody sets REJECTED by hand; `PaymentShows`
  (`CheckoutPaymentShown`) if the override of the status is not overtaken. The
  section on the model says what happens otherwise; the run satisfies the
  hypotheses of all three.
* `CartInvHolds` and `OrdersAreCarts` (`OrdersFollowCarts`). `CartInv` is
  inductive by itself: records are typed, a cart becomes one order and a key
  stands for one. `CartOrderly` adds that what is wanted is in the rows or
  was ordered; it rests on `CartFresh`, what a call that was not overtaken
  still sees of what it read. The run lets one call be overtaken, so a call
  is paused only while none was, which `CartInv` records.

`PaymentsProofs`:

* `PaymentsTypeCorrect`, unconditional. A slow call writes amounts it computed
  from an old read, so what it holds is typed and still names the sale, amount
  and direction of its payment (`SlowTyped`); other calls never change those
  (`Kept`).
* `PaymentsReversedOnce` (`ReversedOnce`) and `PaymentsCheckoutOnce`
  (`CheckoutPostsOnce`), unconditional. Both rest on one analysis: whatever it
  read, a handler changes the list of payments in one of five ways (`Shapes`):
  a payment, a payment by M-Pesa together with the success of its request, a
  request that moves, an allocation, a reversal. Each preserves `Reversals`
  (who reverses whom, uniqueness, and that a REVERSED payment has a reversal)
  and `Posted` (the same for requests and their payments).
* `PaymentsArePosted` (`PaidIsPosted`). The handlers are reduced to what
  they do to the books (`Effect`: money enters, a payment is undone, debt is
  written off, nothing), with amounts that are exact if the read is fresh. `Books` is inductive: `Reversals`, `Sound` (what every list of
  payments satisfies) and, while no call was overtaken and no reversal was
  reversed, `Agree` of every sale: its amount paid, its invoice and its
  allocations are the sums over its payments.
* `PaymentsMoveBalance`: the action property `BalanceFollowsPayments`, however
  calls overlap. It needs no fresh read, since the balance alone is read under
  a lock; it does need that a payment that is reversed stands (`Reversals`).
* `ReturnsInvHolds`, unconditional: the records of returns, refunds and
  exchanges are typed, a refund in cash or by bank is paid out once
  (`PaidOnce`), and the plan of a slow call stays one that may be written.
* `ReturnsOrderlyHolds`, while no call was overtaken, in three parts.
  `RequestsOrderly`: what a line has got back is what completed requests
  accepted, and with the open ones no more than was sold. `RefundsOrderly`: the
  store credit is that of completed refunds, what is granted is no more than
  was paid, and nothing is given before the return is complete. `ClaimsOrderly`:
  a return is claimed by at most one exchange and one refund that was not
  rejected, both within what was accepted.
* From these, `ReturnsAreSold` (`ReturnsFitSale`), `CreditIsRefunds`
  (`StoreCreditFollowsRefunds`) and `RefundsArePaid` (`RefundsFitPaid`). The
  last one regroups what was refunded and exchanged by return and compares it,
  return by return, with the lines that came back.

`SalesProofs`:

* `OrdersAreShipped` (`SoldIsShipped`), unconditional, from `Inv`: types,
  `FullyShipped` and `OnHand` (each row is down by the sum over the orders of
  what was shipped and not put back). Every handler replaces one order by
  another of a known form (`ApprovedAs`, `FulfilledAs`, `EndedAs`), and
  `Becomes` is all the invariant needs to know of it.
* `HoldsAreOrders` (`HoldsFollowOrder`): while no call was overtaken, each line
  of each order has the shape that the status asks for (`Line`), and each row
  reserves the sum of the holds.
* `SalesAreSoldOnce` (`SoldOnce`), `DebtIsSales` (`DebtFollowsSales`) and
  `PointsAreSales` (`PointsFollowSales`) of `Checkout`. `TillInv` is
  unconditional: types, keys that are used once, points that are not negative
  before a sale is voided. `TillOrderly` says that stock, debt, credit and
  points are the sums over the sales and redemptions. A write adds a sale or
  replaces one, and moves the account by the same amount (`FollowsAdded`,
  `FollowsReplaced`), which `TillFresh` (the plan is of this moment) lets it do.

`SessionProofs`:

* `SessionPasswordProved` (`CurrentPasswordProved`), unconditional. Alone it is
  not inductive: a slow login appends a session with a version and a password
  it read long ago. `Proves` says what such a pair is worth, that it is of an
  older version or of the current password, and `SessionInv` asks it of every
  session and of the plan of the slow call. Every write is shown to satisfy
  `Grows` (no record is lost, no session changes its pair, a new password comes
  with a new version), and `Grows` preserves the invariant.
* `SessionRotatedOnce` (`RotatedOnce`). The invariant adds that a family is
  numbered after a session there is (so that a login opens a new one) and that
  an unused reset token has set no password. A call that was not overtaken
  writes from a plan that still holds (`PlanFresh`): the session it rotates is
  not revoked, the token it redeems not used.

`BranchProofs`, the theorems about `Shift` for movements by hand of the four
types `recordCashMovement` takes (`HandKinds`):

* `ExpensesAreSettledOnce` (`ExpensesSettledOnce`), unconditional, from `Inv`:
  what the drawers have paid for expenses is the number of cash expenses that
  are settled, and an expense, its settlement and its reversal agree.
* `ShiftsAreCounted` (`ClosedIsCounted`) and `DayIsCounted`
  (`DailyMatchesShifts`), from `Orderly`: `Counted`, and `Day`, the equation
  between all drawers and the day's records from which the second follows.
* `CountsFindShelf` (the action property `CountFindsShelf`), unconditional, from
  `DocumentInv`: a count that no other document crossed carries, in every
  status and in the plan of a slow call, the variance between shelf and stock,
  which trade leaves alone.
* `DocumentsAreStock` (`StockFollowsDocuments`), from `DocumentsOrderly`: while
  no call was overtaken, stock has moved by the sum of what POSTED documents say,
  and an issue and its adjustment name each other.

Some properties had to be restated before they could be proved, because they
were true only within the bounds of their run. `CostsAreAllocated` once said
that no share is negative, which four lines refute. `DebtFollowsSales` and
`PointsFollowSales` read off the present records whether a note was made or a
sale voided (two notes, for instance, may add up to nothing); the history
fields `noteMade` and `voided` now record that it happened.

Only model-checked is `LockEnds`: it is a liveness property, and these provers
do neither fairness nor ENABLED. The `violation` runs show properties that are
false, so there is nothing to prove of them.

## Not modelled

* Costs, prices and taxes: the average unit cost of a row is an absolute write
  from an unlocked read and is the one column of it left out; prices are read
  and copied.
* Numbering of documents: a number is the count of records plus one under a
  unique key, so that of two calls that overlap one fails, which every model
  allows. `Cart` has it, since there it decides which order stands.
* Attendance, expense categories, storefront content and media, catalog,
  branches, the master data of users and customers, organization, targets:
  single-row edits under unique keys, which no other handler decides on beyond
  "exists and is active".
* Inventory views, reports, notifications, audit records: reads, and records
  that no decision reads.
* Permissions, branch scope, roles and approval limits: a request's right to
  call an operation is taken as given.
* File storage and the M-Pesa client: input and output; the provider's
  callbacks are modelled as arriving in any order and number.
* `fifo-costing.service.ts` is called by no module.

PostgreSQL's deadlock detection aborts one of two
transactions that lock rows in opposite order; an aborted call is a call that
fails, which every model allows.

## Running

    tlc -workers 2 -config InventorySerial.cfg MCInventoryWrite.tla
    tlc -workers 2 -config Sessions.cfg Session.tla
    tlapm Sums.tla
    tlapm InventoryWriteProofs.tla

and the same for `SupplyProofs`, `OnlineOrderProofs`, `PaymentsProofs`,
`SalesProofs`, `SessionProofs` and `BranchProofs`; none needs another
proof to be run first. The longest takes about nine minutes.

`PROJECT.json` lists each run with its module, configuration and properties,
the source lines of every definition, the mutants that show each property can
fail, and the hazards.
