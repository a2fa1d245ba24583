--------------------------- MODULE InventoryWrite ---------------------------
(***************************************************************************)
(* The stock writer, src/src/services/inventory-write.service.ts, with the *)
(* two other services that write an InventoryBalance row themselves:       *)
(* fulfilOrder (sales.service.ts) and completeReturn (payments.service.ts).*)
(*                                                                         *)
(* A balance row belongs to one branch and one product variant.  A call    *)
(* runs in a database transaction at PostgreSQL's default isolation, READ  *)
(* COMMITTED, and lockBalance reads the row BEFORE it takes the row lock.  *)
(* A call is therefore two steps: a read step, that captures the committed *)
(* values the handler will decide on, and a write step, at the instant the *)
(* lock is granted, that applies the writes and commits.  Nothing else can *)
(* touch the row between the lock and the commit, so those are one step.   *)
(* Prisma's increment and decrement apply to the row as it is at the lock; *)
(* every other value written is computed from what was captured.           *)
(*                                                                         *)
(* A transaction over several rows behaves, row by row, like one call per  *)
(* row whose write step is its commit: others see the old row until then.  *)
(***************************************************************************)
EXTENDS Integers, FiniteSetsExt

CONSTANTS
    Rows,             \* the (branch, variant) pairs
    NegativeAllowed,  \* rows of the branches with allowsNegativeStock
    Reservations,     \* identifiers of InventoryReservation records
    Requests,         \* the service calls; each one runs once
    Quantities,       \* the quantities a call may name
    Opening,          \* stock on hand when the run starts, by row
    InFlight          \* how many calls may be between their read and their write

ASSUME RowsAssumption == Rows # {} /\ NegativeAllowed \subseteq Rows
ASSUME ReservationsAssumption == Reservations # {} /\ IsFiniteSet(Reservations)
ASSUME QuantitiesAssumption ==
    Quantities # {} /\ IsFiniteSet(Quantities) /\ Quantities \subseteq Nat \ {0}
ASSUME OpeningAssumption == Opening \in [Rows -> Nat]
ASSUME RequestsAssumption == IsFiniteSet(Requests)
ASSUME InFlightAssumption == InFlight \in Nat \ {0}

VARIABLES
    created,      \* rows that exist in InventoryBalance
    onHand,       \* InventoryBalance.quantityOnHand
    reserved,     \* InventoryBalance.quantityReserved
    available,    \* InventoryBalance.quantityAvailable
    batched,      \* sum of InventoryBatch.quantityOnHand over the row's batches
    unbatched,    \* quantity received so far under no batch
    quarantined,  \* quantity received so far into QUARANTINED batches
    moved,        \* sum of InventoryMovement.quantity
    lastMove,     \* quantityBefore and quantityAfter of the latest movement
    reservation,  \* the InventoryReservation records
    phase,        \* how far each call has come
    call,         \* what each call was asked
    seen          \* what each call read before it waited for the lock

balanceVars == <<created, onHand, reserved, available>>
stockVars == <<batched, unbatched, quarantined, moved, lastMove>>
vars == <<balanceVars, stockVars, reservation, phase, call, seen>>

Kinds == {"none", "receive", "quarantine", "reserve", "release", "fulfil",
          "fulfilPart", "deduct"}
Calls == [kind: Kinds, row: Rows, qty: Nat, res: Reservations, batch: BOOLEAN]
Statuses == {"NONE", "ACTIVE", "RELEASED", "FULFILLED"}
Records == [status: Statuses, row: Rows, qty: Nat]
Snapshots == [exists: BOOLEAN, onHand: Int, available: Int,
              status: Statuses, held: Nat]
Moves == [before: Int, after: Int]

TypeOK ==
    /\ created \subseteq Rows
    /\ onHand \in [Rows -> Int]
    /\ reserved \in [Rows -> Int]
    /\ available \in [Rows -> Int]
    /\ batched \in [Rows -> Int]
    /\ unbatched \in [Rows -> Nat]
    /\ quarantined \in [Rows -> Nat]
    /\ moved \in [Rows -> Int]
    /\ lastMove \in [Rows -> Moves]
    /\ reservation \in [Reservations -> Records]
    /\ phase \in [Requests -> {"new", "reading", "done", "failed"}]
    /\ call \in [Requests -> Calls]
    /\ seen \in [Requests -> Snapshots]

-----------------------------------------------------------------------------
\* A row with opening stock got it from one batched receipt.

NoRow == CHOOSE r \in Rows : TRUE
NoReservation == CHOOSE i \in Reservations : TRUE
Call(kind, r, q, i, b) ==
    [kind |-> kind, row |-> r, qty |-> q, res |-> i, batch |-> b]
NoCall == Call("none", NoRow, 0, NoReservation, FALSE)
NothingSeen == [exists |-> FALSE, onHand |-> 0, available |-> 0,
                status |-> "NONE", held |-> 0]

Init ==
    /\ created = {r \in Rows : Opening[r] > 0}
    /\ onHand = Opening
    /\ reserved = [r \in Rows |-> 0]
    /\ available = Opening
    /\ batched = Opening
    /\ unbatched = [r \in Rows |-> 0]
    /\ quarantined = [r \in Rows |-> 0]
    /\ moved = Opening
    /\ lastMove = [r \in Rows |-> [before |-> 0, after |-> Opening[r]]]
    /\ reservation = [i \in Reservations |->
                        [status |-> "NONE", row |-> NoRow, qty |-> 0]]
    /\ phase = [p \in Requests |-> "new"]
    /\ call = [p \in Requests |-> NoCall]
    /\ seen = [p \in Requests |-> NothingSeen]

-----------------------------------------------------------------------------
(***************************************************************************)
(* The read step.  lockBalance's findUnique, and for a reservation the     *)
(* findUnique (or fulfilOrder's findFirst) that precedes it.  They are     *)
(* taken at one instant: reading the balance a little later would only     *)
(* narrow the window.                                                      *)
(***************************************************************************)
Snapshot(c) ==
    [exists |-> c.row \in created,
     onHand |-> onHand[c.row],
     available |-> available[c.row],
     status |-> reservation[c.res].status,
     held |-> reservation[c.res].qty]

Reading == {p \in Requests : phase[p] = "reading"}

Begin(p, c) ==
    /\ phase[p] = "new"
    /\ Cardinality(Reading) < InFlight
    /\ phase' = [phase EXCEPT ![p] = "reading"]
    /\ call' = [call EXCEPT ![p] = c]
    /\ seen' = [seen EXCEPT ![p] = Snapshot(c)]
    /\ UNCHANGED <<balanceVars, stockVars, reservation>>

BeginReceive(p, r, q, b) == Begin(p, Call("receive", r, q, NoReservation, b))
BeginQuarantine(p, r, q) == Begin(p, Call("quarantine", r, q, NoReservation, TRUE))
BeginReserve(p, r, q) == Begin(p, Call("reserve", r, q, NoReservation, FALSE))
BeginDeduct(p, r, q) == Begin(p, Call("deduct", r, q, NoReservation, FALSE))

\* releaseReservation and fulfillReservation take the quantity they will
\* move from the reservation they read, fulfilOrder from its input.
BeginRelease(p, i) ==
    Begin(p, Call("release", reservation[i].row, reservation[i].qty, i, FALSE))
BeginFulfil(p, i) ==
    Begin(p, Call("fulfil", reservation[i].row, reservation[i].qty, i, FALSE))
BeginFulfilPart(p, i, q) ==
    Begin(p, Call("fulfilPart", reservation[i].row, q, i, FALSE))

\* adjustStock: a positive variance is received, a negative one deducted.
BeginAdjust(p, r, variance) ==
    IF variance > 0 THEN BeginReceive(p, r, variance, FALSE)
                    ELSE variance < 0 /\ BeginDeduct(p, r, -variance)

-----------------------------------------------------------------------------
(***************************************************************************)
(* The write step.  A call whose row did not exist creates it first; when  *)
(* another call created it meanwhile, the unique key fails the call.       *)
(***************************************************************************)
Forget(p) ==
    /\ call' = [call EXCEPT ![p] = NoCall]
    /\ seen' = [seen EXCEPT ![p] = NothingSeen]

Writing(p, kind) ==
    /\ phase[p] = "reading"
    /\ call[p].kind = kind
    /\ seen[p].exists \/ call[p].row \notin created
    /\ phase' = [phase EXCEPT ![p] = "done"]
    /\ created' = created \cup {call[p].row}
    /\ Forget(p)

Add(f, r, q) == [f EXCEPT ![r] = f[r] + q]

FaultyLogMovement(p, q) ==
    LET r == call[p].row
    IN  /\ moved' = Add(moved, r, q)
        /\ lastMove' = [lastMove EXCEPT ![r] =
                          [before |-> seen[p].available,
                           after |-> seen[p].available + q]]

\* The movement's quantity is exact, its before and after are captured.
LogMovement(p, q) ==
    LET r == call[p].row
    IN  /\ moved' = Add(moved, r, q)
        /\ lastMove' = [lastMove EXCEPT ![r] =
                          [before |-> seen[p].onHand, after |-> seen[p].onHand + q]]

FaultyCovered(p) ==
    \/ seen[p].onHand >= call[p].qty
    \/ call[p].row \in NegativeAllowed

\* The availability check of reserveStock and deductStock.
Covered(p) ==
    \/ seen[p].available >= call[p].qty
    \/ call[p].row \in NegativeAllowed

FaultyStillActive(p) == seen[p].status \in {"ACTIVE", "RELEASED"}

\* The status check of releaseReservation, fulfillReservation, fulfilOrder.
StillActive(p) == seen[p].status = "ACTIVE"

FaultyWithinHold(p) == TRUE

\* fulfilOrder ships no more than the reservation it read.
WithinHold(p) == call[p].qty <= seen[p].held

FaultyRemainder(p) == seen[p].held

\* What fulfilOrder writes back as the reservation's quantity.
Remainder(p) == seen[p].held - call[p].qty

ReceiveStock(p) ==
    LET r == call[p].row
        q == call[p].qty
    IN  /\ Writing(p, "receive")
        /\ q > 0
        /\ onHand' = Add(onHand, r, q)
        /\ available' = Add(available, r, q)
        /\ IF call[p].batch
             THEN batched' = Add(batched, r, q) /\ UNCHANGED unbatched
             ELSE unbatched' = Add(unbatched, r, q) /\ UNCHANGED batched
        /\ LogMovement(p, q)
        /\ UNCHANGED <<reserved, quarantined, reservation>>

\* The QUARANTINE disposition of completeReturn: on hand, never available.
QuarantineReturn(p) ==
    LET r == call[p].row
        q == call[p].qty
    IN  /\ Writing(p, "quarantine")
        /\ onHand' = Add(onHand, r, q)
        /\ batched' = Add(batched, r, q)
        /\ quarantined' = Add(quarantined, r, q)
        /\ LogMovement(p, q)
        /\ UNCHANGED <<reserved, available, unbatched, reservation>>

ReserveStock(p) ==
    LET r == call[p].row
        q == call[p].qty
    IN  /\ Writing(p, "reserve")
        /\ Covered(p)
        /\ \E i \in Reservations :                     \* a new record
             /\ reservation[i].status = "NONE"
             /\ reservation' = [reservation EXCEPT ![i] =
                                  [status |-> "ACTIVE", row |-> r, qty |-> q]]
        /\ reserved' = Add(reserved, r, q)
        /\ available' = Add(available, r, -q)
        /\ UNCHANGED <<onHand, stockVars>>

FaultyReleaseReservation(p) ==
    LET r == call[p].row
        q == call[p].qty
    IN  /\ Writing(p, "release")
        /\ StillActive(p)
        /\ reservation' = [reservation EXCEPT ![call[p].res].status = "RELEASED"]
        /\ available' = Add(available, r, q)
        /\ UNCHANGED <<onHand, reserved, stockVars>>

ReleaseReservation(p) ==
    LET r == call[p].row
        q == call[p].qty
    IN  /\ Writing(p, "release")
        /\ StillActive(p)
        /\ reservation' = [reservation EXCEPT ![call[p].res].status = "RELEASED"]
        /\ reserved' = Add(reserved, r, -q)
        /\ available' = Add(available, r, q)
        /\ UNCHANGED <<onHand, stockVars>>

\* deductFromBatchesFIFO takes exactly q from the batches (module FifoBatches).
FulfillReservation(p) ==
    LET r == call[p].row
        q == call[p].qty
    IN  /\ Writing(p, "fulfil")
        /\ StillActive(p)
        /\ reservation' = [reservation EXCEPT ![call[p].res].status = "FULFILLED"]
        /\ onHand' = Add(onHand, r, -q)
        /\ reserved' = Add(reserved, r, -q)
        /\ batched' = Add(batched, r, -q)
        /\ LogMovement(p, -q)
        /\ UNCHANGED <<available, unbatched, quarantined>>

\* fulfilOrder ships part of a wholesale reservation: the last part fulfils
\* it, an earlier one writes back the remainder it computed.
FulfilOrderItem(p) ==
    LET r == call[p].row
        q == call[p].qty
    IN  /\ Writing(p, "fulfilPart")
        /\ StillActive(p)
        /\ WithinHold(p)
        /\ reservation' =
             IF Remainder(p) = 0
               THEN [reservation EXCEPT ![call[p].res].status = "FULFILLED"]
               ELSE [reservation EXCEPT ![call[p].res].qty = Remainder(p)]
        /\ onHand' = Add(onHand, r, -q)
        /\ reserved' = Add(reserved, r, -q)
        /\ batched' = Add(batched, r, -q)
        /\ LogMovement(p, -q)
        /\ UNCHANGED <<available, unbatched, quarantined>>

DeductStock(p) ==
    LET r == call[p].row
        q == call[p].qty
    IN  /\ Writing(p, "deduct")
        /\ q > 0
        /\ Covered(p)
        /\ onHand' = Add(onHand, r, -q)
        /\ available' = Add(available, r, -q)
        /\ batched' = Add(batched, r, -q)
        /\ LogMovement(p, -q)
        /\ UNCHANGED <<reserved, unbatched, quarantined, reservation>>

\* A refused call, or one whose surrounding transaction fails later, leaves
\* nothing behind; a release or fulfilment of a reservation that is not
\* ACTIVE returns without a write, which is the same.
Abandon(p) ==
    /\ phase[p] = "reading"
    /\ phase' = [phase EXCEPT ![p] = "failed"]
    /\ Forget(p)
    /\ UNCHANGED <<balanceVars, stockVars, reservation>>

-----------------------------------------------------------------------------
BeginCall(p) ==
    \/ \E r \in Rows, q \in Quantities :
         \/ \E b \in BOOLEAN : BeginReceive(p, r, q, b)
         \/ \E variance \in {q, -q} : BeginAdjust(p, r, variance)
         \/ BeginQuarantine(p, r, q)
         \/ BeginDeduct(p, r, q)
         \/ BeginReserve(p, r, q)
    \/ \E i \in Reservations :
         /\ reservation[i].status # "NONE"
         /\ \/ BeginRelease(p, i)
            \/ BeginFulfil(p, i)
            \/ \E q \in Quantities : BeginFulfilPart(p, i, q)

FinishCall(p) ==
    \/ ReceiveStock(p)
    \/ QuarantineReturn(p)
    \/ ReserveStock(p)
    \/ ReleaseReservation(p)
    \/ FulfillReservation(p)
    \/ FulfilOrderItem(p)
    \/ DeductStock(p)
    \/ Abandon(p)

Next == \E p \in Requests : BeginCall(p) \/ FinishCall(p)

Spec == Init /\ [][Next]_vars

-----------------------------------------------------------------------------
\* Every unit on hand is promised, free or in quarantine, however calls
\* overlap: the three balance columns move together in every writer.
PhysicalSplit ==
    \A r \in Rows : onHand[r] = reserved[r] + available[r] + quarantined[r]

\* The movement journal adds up to the stock on hand, however calls overlap:
\* no writer changes quantityOnHand without logging it.
JournalMatches == \A r \in Rows : onHand[r] = moved[r]

\* The batches add up to the stock on hand less what came in under no batch:
\* a deduction always leaves the batches by its full quantity.
BatchesMatch == \A r \in Rows : onHand[r] = batched[r] + unbatched[r]

\* However calls overlap, no writer changes one of the four records of a
\* row's stock and forgets another.
Conserved == PhysicalSplit /\ JournalMatches /\ BatchesMatch

\* With calls one at a time, no branch without allowsNegativeStock promises
\* or sells more than it has: the check of reserveStock and deductStock.
NoOversell ==
    \A r \in Rows \ NegativeAllowed : available[r] >= 0

Held(i, r) ==
    IF reservation[i].status = "ACTIVE" /\ reservation[i].row = r
      THEN reservation[i].qty ELSE 0

HeldFor(r) == SumFunction([i \in Reservations |-> Held(i, r)])

Largest == Max(Quantities)

\* However calls overlap: quantityReserved never exceeds what the ACTIVE
\* reservations hold, for a double release loses a promise and never invents
\* one; and a row is oversold by at most one largest call for each call that
\* can be in flight beside another, however many follow.
OverlapBounded ==
    /\ \A r \in Rows : reserved[r] <= HeldFor(r)
    /\ \A r \in Rows \ NegativeAllowed :
         available[r] >= -((InFlight - 1) * Largest)

\* With calls one at a time, each movement starts where the previous one on
\* its row ended: quantityBefore is the previous quantityAfter.
JournalChained ==
    [][\A r \in Rows : lastMove'[r] # lastMove[r]
                         => lastMove'[r].before = lastMove[r].after]_vars

\* releaseReservation "Releases an active reservation": one that was already
\* released or fulfilled is never settled a second time, so no call moves the
\* balance for a reservation that is no longer ACTIVE.
SettledOnce ==
    [][\A p \in Requests :
         /\ phase[p] = "reading" /\ phase'[p] = "done"
         /\ call[p].kind \in {"release", "fulfil", "fulfilPart"}
         => reservation[call[p].res].status = "ACTIVE"]_vars

\* The reservations that are ACTIVE are the holds of the ledger.
LedgerHolds ==
    [i \in Reservations |-> [row |-> reservation[i].row,
                             qty |-> reservation[i].qty,
                             active |-> reservation[i].status = "ACTIVE"]]

Ledger == INSTANCE StockLedger WITH
    stock <- onHand, aside <- quarantined, holds <- LedgerHolds

\* With calls one at a time, the four stored columns behave as the ledger
\* that computes its free stock: every call is one ledger step or none.
LedgerImplemented == Ledger!Spec
=============================================================================
