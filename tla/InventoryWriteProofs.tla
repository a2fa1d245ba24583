------------------------- MODULE InventoryWriteProofs -------------------------
(***************************************************************************)
(* Proofs about InventoryWrite, for every number of rows, reservations and *)
(* calls: what holds however calls overlap, and what needs them to run one *)
(* at a time, up to the refinement of StockLedger.  Then about the batches *)
(* a row is split into, FifoBatches, for every number of batches, every    *)
(* expiry date and every quantity: how deductFromBatchesFIFO draws.        *)
(***************************************************************************)
EXTENDS InventoryWrite, FifoBatches, Sums

LEMMA CallTyped ==
    ASSUME NEW k \in Kinds, NEW r \in Rows, NEW q \in Nat,
           NEW i \in Reservations, NEW b \in BOOLEAN
    PROVE  Call(k, r, q, i, b) \in Calls
BY DEF Call, Calls

LEMMA NoCallType == NoCall \in Calls /\ NothingSeen \in Snapshots
<1>1. NoRow \in Rows
  BY RowsAssumption DEF NoRow
<1>2. NoReservation \in Reservations
  BY ReservationsAssumption DEF NoReservation
<1>3. NoCall \in Calls
  BY <1>1, <1>2, CallTyped DEF NoCall, Kinds
<1>4. QED
  BY <1>3 DEF NothingSeen, Snapshots, Statuses

LEMMA InitType == Init => TypeOK
<1> SUFFICES ASSUME Init PROVE TypeOK
  OBVIOUS
<1>1. NoRow \in Rows
  BY RowsAssumption DEF NoRow
<1>2. Opening \in [Rows -> Int]
  BY OpeningAssumption
<1>3. lastMove \in [Rows -> Moves]
  BY <1>2 DEF Init, Moves
<1>4. reservation \in [Reservations -> Records]
  BY <1>1 DEF Init, Records, Statuses
<1>5. QED
  BY <1>2, <1>3, <1>4, NoCallType DEF Init, TypeOK

\* The read step only touches the call's own bookkeeping.
LEMMA BeginType ==
    ASSUME TypeOK, NEW p \in Requests, NEW c \in Calls, Begin(p, c)
    PROVE  TypeOK'
<1>1. Snapshot(c) \in Snapshots
  <2>1. reservation[c.res] \in Records
    BY DEF TypeOK, Calls
  <2>2. QED
    BY <2>1 DEF TypeOK, Calls, Records, Snapshot, Snapshots
<1>2. QED
  BY <1>1 DEF TypeOK, Begin, balanceVars, stockVars

Settling == {"release", "fulfil", "fulfilPart"}
Promising == {"reserve", "deduct"}

\* What a call that begins now is asked.
Proper(c) ==
    IF c.kind \in Settling
      THEN /\ reservation[c.res].status # "NONE"
           /\ c.row = reservation[c.res].row
           /\ IF c.kind = "fulfilPart" THEN c.qty \in Quantities
                                       ELSE c.qty = reservation[c.res].qty
      ELSE c.qty \in Quantities

\* The calls the handlers make are well typed and proper, whichever request
\* makes them.
LEMMA BeginCallProper ==
    ASSUME TypeOK, NEW p \in Requests, BeginCall(p)
    PROVE  \E c \in Calls : Begin(p, c) /\ Proper(c)
<1>1. NoReservation \in Reservations
  BY ReservationsAssumption DEF NoReservation
<1>2. ASSUME NEW r \in Rows, NEW q \in Quantities, NEW k \in Kinds \ Settling,
             NEW b \in BOOLEAN, Begin(p, Call(k, r, q, NoReservation, b))
      PROVE  \E c \in Calls : Begin(p, c) /\ Proper(c)
  <2> DEFINE c == Call(k, r, q, NoReservation, b)
  <2>1. c \in Calls
    BY <1>1, CallTyped, QuantitiesAssumption
  <2>2. Proper(c)
    BY DEF Proper, Call
  <2>3. QED
    BY <1>2, <2>1, <2>2
<1>3. ASSUME NEW i \in Reservations, reservation[i].status # "NONE",
             NEW k \in Settling, NEW q \in Nat,
             IF k = "fulfilPart" THEN q \in Quantities ELSE q = reservation[i].qty,
             Begin(p, Call(k, reservation[i].row, q, i, FALSE))
      PROVE  \E c \in Calls : Begin(p, c) /\ Proper(c)
  <2> DEFINE c == Call(k, reservation[i].row, q, i, FALSE)
  <2>1. reservation[i].row \in Rows /\ k \in Kinds
    BY DEF TypeOK, Records, Settling, Kinds
  <2>2. c \in Calls
    BY <2>1, CallTyped
  <2>3. Proper(c)
    BY <1>3 DEF Proper, Call
  <2>4. QED
    BY <1>3, <2>2, <2>3
<1>4. ASSUME NEW i \in Reservations
      PROVE  reservation[i].qty \in Nat
  BY DEF TypeOK, Records
<1>5. CASE \E r \in Rows, q \in Quantities :
             \/ \E b \in BOOLEAN : BeginReceive(p, r, q, b)
             \/ BeginQuarantine(p, r, q)
             \/ BeginDeduct(p, r, q)
             \/ BeginReserve(p, r, q)
  BY <1>2, <1>5
     DEF BeginReceive, BeginQuarantine, BeginDeduct, BeginReserve, Kinds, Settling
<1>6. CASE \E r \in Rows, q \in Quantities : \E variance \in {q, -q} :
             BeginAdjust(p, r, variance)
  <2>1. PICK r \in Rows, q \in Quantities :
             BeginAdjust(p, r, q) \/ BeginAdjust(p, r, -q)
    BY <1>6
  <2>2. q \in Nat /\ q > 0 /\ ~(-q > 0) /\ -(-q) = q
    BY QuantitiesAssumption
  <2>3. CASE BeginAdjust(p, r, q)
    <3>1. BeginReceive(p, r, q, FALSE)
      BY <2>3, <2>2 DEF BeginAdjust
    <3>2. QED
      BY <3>1, <1>2 DEF BeginReceive, Kinds, Settling
  <2>4. CASE BeginAdjust(p, r, -q)
    <3>1. BeginDeduct(p, r, -(-q))
      BY <2>4, <2>2 DEF BeginAdjust
    <3>2. BeginDeduct(p, r, q)
      BY <3>1, <2>2 DEF BeginDeduct
    <3>3. QED
      BY <3>2, <1>2 DEF BeginDeduct, Kinds, Settling
  <2>5. QED
    BY <2>1, <2>3, <2>4
<1>7. ASSUME NEW i \in Reservations, reservation[i].status # "NONE",
             \/ BeginRelease(p, i)
             \/ BeginFulfil(p, i)
             \/ \E q \in Quantities : BeginFulfilPart(p, i, q)
      PROVE  \E c \in Calls : Begin(p, c) /\ Proper(c)
  <2>1. CASE BeginRelease(p, i) \/ BeginFulfil(p, i)
    BY <1>3, <1>4, <1>7, <2>1 DEF BeginRelease, BeginFulfil, Settling
  <2>2. CASE \E q \in Quantities : BeginFulfilPart(p, i, q)
    BY <1>3, <1>7, <2>2, QuantitiesAssumption DEF BeginFulfilPart, Settling
  <2>3. QED
    BY <1>7, <2>1, <2>2
<1>8. QED
  BY <1>5, <1>6, <1>7 DEF BeginCall

LEMMA BeginCallType ==
    ASSUME TypeOK, NEW p \in Requests, BeginCall(p)
    PROVE  \E c \in Calls : Begin(p, c)
BY BeginCallProper

\* What every write step does to the bookkeeping of its call.
LEMMA WritingType ==
    ASSUME TypeOK, NEW p \in Requests, NEW k \in Kinds, Writing(p, k)
    PROVE  /\ call[p] \in Calls /\ seen[p] \in Snapshots
           /\ created' \subseteq Rows
           /\ phase' \in [Requests -> {"new", "reading", "done", "failed"}]
           /\ call' \in [Requests -> Calls]
           /\ seen' \in [Requests -> Snapshots]
<1>1. call[p] \in Calls /\ seen[p] \in Snapshots
  BY DEF TypeOK
<1>2. call[p].row \in Rows
  BY <1>1 DEF Calls
<1>3. QED
  BY <1>1, <1>2, NoCallType DEF TypeOK, Writing, Forget

LEMMA AddType ==
    ASSUME NEW f \in [Rows -> Int], NEW r \in Rows, NEW q \in Int
    PROVE  /\ Add(f, r, q) \in [Rows -> Int]
           /\ Add(f, r, q)[r] = f[r] + q
           /\ \A s \in Rows \ {r} : Add(f, r, q)[s] = f[s]
BY DEF Add

LEMMA AddNatType ==
    ASSUME NEW f \in [Rows -> Nat], NEW r \in Rows, NEW q \in Nat
    PROVE  Add(f, r, q) \in [Rows -> Nat]
BY DEF Add

LEMMA LogType ==
    ASSUME TypeOK, NEW p \in Requests, NEW q \in Int, LogMovement(p, q)
    PROVE  moved' \in [Rows -> Int] /\ lastMove' \in [Rows -> Moves]
<1>1. call[p].row \in Rows /\ seen[p].onHand \in Int
  BY DEF TypeOK, Calls, Snapshots
<1>2. [before |-> seen[p].onHand, after |-> seen[p].onHand + q] \in Moves
  BY <1>1 DEF Moves
<1>3. moved' \in [Rows -> Int]
  BY <1>1, AddType DEF TypeOK, LogMovement
<1>4. lastMove' \in [Rows -> Moves]
  BY <1>1, <1>2 DEF TypeOK, LogMovement
<1>5. QED
  BY <1>3, <1>4

\* A step of any call keeps every variable in its type.
LEMMA FinishType ==
    ASSUME TypeOK, NEW p \in Requests, FinishCall(p)
    PROVE  TypeOK'
<1> DEFINE r == call[p].row
           q == call[p].qty
<1>1. r \in Rows /\ q \in Nat /\ -q \in Int /\ q \in Int
  BY DEF TypeOK, Calls
<1>2. call[p].res \in Reservations
  BY DEF TypeOK, Calls
<1>3. seen[p] \in Snapshots
  BY DEF TypeOK
<1> HIDE DEF r, q
<1>4. CASE ReceiveStock(p)
  <2>1. Writing(p, "receive") /\ LogMovement(p, q)
    BY <1>4 DEF ReceiveStock, q
  <2>2. onHand' \in [Rows -> Int] /\ available' \in [Rows -> Int]
    BY <1>4, <1>1, AddType DEF ReceiveStock, TypeOK, r, q
  <2>3. batched' \in [Rows -> Int] /\ unbatched' \in [Rows -> Nat]
    <3>1. CASE call[p].batch
      <4>1. batched' = Add(batched, r, q) /\ unbatched' = unbatched
        BY <3>1, <1>4 DEF ReceiveStock, r, q
      <4>2. QED
        BY <4>1, <1>1, AddType DEF TypeOK
    <3>2. CASE ~call[p].batch
      <4>1. batched' = batched /\ unbatched' = Add(unbatched, r, q)
        BY <3>2, <1>4 DEF ReceiveStock, r, q
      <4>2. QED
        BY <4>1, <1>1, AddNatType DEF TypeOK
    <3>3. QED
      BY <3>1, <3>2
  <2>4. QED
    BY <2>1, <2>2, <2>3, <1>1, <1>4, WritingType, LogType
       DEF ReceiveStock, TypeOK, Kinds
<1>5. CASE QuarantineReturn(p)
  <2>1. Writing(p, "quarantine") /\ LogMovement(p, q)
    BY <1>5 DEF QuarantineReturn, q
  <2>2. onHand' \in [Rows -> Int] /\ batched' \in [Rows -> Int]
    BY <1>5, <1>1, AddType DEF QuarantineReturn, TypeOK, r, q
  <2>3. quarantined' \in [Rows -> Nat]
    BY <1>5, <1>1, AddNatType DEF QuarantineReturn, TypeOK, r, q
  <2>4. QED
    BY <2>1, <2>2, <2>3, <1>1, <1>5, WritingType, LogType
       DEF QuarantineReturn, TypeOK, Kinds
<1>6. CASE ReserveStock(p)
  <2>1. Writing(p, "reserve")
    BY <1>6 DEF ReserveStock
  <2>2. reserved' \in [Rows -> Int] /\ available' \in [Rows -> Int]
    BY <1>6, <1>1, AddType DEF ReserveStock, TypeOK, r, q
  <2>3. [status |-> "ACTIVE", row |-> r, qty |-> q] \in Records
    BY <1>1 DEF Records, Statuses
  <2>4. reservation' \in [Reservations -> Records]
    BY <1>6, <2>3 DEF ReserveStock, TypeOK, r, q
  <2>5. QED
    BY <2>1, <2>2, <2>4, <1>6, WritingType
       DEF ReserveStock, TypeOK, Kinds, stockVars
<1>7. CASE ReleaseReservation(p)
  <2>1. Writing(p, "release")
    BY <1>7 DEF ReleaseReservation
  <2>2. reserved' \in [Rows -> Int] /\ available' \in [Rows -> Int]
    BY <1>7, <1>1, AddType DEF ReleaseReservation, TypeOK, r, q
  <2>3. reservation' \in [Reservations -> Records]
    BY <1>7, <1>2 DEF ReleaseReservation, TypeOK, Records, Statuses
  <2>4. QED
    BY <2>1, <2>2, <2>3, <1>7, WritingType
       DEF ReleaseReservation, TypeOK, Kinds, stockVars
<1>8. CASE FulfillReservation(p)
  <2>1. Writing(p, "fulfil") /\ LogMovement(p, -q)
    BY <1>8 DEF FulfillReservation, q
  <2>2. /\ onHand' \in [Rows -> Int] /\ reserved' \in [Rows -> Int]
        /\ batched' \in [Rows -> Int]
    BY <1>8, <1>1, AddType DEF FulfillReservation, TypeOK, r, q
  <2>3. reservation' \in [Reservations -> Records]
    BY <1>8, <1>2 DEF FulfillReservation, TypeOK, Records, Statuses
  <2>4. QED
    BY <2>1, <2>2, <2>3, <1>1, <1>8, WritingType, LogType
       DEF FulfillReservation, TypeOK, Kinds
<1>9. CASE FulfilOrderItem(p)
  <2>1. Writing(p, "fulfilPart") /\ LogMovement(p, -q)
    BY <1>9 DEF FulfilOrderItem, q
  <2>2. /\ onHand' \in [Rows -> Int] /\ reserved' \in [Rows -> Int]
        /\ batched' \in [Rows -> Int]
    BY <1>9, <1>1, AddType DEF FulfilOrderItem, TypeOK, r, q
  <2>3. Remainder(p) \in Nat
    BY <1>9, <1>1, <1>3 DEF FulfilOrderItem, WithinHold, Remainder, Snapshots, q
  <2>4. reservation' \in [Reservations -> Records]
    <3>1. CASE Remainder(p) = 0
      BY <3>1, <1>9, <1>2 DEF FulfilOrderItem, TypeOK, Records, Statuses, q
    <3>2. CASE Remainder(p) # 0
      BY <3>2, <2>3, <1>9, <1>2 DEF FulfilOrderItem, TypeOK, Records, q
    <3>3. QED
      BY <3>1, <3>2
  <2>5. QED
    BY <2>1, <2>2, <2>4, <1>1, <1>9, WritingType, LogType
       DEF FulfilOrderItem, TypeOK, Kinds
<1>10. CASE DeductStock(p)
  <2>1. Writing(p, "deduct") /\ LogMovement(p, -q)
    BY <1>10 DEF DeductStock, q
  <2>2. /\ onHand' \in [Rows -> Int] /\ available' \in [Rows -> Int]
        /\ batched' \in [Rows -> Int]
    BY <1>10, <1>1, AddType DEF DeductStock, TypeOK, r, q
  <2>3. QED
    BY <2>1, <2>2, <1>1, <1>10, WritingType, LogType
       DEF DeductStock, TypeOK, Kinds
<1>11. CASE Abandon(p)
  BY <1>11, NoCallType DEF Abandon, Forget, TypeOK, balanceVars, stockVars
<1>12. QED
  BY <1>4, <1>5, <1>6, <1>7, <1>8, <1>9, <1>10, <1>11 DEF FinishCall

LEMMA NextType == TypeOK /\ [Next]_vars => TypeOK'
<1> SUFFICES ASSUME TypeOK, [Next]_vars PROVE TypeOK'
  OBVIOUS
<1>1. CASE Next
  BY <1>1, BeginCallType, BeginType, FinishType DEF Next
<1>2. CASE UNCHANGED vars
  BY <1>2 DEF vars, balanceVars, stockVars, TypeOK
<1>3. QED
  BY <1>1, <1>2

\* Every reachable state is well typed: quantities stay integers, the
\* reservations' quantities stay natural numbers.
THEOREM TypeCorrect == Spec => []TypeOK
BY InitType, NextType, PTL DEF Spec

-----------------------------------------------------------------------------
(***************************************************************************)
(* The conservation laws: they need nothing of the values that were read,  *)
(* so overlapping calls cannot break them.                                 *)
(***************************************************************************)
LEMMA ConservedInit == Init => Conserved
BY OpeningAssumption
   DEF Init, Conserved, PhysicalSplit, JournalMatches, BatchesMatch

LEMMA ConservedFinish ==
    ASSUME TypeOK, Conserved, NEW p \in Requests, FinishCall(p)
    PROVE  Conserved'
<1> DEFINE r == call[p].row
           q == call[p].qty
<1>1. r \in Rows /\ q \in Int /\ -q \in Int
  BY DEF TypeOK, Calls
<1>2. /\ onHand \in [Rows -> Int] /\ reserved \in [Rows -> Int]
      /\ available \in [Rows -> Int] /\ batched \in [Rows -> Int]
      /\ unbatched \in [Rows -> Int] /\ quarantined \in [Rows -> Int]
      /\ moved \in [Rows -> Int]
  BY DEF TypeOK
<1> HIDE DEF r, q
<1>3. CASE ReceiveStock(p)
  <2>1. /\ onHand' = Add(onHand, r, q) /\ available' = Add(available, r, q)
        /\ moved' = Add(moved, r, q)
        /\ reserved' = reserved /\ quarantined' = quarantined
    BY <1>3 DEF ReceiveStock, LogMovement, r, q
  <2>2. \/ batched' = Add(batched, r, q) /\ unbatched' = unbatched
        \/ batched' = batched /\ unbatched' = Add(unbatched, r, q)
    BY <1>3 DEF ReceiveStock, r, q
  <2>3. QED
    BY <1>1, <1>2, <2>1, <2>2
       DEF Add, Conserved, PhysicalSplit, JournalMatches, BatchesMatch
<1>4. CASE QuarantineReturn(p)
  <2>1. /\ onHand' = Add(onHand, r, q) /\ batched' = Add(batched, r, q)
        /\ moved' = Add(moved, r, q) /\ quarantined' = Add(quarantined, r, q)
        /\ reserved' = reserved /\ available' = available
        /\ unbatched' = unbatched
    BY <1>4 DEF QuarantineReturn, LogMovement, r, q
  <2>2. QED
    BY <1>1, <1>2, <2>1
       DEF Add, Conserved, PhysicalSplit, JournalMatches, BatchesMatch
<1>5. CASE ReserveStock(p)
  <2>1. /\ reserved' = Add(reserved, r, q) /\ available' = Add(available, r, -q)
        /\ UNCHANGED <<onHand, batched, unbatched, quarantined, moved>>
    BY <1>5 DEF ReserveStock, stockVars, r, q
  <2>2. QED
    BY <1>1, <1>2, <2>1
       DEF Add, Conserved, PhysicalSplit, JournalMatches, BatchesMatch
<1>6. CASE ReleaseReservation(p)
  <2>1. /\ reserved' = Add(reserved, r, -q) /\ available' = Add(available, r, q)
        /\ UNCHANGED <<onHand, batched, unbatched, quarantined, moved>>
    BY <1>6 DEF ReleaseReservation, stockVars, r, q
  <2>2. QED
    BY <1>1, <1>2, <2>1
       DEF Add, Conserved, PhysicalSplit, JournalMatches, BatchesMatch
<1>7. CASE FulfillReservation(p) \/ FulfilOrderItem(p)
  <2>1. /\ onHand' = Add(onHand, r, -q) /\ reserved' = Add(reserved, r, -q)
        /\ batched' = Add(batched, r, -q) /\ moved' = Add(moved, r, -q)
        /\ UNCHANGED <<available, unbatched, quarantined>>
    BY <1>7 DEF FulfillReservation, FulfilOrderItem, LogMovement, r, q
  <2>2. QED
    BY <1>1, <1>2, <2>1
       DEF Add, Conserved, PhysicalSplit, JournalMatches, BatchesMatch
<1>8. CASE DeductStock(p)
  <2>1. /\ onHand' = Add(onHand, r, -q) /\ available' = Add(available, r, -q)
        /\ batched' = Add(batched, r, -q) /\ moved' = Add(moved, r, -q)
        /\ UNCHANGED <<reserved, unbatched, quarantined>>
    BY <1>8 DEF DeductStock, LogMovement, r, q
  <2>2. QED
    BY <1>1, <1>2, <2>1
       DEF Add, Conserved, PhysicalSplit, JournalMatches, BatchesMatch
<1>9. CASE Abandon(p)
  BY <1>9 DEF Abandon, balanceVars, stockVars,
              Conserved, PhysicalSplit, JournalMatches, BatchesMatch
<1>10. QED
  BY <1>3, <1>4, <1>5, <1>6, <1>7, <1>8, <1>9 DEF FinishCall

LEMMA ConservedNext == TypeOK /\ Conserved /\ [Next]_vars => Conserved'
<1> SUFFICES ASSUME TypeOK, Conserved, [Next]_vars PROVE Conserved'
  OBVIOUS
<1>1. ASSUME UNCHANGED <<balanceVars, stockVars>> PROVE Conserved'
  BY <1>1 DEF balanceVars, stockVars,
              Conserved, PhysicalSplit, JournalMatches, BatchesMatch
<1>2. ASSUME NEW p \in Requests, BeginCall(p) PROVE Conserved'
  BY <1>1, <1>2, BeginCallType DEF Begin
<1>3. CASE UNCHANGED vars
  BY <1>1, <1>3 DEF vars
<1>4. QED
  BY <1>2, <1>3, ConservedFinish DEF Next

\* However calls overlap, on hand = reserved + available + quarantined, the
\* movements add up to the stock, and so do the batches.
THEOREM StockConserved == Spec => []Conserved
BY ConservedInit, ConservedNext, TypeCorrect, PTL DEF Spec

-----------------------------------------------------------------------------
(***************************************************************************)
(* With calls one at a time, what a call read is still true when it        *)
(* writes.  That is the strengthening NoOversell and the journal need: the *)
(* check was made on the row as it is, and so was quantityBefore.          *)
(***************************************************************************)
OneAtATime ==
    \A p, q \in Requests : phase[p] = "reading" /\ phase[q] = "reading" => p = q
Fresh ==
    \A p \in Requests : phase[p] = "reading" => seen[p] = Snapshot(call[p])
JournalCurrent == \A r \in Rows : lastMove[r].after = onHand[r]
SerialInv == OneAtATime /\ Fresh /\ JournalCurrent /\ NoOversell

LEMMA SerialInit == Init => SerialInv
BY OpeningAssumption, RowsAssumption
   DEF Init, SerialInv, OneAtATime, Fresh, JournalCurrent, NoOversell

\* When one call may be in flight, a read step finds none.
LEMMA NoneReading ==
    ASSUME InFlight = 1, Cardinality(Reading) < InFlight
    PROVE  \A q \in Requests : phase[q] # "reading"
<1>1. IsFiniteSet(Reading)
  BY RequestsAssumption, FS_Subset DEF Reading
<1>2. Cardinality(Reading) = 0
  BY <1>1, FS_CardinalityType
<1>3. Reading = {}
  BY <1>1, <1>2, FS_EmptySet
<1>4. QED
  BY <1>3 DEF Reading

LEMMA SerialBegin ==
    ASSUME TypeOK, InFlight = 1, SerialInv,
           NEW p \in Requests, NEW c \in Calls, Begin(p, c)
    PROVE  SerialInv'
<1>1. \A q \in Requests : phase'[q] = "reading" => q = p
  <2>1. Cardinality(Reading) < InFlight
    BY DEF Begin
  <2>2. QED
    BY <2>1, NoneReading DEF Begin, TypeOK
<1>2. call'[p] = c /\ seen'[p] = Snapshot(c)
  BY DEF Begin, TypeOK
<1>3. Snapshot(c)' = Snapshot(c)
  BY DEF Begin, Snapshot, balanceVars
<1>4. OneAtATime' /\ Fresh'
  BY <1>1, <1>2, <1>3 DEF OneAtATime, Fresh, Snapshot
<1>5. JournalCurrent' /\ NoOversell'
  BY DEF Begin, SerialInv, JournalCurrent, NoOversell, balanceVars, stockVars
<1>6. QED
  BY <1>4, <1>5 DEF SerialInv

\* A finished call leaves no call in flight.
LEMMA SerialQuiet ==
    ASSUME TypeOK, SerialInv, NEW p \in Requests, phase[p] = "reading",
           NEW s \in {"done", "failed"}, phase' = [phase EXCEPT ![p] = s]
    PROVE  OneAtATime' /\ Fresh'
<1>1. \A q \in Requests : phase'[q] # "reading"
  BY DEF SerialInv, OneAtATime, TypeOK
<1>2. QED
  BY <1>1 DEF OneAtATime, Fresh

LEMMA SerialFinish ==
    ASSUME TypeOK, SerialInv, NEW p \in Requests, FinishCall(p)
    PROVE  SerialInv'
<1> DEFINE r == call[p].row
           q == call[p].qty
<1>1. r \in Rows /\ q \in Nat
  BY DEF TypeOK, Calls
<1>2. phase[p] = "reading"
  BY DEF FinishCall, ReceiveStock, QuarantineReturn, ReserveStock,
         ReleaseReservation, FulfillReservation, FulfilOrderItem, DeductStock,
         Abandon, Writing
<1>3. seen[p].onHand = onHand[r] /\ seen[p].available = available[r]
  <2>1. seen[p] = Snapshot(call[p])
    BY <1>2 DEF SerialInv, Fresh
  <2>2. QED
    BY <2>1 DEF Snapshot, r
<1>4. OneAtATime' /\ Fresh'
  BY <1>2, SerialQuiet
     DEF FinishCall, ReceiveStock, QuarantineReturn, ReserveStock,
         ReleaseReservation, FulfillReservation, FulfilOrderItem, DeductStock,
         Abandon, Writing
<1> HIDE DEF r, q
<1>5. /\ onHand \in [Rows -> Int] /\ available \in [Rows -> Int]
      /\ lastMove \in [Rows -> Moves]
  BY DEF TypeOK
<1>6. ASSUME NEW d \in Int, LogMovement(p, d), onHand' = Add(onHand, r, d)
      PROVE  JournalCurrent'
  <2>1. lastMove' = [lastMove EXCEPT ![r] =
                       [before |-> seen[p].onHand, after |-> seen[p].onHand + d]]
    BY <1>6 DEF LogMovement, r
  <2>2. QED
    BY <1>1, <1>3, <1>5, <1>6, <2>1 DEF Add, SerialInv, JournalCurrent
<1>7. ASSUME UNCHANGED <<onHand, lastMove>> PROVE JournalCurrent'
  BY <1>7 DEF SerialInv, JournalCurrent
<1>8. ASSUME available' = Add(available, r, q) \/ available' = available
      PROVE  NoOversell'
  BY <1>1, <1>5, <1>8, RowsAssumption DEF Add, SerialInv, NoOversell
<1>9. ASSUME available' = Add(available, r, -q), Covered(p) PROVE NoOversell'
  <2>1. r \in NegativeAllowed \/ available[r] >= q
    BY <1>3, <1>9 DEF Covered, r, q
  <2>2. QED
    BY <1>1, <1>5, <1>9, <2>1, RowsAssumption DEF Add, SerialInv, NoOversell
<1>10. q \in Int /\ -q \in Int
  BY <1>1
<1>11. JournalCurrent'
  <2>1. CASE ReceiveStock(p)
    BY <2>1, <1>6, <1>10 DEF ReceiveStock, r, q
  <2>2. CASE QuarantineReturn(p)
    BY <2>2, <1>6, <1>10 DEF QuarantineReturn, r, q
  <2>3. CASE FulfillReservation(p) \/ FulfilOrderItem(p)
    BY <2>3, <1>6, <1>10 DEF FulfillReservation, FulfilOrderItem, r, q
  <2>4. CASE DeductStock(p)
    BY <2>4, <1>6, <1>10 DEF DeductStock, r, q
  <2>5. CASE ReserveStock(p) \/ ReleaseReservation(p) \/ Abandon(p)
    BY <2>5, <1>7 DEF ReserveStock, ReleaseReservation, Abandon,
                      balanceVars, stockVars
  <2>6. QED
    BY <2>1, <2>2, <2>3, <2>4, <2>5 DEF FinishCall
<1>12. NoOversell'
  <2>1. CASE ReceiveStock(p) \/ ReleaseReservation(p)
    BY <2>1, <1>8 DEF ReceiveStock, ReleaseReservation, r, q
  <2>2. CASE QuarantineReturn(p) \/ FulfillReservation(p) \/ FulfilOrderItem(p)
    BY <2>2, <1>8 DEF QuarantineReturn, FulfillReservation, FulfilOrderItem
  <2>3. CASE ReserveStock(p) \/ DeductStock(p)
    BY <2>3, <1>9 DEF ReserveStock, DeductStock, r, q
  <2>4. CASE Abandon(p)
    BY <2>4, <1>8 DEF Abandon, balanceVars
  <2>5. QED
    BY <2>1, <2>2, <2>3, <2>4 DEF FinishCall
<1>13. QED
  BY <1>4, <1>11, <1>12 DEF SerialInv

LEMMA SerialNext ==
    InFlight = 1 => (TypeOK /\ SerialInv /\ [Next]_vars => SerialInv')
<1> SUFFICES ASSUME InFlight = 1, TypeOK, SerialInv, [Next]_vars PROVE SerialInv'
  OBVIOUS
<1>1. CASE Next
  BY <1>1, BeginCallType, SerialBegin, SerialFinish DEF Next
<1>2. CASE UNCHANGED vars
  BY <1>2 DEF vars, balanceVars, stockVars, SerialInv, OneAtATime, Fresh,
              Snapshot, JournalCurrent, NoOversell
<1>3. QED
  BY <1>1, <1>2

\* With calls one at a time, a branch that does not allow negative stock
\* never promises or sells more than it has.
THEOREM SerialNoOversell == InFlight = 1 /\ Spec => []NoOversell
<1> SUFFICES ASSUME InFlight = 1 PROVE Spec => []NoOversell
  OBVIOUS
<1>1. TypeOK /\ SerialInv /\ [Next]_vars => SerialInv'
  BY SerialNext
<1>2. SerialInv => NoOversell
  BY DEF SerialInv
<1>3. QED
  BY <1>1, <1>2, SerialInit, TypeCorrect, PTL DEF Spec

\* A step that changes a row's latest movement starts it where the previous
\* one ended.
LEMMA ChainStep ==
    ASSUME TypeOK, SerialInv, NEW p \in Requests, FinishCall(p),
           NEW s \in Rows, lastMove'[s] # lastMove[s]
    PROVE  lastMove'[s].before = lastMove[s].after
<1>1. PICK d \in Int : LogMovement(p, d)
  <2>1. call[p].qty \in Int /\ -call[p].qty \in Int
    BY DEF TypeOK, Calls
  <2>2. CASE ReceiveStock(p)
    BY <2>1, <2>2 DEF ReceiveStock
  <2>3. CASE QuarantineReturn(p)
    BY <2>1, <2>3 DEF QuarantineReturn
  <2>4. CASE FulfillReservation(p) \/ FulfilOrderItem(p)
    BY <2>1, <2>4 DEF FulfillReservation, FulfilOrderItem
  <2>5. CASE DeductStock(p)
    BY <2>1, <2>5 DEF DeductStock
  <2>6. CASE ReserveStock(p) \/ ReleaseReservation(p) \/ Abandon(p)
    BY <2>6 DEF ReserveStock, ReleaseReservation, Abandon, stockVars
  <2>7. QED
    BY <2>2, <2>3, <2>4, <2>5, <2>6 DEF FinishCall
<1>2. phase[p] = "reading"
  BY DEF FinishCall, ReceiveStock, QuarantineReturn, ReserveStock,
         ReleaseReservation, FulfillReservation, FulfilOrderItem, DeductStock,
         Abandon, Writing
<1>3. seen[p].onHand = onHand[call[p].row]
  <2>1. seen[p] = Snapshot(call[p])
    BY <1>2 DEF SerialInv, Fresh
  <2>2. QED
    BY <2>1 DEF Snapshot
<1>4. call[p].row = s /\ lastMove'[s].before = seen[p].onHand
  BY <1>1 DEF LogMovement, TypeOK
<1>5. QED
  BY <1>3, <1>4 DEF SerialInv, JournalCurrent

\* With calls one at a time, the journal of a row is a chain: every movement
\* starts at the quantity the one before it left.
THEOREM SerialJournal == InFlight = 1 /\ Spec => JournalChained
<1> SUFFICES ASSUME InFlight = 1 PROVE Spec => JournalChained
  OBVIOUS
<1> DEFINE Chain == \A r \in Rows : lastMove'[r] # lastMove[r]
                         => lastMove'[r].before = lastMove[r].after
<1>1. TypeOK /\ SerialInv /\ [Next]_vars => SerialInv'
  BY SerialNext
<1>2. TypeOK /\ SerialInv /\ [Next]_vars => [Chain]_vars
  <2> SUFFICES ASSUME TypeOK, SerialInv, Next PROVE Chain
    OBVIOUS
  <2>1. ASSUME NEW p \in Requests, BeginCall(p) PROVE Chain
    BY <2>1, BeginCallType DEF Begin, stockVars
  <2>2. QED
    BY <2>1, ChainStep DEF Next
<1>3. QED
  BY <1>1, <1>2, SerialInit, TypeCorrect, PTL DEF Spec, JournalChained

\* With calls one at a time, a reservation is settled only while it is
\* ACTIVE, so no quantity is given back or shipped twice.
THEOREM SerialSettledOnce == InFlight = 1 /\ Spec => SettledOnce
<1> SUFFICES ASSUME InFlight = 1 PROVE Spec => SettledOnce
  OBVIOUS
<1> DEFINE Settles ==
      \A p \in Requests :
         /\ phase[p] = "reading" /\ phase'[p] = "done"
         /\ call[p].kind \in {"release", "fulfil", "fulfilPart"}
         => reservation[call[p].res].status = "ACTIVE"
<1>1. TypeOK /\ SerialInv /\ [Next]_vars => SerialInv'
  BY SerialNext
<1>2. TypeOK /\ SerialInv /\ [Next]_vars => [Settles]_vars
  <2> SUFFICES ASSUME TypeOK, SerialInv, Next, NEW p \in Requests,
                      phase[p] = "reading", phase'[p] = "done",
                      call[p].kind \in {"release", "fulfil", "fulfilPart"}
               PROVE  reservation[call[p].res].status = "ACTIVE"
    OBVIOUS
  <2>1. seen[p].status = reservation[call[p].res].status
    <3>1. seen[p] = Snapshot(call[p])
      BY DEF SerialInv, Fresh
    <3>2. QED
      BY <3>1 DEF Snapshot
  <2>2. ASSUME NEW o \in Requests, BeginCall(o) PROVE FALSE
    BY <2>2, BeginCallType DEF Begin, TypeOK
  <2>3. PICK o \in Requests : FinishCall(o)
    BY <2>2 DEF Next
  <2>4. o = p
    BY <2>3 DEF FinishCall, ReceiveStock, QuarantineReturn, ReserveStock,
                ReleaseReservation, FulfillReservation, FulfilOrderItem,
                DeductStock, Abandon, Writing, TypeOK
  <2>5. seen[p].status = "ACTIVE"
    BY <2>3, <2>4 DEF FinishCall, ReceiveStock, QuarantineReturn, ReserveStock,
                ReleaseReservation, FulfillReservation, FulfilOrderItem,
                DeductStock, Abandon, Writing, StillActive, TypeOK
  <2>6. QED
    BY <2>1, <2>5
<1>3. QED
  BY <1>1, <1>2, SerialInit, TypeCorrect, PTL DEF Spec, SettledOnce

-----------------------------------------------------------------------------
(***************************************************************************)
(* However calls overlap, the reserved column is a sum of shares, one for  *)
(* each reservation.  A share never exceeds what the reservation records,  *)
(* nor what a settling call in flight has read of it: such a call takes    *)
(* off the share what it read, so a second one leaves it negative and      *)
(* never too large.  The program does not store the shares.                *)
(***************************************************************************)
RowShare(share, r) ==
    SumFunction([i \in Reservations |->
                   IF reservation[i].row = r THEN share[i] ELSE 0])
Effective(i) ==
    IF reservation[i].status = "ACTIVE" THEN reservation[i].qty ELSE 0
Settles(p, share) ==
    LET i == call[p].res
    IN  /\ reservation[i].status # "NONE"
        /\ call[p].row = reservation[i].row
        /\ seen[p].status = "ACTIVE" => share[i] <= seen[p].held
        /\ call[p].kind # "fulfilPart" => call[p].qty = seen[p].held
Shares(share) ==
    /\ \A i \in Reservations : reservation[i].status = "NONE" => share[i] = 0
    /\ \A i \in Reservations : share[i] <= Effective(i)
    /\ \A r \in Rows : reserved[r] = RowShare(share, r)
    /\ \A p \in Reading : call[p].kind \in Settling => Settles(p, share)
Shared == \E share \in [Reservations -> Int] : Shares(share)

LEMMA SharedInit == Init => Shared
<1> SUFFICES ASSUME Init PROVE Shared
  OBVIOUS
<1>1. PICK share \in [Reservations -> {0}] : \A i \in Reservations : share[i] = 0
  <2>1. [i \in Reservations |-> 0] \in [Reservations -> {0}]
    OBVIOUS
  <2>2. QED
    BY <2>1
<1>2. \A i \in Reservations : share[i] <= Effective(i)
  BY <1>1 DEF Init, Effective
<1>3. ASSUME NEW r \in Rows PROVE reserved[r] = RowShare(share, r)
  <2> DEFINE f == [i \in Reservations |->
                     IF reservation[i].row = r THEN share[i] ELSE 0]
  <2>1. f \in [Reservations -> {0}]
    BY <1>1
  <2> HIDE DEF f
  <2>2. SumFunction(f) = 0
    BY <2>1, TotalZero, ReservationsAssumption
  <2>3. QED
    BY <2>2 DEF f, RowShare, Init
<1>4. Reading = {}
  BY DEF Init, Reading
<1>5. share \in [Reservations -> Int]
  BY <1>1
<1>6. Shares(share)
  BY <1>1, <1>2, <1>3, <1>4 DEF Shares
<1>7. QED
  BY <1>5, <1>6 DEF Shared

\* One reservation's share moves, and the row's column with it.
LEMMA SharesMove ==
    ASSUME TypeOK, TypeOK', NEW share \in [Reservations -> Int], Shares(share),
           NEW i \in Reservations, NEW r \in Rows, NEW x \in Int,
           NEW d \in [Reservations -> Int],
           d[i] = share[i] + x, \A j \in Reservations \ {i} : d[j] = share[j],
           \A j \in Reservations \ {i} : reservation'[j] = reservation[j],
           reservation'[i].row = r,
           reservation[i].row = r \/ share[i] = 0,
           reserved' = Add(reserved, r, x)
    PROVE  \A s \in Rows : reserved'[s] = RowShare(d, s)'
<1> TAKE s \in Rows
<1> DEFINE f == [j \in Reservations |->
                   IF reservation[j].row = s THEN share[j] ELSE 0]
           e == [j \in Reservations |->
                   IF reservation'[j].row = s THEN d[j] ELSE 0]
<1>1. f \in [Reservations -> Int] /\ e \in [Reservations -> Int]
  OBVIOUS
<1>2. \A j \in Reservations \ {i} : e[j] = f[j]
  OBVIOUS
<1>3. e[i] - f[i] = IF s = r THEN x ELSE 0
  <2>1. share[i] \in Int
    OBVIOUS
  <2>2. QED
    BY <2>1
<1>4. reserved[s] = SumFunction(f)
  BY DEF Shares, RowShare
<1>5. RowShare(d, s)' = SumFunction(e)
  BY DEF RowShare
<1>6. f[i] \in Int /\ e[i] \in Int
  BY <1>1
<1> HIDE DEF f, e
<1>7. SumFunction(e) = SumFunction(f) + (e[i] - f[i])
  BY <1>1, <1>2, TotalUpdate, ReservationsAssumption
<1>8. SumFunction(f) \in Int
  BY <1>1, TotalInt, ReservationsAssumption
<1>9. reserved'[s] = IF s = r THEN reserved[s] + x ELSE reserved[s]
  BY DEF Add, TypeOK
<1>10. QED
  BY <1>3, <1>4, <1>5, <1>7, <1>8, <1>9

LEMMA SharesReserve ==
    ASSUME TypeOK, TypeOK', Shared, NEW p \in Requests, ReserveStock(p)
    PROVE  Shared'
<1> DEFINE r == call[p].row
           q == call[p].qty
<1>1. r \in Rows /\ q \in Nat
  BY DEF TypeOK, Calls
<1> HIDE DEF r, q
<1>2. PICK i \in Reservations :
        /\ reservation[i].status = "NONE"
        /\ reservation' = [reservation EXCEPT ![i] =
                             [status |-> "ACTIVE", row |-> r, qty |-> q]]
  BY DEF ReserveStock, r, q
<1>3. PICK share \in [Reservations -> Int] : Shares(share)
  BY DEF Shared
<1>4. PICK d \in [Reservations -> Int] : d = [share EXCEPT ![i] = q]
  <2>1. [share EXCEPT ![i] = q] \in [Reservations -> Int]
    BY <1>1
  <2>2. QED
    BY <2>1
<1>5. share[i] = 0 /\ d[i] = share[i] + q /\ q \in Int
  BY <1>1, <1>2, <1>3, <1>4 DEF Shares
<1>6. reservation'[i] = [status |-> "ACTIVE", row |-> r, qty |-> q]
  BY <1>2 DEF TypeOK
<1>7. \A j \in Reservations \ {i} : reservation'[j] = reservation[j] /\ d[j] = share[j]
  BY <1>2, <1>4 DEF TypeOK
<1>8. \A s \in Rows : reserved'[s] = RowShare(d, s)'
  <2>1. reserved' = Add(reserved, r, q)
    BY DEF ReserveStock, r, q
  <2>2. reservation'[i].row = r
    BY <1>6
  <2>3. QED
    BY <1>1, <1>3, <1>5, <1>7, <2>1, <2>2, SharesMove
<1>9. \A j \in Reservations : reservation'[j].status = "NONE" => d[j] = 0
  BY <1>3, <1>6, <1>7 DEF Shares
<1>10. \A j \in Reservations : d[j] <= Effective(j)'
  BY <1>1, <1>3, <1>5, <1>6, <1>7 DEF Shares, Effective
<1>11. ASSUME NEW o \in Reading', call'[o].kind \in Settling
       PROVE  Settles(o, d)'
  <2>1. o # p /\ o \in Reading /\ call'[o] = call[o] /\ seen'[o] = seen[o]
    BY DEF Reading, ReserveStock, Writing, Forget, TypeOK
  <2>2. Settles(o, share) /\ call[o].res \in Reservations
    BY <1>3, <1>11, <2>1 DEF Shares, TypeOK, Reading, Calls
  <2>3. call[o].res # i
    BY <1>2, <2>2 DEF Settles
  <2>4. QED
    BY <1>7, <2>1, <2>2, <2>3 DEF Settles
<1>12. Shares(d)'
  BY <1>8, <1>9, <1>10, <1>11 DEF Shares
<1>13. QED
  BY <1>12 DEF Shared
\* A settling call, on a reservation that another may have settled since.
LEMMA SharesSettle ==
    ASSUME TypeOK, TypeOK', Shared, NEW p \in Requests,
           ReleaseReservation(p) \/ FulfillReservation(p) \/ FulfilOrderItem(p)
    PROVE  Shared'
<1> DEFINE r == call[p].row
           q == call[p].qty
           left == seen[p].held - q
<1>0. PICK i \in Reservations : i = call[p].res
  BY DEF TypeOK, Calls
<1>1. /\ r \in Rows /\ q \in Nat /\ i \in Reservations
      /\ seen[p].held \in Nat /\ left \in Int /\ -q \in Int
  BY DEF TypeOK, Calls, Snapshots
<1>2. call[p].kind \in Settling /\ p \in Reading /\ seen[p].status = "ACTIVE"
  BY DEF ReleaseReservation, FulfillReservation, FulfilOrderItem, Writing,
         StillActive, Reading, Settling
<1>3. PICK share \in [Reservations -> Int] : Shares(share)
  BY DEF Shared
<1>4. /\ reservation[i].status # "NONE"
      /\ reservation[i].row = r
      /\ share[i] <= seen[p].held
      /\ call[p].kind # "fulfilPart" => q = seen[p].held
  BY <1>0, <1>2, <1>3 DEF Shares, Settles
<1>5. reserved' = Add(reserved, r, -q)
  BY DEF ReleaseReservation, FulfillReservation, FulfilOrderItem
<1> HIDE DEF r, q, left
<1>6. /\ \A j \in Reservations \ {i} : reservation'[j] = reservation[j]
      /\ reservation'[i].row = r /\ reservation'[i].status # "NONE"
      /\ \/ reservation'[i].status # "ACTIVE" /\ left <= 0
         \/ /\ reservation'[i].status = reservation[i].status
            /\ reservation'[i].qty = left
  <2>1. reservation[i] \in Records
    BY <1>1 DEF TypeOK
  <2>2. CASE ReleaseReservation(p)
    <3>1. call[p].kind = "release"
      BY <2>2 DEF ReleaseReservation, Writing
    <3>2. reservation' = [reservation EXCEPT ![i].status = "RELEASED"]
      BY <1>0, <2>2 DEF ReleaseReservation
    <3>3. QED
      BY <1>1, <1>4, <2>1, <3>1, <3>2 DEF TypeOK, Records, left
  <2>3. CASE FulfillReservation(p)
    <3>1. call[p].kind = "fulfil"
      BY <2>3 DEF FulfillReservation, Writing
    <3>2. reservation' = [reservation EXCEPT ![i].status = "FULFILLED"]
      BY <1>0, <2>3 DEF FulfillReservation
    <3>3. QED
      BY <1>1, <1>4, <2>1, <3>1, <3>2 DEF TypeOK, Records, left
  <2>4. CASE FulfilOrderItem(p)
    <3>1. Remainder(p) = left
      BY DEF Remainder, left, q
    <3>2. CASE left = 0
      <4>1. reservation' = [reservation EXCEPT ![i].status = "FULFILLED"]
        BY <1>0, <2>4, <3>1, <3>2 DEF FulfilOrderItem
      <4>2. QED
        BY <1>1, <1>4, <2>1, <3>2, <4>1 DEF TypeOK, Records
    <3>3. CASE left # 0
      <4>1. reservation' = [reservation EXCEPT ![i].qty = left]
        BY <1>0, <2>4, <3>1, <3>3 DEF FulfilOrderItem
      <4>2. QED
        BY <1>1, <1>4, <2>1, <4>1 DEF TypeOK, Records
    <3>4. QED
      BY <3>2, <3>3
  <2>5. QED
    BY <2>2, <2>3, <2>4
<1>7. PICK d \in [Reservations -> Int] : d = [share EXCEPT ![i] = share[i] + (-q)]
  <2>1. [share EXCEPT ![i] = share[i] + (-q)] \in [Reservations -> Int]
    BY <1>1
  <2>2. QED
    BY <2>1
<1>8. /\ d[i] = share[i] + (-q) /\ share[i] \in Int /\ d[i] <= left
      /\ d[i] <= share[i] /\ \A j \in Reservations \ {i} : d[j] = share[j]
  BY <1>1, <1>4, <1>7 DEF left
<1>9. \A s \in Rows : reserved'[s] = RowShare(d, s)'
  BY <1>1, <1>3, <1>4, <1>5, <1>6, <1>8, SharesMove
<1>10. \A j \in Reservations : reservation'[j].status = "NONE" => d[j] = 0
  BY <1>3, <1>6, <1>8 DEF Shares
<1>11. \A j \in Reservations : d[j] <= Effective(j)'
  <2>1. ASSUME NEW j \in Reservations \ {i} PROVE d[j] <= Effective(j)'
    BY <1>3, <1>6, <1>8, <2>1 DEF Shares, Effective
  <2>2. d[i] <= Effective(i)'
    <3>1. share[i] <= Effective(i)
      BY <1>1, <1>3 DEF Shares
    <3>2. CASE reservation'[i].status # "ACTIVE"
      <4>1. left <= 0 \/ Effective(i) = 0
        BY <1>6, <3>2 DEF Effective
      <4>2. Effective(i)' = 0
        BY <3>2 DEF Effective
      <4>3. QED
        BY <1>1, <1>8, <3>1, <4>1, <4>2
    <3>3. CASE reservation'[i].status = "ACTIVE"
      BY <1>6, <1>8, <3>3 DEF Effective
    <3>4. QED
      BY <3>2, <3>3
  <2>3. QED
    BY <2>1, <2>2
<1>12. ASSUME NEW o \in Reading', call'[o].kind \in Settling
       PROVE  Settles(o, d)'
  <2> DEFINE j == call[o].res
  <2>1. o # p /\ o \in Reading /\ call'[o] = call[o] /\ seen'[o] = seen[o]
    BY DEF Reading, ReleaseReservation, FulfillReservation, FulfilOrderItem,
           Writing, Forget, TypeOK
  <2>2. Settles(o, share) /\ j \in Reservations /\ seen[o].held \in Nat
    BY <1>3, <1>12, <2>1 DEF Shares, TypeOK, Reading, Calls, Snapshots
  <2>3. /\ reservation'[j].status # "NONE"
        /\ reservation'[j].row = reservation[j].row
    BY <1>4, <1>6, <2>2 DEF Settles
  <2>4. d[j] <= share[j] /\ d[j] \in Int /\ share[j] \in Int
    BY <1>8, <2>2
  <2>5. QED
    BY <2>1, <2>2, <2>3, <2>4 DEF Settles
<1>13. Shares(d)'
  BY <1>9, <1>10, <1>11, <1>12 DEF Shares
<1>14. QED
  BY <1>13 DEF Shared

\* A step that leaves reservations alone and starts no settling call.
LEMMA SharesKept ==
    ASSUME TypeOK, Shared, UNCHANGED <<reserved, reservation>>,
           \A o \in Reading' : o \in Reading /\ call'[o] = call[o] /\ seen'[o] = seen[o]
    PROVE  Shared'
<1>1. PICK share \in [Reservations -> Int] : Shares(share)
  BY DEF Shared
<1>2. Shares(share)'
  BY <1>1 DEF Shares, Settles, RowShare, Effective
<1>3. QED
  BY <1>2 DEF Shared

LEMMA SharesBegin ==
    ASSUME TypeOK, Shared, NEW p \in Requests, NEW c \in Calls,
           Begin(p, c), Proper(c)
    PROVE  Shared'
<1>1. PICK share \in [Reservations -> Int] : Shares(share)
  BY DEF Shared
<1>2. UNCHANGED <<reserved, reservation>>
  BY DEF Begin, balanceVars
<1>3. ASSUME NEW o \in Reading', call'[o].kind \in Settling
      PROVE  Settles(o, share)'
  <2>1. CASE o # p
    <3>1. o \in Reading /\ call'[o] = call[o] /\ seen'[o] = seen[o]
      BY <2>1 DEF Begin, Reading, TypeOK
    <3>2. Settles(o, share)
      BY <1>1, <1>3, <3>1 DEF Shares
    <3>3. QED
      BY <1>2, <3>1, <3>2 DEF Settles
  <2>2. CASE o = p
    <3>1. call'[o] = c /\ seen'[o] = Snapshot(c)
      BY <2>2 DEF Begin, TypeOK
    <3>2. c.res \in Reservations
      BY DEF Calls
    <3>3. share[c.res] <= Effective(c.res)
      BY <1>1, <3>2 DEF Shares
    <3>4. /\ seen'[o].held = reservation[c.res].qty
          /\ seen'[o].status = reservation[c.res].status
      BY <3>1 DEF Snapshot
    <3>5. QED
      BY <1>2, <1>3, <3>1, <3>3, <3>4 DEF Settles, Proper, Effective
  <2>3. QED
    BY <2>1, <2>2
<1>4. Shares(share)'
  BY <1>1, <1>2, <1>3 DEF Shares, RowShare, Effective
<1>5. QED
  BY <1>4 DEF Shared

LEMMA SharedNext == TypeOK /\ TypeOK' /\ Shared /\ [Next]_vars => Shared'
<1> SUFFICES ASSUME TypeOK, TypeOK', Shared, [Next]_vars PROVE Shared'
  OBVIOUS
<1>1. ASSUME NEW p \in Requests, BeginCall(p) PROVE Shared'
  BY <1>1, BeginCallProper, SharesBegin
<1>2. ASSUME NEW p \in Requests,
             ReceiveStock(p) \/ QuarantineReturn(p) \/ DeductStock(p) \/ Abandon(p)
      PROVE  Shared'
  <2>1. UNCHANGED <<reserved, reservation>>
    BY <1>2 DEF ReceiveStock, QuarantineReturn, DeductStock, Abandon, balanceVars
  <2>2. \A o \in Reading' : o \in Reading /\ call'[o] = call[o] /\ seen'[o] = seen[o]
    BY <1>2 DEF ReceiveStock, QuarantineReturn, DeductStock, Abandon,
                Writing, Forget, Reading, TypeOK
  <2>3. QED
    BY <2>1, <2>2, SharesKept
<1>3. CASE UNCHANGED vars
  <2>1. \A o \in Reading' : o \in Reading /\ call'[o] = call[o] /\ seen'[o] = seen[o]
    BY <1>3 DEF vars, Reading
  <2>2. QED
    BY <1>3, <2>1, SharesKept DEF vars, balanceVars
<1>4. ASSUME NEW p \in Requests, FinishCall(p) PROVE Shared'
  BY <1>2, <1>4, SharesReserve, SharesSettle DEF FinishCall
<1>5. QED
  BY <1>1, <1>3, <1>4 DEF Next

LEMMA SharedBound ==
    ASSUME TypeOK, Shared, NEW r \in Rows
    PROVE  reserved[r] <= HeldFor(r)
<1>1. PICK share \in [Reservations -> Int] : Shares(share)
  BY DEF Shared
<1> DEFINE f == [i \in Reservations |->
                   IF reservation[i].row = r THEN share[i] ELSE 0]
           e == [i \in Reservations |-> Held(i, r)]
<1>2. f \in [Reservations -> Int] /\ e \in [Reservations -> Int]
  BY DEF Held, TypeOK, Records
<1>3. \A i \in Reservations : f[i] <= e[i]
  <2> TAKE i \in Reservations
  <2>1. share[i] <= Effective(i) /\ share[i] \in Int
    BY <1>1 DEF Shares
  <2>2. QED
    BY <2>1 DEF Effective, Held, TypeOK, Records
<1>4. reserved[r] = SumFunction(f) /\ HeldFor(r) = SumFunction(e)
  BY <1>1 DEF Shares, RowShare, HeldFor
<1> HIDE DEF f, e
<1>5. SumFunction(f) <= SumFunction(e)
  BY <1>2, <1>3, TotalMonotone, ReservationsAssumption
<1>6. QED
  BY <1>4, <1>5

-----------------------------------------------------------------------------
(***************************************************************************)
(* A call in flight that passed its check claims its quantity of the free  *)
(* stock.  The claims exceed what is free by at most one largest quantity  *)
(* for each call beside another: that is inductive, the bound on the       *)
(* column alone is not.                                                    *)
(***************************************************************************)
Claim(p, r) ==
    IF /\ phase[p] = "reading" /\ call[p].kind \in Promising
       /\ call[p].row = r /\ Covered(p)
      THEN call[p].qty ELSE 0
Claimed(r) == SumFunction([p \in Requests |-> Claim(p, r)])
Slack == (InFlight - 1) * Largest
ClaimsBounded ==
    /\ \A p \in Reading : call[p].kind \in Promising => call[p].qty \in Quantities
    /\ \A r \in Rows \ NegativeAllowed : Claimed(r) <= available[r] + Slack

LEMMA LargestQuantity ==
    Largest \in Nat /\ Slack \in Nat /\ \A q \in Quantities : q <= Largest
<1>1. \E m \in Quantities : \A q \in Quantities : q <= m
  <2>1. Quantities \subseteq Int /\ Quantities # {} /\ IsFiniteSet(Quantities)
    BY QuantitiesAssumption
  <2>2. QED
    BY <2>1, MaxSet
<1>2. Largest \in Quantities /\ \A q \in Quantities : q <= Largest
  <2>1. PICK m \in Quantities : \A q \in Quantities : m >= q
    BY <1>1, QuantitiesAssumption
  <2>2. QED
    BY <2>1, QuantitiesAssumption DEF Largest, Max
<1>3. Slack \in Nat
  BY <1>2, InFlightAssumption, QuantitiesAssumption DEF Slack
<1>4. QED
  BY <1>2, <1>3, QuantitiesAssumption

LEMMA ClaimType ==
    ASSUME TypeOK, NEW r \in Rows
    PROVE  /\ [p \in Requests |-> Claim(p, r)] \in [Requests -> Nat]
           /\ Claimed(r) \in Nat
<1> DEFINE f == [p \in Requests |-> Claim(p, r)]
<1>1. f \in [Requests -> Nat]
  BY DEF Claim, TypeOK, Calls
<1> HIDE DEF f
<1>2. SumFunction(f) \in Nat
  BY <1>1, TotalNat, RequestsAssumption
<1>3. QED
  BY <1>1, <1>2 DEF f, Claimed

\* The calls in flight claim at most the largest quantity each.
LEMMA ClaimedAtMost ==
    ASSUME TypeOK, ClaimsBounded, NEW r \in Rows, NEW n \in Nat,
           Cardinality(Reading) <= n
    PROVE  Claimed(r) <= n * Largest
<1> DEFINE f == [p \in Requests |-> Claim(p, r)]
<1>1. f \in [Requests -> Nat]
  BY ClaimType
<1>2. \A p \in Requests \ Reading : f[p] = 0
  BY DEF Claim, Reading
<1>3. \A p \in Reading : f[p] <= Largest
  BY LargestQuantity DEF Claim, ClaimsBounded, Reading
<1>4. IsFiniteSet(Reading) /\ Reading \subseteq Requests /\ Cardinality(Reading) \in Nat
  BY RequestsAssumption, FS_Subset, FS_CardinalityType DEF Reading
<1>5. Claimed(r) = SumFunctionOnSet(f, Requests)
  BY DEF Claimed, SumFunction
<1> HIDE DEF f
<1>6. /\ \A p \in Requests : f[p] \in Int
      /\ \A p \in Reading : f[p] \in Int /\ f[p] <= Largest
  BY <1>1, <1>3, <1>4
<1>7. SumFunctionOnSet(f, Requests) = SumFunctionOnSet(f, Reading)
  BY <1>2, <1>4, <1>6, SumSupport, RequestsAssumption
<1>8. SumFunctionOnSet(f, Reading) <= Cardinality(Reading) * Largest
  BY <1>4, <1>6, SumAtMost, LargestQuantity
<1>9. Cardinality(Reading) * Largest <= n * Largest
  BY <1>4, LargestQuantity
<1>10. Cardinality(Reading) * Largest \in Int /\ n * Largest \in Int
  BY <1>4, LargestQuantity
<1>11. Claimed(r) \in Int
  BY ClaimType
<1> DEFINE a == Cardinality(Reading) * Largest
           b == n * Largest
<1> HIDE DEF a, b
<1>12. QED
  BY <1>5, <1>7, <1>8, <1>9, <1>10, <1>11 DEF a, b

\* One call's claim on one row changes.
LEMMA ClaimMoves ==
    ASSUME TypeOK, TypeOK', NEW p \in Requests, NEW r \in Rows,
           \A o \in Requests \ {p} :
             phase'[o] = phase[o] /\ call'[o] = call[o] /\ seen'[o] = seen[o]
    PROVE  Claimed(r)' = Claimed(r) + (Claim(p, r)' - Claim(p, r))
<1> DEFINE f == [o \in Requests |-> Claim(o, r)]
           e == [o \in Requests |-> Claim(o, r)']
<1>1. f \in [Requests -> Int]
  BY DEF Claim, TypeOK, Calls
<1>2. e \in [Requests -> Int]
  BY DEF Claim, TypeOK, Calls
<1>3. \A o \in Requests \ {p} : e[o] = f[o]
  BY DEF Claim, Covered
<1>4. e[p] = Claim(p, r)' /\ f[p] = Claim(p, r)
  OBVIOUS
<1>5. Claimed(r)' = SumFunction(e) /\ Claimed(r) = SumFunction(f)
  BY DEF Claimed
<1> HIDE DEF f, e
<1>6. SumFunction(e) = SumFunction(f) + (e[p] - f[p])
  BY <1>1, <1>2, <1>3, TotalUpdate, RequestsAssumption
<1>7. QED
  BY <1>4, <1>5, <1>6

LEMMA ClaimsInit == Init => ClaimsBounded
<1> SUFFICES ASSUME Init PROVE ClaimsBounded
  OBVIOUS
<1>1. Reading = {}
  BY DEF Init, Reading
<1>2. ASSUME NEW r \in Rows PROVE Claimed(r) = 0
  <2> DEFINE f == [p \in Requests |-> Claim(p, r)]
  <2>1. f \in [Requests -> {0}]
    BY DEF Init, Claim
  <2> HIDE DEF f
  <2>2. SumFunction(f) = 0
    BY <2>1, TotalZero, RequestsAssumption
  <2>3. QED
    BY <2>2 DEF f, Claimed
<1>3. QED
  BY <1>1, <1>2, LargestQuantity, OpeningAssumption DEF ClaimsBounded, Init

\* A call that begins may claim what it found free: that leaves room for the
\* claims of the calls beside it.
LEMMA ClaimsBegin ==
    ASSUME TypeOK, TypeOK', ClaimsBounded, NEW p \in Requests, NEW c \in Calls,
           Begin(p, c), Proper(c)
    PROVE  ClaimsBounded'
<1>1. /\ phase'[p] = "reading" /\ call'[p] = c /\ seen'[p] = Snapshot(c)
      /\ phase[p] = "new" /\ available' = available
      /\ \A o \in Requests \ {p} :
           phase'[o] = phase[o] /\ call'[o] = call[o] /\ seen'[o] = seen[o]
  BY DEF Begin, TypeOK, balanceVars
<1>2. ASSUME NEW o \in Reading', call'[o].kind \in Promising
      PROVE  call'[o].qty \in Quantities
  <2>1. CASE o = p
    BY <1>1, <1>2, <2>1 DEF Proper, Promising, Settling
  <2>2. CASE o # p
    <3>1. o \in Reading /\ call'[o] = call[o]
      BY <1>1, <2>2 DEF Reading
    <3>2. QED
      BY <1>2, <3>1 DEF ClaimsBounded
  <2>3. QED
    BY <2>1, <2>2
<1>3. ASSUME NEW r \in Rows \ NegativeAllowed
      PROVE  Claimed(r)' <= available'[r] + Slack
  <2>1. Claim(p, r) = 0
    BY <1>1 DEF Claim
  <2>2. Claimed(r)' = Claimed(r) + Claim(p, r)'
    <3>1. Claimed(r)' = Claimed(r) + (Claim(p, r)' - Claim(p, r))
      BY <1>1, ClaimMoves
    <3>2. Claim(p, r)' \in Int
      BY DEF Claim, TypeOK, Calls
    <3>3. QED
      BY <2>1, <3>1, <3>2
  <2>3. Claimed(r) \in Nat /\ available[r] \in Int /\ Slack \in Nat
    BY ClaimType, LargestQuantity DEF TypeOK
  <2>4. CASE Claim(p, r)' = 0
    BY <1>1, <2>2, <2>3, <2>4 DEF ClaimsBounded
  <2>5. CASE Claim(p, r)' # 0
    <3>1. Claim(p, r)' = c.qty /\ c.row = r /\ Covered(p)'
      BY <1>1, <2>5 DEF Claim
    <3>2. c.qty <= available[r]
      BY <1>1, <3>1 DEF Covered, Snapshot
    <3>3. Claimed(r) <= Slack
      <4>1. Cardinality(Reading) <= InFlight - 1 /\ InFlight - 1 \in Nat
        <5>1. Cardinality(Reading) \in Nat /\ Cardinality(Reading) < InFlight
          BY RequestsAssumption, FS_Subset, FS_CardinalityType DEF Begin, Reading
        <5>2. QED
          BY <5>1, InFlightAssumption
      <4>2. QED
        BY <4>1, ClaimedAtMost DEF Slack
    <3>4. c.qty \in Nat
      BY DEF Calls
    <3>5. QED
      BY <1>1, <2>2, <2>3, <3>1, <3>2, <3>3, <3>4
  <2>6. QED
    BY <2>4, <2>5
<1>4. QED
  BY <1>2, <1>3 DEF ClaimsBounded

LEMMA ClaimsFinish ==
    ASSUME TypeOK, TypeOK', ClaimsBounded, NEW p \in Requests, FinishCall(p)
    PROVE  ClaimsBounded'
<1> DEFINE r == call[p].row
           q == call[p].qty
<1>1. r \in Rows /\ q \in Nat
  BY DEF TypeOK, Calls
<1>2. /\ phase[p] = "reading" /\ phase'[p] # "reading"
      /\ \A o \in Requests \ {p} :
           phase'[o] = phase[o] /\ call'[o] = call[o] /\ seen'[o] = seen[o]
  BY DEF FinishCall, ReceiveStock, QuarantineReturn, ReserveStock,
         ReleaseReservation, FulfillReservation, FulfilOrderItem, DeductStock,
         Abandon, Writing, Forget, TypeOK
<1>3. ASSUME NEW o \in Reading', call'[o].kind \in Promising
      PROVE  call'[o].qty \in Quantities
  <2>1. o # p /\ o \in Reading /\ call'[o] = call[o]
    BY <1>2 DEF Reading
  <2>2. QED
    BY <1>3, <2>1 DEF ClaimsBounded
<1>4. \/ \A s \in Rows : available[s] <= available'[s]
      \/ /\ call[p].kind \in Promising /\ Covered(p)
         /\ available' = Add(available, r, -q)
  <2> HIDE DEF r, q
  <2>1. CASE ReceiveStock(p) \/ ReleaseReservation(p)
    <3>1. available' = Add(available, r, q)
      BY <2>1 DEF ReceiveStock, ReleaseReservation, r, q
    <3>2. QED
      BY <1>1, <3>1 DEF Add, TypeOK
  <2>2. CASE \/ QuarantineReturn(p) \/ FulfillReservation(p)
             \/ FulfilOrderItem(p) \/ Abandon(p)
    <3>1. available' = available
      BY <2>2 DEF QuarantineReturn, FulfillReservation, FulfilOrderItem, Abandon,
                  balanceVars
    <3>2. QED
      BY <3>1 DEF TypeOK
  <2>3. CASE ReserveStock(p) \/ DeductStock(p)
    BY <2>3 DEF ReserveStock, DeductStock, Writing, Promising, r, q
  <2>4. QED
    BY <2>1, <2>2, <2>3 DEF FinishCall
<1>5. ASSUME NEW s \in Rows \ NegativeAllowed
      PROVE  Claimed(s)' <= available'[s] + Slack
  <2>1. Claim(p, s)' = 0
    BY <1>2 DEF Claim
  <2>2. Claimed(s)' = Claimed(s) - Claim(p, s)
    <3>1. Claimed(s)' = Claimed(s) + (Claim(p, s)' - Claim(p, s))
      BY <1>2, ClaimMoves
    <3>2. Claim(p, s) \in Int /\ Claimed(s) \in Int
      BY ClaimType DEF Claim, TypeOK, Calls
    <3>3. QED
      BY <2>1, <3>1, <3>2
  <2>3. /\ Claimed(s) \in Nat /\ Slack \in Nat /\ Claim(p, s) \in Nat
        /\ available[s] \in Int /\ available'[s] \in Int
    BY ClaimType, LargestQuantity DEF TypeOK, Claim, Calls
  <2>4. Claimed(s) <= available[s] + Slack
    BY DEF ClaimsBounded
  <2>5. CASE available[s] <= available'[s]
    BY <2>2, <2>3, <2>4, <2>5
  <2>6. CASE /\ call[p].kind \in Promising /\ Covered(p)
             /\ available' = Add(available, r, -q)
    <3>1. Claim(p, s) = IF s = r THEN q ELSE 0
      BY <1>2, <2>6 DEF Claim
    <3> HIDE DEF r, q
    <3>2. available'[s] = IF s = r THEN available[s] - q ELSE available[s]
      BY <1>1, <2>3, <2>6 DEF Add, TypeOK
    <3>3. QED
      BY <1>1, <2>2, <2>3, <2>4, <3>1, <3>2
  <2>7. QED
    BY <1>4, <2>5, <2>6
<1>6. QED
  BY <1>3, <1>5 DEF ClaimsBounded

LEMMA ClaimsNext == TypeOK /\ TypeOK' /\ ClaimsBounded /\ [Next]_vars => ClaimsBounded'
<1> SUFFICES ASSUME TypeOK, TypeOK', ClaimsBounded, [Next]_vars PROVE ClaimsBounded'
  OBVIOUS
<1>1. ASSUME NEW p \in Requests, BeginCall(p) PROVE ClaimsBounded'
  BY <1>1, BeginCallProper, ClaimsBegin
<1>2. CASE UNCHANGED vars
  BY <1>2 DEF vars, balanceVars, ClaimsBounded, Claimed, Claim, Covered, Reading
<1>3. QED
  BY <1>1, <1>2, ClaimsFinish DEF Next

\* However calls overlap, the reserved column never exceeds what the ACTIVE
\* reservations hold, and a row is oversold by at most one largest quantity
\* for each call that may be in flight beside another.
THEOREM OverlapIsBounded == Spec => []OverlapBounded
<1>1. TypeOK /\ Shared /\ ClaimsBounded => OverlapBounded
  <2> SUFFICES ASSUME TypeOK, Shared, ClaimsBounded PROVE OverlapBounded
    OBVIOUS
  <2>1. \A r \in Rows : reserved[r] <= HeldFor(r)
    BY SharedBound
  <2>2. ASSUME NEW r \in Rows \ NegativeAllowed
        PROVE  available[r] >= -((InFlight - 1) * Largest)
    <3>1. Claimed(r) \in Nat /\ available[r] \in Int /\ Slack \in Nat
      BY ClaimType, LargestQuantity DEF TypeOK
    <3>2. available[r] >= -Slack
      BY <3>1 DEF ClaimsBounded
    <3>3. QED
      BY <3>2 DEF Slack
  <2>3. QED
    BY <2>1, <2>2 DEF OverlapBounded
<1>2. QED
  BY <1>1, TypeCorrect, SharedInit, SharedNext, ClaimsInit, ClaimsNext, PTL DEF Spec

-----------------------------------------------------------------------------
(***************************************************************************)
(* With calls one at a time, the reserved column is exactly what the       *)
(* ACTIVE reservations hold, and the writer implements StockLedger.        *)
(***************************************************************************)
Exact ==
    /\ \A r \in Rows : reserved[r] = HeldFor(r)
    /\ \A i \in Reservations :
         reservation[i].status = "ACTIVE" => reservation[i].qty > 0
    /\ \A p \in Reading : Proper(call[p])

LEMMA HeldType ==
    ASSUME TypeOK, NEW r \in Rows
    PROVE  [i \in Reservations |-> Held(i, r)] \in [Reservations -> Int]
BY DEF Held, TypeOK, Records

\* One reservation changes, and with it what is held on a row.
LEMMA HeldMoves ==
    ASSUME TypeOK, TypeOK', NEW i \in Reservations, NEW r \in Rows,
           \A j \in Reservations \ {i} : reservation'[j] = reservation[j]
    PROVE  HeldFor(r)' = HeldFor(r) + (Held(i, r)' - Held(i, r))
<1> DEFINE f == [j \in Reservations |-> Held(j, r)]
           e == [j \in Reservations |-> Held(j, r)']
<1>1. f \in [Reservations -> Int] /\ e \in [Reservations -> Int]
  BY DEF Held, TypeOK, Records
<1>2. \A j \in Reservations \ {i} : e[j] = f[j]
  BY DEF Held
<1>3. e[i] = Held(i, r)' /\ f[i] = Held(i, r)
  OBVIOUS
<1>4. HeldFor(r)' = SumFunction(e) /\ HeldFor(r) = SumFunction(f)
  BY DEF HeldFor
<1> HIDE DEF f, e
<1>5. SumFunction(e) = SumFunction(f) + (e[i] - f[i])
  BY <1>1, <1>2, TotalUpdate, ReservationsAssumption
<1>6. QED
  BY <1>3, <1>4, <1>5

\* A reservation changes by as much as the column of its row.
LEMMA ExactMove ==
    ASSUME TypeOK, TypeOK', Exact, NEW i \in Reservations, NEW r \in Rows,
           NEW x \in Int, reserved' = Add(reserved, r, x),
           \A j \in Reservations \ {i} : reservation'[j] = reservation[j],
           \A s \in Rows : Held(i, s)' = Held(i, s) + IF s = r THEN x ELSE 0
    PROVE  \A s \in Rows : reserved'[s] = HeldFor(s)'
<1> TAKE s \in Rows
<1>1. HeldFor(s)' = HeldFor(s) + (Held(i, s)' - Held(i, s))
  BY HeldMoves
<1>2. reserved[s] = HeldFor(s) /\ reserved[s] \in Int
  BY DEF Exact, TypeOK
<1>3. Held(i, s) \in Int /\ Held(i, s)' \in Int
  BY DEF Held, TypeOK, Records
<1>4. reserved'[s] = reserved[s] + IF s = r THEN x ELSE 0
  BY <1>2 DEF Add, TypeOK
<1>5. Held(i, s)' = Held(i, s) + IF s = r THEN x ELSE 0
  OBVIOUS
<1>6. QED
  BY <1>1, <1>2, <1>3, <1>4, <1>5

LEMMA ExactInit == Init => Exact
<1> SUFFICES ASSUME Init PROVE Exact
  OBVIOUS
<1>1. Reading = {}
  BY DEF Init, Reading
<1>2. ASSUME NEW r \in Rows PROVE HeldFor(r) = 0
  <2> DEFINE f == [i \in Reservations |-> Held(i, r)]
  <2>1. f \in [Reservations -> {0}]
    BY DEF Init, Held
  <2> HIDE DEF f
  <2>2. SumFunction(f) = 0
    BY <2>1, TotalZero, ReservationsAssumption
  <2>3. QED
    BY <2>2 DEF f, HeldFor
<1>3. QED
  BY <1>1, <1>2 DEF Exact, Init

Ended(p) == IF ReleaseReservation(p) THEN "RELEASED" ELSE "FULFILLED"

\* How a settling call, alone in flight, leaves its reservation.
Settled(p, i, r, q) ==
    /\ reservation[i].status = "ACTIVE" /\ reservation[i].row = r
    /\ q > 0 /\ q <= reservation[i].qty /\ reserved' = Add(reserved, r, -q)
    /\ ~FulfilOrderItem(p) => q = reservation[i].qty
    /\ reservation' =
         IF q = reservation[i].qty
           THEN [reservation EXCEPT ![i].status = Ended(p)]
           ELSE [reservation EXCEPT ![i].qty = reservation[i].qty - q]

LEMMA SettleStep ==
    ASSUME TypeOK, SerialInv, Exact, NEW p \in Requests,
           ReleaseReservation(p) \/ FulfillReservation(p) \/ FulfilOrderItem(p),
           NEW i \in Reservations, i = call[p].res,
           NEW r \in Rows, r = call[p].row, NEW q \in Nat, q = call[p].qty
    PROVE  Settled(p, i, r, q)
<1>1. p \in Reading /\ call[p].kind \in Settling /\ seen[p].status = "ACTIVE"
  BY DEF ReleaseReservation, FulfillReservation, FulfilOrderItem, Writing,
         StillActive, Reading, Settling
<1>2. seen[p].status = reservation[i].status /\ seen[p].held = reservation[i].qty
  <2>1. seen[p] = Snapshot(call[p])
    BY <1>1 DEF SerialInv, Fresh, Reading
  <2>2. QED
    BY <2>1 DEF Snapshot
<1>3. Proper(call[p])
  BY <1>1 DEF Exact
<1>4. /\ reservation[i].row = r
      /\ IF call[p].kind = "fulfilPart" THEN q \in Quantities ELSE q = reservation[i].qty
  BY <1>1, <1>3 DEF Proper
<1>5. reservation[i].qty > 0 /\ reservation[i].qty \in Nat
  BY <1>1, <1>2 DEF Exact, TypeOK, Records
<1>6. reserved' = Add(reserved, r, -q)
  BY DEF ReleaseReservation, FulfillReservation, FulfilOrderItem
<1>7. CASE ReleaseReservation(p)
  <2>1. call[p].kind = "release"
    BY <1>7 DEF ReleaseReservation, Writing
  <2>2. reservation' = [reservation EXCEPT ![i].status = "RELEASED"]
    BY <1>7 DEF ReleaseReservation
  <2>3. q = reservation[i].qty
    BY <1>4, <2>1
  <2>4. QED
    BY <1>1, <1>2, <1>4, <1>5, <1>6, <1>7, <2>2, <2>3 DEF Ended, Settled
<1>8. CASE FulfillReservation(p)
  <2>1. call[p].kind = "fulfil"
    BY <1>8 DEF FulfillReservation, Writing
  <2>2. reservation' = [reservation EXCEPT ![i].status = "FULFILLED"]
    BY <1>8 DEF FulfillReservation
  <2>3. q = reservation[i].qty /\ ~ReleaseReservation(p)
    BY <1>4, <2>1 DEF ReleaseReservation, Writing
  <2>4. QED
    BY <1>1, <1>2, <1>4, <1>5, <1>6, <2>2, <2>3 DEF Ended, Settled
<1>9. CASE FulfilOrderItem(p)
  <2>1. call[p].kind = "fulfilPart"
    BY <1>9 DEF FulfilOrderItem, Writing
  <2>2. ~ReleaseReservation(p) /\ q > 0
    BY <1>4, <2>1, QuantitiesAssumption DEF ReleaseReservation, Writing
  <2>3. q <= reservation[i].qty
    BY <1>2, <1>9 DEF FulfilOrderItem, WithinHold
  <2>4. Remainder(p) = reservation[i].qty - q
    BY <1>2 DEF Remainder
  <2>5. Remainder(p) = 0 <=> q = reservation[i].qty
    BY <1>5, <2>4
  <2>6. reservation' = IF Remainder(p) = 0
               THEN [reservation EXCEPT ![i].status = "FULFILLED"]
               ELSE [reservation EXCEPT ![i].qty = Remainder(p)]
    BY <1>9 DEF FulfilOrderItem
  <2>7. QED
    BY <1>1, <1>2, <1>4, <1>6, <1>9, <2>2, <2>3, <2>4, <2>5, <2>6 DEF Ended, Settled
<1>10. QED
  BY <1>7, <1>8, <1>9
LEMMA ExactFinish ==
    ASSUME TypeOK, TypeOK', SerialInv, Exact, NEW p \in Requests, FinishCall(p)
    PROVE  Exact'
<1>1. Reading' = {}
  BY DEF FinishCall, ReceiveStock, QuarantineReturn, ReserveStock,
         ReleaseReservation, FulfillReservation, FulfilOrderItem, DeductStock,
         Abandon, Writing, Reading, SerialInv, OneAtATime, TypeOK
<1>2. PICK r \in Rows, q \in Nat, i \in Reservations :
        r = call[p].row /\ q = call[p].qty /\ i = call[p].res
  BY DEF TypeOK, Calls
<1>3. CASE \/ ReceiveStock(p) \/ QuarantineReturn(p)
           \/ DeductStock(p) \/ Abandon(p)
  <2>1. UNCHANGED <<reserved, reservation>>
    BY <1>3 DEF ReceiveStock, QuarantineReturn, DeductStock, Abandon, balanceVars
  <2>2. QED
    BY <1>1, <2>1 DEF Exact, HeldFor, Held
<1>4. CASE ReserveStock(p)
  <2>1. PICK n \in Reservations :
          /\ reservation[n].status = "NONE"
          /\ reservation' = [reservation EXCEPT ![n] =
                               [status |-> "ACTIVE", row |-> r, qty |-> q]]
    BY <1>2, <1>4 DEF ReserveStock
  <2>2. reserved' = Add(reserved, r, q)
    BY <1>2, <1>4 DEF ReserveStock
  <2>3. q \in Quantities /\ q > 0
    <3>1. p \in Reading /\ call[p].kind = "reserve"
      BY <1>4 DEF ReserveStock, Writing, Reading
    <3>2. Proper(call[p]) /\ call[p].kind \notin Settling
      BY <3>1 DEF Exact, Settling
    <3>3. QED
      BY <1>2, <3>2, QuantitiesAssumption DEF Proper
  <2>4. /\ reservation'[n] = [status |-> "ACTIVE", row |-> r, qty |-> q]
        /\ \A j \in Reservations \ {n} : reservation'[j] = reservation[j]
    BY <2>1 DEF TypeOK
  <2>5. \A s \in Rows : Held(n, s)' = Held(n, s) + IF s = r THEN q ELSE 0
    BY <2>1, <2>4 DEF Held
  <2>6. \A s \in Rows : reserved'[s] = HeldFor(s)'
    <3>1. q \in Int
      OBVIOUS
    <3>2. QED
      BY <2>2, <2>4, <2>5, <3>1, ExactMove
  <2>7. QED
    BY <1>1, <2>3, <2>4, <2>6 DEF Exact
<1>5. CASE ReleaseReservation(p) \/ FulfillReservation(p) \/ FulfilOrderItem(p)
  <2>1. /\ reservation[i].status = "ACTIVE" /\ reservation[i].row = r
        /\ q > 0 /\ q <= reservation[i].qty /\ reserved' = Add(reserved, r, -q)
        /\ reservation' =
             IF q = reservation[i].qty
               THEN [reservation EXCEPT ![i].status = Ended(p)]
               ELSE [reservation EXCEPT ![i].qty = reservation[i].qty - q]
    <3>1. Settled(p, i, r, q)
      BY <1>2, <1>5, SettleStep
    <3>2. QED
      BY <3>1 DEF Settled
  <2>2. Ended(p) # "ACTIVE"
    BY DEF Ended
  <2>3. reservation[i] \in Records
    BY DEF TypeOK
  <2>4. /\ \A j \in Reservations \ {i} : reservation'[j] = reservation[j]
        /\ reservation'[i].row = r
        /\ IF q = reservation[i].qty
             THEN reservation'[i].status # "ACTIVE"
             ELSE /\ reservation'[i].status = "ACTIVE"
                  /\ reservation'[i].qty = reservation[i].qty - q
    BY <2>1, <2>2, <2>3 DEF TypeOK, Records
  <2>5. \A s \in Rows : Held(i, s)' = Held(i, s) + IF s = r THEN -q ELSE 0
    BY <2>1, <2>3, <2>4 DEF Held, Records
  <2>6. \A s \in Rows : reserved'[s] = HeldFor(s)'
    <3>1. -q \in Int
      OBVIOUS
    <3>2. QED
      BY <2>1, <2>4, <2>5, <3>1, ExactMove
  <2>7. \A j \in Reservations :
          reservation'[j].status = "ACTIVE" => reservation'[j].qty > 0
    BY <2>1, <2>3, <2>4 DEF Exact, Records
  <2>8. QED
    BY <1>1, <2>6, <2>7 DEF Exact
<1>6. QED
  BY <1>3, <1>4, <1>5 DEF FinishCall

LEMMA ExactNext ==
    TypeOK /\ TypeOK' /\ SerialInv /\ Exact /\ [Next]_vars => Exact'
<1> SUFFICES ASSUME TypeOK, TypeOK', SerialInv, Exact, [Next]_vars PROVE Exact'
  OBVIOUS
<1>1. ASSUME NEW p \in Requests, BeginCall(p) PROVE Exact'
  <2>1. PICK c \in Calls : Begin(p, c) /\ Proper(c)
    BY <1>1, BeginCallProper
  <2>2. UNCHANGED <<reserved, reservation>> /\ call'[p] = c
    BY <2>1 DEF Begin, balanceVars, TypeOK
  <2>3. \A o \in Reading' : o # p => o \in Reading /\ call'[o] = call[o]
    BY <2>1 DEF Begin, Reading, TypeOK
  <2>4. \A o \in Reading' : Proper(call[o])' 
    BY <2>1, <2>2, <2>3 DEF Exact, Proper
  <2>5. QED
    BY <2>2, <2>4 DEF Exact, HeldFor, Held
<1>2. CASE UNCHANGED vars
  BY <1>2 DEF vars, balanceVars, Exact, HeldFor, Held, Reading, Proper
<1>3. QED
  BY <1>1, <1>2, ExactFinish DEF Next

LEMMA LedgerInit == Init => Ledger!Init
<1> SUFFICES ASSUME Init PROVE Ledger!Init
  OBVIOUS
<1>1. NoRow \in Rows
  BY RowsAssumption DEF NoRow
<1>2. LedgerHolds \in [Reservations -> [row: Rows, qty: {0}, active: {FALSE}]]
  BY <1>1 DEF Init, LedgerHolds
<1>3. QED
  BY <1>2 DEF Init, Ledger!Init

\* What the ledger computes as free is what the column stores.
LEMMA LedgerFree ==
    ASSUME TypeOK, Conserved, Exact, NEW r \in Rows
    PROVE  Ledger!Free(r) = available[r]
<1> DEFINE f == [i \in Reservations |-> Held(i, r)]
<1>1. f = [i \in Reservations |->
             IF LedgerHolds[i].active /\ LedgerHolds[i].row = r
               THEN LedgerHolds[i].qty ELSE 0]
  BY DEF LedgerHolds, Held
<1>2. Ledger!HeldOn(r) = HeldFor(r)
  <2>1. SumFunction(f) = Ledger!SumFunction(f)
    BY DEF SumFunction, SumFunctionOnSet, FoldFunctionOnSet, MapThenFoldSet,
           Ledger!SumFunction, Ledger!SumFunctionOnSet, Ledger!FoldFunctionOnSet,
           Ledger!MapThenFoldSet
  <2>2. Ledger!HeldOn(r) = Ledger!SumFunction(f)
    BY <1>1 DEF Ledger!HeldOn
  <2>3. QED
    BY <2>1, <2>2 DEF HeldFor
<1>3. HeldFor(r) = reserved[r] /\ onHand[r] = reserved[r] + available[r] + quarantined[r]
  BY DEF Exact, Conserved, PhysicalSplit
<1>4. reserved[r] \in Int /\ available[r] \in Int /\ quarantined[r] \in Int
  BY DEF TypeOK
<1>5. QED
  BY <1>2, <1>3, <1>4 DEF Ledger!Free

LEMMA LedgerStep ==
    ASSUME TypeOK, TypeOK', Conserved, SerialInv, Exact,
           NEW p \in Requests, FinishCall(p)
    PROVE  Ledger!Next \/ UNCHANGED Ledger!ledger
<1>1. PICK r \in Rows, q \in Nat, i \in Reservations :
        r = call[p].row /\ q = call[p].qty /\ i = call[p].res
  BY DEF TypeOK, Calls
<1>2. ASSUME phase[p] = "reading", call[p].kind \notin Settling
      PROVE  q \in Quantities
  BY <1>1, <1>2 DEF Exact, Proper, Reading
<1>3. ASSUME Covered(p), phase[p] = "reading" PROVE Ledger!CanPromise(r, q)
  <2>1. seen[p].available = available[r]
    <3>1. seen[p] = Snapshot(call[p])
      BY <1>3 DEF SerialInv, Fresh
    <3>2. QED
      BY <1>1, <3>1 DEF Snapshot
  <2>2. QED
    BY <1>1, <1>3, <2>1, LedgerFree DEF Covered, Ledger!CanPromise
<1>4. ASSUME reservation' = reservation PROVE LedgerHolds' = LedgerHolds
  BY <1>4 DEF LedgerHolds
<1>5. CASE ReceiveStock(p)
  <2>1. q \in Quantities
    BY <1>2, <1>5 DEF ReceiveStock, Writing, Settling
  <2>2. Ledger!Arrive(r, q)
    BY <1>1, <1>4, <1>5 DEF ReceiveStock, Add, Ledger!Arrive
  <2>3. QED
    BY <2>1, <2>2 DEF Ledger!Next
<1>6. CASE QuarantineReturn(p)
  <2>1. q \in Quantities
    BY <1>2, <1>6 DEF QuarantineReturn, Writing, Settling
  <2>2. Ledger!Quarantine(r, q)
    BY <1>1, <1>4, <1>6 DEF QuarantineReturn, Add, Ledger!Quarantine
  <2>3. QED
    BY <2>1, <2>2 DEF Ledger!Next
<1>7. CASE DeductStock(p)
  <2>1. q \in Quantities
    BY <1>2, <1>7 DEF DeductStock, Writing, Settling
  <2>2. Ledger!CanPromise(r, q)
    BY <1>3, <1>7 DEF DeductStock, Writing
  <2>3. onHand' = [onHand EXCEPT ![r] = onHand[r] - q]
    <3>1. onHand' = [onHand EXCEPT ![r] = onHand[r] + (-q)]
      BY <1>1, <1>7 DEF DeductStock, Add
    <3>2. onHand[r] + (-q) = onHand[r] - q
      BY DEF TypeOK
    <3>3. QED
      BY <3>1, <3>2
  <2>4. Ledger!Sell(r, q)
    BY <1>4, <1>7, <2>2, <2>3 DEF DeductStock, stockVars, Ledger!Sell
  <2>5. QED
    BY <2>1, <2>4 DEF Ledger!Next
<1>8. CASE ReserveStock(p)
  <2>1. q \in Quantities
    BY <1>2, <1>8 DEF ReserveStock, Writing, Settling
  <2>2. Ledger!CanPromise(r, q)
    BY <1>3, <1>8 DEF ReserveStock, Writing
  <2>3. PICK n \in Reservations :
          /\ reservation[n].status = "NONE"
          /\ reservation' = [reservation EXCEPT ![n] =
                               [status |-> "ACTIVE", row |-> r, qty |-> q]]
    BY <1>1, <1>8 DEF ReserveStock
  <2>4. LedgerHolds' = [LedgerHolds EXCEPT ![n] =
                          [row |-> r, qty |-> q, active |-> TRUE]]
    BY <2>3 DEF LedgerHolds, TypeOK
  <2>5. Ledger!Hold(n, r, q)
    BY <1>8, <2>2, <2>3, <2>4
       DEF ReserveStock, stockVars, LedgerHolds, Ledger!Hold
  <2>6. QED
    BY <2>1, <2>5 DEF Ledger!Next
<1>9. CASE ReleaseReservation(p) \/ FulfillReservation(p) \/ FulfilOrderItem(p)
  <2> DEFINE h == LedgerHolds[i]
  <2>1. /\ reservation[i].status = "ACTIVE" /\ reservation[i].row = r
        /\ q > 0 /\ q <= reservation[i].qty
        /\ ~FulfilOrderItem(p) => q = reservation[i].qty
        /\ reservation' =
             IF q = reservation[i].qty
               THEN [reservation EXCEPT ![i].status = Ended(p)]
               ELSE [reservation EXCEPT ![i].qty = reservation[i].qty - q]
    <3>1. Settled(p, i, r, q)
      BY <1>1, <1>9, SettleStep
    <3>2. QED
      BY <3>1 DEF Settled
  <2>2. Ended(p) # "ACTIVE"
    BY DEF Ended
  <2>3. h.active /\ h.row = r /\ h.qty = reservation[i].qty /\ h.qty \in Nat
    BY <2>1 DEF LedgerHolds, TypeOK, Records
  <2>4. LedgerHolds' = IF q = reservation[i].qty
                         THEN [LedgerHolds EXCEPT ![i].active = FALSE]
                         ELSE [LedgerHolds EXCEPT ![i].qty = reservation[i].qty - q]
    <3>1. reservation \in [Reservations -> Records]
      BY DEF TypeOK
    <3>2. CASE q = reservation[i].qty
      <4>1. reservation' = [reservation EXCEPT ![i].status = Ended(p)]
        BY <2>1, <3>2
      <4>2. QED
        BY ZenonT(60), <2>2, <3>1, <3>2, <4>1 DEF LedgerHolds, Records
    <3>3. CASE q # reservation[i].qty
      <4>1. reservation' = [reservation EXCEPT ![i].qty = reservation[i].qty - q]
        BY <2>1, <3>3
      <4>2. QED
        BY ZenonT(60), <3>1, <3>3, <4>1 DEF LedgerHolds, Records
    <3>4. QED
      BY <3>2, <3>3
  <2> HIDE DEF h
  <2>5. CASE ReleaseReservation(p)
    <3>1. q = reservation[i].qty
      BY <2>1, <2>5 DEF ReleaseReservation, FulfilOrderItem, Writing
    <3>2. Ledger!LetGo(i)
      BY <2>3, <2>4, <2>5, <3>1
         DEF ReleaseReservation, stockVars, h, Ledger!LetGo
    <3>3. QED
      BY <3>2 DEF Ledger!Next
  <2>6. CASE FulfillReservation(p) \/ FulfilOrderItem(p)
    <3>1. onHand' = [onHand EXCEPT ![r] = onHand[r] - q]
      <4>1. onHand' = [onHand EXCEPT ![r] = onHand[r] + (-q)]
        BY <1>1, <2>6 DEF FulfillReservation, FulfilOrderItem, Add
      <4>2. onHand[r] + (-q) = onHand[r] - q
        BY DEF TypeOK
      <4>3. QED
        BY <4>1, <4>2
    <3>2. quarantined' = quarantined
      BY <2>6 DEF FulfillReservation, FulfilOrderItem
    <3>3. q \in 1..h.qty /\ (h.qty - q = 0 <=> q = reservation[i].qty)
      BY <2>1, <2>3
    <3>4. Ledger!Deliver(i, q)
      BY <2>3, <2>4, <3>1, <3>2, <3>3 DEF h, Ledger!Deliver
    <3>5. QED
      BY <3>3, <3>4 DEF Ledger!Next, h
  <2>7. QED
    BY <1>9, <2>5, <2>6
<1>10. CASE Abandon(p)
  BY <1>4, <1>10 DEF Abandon, balanceVars, stockVars, Ledger!ledger
<1>11. QED
  BY <1>5, <1>6, <1>7, <1>8, <1>9, <1>10 DEF FinishCall

\* With calls one at a time, every call of the stock writer is one step of the
\* abstract ledger or none.
THEOREM SerialImplementsLedger == InFlight = 1 /\ Spec => LedgerImplemented
<1> SUFFICES ASSUME InFlight = 1 PROVE Spec => LedgerImplemented
  OBVIOUS
<1>1. TypeOK /\ SerialInv /\ [Next]_vars => SerialInv'
  BY SerialNext
<1>2. TypeOK /\ TypeOK' /\ Conserved /\ SerialInv /\ Exact /\ [Next]_vars
        => [Ledger!Next]_(Ledger!ledger)
  <2> SUFFICES ASSUME TypeOK, TypeOK', Conserved, SerialInv, Exact, [Next]_vars
               PROVE  Ledger!Next \/ UNCHANGED Ledger!ledger
    OBVIOUS
  <2>1. ASSUME UNCHANGED <<onHand, quarantined, reservation>>
        PROVE  UNCHANGED Ledger!ledger
    BY <2>1 DEF Ledger!ledger, LedgerHolds
  <2>2. ASSUME NEW p \in Requests, BeginCall(p) PROVE UNCHANGED Ledger!ledger
    BY <2>1, <2>2, BeginCallType DEF Begin, balanceVars, stockVars
  <2>3. CASE UNCHANGED vars
    BY <2>1, <2>3 DEF vars, balanceVars, stockVars
  <2>4. QED
    BY <2>2, <2>3, LedgerStep DEF Next
<1>3. QED
  BY <1>1, <1>2, LedgerInit, TypeCorrect, StockConserved, SerialInit, ExactInit,
     ExactNext, PTL DEF Spec, LedgerImplemented, Ledger!Spec

-----------------------------------------------------------------------------
LEMMA LesserOfTwo ==
    ASSUME NEW a \in Int, NEW b \in Int
    PROVE  Min({a, b}) = IF a <= b THEN a ELSE b
<1>1. CASE a <= b
  <2>1. \A m : m \in {a, b} /\ (\A y \in {a, b} : m <= y) <=> m = a
    BY <1>1
  <2>2. QED
    BY <1>1, <2>1 DEF Min
<1>2. CASE ~(a <= b)
  <2>1. \A m : m \in {a, b} /\ (\A y \in {a, b} : m <= y) <=> m = b
    BY <1>2
  <2>2. QED
    BY <1>2, <2>1 DEF Min
<1>3. QED
  BY <1>1, <1>2

LEMMA GreaterOfTwo ==
    ASSUME NEW a \in Int, NEW b \in Int
    PROVE  Max({a, b}) = IF a >= b THEN a ELSE b
<1>1. CASE a >= b
  <2>1. \A m : m \in {a, b} /\ (\A y \in {a, b} : m >= y) <=> m = a
    BY <1>1
  <2>2. QED
    BY <1>1, <2>1 DEF Max
<1>2. CASE ~(a >= b)
  <2>1. \A m : m \in {a, b} /\ (\A y \in {a, b} : m >= y) <=> m = b
    BY <1>2
  <2>2. QED
    BY <1>2, <2>1 DEF Max
<1>3. QED
  BY <1>1, <1>2

(***************************************************************************)
(* FifoBatches.  The loop is followed batch by batch: after the first k    *)
(* batches of the order, what is still asked for is what those k do not    *)
(* have, each of them gave its share, and no other gave anything.          *)
(*                                                                         *)
(* The order of the query: the batches in stock, each once, the batches    *)
(* before each being those at the positions before its own.                *)
(***************************************************************************)
LEMMA StockedBatches ==
    ASSUME NEW bs \in Seq(Batches)
    PROVE  /\ IsFiniteSet(InStock(bs)) /\ InStock(bs) \subseteq 1..Len(bs)
           /\ DOMAIN bs = 1..Len(bs) /\ Len(bs) \in Nat /\ IsFiniteSet(DOMAIN bs)
           /\ \A i \in DOMAIN bs : bs[i] \in Batches /\ bs[i].qty \in Int /\ bs[i].expiry \in Nat
           /\ \A i \in InStock(bs) : bs[i].qty \in Nat \ {0}
<1>1. DOMAIN bs = 1..Len(bs) /\ Len(bs) \in Nat /\ IsFiniteSet(DOMAIN bs)
      /\ \A i \in DOMAIN bs : bs[i] \in Batches
  BY SequenceDomain
<1>2. \A i \in DOMAIN bs : bs[i].qty \in Int /\ bs[i].expiry \in Nat
  BY <1>1 DEF Batches
<1>3. InStock(bs) \subseteq DOMAIN bs
  BY DEF InStock
<1>4. IsFiniteSet(InStock(bs))
  BY <1>1, <1>3, FS_Subset
<1>5. \A i \in InStock(bs) : bs[i].qty \in Nat \ {0}
  BY <1>2 DEF InStock
<1>6. QED
  BY <1>1, <1>2, <1>3, <1>4, <1>5

\* By expiry and then by age, no two batches tie.
LEMMA EarlierIsTotal ==
    ASSUME NEW bs \in Seq(Batches)
    PROVE  \A i, j, k \in InStock(bs) :
             /\ ~Earlier(bs, i, i)
             /\ Earlier(bs, i, j) \/ Earlier(bs, j, i) \/ i = j
             /\ Earlier(bs, i, j) /\ Earlier(bs, j, k) => Earlier(bs, i, k)
<1> SUFFICES ASSUME NEW i \in InStock(bs), NEW j \in InStock(bs), NEW k \in InStock(bs)
             PROVE  /\ ~Earlier(bs, i, i)
                    /\ Earlier(bs, i, j) \/ Earlier(bs, j, i) \/ i = j
                    /\ Earlier(bs, i, j) /\ Earlier(bs, j, k) => Earlier(bs, i, k)
  OBVIOUS
<1>1. /\ bs[i].expiry \in Nat /\ bs[j].expiry \in Nat /\ bs[k].expiry \in Nat
      /\ i \in Int /\ j \in Int /\ k \in Int
  BY StockedBatches
<1>2. QED
  BY <1>1 DEF Earlier

\* How many batches come before a batch tells its place.
LEMMA BatchesBefore ==
    ASSUME NEW bs \in Seq(Batches), NEW i \in InStock(bs)
    PROVE  /\ IsFiniteSet(Before(bs, i)) /\ i \notin Before(bs, i)
           /\ Before(bs, i) \subseteq InStock(bs)
           /\ Cardinality(Before(bs, i)) \in 0..(Cardinality(InStock(bs)) - 1)
           /\ \A j \in InStock(bs) : j \in Before(bs, i) <=>
                Cardinality(Before(bs, j)) < Cardinality(Before(bs, i))
           /\ \A j \in Before(bs, i) : Before(bs, j) \cup {j} \subseteq Before(bs, i)
           /\ \A j \in InStock(bs) :
                Cardinality(Before(bs, j)) = Cardinality(Before(bs, i)) => i = j
<1> DEFINE S == InStock(bs)
           B(j) == Before(bs, j)
           Rank(j) == Cardinality(B(j))
<1>1. IsFiniteSet(S) /\ Cardinality(S) \in Nat
  BY StockedBatches, FS_CardinalityType
<1>2. \A j \in S : B(j) \subseteq S /\ j \notin B(j)
  BY EarlierIsTotal DEF Before
<1>3. \A j \in S : IsFiniteSet(B(j)) /\ Rank(j) \in Nat
  BY <1>1, <1>2, FS_Subset, FS_CardinalityType
<1>4. ASSUME NEW j \in S, NEW k \in S, j \in B(k)
      PROVE  Rank(j) < Rank(k) /\ B(j) \cup {j} \subseteq B(k)
  <2>1. B(j) \cup {j} \subseteq B(k)
    BY <1>4, EarlierIsTotal DEF Before
  <2>2. IsFiniteSet(B(j)) /\ IsFiniteSet(B(k)) /\ Rank(j) \in Nat /\ Rank(k) \in Nat /\ j \notin B(j)
    BY <1>2, <1>3
  <2>3. Cardinality(B(j) \cup {j}) = Rank(j) + 1
    BY <2>2, FS_AddElement
  <2>4. Cardinality(B(j) \cup {j}) <= Rank(k)
    BY <2>1, <2>2, FS_Subset
  <2>5. QED
    BY <2>1, <2>2, <2>3, <2>4
<1>5. Rank(i) \in 0..(Cardinality(S) - 1)
  <2>1. IsFiniteSet(B(i) \cup {i}) /\ Cardinality(B(i) \cup {i}) = Rank(i) + 1
    BY <1>2, <1>3, FS_AddElement
  <2>2. Cardinality(B(i) \cup {i}) <= Cardinality(S)
    BY <1>1, <1>2, FS_Subset
  <2>3. QED
    BY <1>1, <1>3, <2>1, <2>2
<1>6. \A j \in S : j \in B(i) \/ i \in B(j) \/ i = j
  BY EarlierIsTotal DEF Before
<1>7. \A j \in S : j \in B(i) <=> Rank(j) < Rank(i)
  BY <1>3, <1>4, <1>6
<1>8. \A j \in S : Rank(j) = Rank(i) => i = j
  BY <1>3, <1>4, <1>6
<1>9. \A j \in B(i) : B(j) \cup {j} \subseteq B(i)
  BY <1>2, <1>4
<1>10. QED
  BY <1>2, <1>3, <1>5, <1>7, <1>8, <1>9

\* The order read as a list of the batches in stock.
InOrder(bs, order) ==
    /\ DOMAIN order = 1..Cardinality(InStock(bs))
    /\ Len(order) = Cardinality(InStock(bs)) /\ Len(order) \in Nat
    /\ \A k \in 1..Len(order) : order[k] \in InStock(bs)
    /\ \A k \in 1..Len(order) :
         Before(bs, order[k]) = {order[m] : m \in 1..(k - 1)}
    /\ InStock(bs) = {order[k] : k \in 1..Len(order)}
    /\ \A k, m \in 1..Len(order) : order[k] = order[m] => k = m

\* The places 1..n and the n batches in stock pair off: places are injective,
\* and an injection between finite sets of one size is onto.
LEMMA OrderIsSorted ==
    ASSUME NEW bs \in Seq(Batches)
    PROVE  InOrder(bs, FifoOrder(bs))
<1> DEFINE S == InStock(bs)
           n == Cardinality(S)
           Rank(j) == Cardinality(Before(bs, j))
           r == [i \in S |-> Rank(i) + 1]
           order == FifoOrder(bs)
<1>1. IsFiniteSet(S) /\ n \in Nat
  BY StockedBatches, FS_CardinalityType
<1>2. \A i \in S : Rank(i) \in Nat /\ Rank(i) + 1 \in 1..n
  BY <1>1, BatchesBefore
<1>3. r \in Injection(S, 1..n)
  <2>1. r \in [S -> 1..n]
    BY <1>2
  <2>2. \A i, j \in S : r[i] = r[j] => i = j
    BY <1>2, BatchesBefore
  <2>3. QED
    BY <2>1, <2>2 DEF Injection, IsInjective
<1>4. IsFiniteSet(1..n) /\ Cardinality(1..n) = n
  BY <1>1, FS_Interval
<1>5. r \in Surjection(S, 1..n)
  BY <1>3, <1>4, FS_Injection
<1>6. \A k \in 1..n : \E i \in S : Rank(i) = k - 1
  <2>1. \A k \in 1..n : \E i \in S : r[i] = k
    BY <1>5 DEF Surjection
  <2>2. \A i \in S : r[i] = Rank(i) + 1
    OBVIOUS
  <2>3. \A k \in 1..n : k \in Int
    BY <1>1
  <2>4. QED
    BY <1>2, <2>1, <2>2, <2>3
<1>7. \A k \in 1..n : order[k] \in S /\ Rank(order[k]) = k - 1
  BY <1>6 DEF FifoOrder
<1>8. DOMAIN order = 1..n /\ Len(order) = n
  BY <1>1 DEF FifoOrder
<1>9. \A k, m \in 1..n : order[k] = order[m] => k = m
  BY <1>1, <1>7
<1>10. \A i \in S : i = order[Rank(i) + 1]
  BY <1>2, <1>7, BatchesBefore
<1>11. S = {order[k] : k \in 1..n}
  BY <1>2, <1>7, <1>10
<1>12. ASSUME NEW k \in 1..n
       PROVE  Before(bs, order[k]) = {order[m] : m \in 1..(k - 1)}
  <2>1. order[k] \in S /\ Rank(order[k]) = k - 1 /\ Before(bs, order[k]) \subseteq S
    BY <1>7, BatchesBefore
  <2>2. \A j \in S : j \in Before(bs, order[k]) <=> Rank(j) < k - 1
    BY <2>1, BatchesBefore
  <2>3. ASSUME NEW j \in Before(bs, order[k])
        PROVE  j \in {order[m] : m \in 1..(k - 1)}
    <3>1. j \in S /\ Rank(j) < k - 1 /\ Rank(j) \in Nat /\ j = order[Rank(j) + 1]
      BY <1>2, <1>10, <2>1, <2>2
    <3>2. QED
      BY <3>1
  <2>4. ASSUME NEW m \in 1..(k - 1)
        PROVE  order[m] \in Before(bs, order[k])
    <3>1. m \in 1..n /\ m - 1 < k - 1
      BY <1>1
    <3>2. QED
      BY <1>7, <2>2, <3>1
  <2>5. QED
    BY <2>3, <2>4
<1>13. QED
  BY <1>1, <1>7, <1>8, <1>9, <1>11, <1>12 DEF InOrder

(***************************************************************************)
(* The loop: after k batches.                                              *)
(***************************************************************************)
Runs(bs, q, order, n, after) ==
    after = [k \in 0..n |-> IF k = 0 THEN [remaining |-> q, taken |-> << >>]
                            ELSE DrawFrom(order[k], bs[order[k]].qty, after[k - 1])]

\* A function that the recursion defines exists, by induction on how far it
\* reaches.
LEMMA LoopExists ==
    ASSUME NEW bs, NEW q, NEW order, NEW n \in Nat
    PROVE  \E after : Runs(bs, q, order, n, after)
<1> DEFINE T == {m \in Nat : \E g : Runs(bs, q, order, m, g)}
           D(k, so) == DrawFrom(order[k], bs[order[k]].qty, so)
           Base == [remaining |-> q, taken |-> << >>]
<1>1. 0 \in T
  <2> DEFINE g == [k \in 0..0 |-> Base]
  <2>1. 0..0 = {0} /\ g = [k \in 0..0 |-> IF k = 0 THEN Base ELSE D(k, g[k - 1])]
    OBVIOUS
  <2>2. Runs(bs, q, order, 0, g)
    BY <2>1 DEF Runs
  <2>3. QED
    BY <2>2
<1>2. ASSUME NEW m \in T
      PROVE  m + 1 \in T
  <2>1. m \in Nat /\ m + 1 \in Nat
    OBVIOUS
  <2>2. PICK g : Runs(bs, q, order, m, g)
    OBVIOUS
  <2>3. g = [k \in 0..m |-> IF k = 0 THEN Base ELSE D(k, g[k - 1])]
    BY <2>2 DEF Runs
  <2>4. \A k \in 0..m : g[k] = IF k = 0 THEN Base ELSE D(k, g[k - 1])
    BY <2>3
  <2> DEFINE h == [k \in 0..(m + 1) |-> IF k = m + 1 THEN D(m + 1, g[m]) ELSE g[k]]
             step == [k \in 0..(m + 1) |-> IF k = 0 THEN Base ELSE D(k, h[k - 1])]
  <2>5. ASSUME NEW k \in 0..(m + 1)
        PROVE  h[k] = step[k]
    <3>1. CASE k = m + 1
      <4>1. m \in 0..(m + 1) /\ m # m + 1 /\ k # 0 /\ k - 1 = m
        BY <2>1, <3>1
      <4>2. h[m] = g[m] /\ h[k] = D(k, g[m])
        BY <3>1, <4>1
      <4>3. QED
        BY <4>1, <4>2
    <3>2. CASE k # m + 1
      <4>1. k \in 0..m /\ h[k] = g[k]
        BY <2>1, <3>2
      <4>2. CASE k = 0
        BY <2>4, <4>1, <4>2
      <4>3. CASE k # 0
        <5>1. k - 1 \in 0..(m + 1) /\ k - 1 # m + 1
          BY <2>1, <4>1, <4>3
        <5>2. h[k - 1] = g[k - 1]
          BY <5>1
        <5>3. QED
          BY <2>4, <4>1, <4>3, <5>2
      <4>4. QED
        BY <4>2, <4>3
    <3>3. QED
      BY <3>1, <3>2
  <2>6. h = step
    BY <2>5
  <2>7. Runs(bs, q, order, m + 1, h)
    BY <2>6 DEF Runs
  <2>8. QED
    BY <2>1, <2>7
<1>3. T = Nat
  BY <1>1, <1>2, NatSetInduction
<1>4. QED
  BY <1>3

LEMMA LoopRuns ==
    ASSUME NEW bs \in Seq(Batches), NEW q
    PROVE  \E after : /\ Runs(bs, q, FifoOrder(bs), Len(FifoOrder(bs)), after)
                      /\ DrawLoop(bs, q) = after[Len(FifoOrder(bs))]
<1>1. Len(FifoOrder(bs)) \in Nat
  BY OrderIsSorted DEF InOrder
<1>2. PICK after : after = CHOOSE g : Runs(bs, q, FifoOrder(bs), Len(FifoOrder(bs)), g)
  OBVIOUS
<1>3. Runs(bs, q, FifoOrder(bs), Len(FifoOrder(bs)), after)
  BY <1>1, <1>2, LoopExists
<1>4. DrawLoop(bs, q) = after[Len(FifoOrder(bs))]
  BY <1>2 DEF DrawLoop, Runs
<1>5. QED
  BY <1>3, <1>4

\* One more allocation.
LEMMA TakenTyped ==
    ASSUME NEW draw \in Seq(Allocations), NEW i
    PROVE  /\ TakenFrom(draw, i) \in Nat /\ Allocated(draw) \in Nat
           /\ (\A k \in DOMAIN draw : draw[k].batch # i) => TakenFrom(draw, i) = 0
<1> DEFINE e == [k \in DOMAIN draw |-> IF draw[k].batch = i THEN draw[k].qty ELSE 0]
<1>1. IsFiniteSet(DOMAIN draw) /\ \A k \in DOMAIN draw : draw[k] \in Allocations
  BY SequenceDomain
<1>2. \A k \in DOMAIN draw : draw[k].qty \in Nat
  BY <1>1 DEF Allocations
<1>3. e \in [DOMAIN draw -> Nat] /\ QtyOf(draw) \in [DOMAIN draw -> Nat]
  BY <1>2 DEF QtyOf
<1>4. SumFunction(e) \in Nat /\ SumFunction(QtyOf(draw)) \in Nat
  BY <1>1, <1>3, TotalNat
<1>5. ASSUME \A k \in DOMAIN draw : draw[k].batch # i
      PROVE  SumFunction(e) = 0
  <2>1. e \in [DOMAIN draw -> {0}]
    BY <1>5
  <2>2. QED
    BY ONLY <1>1, <2>1, TotalZero
<1>6. TakenFrom(draw, i) = SumFunction(e) /\ Allocated(draw) = SumFunction(QtyOf(draw))
  BY DEF TakenFrom, Allocated
<1>7. QED
  BY <1>4, <1>5, <1>6

AllocatesMore(draw, a, more) ==
    draw \in Seq(Allocations) /\ a \in Allocations /\ more = Append(draw, a)

LEMMA TakenAppend ==
    ASSUME NEW draw, NEW a, NEW more, AllocatesMore(draw, a, more), NEW i
    PROVE  /\ more \in Seq(Allocations)
           /\ TakenFrom(more, i) = TakenFrom(draw, i) + (IF a.batch = i THEN a.qty ELSE 0)
           /\ Allocated(more) = Allocated(draw) + a.qty
<1> DEFINE e == [k \in DOMAIN draw |-> IF draw[k].batch = i THEN draw[k].qty ELSE 0]
           f == [k \in DOMAIN more |-> IF more[k].batch = i THEN more[k].qty ELSE 0]
           n == Len(draw) + 1
           S == DOMAIN draw
<1>0. draw \in Seq(Allocations) /\ a \in Allocations /\ more = Append(draw, a)
  BY DEF AllocatesMore
<1>1. /\ more \in Seq(Allocations) /\ DOMAIN more = S \cup {n} /\ n \notin S
      /\ (\A k \in S : more[k] = draw[k]) /\ more[n] = a
  BY <1>0, SequenceAppend
<1>2. IsFiniteSet(S) /\ (\A k \in S : draw[k] \in Allocations)
  BY <1>0, SequenceDomain
<1>3. a.qty \in Nat /\ \A k \in S : draw[k].qty \in Nat
  BY <1>0, <1>2 DEF Allocations
<1>4. e \in [S -> Int] /\ f \in [S \cup {n} -> Int] /\ \A k \in S : f[k] = e[k]
  BY <1>1, <1>3
<1>5. f[n] = IF a.batch = i THEN a.qty ELSE 0
  BY <1>1
<1> HIDE DEF e, f, n, S
<1>6. SumFunction(f) = SumFunction(e) + f[n]
  <2>1. IsFiniteSet(S) /\ n \notin S
    BY <1>1, <1>2
  <2>2. Joined(S, n, e, f)
    BY <1>4, <2>1 DEF Joined
  <2>3. QED
    BY ONLY <2>2, TotalJoined
<1>7. QtyOf(draw) \in [S -> Int] /\ QtyOf(more) \in [S \cup {n} -> Int]
      /\ (\A k \in S : QtyOf(more)[k] = QtyOf(draw)[k]) /\ QtyOf(more)[n] = a.qty
  BY <1>1, <1>3 DEF QtyOf, S
<1>8. SumFunction(QtyOf(more)) = SumFunction(QtyOf(draw)) + QtyOf(more)[n]
  <2>1. PICK d : d = QtyOf(draw)
    OBVIOUS
  <2>2. PICK c : c = QtyOf(more)
    OBVIOUS
  <2>3. IsFiniteSet(S) /\ n \notin S /\ d \in [S -> Int] /\ c \in [S \cup {n} -> Int]
        /\ \A k \in S : c[k] = d[k]
    BY <1>1, <1>2, <1>7, <2>1, <2>2
  <2>4. Joined(S, n, d, c)
    BY <2>3 DEF Joined
  <2>5. SumFunction(c) = SumFunction(d) + c[n]
    BY ONLY <2>4, TotalJoined
  <2>6. QED
    BY <2>1, <2>2, <2>5
<1>9. TakenFrom(draw, i) = SumFunction(e) /\ TakenFrom(more, i) = SumFunction(f)
      /\ Allocated(draw) = SumFunction(QtyOf(draw)) /\ Allocated(more) = SumFunction(QtyOf(more))
  BY DEF TakenFrom, Allocated, e, f
<1>10. QED
  BY <1>1, <1>5, <1>6, <1>7, <1>8, <1>9

(***************************************************************************)
(* What is left to ask for, and what has been taken, after the first k     *)
(* batches of the order.                                                   *)
(***************************************************************************)
Leading(order, k) == {order[m] : m \in 1..k}
Had(bs, order, k) == SumFunctionOnSet(QtyOf(bs), Leading(order, k))

LEMMA LeadingGrows ==
    ASSUME NEW bs \in Seq(Batches), NEW order, InOrder(bs, order)
    PROVE  /\ Had(bs, order, 0) = 0
           /\ \A k \in 0..Len(order) : Had(bs, order, k) \in Nat
           /\ \A k \in 1..Len(order) :
                /\ Had(bs, order, k) = Had(bs, order, k - 1) + bs[order[k]].qty
                /\ Had(bs, order, k - 1) = SumFunctionOnSet(QtyOf(bs), Before(bs, order[k]))
           /\ Had(bs, order, Len(order)) = SumFunctionOnSet(QtyOf(bs), InStock(bs))
<1> DEFINE H(k) == Leading(order, k)
           S == InStock(bs)
           n == Len(order)
           f == QtyOf(bs)
<1>1. IsFiniteSet(S) /\ S \subseteq DOMAIN bs /\ (\A i \in S : bs[i].qty \in Nat)
  BY StockedBatches
<1>2. n \in Nat /\ (\A k \in 1..n : order[k] \in S) /\ S = {order[k] : k \in 1..n}
      /\ (\A k, m \in 1..n : order[k] = order[m] => k = m)
      /\ \A k \in 1..n : Before(bs, order[k]) = {order[m] : m \in 1..(k - 1)}
  BY DEF InOrder
<1>3. \A i \in S : f[i] = bs[i].qty /\ f[i] \in Nat
  BY <1>1 DEF QtyOf
<1>4. H(0) = {} /\ H(n) = S
  BY <1>2 DEF Leading
<1>5. \A k \in 0..n : H(k) \subseteq S
  <2>1. \A k \in 0..n : 1..k \subseteq 1..n
    BY <1>2
  <2>2. QED
    BY <1>2, <2>1 DEF Leading
<1>6. \A k \in 0..n : IsFiniteSet(H(k))
  BY <1>1, <1>5, FS_Subset
<1>7. ASSUME NEW k \in 0..n
      PROVE  SumFunctionOnSet(f, H(k)) \in Nat
  <2>1. IsFiniteSet(H(k)) /\ \A i \in H(k) : f[i] \in Nat
    BY <1>3, <1>5, <1>6
  <2>2. QED
    BY ONLY <2>1, SumNat
<1>8. ASSUME NEW k \in 1..n
      PROVE  SumFunctionOnSet(f, H(k)) = SumFunctionOnSet(f, H(k - 1)) + bs[order[k]].qty
  <2>1. k - 1 \in 0..n /\ k \in 0..n /\ 1..k = 1..(k - 1) \cup {k}
    BY <1>2
  <2>2. H(k) = H(k - 1) \cup {order[k]}
    BY <2>1 DEF Leading
  <2>3. \A m \in 1..(k - 1) : m \in 1..n /\ m # k
    BY <1>2
  <2>4. order[k] \notin H(k - 1)
    BY <1>2, <2>3 DEF Leading
  <2>5. IsFiniteSet(H(k - 1)) /\ \A i \in H(k - 1) \cup {order[k]} : f[i] \in Int
    BY <1>2, <1>3, <1>5, <1>6, <2>1
  <2>6. SumFunctionOnSet(f, H(k - 1) \cup {order[k]}) = SumFunctionOnSet(f, H(k - 1)) + f[order[k]]
    BY ONLY <2>4, <2>5, SumAdd
  <2>7. f[order[k]] = bs[order[k]].qty
    BY <1>2, <1>3
  <2>8. QED
    BY <2>2, <2>6, <2>7
<1>9. SumFunctionOnSet(f, H(0)) = 0
  BY <1>4, SumEmpty
<1>10. \A k \in 1..n : H(k - 1) = Before(bs, order[k])
  BY <1>2 DEF Leading
<1>11. \A k \in 0..n : Had(bs, order, k) = SumFunctionOnSet(f, H(k))
  BY DEF Had
<1>12. 0 \in 0..n /\ n \in 0..n /\ \A k \in 1..n : k \in 0..n /\ k - 1 \in 0..n
  BY <1>2
<1>13. QED
  BY <1>4, <1>7, <1>8, <1>9, <1>10, <1>11, <1>12

\* What is left of a quantity, what a batch gives of it, and what the batches
\* before one, and all of them, have.
Left(asked, had) == IF asked >= had THEN asked - had ELSE 0
ShareOf(have, left) == IF have <= left THEN have ELSE left
Gone(bs, i) == SumFunctionOnSet(QtyOf(bs), Before(bs, i))
Stocked(bs) == SumFunctionOnSet(QtyOf(bs), InStock(bs))

LEMMA ShareValue ==
    ASSUME NEW bs \in Seq(Batches), NEW q \in Nat, NEW i \in InStock(bs)
    PROVE  /\ Gone(bs, i) \in Nat
           /\ DrawShare(bs, q, i) = ShareOf(bs[i].qty, Left(q, Gone(bs, i)))
           /\ DrawShare(bs, q, i) \in 0..bs[i].qty
<1> DEFINE had == Gone(bs, i)
           have == bs[i].qty
<1>1. have \in Nat
  BY StockedBatches
<1>2. had \in Nat
  <2>1. IsFiniteSet(Before(bs, i)) /\ Before(bs, i) \subseteq InStock(bs)
    BY BatchesBefore
  <2>2. \A j \in Before(bs, i) : QtyOf(bs)[j] \in Nat
    BY <2>1, StockedBatches DEF QtyOf
  <2>3. SumFunctionOnSet(QtyOf(bs), Before(bs, i)) \in Nat
    BY ONLY <2>1, <2>2, SumNat
  <2>4. QED
    BY <2>3 DEF Gone
<1>3. Max({0, q - had}) = Left(q, had)
  <2>1. 0 \in Int /\ q - had \in Int
    BY <1>2
  <2>2. Max({0, q - had}) = IF 0 >= q - had THEN 0 ELSE q - had
    BY <2>1, GreaterOfTwo
  <2>3. QED
    BY <1>2, <2>2 DEF Left
<1>4. Left(q, had) \in Nat
  BY <1>2 DEF Left
<1>5. Min({have, Left(q, had)}) = ShareOf(have, Left(q, had))
  <2>1. have \in Int /\ Left(q, had) \in Int
    BY <1>1, <1>4
  <2>2. QED
    BY <2>1, LesserOfTwo DEF ShareOf
<1>6. DrawShare(bs, q, i) = Min({have, Max({0, q - had})})
  BY DEF DrawShare, Gone
<1>7. DrawShare(bs, q, i) = ShareOf(have, Left(q, had))
  BY <1>3, <1>5, <1>6
<1>8. ShareOf(have, Left(q, had)) \in 0..have
  BY <1>1, <1>4 DEF ShareOf
<1>9. QED
  BY <1>2, <1>7, <1>8

LEMMA ShareIs ==
    ASSUME NEW bs \in Seq(Batches), NEW order, InOrder(bs, order), NEW q \in Nat,
           NEW k \in 1..Len(order)
    PROVE  DrawShare(bs, q, order[k]) = ShareOf(bs[order[k]].qty, Left(q, Had(bs, order, k - 1)))
<1>1. order[k] \in InStock(bs)
  BY DEF InOrder
<1>2. Gone(bs, order[k]) = Had(bs, order, k - 1)
  BY LeadingGrows DEF Gone
<1>3. QED
  BY <1>1, <1>2, ShareValue

LoopState(bs, q, order, k, so) ==
    /\ so.remaining \in Nat /\ so.remaining = Left(q, Had(bs, order, k))
    /\ so.taken \in Seq(Allocations)
    /\ \A m \in DOMAIN so.taken : so.taken[m].batch \in InStock(bs)
    /\ Allocated(so.taken) + so.remaining = q
    /\ \A m \in 1..Len(order) :
         TakenFrom(so.taken, order[m]) = IF m <= k THEN DrawShare(bs, q, order[m]) ELSE 0

LEMMA LoopStarts ==
    ASSUME NEW bs \in Seq(Batches), NEW order, InOrder(bs, order), NEW q \in Nat
    PROVE  LoopState(bs, q, order, 0, [remaining |-> q, taken |-> << >>])
<1>1. << >> \in Seq(Allocations) /\ DOMAIN << >> = {}
  OBVIOUS
<1>2. \A i : TakenFrom(<< >>, i) = 0
  BY <1>1, TakenTyped
<1>3. Allocated(<< >>) = 0
  <2>1. DOMAIN QtyOf(<< >>) = {}
    BY <1>1 DEF QtyOf
  <2>2. QED
    BY <2>1, TotalEmpty DEF Allocated
<1>4. Left(q, Had(bs, order, 0)) = q
  BY LeadingGrows DEF Left
<1>5. \A m \in 1..Len(order) : ~(m <= 0)
  OBVIOUS
<1>6. QED
  BY <1>1, <1>2, <1>3, <1>4, <1>5 DEF LoopState

LEMMA LoopSteps ==
    ASSUME NEW bs \in Seq(Batches), NEW order, InOrder(bs, order), NEW q \in Nat,
           NEW k \in 1..Len(order), NEW so, LoopState(bs, q, order, k - 1, so)
    PROVE  LoopState(bs, q, order, k, DrawFrom(order[k], bs[order[k]].qty, so))
<1> DEFINE i == order[k]
           have == bs[order[k]].qty
           had == Had(bs, order, k - 1)
           n == Len(order)
           next == DrawFrom(order[k], bs[order[k]].qty, so)
           share == DrawShare(bs, q, order[k])
<1>1. n \in Nat /\ k \in Int /\ i \in InStock(bs) /\ \A m \in 1..n : order[m] = i => m = k
  <2>1. /\ n \in Nat /\ \A m \in 1..n : order[m] \in InStock(bs)
        /\ \A m, l \in 1..n : order[m] = order[l] => m = l
    BY DEF InOrder
  <2>2. QED
    BY <2>1
<1>2. have \in Nat \ {0} /\ i \in Nat \ {0}
  BY <1>1, StockedBatches
<1>3. Had(bs, order, k) = had + have /\ had \in Nat
  BY <1>1, LeadingGrows
<1>4. share = ShareOf(have, Left(q, had))
  BY ShareIs
<1>5. /\ so.remaining \in Nat /\ so.remaining = Left(q, had)
      /\ so.taken \in Seq(Allocations)
      /\ \A m \in DOMAIN so.taken : so.taken[m].batch \in InStock(bs)
      /\ Allocated(so.taken) + so.remaining = q
      /\ \A m \in 1..n :
           TakenFrom(so.taken, order[m]) = IF m <= k - 1 THEN DrawShare(bs, q, order[m]) ELSE 0
  BY DEF LoopState
<1>6. CASE so.remaining = 0
  <2>1. next = so
    BY <1>6 DEF DrawFrom
  <2>2. Left(q, Had(bs, order, k)) = 0
    BY <1>2, <1>3, <1>5, <1>6 DEF Left
  <2>3. share = 0
    BY <1>2, <1>4, <1>5, <1>6 DEF ShareOf
  <2>4. ASSUME NEW m \in 1..n
        PROVE  TakenFrom(so.taken, order[m]) = IF m <= k THEN DrawShare(bs, q, order[m]) ELSE 0
    <3>1. CASE m = k
      BY <1>1, <1>5, <2>3, <3>1
    <3>2. CASE m # k
      <4>1. m <= k - 1 <=> m <= k
        BY <1>1, <3>2
      <4>2. QED
        BY <1>5, <4>1
    <3>3. QED
      BY <3>1, <3>2
  <2>5. QED
    BY <1>5, <1>6, <2>1, <2>2, <2>4 DEF LoopState
<1>7. CASE so.remaining # 0
  <2> DEFINE part == ShareOf(have, so.remaining)
             a == [batch |-> i, qty |-> part]
             more == Append(so.taken, a)
  <2>1. so.remaining > 0 /\ ~(so.remaining <= 0)
    BY <1>5, <1>7
  <2>2. part \in Nat \ {0} /\ part <= so.remaining
    BY <1>2, <1>5, <2>1 DEF ShareOf
  <2>3. Take(have, so.remaining) = part
    BY SMTT(30), <1>2, <1>5, LesserOfTwo DEF Take, ShareOf
  <2>4. next = [remaining |-> so.remaining - part, taken |-> more]
    BY <2>1, <2>3 DEF DrawFrom
  <2>5. a \in Allocations /\ a.batch = i /\ a.qty = part
    BY <1>2, <2>2 DEF Allocations
  <2>6. more \in Seq(Allocations) /\ Allocated(more) = Allocated(so.taken) + part
        /\ \A j : TakenFrom(more, j) = TakenFrom(so.taken, j) + (IF i = j THEN part ELSE 0)
    <3>1. more = Append(so.taken, a) /\ so.taken \in Seq(Allocations) /\ a \in Allocations
          /\ a.batch = i /\ a.qty = part
      BY <1>5, <2>5
    <3> HIDE DEF more, a, i, part
    <3>2. PICK draw : draw = so.taken
      OBVIOUS
    <3>3. ASSUME NEW j
          PROVE  /\ more \in Seq(Allocations)
                 /\ TakenFrom(more, j) = TakenFrom(draw, j) + (IF a.batch = j THEN a.qty ELSE 0)
                 /\ Allocated(more) = Allocated(draw) + a.qty
      <4>1. AllocatesMore(draw, a, more)
        BY <3>1, <3>2 DEF AllocatesMore
      <4>2. QED
        BY ONLY <4>1, TakenAppend
    <3>4. QED
      BY <3>1, <3>2, <3>3
  <2>7. next.remaining = so.remaining - part /\ next.taken = more
    BY <2>4
  <2>8. next.remaining \in Nat /\ next.remaining = Left(q, Had(bs, order, k))
    <3>1. so.remaining = q - had /\ q >= had
      BY <1>3, <1>5, <2>1 DEF Left
    <3>2. QED
      BY SMTT(30), <1>2, <1>3, <1>5, <2>2, <2>7, <3>1 DEF Left, ShareOf
  <2>9. \A m \in DOMAIN more : more[m].batch \in InStock(bs)
    <3>1. DOMAIN more = DOMAIN so.taken \cup {Len(so.taken) + 1}
          /\ (\A m \in DOMAIN so.taken : more[m] = so.taken[m]) /\ more[Len(so.taken) + 1] = a
      <4>1. PICK draw, one, long : draw = so.taken /\ one = a /\ long = more
        OBVIOUS
      <4>2. draw \in Seq(Allocations) /\ one \in Allocations /\ long = Append(draw, one)
        BY <1>5, <2>5, <4>1
      <4>3. DOMAIN long = DOMAIN draw \cup {Len(draw) + 1}
            /\ (\A m \in DOMAIN draw : long[m] = draw[m]) /\ long[Len(draw) + 1] = one
        BY ONLY <4>2, SequenceAppend
      <4>4. QED
        BY <4>1, <4>3
    <3>2. QED
      BY <1>1, <1>5, <2>5, <3>1
  <2>10. Allocated(more) + next.remaining = q
    <3>1. Allocated(so.taken) \in Nat
      BY <1>5, TakenTyped
    <3>2. QED
      BY <1>5, <2>2, <2>6, <2>7, <3>1
  <2>11. ASSUME NEW m \in 1..n
         PROVE  TakenFrom(more, order[m]) = IF m <= k THEN DrawShare(bs, q, order[m]) ELSE 0
    <3>1. TakenFrom(more, order[m]) = TakenFrom(so.taken, order[m]) + (IF i = order[m] THEN part ELSE 0)
      BY <2>6
    <3>2. TakenFrom(so.taken, order[m]) \in Nat
      BY <1>5, TakenTyped
    <3>3. CASE m = k
      <4>1. TakenFrom(so.taken, order[m]) = 0
        BY <1>1, <1>5, <3>3
      <4>2. QED
        BY <1>1, <1>4, <1>5, <2>2, <3>1, <3>3, <4>1
    <3>4. CASE m # k
      <4>1. (m <= k - 1 <=> m <= k) /\ i # order[m]
        BY <1>1, <3>4
      <4>2. TakenFrom(more, order[m]) = TakenFrom(so.taken, order[m])
        BY <3>1, <3>2, <4>1
      <4>3. QED
        BY <1>5, <4>1, <4>2
    <3>5. QED
      BY <3>3, <3>4
  <2>12. QED
    BY <2>6, <2>7, <2>8, <2>9, <2>10, <2>11 DEF LoopState
<1>8. QED
  BY <1>6, <1>7

LEMMA LoopEnds ==
    ASSUME NEW bs \in Seq(Batches), NEW q \in Nat
    PROVE  LoopState(bs, q, FifoOrder(bs), Len(FifoOrder(bs)), DrawLoop(bs, q))
<1> DEFINE order == FifoOrder(bs)
           n == Len(order)
<1>1. InOrder(bs, order) /\ n \in Nat
  BY OrderIsSorted DEF InOrder
<1>2. PICK after : Runs(bs, q, order, n, after) /\ DrawLoop(bs, q) = after[n]
  BY LoopRuns
<1>3. \A k \in 0..n : after[k] = IF k = 0 THEN [remaining |-> q, taken |-> << >>]
                                 ELSE DrawFrom(order[k], bs[order[k]].qty, after[k - 1])
  BY <1>2 DEF Runs
<1> HIDE DEF order, n
<1> DEFINE T == {k \in Nat : k <= n => LoopState(bs, q, order, k, after[k])}
<1>4. 0 \in T
  <2>1. after[0] = [remaining |-> q, taken |-> << >>]
    BY <1>1, <1>3
  <2>2. QED
    BY <1>1, <2>1, LoopStarts
<1>5. ASSUME NEW m \in T
      PROVE  m + 1 \in T
  <2>1. CASE m + 1 <= n
    <3>1. m + 1 \in 1..n /\ m + 1 \in 0..n /\ m + 1 # 0 /\ (m + 1) - 1 = m /\ m \in Nat /\ m <= n
      BY <1>1, <2>1
    <3>2. after[m + 1] = DrawFrom(order[m + 1], bs[order[m + 1]].qty, after[m])
      BY <1>3, <3>1
    <3>3. LoopState(bs, q, order, (m + 1) - 1, after[m])
      BY <3>1
    <3>4. LoopState(bs, q, order, m + 1, DrawFrom(order[m + 1], bs[order[m + 1]].qty, after[m]))
      BY <1>1, <3>1, <3>3, LoopSteps DEF n
    <3>5. QED
      BY <3>1, <3>2, <3>4
  <2>2. CASE ~(m + 1 <= n)
    BY <2>2
  <2>3. QED
    BY <2>1, <2>2
<1>6. T = Nat
  BY <1>4, <1>5, NatSetInduction
<1>7. LoopState(bs, q, order, n, after[n])
  BY <1>1, <1>6
<1>8. QED
  BY <1>2, <1>7 DEF n, order

LEMMA GoneFits ==
    ASSUME NEW bs \in Seq(Batches), NEW i \in InStock(bs), NEW X \in SUBSET InStock(bs),
           Before(bs, i) \cup {i} \subseteq X
    PROVE  Gone(bs, i) + bs[i].qty <= SumFunctionOnSet(QtyOf(bs), X)
           /\ SumFunctionOnSet(QtyOf(bs), X) \in Nat
<1> DEFINE B == Before(bs, i)
           f == QtyOf(bs)
<1>1. IsFiniteSet(InStock(bs)) /\ \A j \in InStock(bs) : f[j] = bs[j].qty /\ f[j] \in Nat
  BY StockedBatches DEF QtyOf
<1>2. IsFiniteSet(X) /\ \A j \in X : f[j] \in Nat
  BY <1>1, FS_Subset
<1>3. IsFiniteSet(B) /\ i \notin B /\ B \cup {i} \subseteq X
  BY BatchesBefore
<1> HIDE DEF f, B
<1>4. SumFunctionOnSet(f, B \cup {i}) = SumFunctionOnSet(f, B) + f[i]
  <2>1. IsFiniteSet(B) /\ i \notin B /\ \A x \in B \cup {i} : f[x] \in Int
    BY <1>2, <1>3
  <2>2. QED
    BY ONLY <2>1, SumAdd
<1>5. SumFunctionOnSet(f, B \cup {i}) <= SumFunctionOnSet(f, X)
  BY <1>2, <1>3, SumSubset
<1>6. SumFunctionOnSet(f, X) \in Nat
  BY ONLY <1>2, SumNat
<1>7. QED
  BY <1>1, <1>4, <1>5, <1>6 DEF Gone, f, B

\* Whoever comes before a batch that gives something gives all it has.
LEMMA SharesFollowOrder ==
    ASSUME NEW bs \in Seq(Batches), NEW q \in Nat, NEW i \in InStock(bs)
    PROVE  /\ Stocked(bs) \in Nat
           /\ q > Stocked(bs) => DrawShare(bs, q, i) = bs[i].qty
           /\ \A j \in InStock(bs) :
                Earlier(bs, i, j) /\ DrawShare(bs, q, j) # 0 => DrawShare(bs, q, i) = bs[i].qty
<1>1. bs[i].qty \in Nat /\ \A j \in InStock(bs) : bs[j].qty \in Nat
  BY StockedBatches
<1>2. Gone(bs, i) + bs[i].qty <= Stocked(bs) /\ Stocked(bs) \in Nat
  <2>1. Before(bs, i) \cup {i} \subseteq InStock(bs)
    BY BatchesBefore
  <2>2. QED
    BY <2>1, GoneFits DEF Stocked
<1>3. Gone(bs, i) \in Nat /\ DrawShare(bs, q, i) = ShareOf(bs[i].qty, Left(q, Gone(bs, i)))
  BY ShareValue
<1>4. q >= Gone(bs, i) + bs[i].qty => DrawShare(bs, q, i) = bs[i].qty
  BY <1>1, <1>3 DEF ShareOf, Left
<1>5. ASSUME NEW j \in InStock(bs), Earlier(bs, i, j), DrawShare(bs, q, j) # 0
      PROVE  DrawShare(bs, q, i) = bs[i].qty
  <2>1. Gone(bs, j) \in Nat /\ DrawShare(bs, q, j) = ShareOf(bs[j].qty, Left(q, Gone(bs, j)))
    BY ShareValue
  <2>2. q >= Gone(bs, j)
    BY <1>1, <1>5, <2>1 DEF ShareOf, Left
  <2>3. i \in Before(bs, j)
    BY <1>5 DEF Before
  <2>4. Before(bs, i) \cup {i} \subseteq Before(bs, j) /\ Before(bs, j) \subseteq InStock(bs)
    BY <2>3, BatchesBefore
  <2>5. Gone(bs, i) + bs[i].qty <= Gone(bs, j)
    BY <2>4, GoneFits DEF Gone
  <2>6. QED
    BY <1>1, <1>3, <1>4, <2>1, <2>2, <2>5
<1>6. QED
  BY <1>1, <1>2, <1>3, <1>4, <1>5

(***************************************************************************)
(* The whole draw: every batch gives its share, and the last one, or a new *)
(* one, what all of them do not have.                                      *)
(***************************************************************************)
LastOf(bs, last) ==
    IF InStock(bs) = {} THEN last = Len(bs) + 1
    ELSE last \in InStock(bs) /\ \A i \in InStock(bs) : i = last \/ Earlier(bs, i, last)

DrawOf(bs, q, draw, last, short) ==
    /\ draw \in Seq(Allocations) /\ short \in Nat /\ short = Left(q, Stocked(bs))
    /\ Allocated(draw) = q
    /\ last \in 1..(Len(bs) + 1) /\ LastOf(bs, last)
    /\ \A m \in DOMAIN draw :
         draw[m].batch \in InStock(bs) \/ (short # 0 /\ draw[m].batch = last)
    /\ \A i : TakenFrom(draw, i) = (IF i \in InStock(bs) THEN DrawShare(bs, q, i) ELSE 0)
                                   + (IF i = last THEN short ELSE 0)

LEMMA LoopGives ==
    ASSUME NEW bs \in Seq(Batches), NEW q \in Nat
    PROVE  /\ \A i \in InStock(bs) : TakenFrom(DrawLoop(bs, q).taken, i) = DrawShare(bs, q, i)
           /\ \A i : i \notin InStock(bs) => TakenFrom(DrawLoop(bs, q).taken, i) = 0
           /\ DrawLoop(bs, q).remaining \in Nat
           /\ DrawLoop(bs, q).remaining = Left(q, Stocked(bs))
           /\ DrawLoop(bs, q).taken \in Seq(Allocations)
           /\ Allocated(DrawLoop(bs, q).taken) + DrawLoop(bs, q).remaining = q
           /\ \A m \in DOMAIN DrawLoop(bs, q).taken : DrawLoop(bs, q).taken[m].batch \in InStock(bs)
<1> DEFINE order == FifoOrder(bs)
           n == Len(order)
           so == DrawLoop(bs, q)
<1>1. InOrder(bs, order)
  BY OrderIsSorted
<1>2. LoopState(bs, q, order, n, so)
  BY LoopEnds
<1> HIDE DEF order, so
<1>3. n \in Nat /\ InStock(bs) = {order[k] : k \in 1..n}
  BY <1>1 DEF InOrder
<1>4. Had(bs, order, n) = Stocked(bs)
  BY <1>1, LeadingGrows DEF Stocked
<1>5. /\ so.remaining \in Nat /\ so.remaining = Left(q, Had(bs, order, n))
      /\ so.taken \in Seq(Allocations)
      /\ \A m \in DOMAIN so.taken : so.taken[m].batch \in InStock(bs)
      /\ Allocated(so.taken) + so.remaining = q
      /\ \A m \in 1..n :
           TakenFrom(so.taken, order[m]) = IF m <= n THEN DrawShare(bs, q, order[m]) ELSE 0
  BY <1>2 DEF LoopState
<1>6. ASSUME NEW i \in InStock(bs)
      PROVE  TakenFrom(so.taken, i) = DrawShare(bs, q, i)
  <2>1. PICK m \in 1..n : i = order[m]
    BY <1>3
  <2>2. m <= n
    BY <1>3
  <2>3. QED
    BY <1>5, <2>1, <2>2
<1>7. ASSUME NEW i, i \notin InStock(bs)
      PROVE  TakenFrom(so.taken, i) = 0
  <2>1. \A m \in DOMAIN so.taken : so.taken[m].batch # i
    BY <1>5, <1>7
  <2>2. QED
    BY <1>5, <2>1, TakenTyped
<1>8. QED
  BY <1>4, <1>5, <1>6, <1>7 DEF so

LEMMA FallbackIsLast ==
    ASSUME NEW bs \in Seq(Batches)
    PROVE  FallbackBatch(bs) \in 1..(Len(bs) + 1) /\ LastOf(bs, FallbackBatch(bs))
<1> DEFINE order == FifoOrder(bs)
           n == Len(order)
<1>1. InOrder(bs, order)
  BY OrderIsSorted
<1>2. order = << >> <=> InStock(bs) = {}
  <2>1. IsFiniteSet(InStock(bs)) /\ Cardinality(InStock(bs)) \in Nat
    BY StockedBatches, FS_CardinalityType
  <2>2. InStock(bs) = {} <=> Cardinality(InStock(bs)) = 0
    BY <2>1, FS_EmptySet
  <2>3. DOMAIN order = 1..Cardinality(InStock(bs))
    BY DEF FifoOrder
  <2>4. order = << >> <=> DOMAIN order = {}
    <3>1. order = [k \in DOMAIN order |-> order[k]]
      BY DEF FifoOrder
    <3>2. DOMAIN << >> = {} /\ << >> = [k \in {} |-> order[k]]
      OBVIOUS
    <3>3. QED
      BY <3>1, <3>2
  <2>5. QED
    BY <2>1, <2>2, <2>3, <2>4
<1>3. Len(bs) \in Nat /\ InStock(bs) \subseteq 1..Len(bs)
  BY StockedBatches
<1>4. CASE InStock(bs) = {}
  <2>1. FallbackBatch(bs) = Len(bs) + 1
    BY <1>2, <1>4 DEF FallbackBatch
  <2>2. QED
    BY <1>3, <1>4, <2>1 DEF LastOf
<1>5. CASE InStock(bs) # {}
  <2>1. FallbackBatch(bs) = order[n]
    BY <1>2, <1>5 DEF FallbackBatch
  <2> HIDE DEF order
  <2>2. n \in Nat /\ InStock(bs) = {order[k] : k \in 1..n}
        /\ \A k \in 1..n : Before(bs, order[k]) = {order[m] : m \in 1..(k - 1)}
    BY <1>1 DEF InOrder
  <2>3. n \in 1..n
    BY <1>5, <2>2
  <2>4. order[n] \in InStock(bs)
    BY <2>2, <2>3
  <2>5. ASSUME NEW i \in InStock(bs), i # order[n]
        PROVE  Earlier(bs, i, order[n])
    <3>1. PICK k \in 1..n : i = order[k]
      BY <2>2
    <3>2. k \in 1..(n - 1)
      BY <2>2, <2>5, <3>1
    <3>3. i \in Before(bs, order[n])
      BY <2>2, <2>3, <3>1, <3>2
    <3>4. QED
      BY <3>3 DEF Before
  <2>6. order[n] \in 1..(Len(bs) + 1)
    BY <1>3, <2>4
  <2>7. QED
    BY <1>5, <2>1, <2>4, <2>5, <2>6 DEF LastOf
<1>6. QED
  BY <1>4, <1>5

LEMMA DrawIs ==
    ASSUME NEW bs \in Seq(Batches), NEW q \in Nat
    PROVE  \E last, short : DrawOf(bs, q, FifoDraw(bs, q), last, short)
<1> DEFINE so == DrawLoop(bs, q)
           last == FallbackBatch(bs)
           draw == FifoDraw(bs, q)
           a == [batch |-> last, qty |-> so.remaining]
<1>1. last \in 1..(Len(bs) + 1) /\ LastOf(bs, last) /\ last \in Nat \ {0}
  <2>1. last \in 1..(Len(bs) + 1) /\ LastOf(bs, last)
    BY FallbackIsLast
  <2>2. Len(bs) \in Nat
    BY StockedBatches
  <2>3. QED
    BY <2>1, <2>2
<1>2. /\ \A i : TakenFrom(so.taken, i) = IF i \in InStock(bs) THEN DrawShare(bs, q, i) ELSE 0
      /\ so.remaining \in Nat /\ so.remaining = Left(q, Stocked(bs))
      /\ so.taken \in Seq(Allocations) /\ Allocated(so.taken) + so.remaining = q
      /\ \A m \in DOMAIN so.taken : so.taken[m].batch \in InStock(bs)
  BY LoopGives
<1>3. (\A i : TakenFrom(so.taken, i) \in Nat) /\ Allocated(so.taken) \in Nat
  BY <1>2, TakenTyped
<1>4. draw = IF so.remaining > 0 THEN Append(so.taken, a) ELSE so.taken
  BY DEF FifoDraw
<1> HIDE DEF so, last, draw
<1>5. CASE so.remaining = 0
  <2>1. draw = so.taken
    BY <1>4, <1>5
  <2>2. \A i : TakenFrom(draw, i) = (IF i \in InStock(bs) THEN DrawShare(bs, q, i) ELSE 0)
                                    + (IF i = last THEN so.remaining ELSE 0)
    BY <1>2, <1>3, <1>5, <2>1
  <2>3. Allocated(draw) = q
    BY <1>2, <1>3, <1>5, <2>1
  <2>4. DrawOf(bs, q, draw, last, so.remaining)
    BY <1>1, <1>2, <2>1, <2>2, <2>3 DEF DrawOf
  <2>5. QED
    BY <2>4 DEF draw
<1>6. CASE so.remaining # 0
  <2>1. draw = Append(so.taken, a) /\ a \in Allocations /\ a.batch = last /\ a.qty = so.remaining
    BY <1>1, <1>2, <1>4, <1>6 DEF Allocations
  <2>2. AllocatesMore(so.taken, a, draw)
    BY <1>2, <2>1 DEF AllocatesMore
  <2> HIDE DEF a
  <2>3. ASSUME NEW j
        PROVE  /\ draw \in Seq(Allocations)
               /\ TakenFrom(draw, j) = TakenFrom(so.taken, j) + (IF a.batch = j THEN a.qty ELSE 0)
               /\ Allocated(draw) = Allocated(so.taken) + a.qty
    BY ONLY <2>2, TakenAppend
  <2>4. \A i : TakenFrom(draw, i) = (IF i \in InStock(bs) THEN DrawShare(bs, q, i) ELSE 0)
                                    + (IF i = last THEN so.remaining ELSE 0)
    <3>1. \A i : TakenFrom(draw, i) = TakenFrom(so.taken, i) + (IF i = last THEN so.remaining ELSE 0)
      BY <2>1, <2>3
    <3>2. QED
      BY <1>2, <3>1
  <2>5. Allocated(draw) = q /\ draw \in Seq(Allocations)
    BY <1>2, <1>3, <2>1, <2>3
  <2>6. \A m \in DOMAIN draw :
          draw[m].batch \in InStock(bs) \/ (so.remaining # 0 /\ draw[m].batch = last)
    <3>1. DOMAIN draw = DOMAIN so.taken \cup {Len(so.taken) + 1}
          /\ (\A m \in DOMAIN so.taken : draw[m] = so.taken[m]) /\ draw[Len(so.taken) + 1] = a
      BY <1>2, <2>1, SequenceAppend
    <3>2. QED
      BY <1>2, <1>6, <2>1, <3>1
  <2>7. DrawOf(bs, q, draw, last, so.remaining)
    BY <1>1, <1>2, <2>4, <2>5, <2>6 DEF DrawOf
  <2>8. QED
    BY <2>7 DEF draw
<1>7. QED
  BY <1>5, <1>6

(***************************************************************************)
(* The batch records after an allocation list has been written.            *)
(***************************************************************************)
Fallback == [number |-> NoNumber, qty |-> 0, expiry |-> NoExpiry, status |-> "ACTIVE"]

LEMMA FallbackAdded ==
    ASSUME NEW bs \in Seq(Batches), NEW draw
    PROVE  /\ WithFallback(bs, draw) \in Seq(Batches)
           /\ Units(WithFallback(bs, draw)) = Units(bs)
           /\ \A i \in DOMAIN bs : WithFallback(bs, draw)[i] = bs[i]
           /\ DOMAIN bs \subseteq DOMAIN WithFallback(bs, draw)
           /\ \A i \in DOMAIN WithFallback(bs, draw) \ DOMAIN bs :
                /\ i = Len(bs) + 1 /\ WithFallback(bs, draw)[i].qty = 0
                /\ \E k \in DOMAIN draw : draw[k].batch > Len(bs)
           /\ (\E k \in DOMAIN draw : draw[k].batch > Len(bs))
                => Len(bs) + 1 \in DOMAIN WithFallback(bs, draw)
<1> DEFINE more == Append(bs, Fallback)
           all == WithFallback(bs, draw)
<1>1. Fallback \in Batches /\ Fallback.qty = 0
  BY ExpiryAssumption DEF Batches, Fallback
<1>2. CASE \E k \in DOMAIN draw : draw[k].batch > Len(bs)
  <2>1. all = more
    BY <1>2 DEF WithFallback, Fallback
  <2>2. /\ more \in Seq(Batches) /\ DOMAIN more = DOMAIN bs \cup {Len(bs) + 1}
        /\ Len(bs) + 1 \notin DOMAIN bs
        /\ (\A i \in DOMAIN bs : more[i] = bs[i]) /\ more[Len(bs) + 1] = Fallback
    BY <1>1, SequenceAppend
  <2> HIDE DEF more, all
  <2>3. PICK f, e, n, S : f = QtyOf(bs) /\ e = QtyOf(more) /\ n = Len(bs) + 1 /\ S = DOMAIN bs
    OBVIOUS
  <2>4. Joined(S, n, f, e) /\ e[n] = 0
    <3>1. IsFiniteSet(S) /\ \A i \in S : bs[i].qty \in Int
      BY <2>3, StockedBatches
    <3>2. f = [i \in S |-> bs[i].qty] /\ e = [i \in S \cup {n} |-> more[i].qty]
      BY <2>2, <2>3 DEF QtyOf
    <3>3. \A i \in S : more[i].qty \in Int /\ more[i].qty = bs[i].qty
      BY <2>2, <2>3, <3>1
    <3>4. more[n].qty = 0 /\ n \notin S
      BY <1>1, <2>2, <2>3
    <3>5. QED
      BY <3>1, <3>2, <3>3, <3>4 DEF Joined
  <2>5. SumFunction(e) = SumFunction(f) + 0
    BY <2>4, TotalJoined
  <2>6. SumFunction(f) \in Int
    BY <2>4, TotalInt DEF Joined
  <2>7. Units(more) = Units(bs)
    BY <2>3, <2>5, <2>6 DEF Units
  <2>8. QED
    BY <1>1, <1>2, <2>1, <2>2, <2>7 DEF all
<1>3. CASE ~\E k \in DOMAIN draw : draw[k].batch > Len(bs)
  <2>1. WithFallback(bs, draw) = bs
    BY <1>3 DEF WithFallback
  <2>2. QED
    BY <1>3, <2>1
<1>4. QED
  BY <1>2, <1>3

\* An allocation list takes from the batches, together, all it allocates.
LEMMA TakenIsAllocated ==
    ASSUME NEW draw \in Seq(Allocations), NEW S, IsFiniteSet(S),
           \A k \in DOMAIN draw : draw[k].batch \in S
    PROVE  SumFunctionOnSet([i \in S |-> TakenFrom(draw, i)], S) = Allocated(draw)
<1> DEFINE K == DOMAIN draw
           g == [i \in S |-> [k \in K |-> IF draw[k].batch = i THEN draw[k].qty ELSE 0]]
           h == [k \in K |-> [i \in S |-> IF draw[k].batch = i THEN draw[k].qty ELSE 0]]
           row == [i \in S |-> TakenFrom(draw, i)]
           col == QtyOf(draw)
<1>1. IsFiniteSet(K) /\ \A k \in K : draw[k] \in Allocations
  BY SequenceDomain
<1>2. \A k \in K : draw[k].qty \in Int
  BY <1>1 DEF Allocations
<1>3. \A i \in S : \A k \in K : g[i][k] \in Int /\ h[k][i] = g[i][k]
  BY <1>2
<1>4. \A i \in S : row[i] = SumFunctionOnSet(g[i], K)
  BY DEF TakenFrom, SumFunction
<1>5. ASSUME NEW k \in K
      PROVE  col[k] = SumFunctionOnSet(h[k], S)
  <2>1. PICK e, b, w : e = h[k] /\ b = draw[k].batch /\ w = draw[k].qty
    OBVIOUS
  <2>2. b \in S /\ w \in Int /\ col[k] = w
    BY <1>2, <1>5, <2>1 DEF QtyOf
  <2>3. e = [i \in S |-> IF b = i THEN w ELSE 0]
    BY <2>1
  <2>4. (\A i \in S : e[i] \in Int) /\ e[b] = w /\ {b} \subseteq S
        /\ (\A i \in S \ {b} : e[i] = 0) /\ e[b] \in Int
    BY <2>2, <2>3
  <2>5. SumFunctionOnSet(e, S) = SumFunctionOnSet(e, {b})
    BY ONLY <2>4, IsFiniteSet(S), SumSupport
  <2>6. SumFunctionOnSet(e, {b}) = e[b]
    <3>1. IsFiniteSet({}) /\ b \notin {} /\ (\A x \in {} \cup {b} : e[x] \in Int) /\ {} \cup {b} = {b}
      BY <2>4, FS_EmptySet
    <3>2. SumFunctionOnSet(e, {} \cup {b}) = SumFunctionOnSet(e, {}) + e[b]
      BY ONLY <3>1, SumAdd
    <3>3. SumFunctionOnSet(e, {}) = 0
      BY SumEmpty
    <3>4. QED
      BY <2>4, <3>1, <3>2, <3>3
  <2>7. QED
    BY <2>1, <2>2, <2>4, <2>5, <2>6
<1>6. DOMAIN col = K
  BY DEF QtyOf
<1> HIDE DEF g, h, row, col, K
<1>7. Tabled(S, K, g, h, row, col)
  BY <1>3, <1>4, <1>5 DEF Tabled
<1>8. SumFunctionOnSet(row, S) = SumFunctionOnSet(col, K)
  BY <1>1, <1>7, SumSwap
<1>9. Allocated(draw) = SumFunctionOnSet(col, K)
  BY <1>6 DEF Allocated, SumFunction, col
<1>10. QED
  BY <1>8, <1>9 DEF row

Fits(bs, draw) ==
    draw \in Seq(Allocations) /\ \A k \in DOMAIN draw : draw[k].batch \in 1..(Len(bs) + 1)

LEMMA AfterDrawIs ==
    ASSUME NEW bs \in Seq(Batches), NEW draw, Fits(bs, draw)
    PROVE  /\ AfterDraw(bs, draw) \in Seq(Batches)
           /\ DOMAIN AfterDraw(bs, draw) = DOMAIN WithFallback(bs, draw)
           /\ \A i \in DOMAIN AfterDraw(bs, draw) :
                AfterDraw(bs, draw)[i].qty = WithFallback(bs, draw)[i].qty - TakenFrom(draw, i)
           /\ Units(AfterDraw(bs, draw)) = Units(bs) - Allocated(draw)
<1> DEFINE all == WithFallback(bs, draw)
           next == AfterDraw(bs, draw)
           S == DOMAIN all
           taken == [i \in S |-> TakenFrom(draw, i)]
<1>0. draw \in Seq(Allocations) /\ \A k \in DOMAIN draw : draw[k].batch \in 1..(Len(bs) + 1)
  BY DEF Fits
<1>1. all \in Seq(Batches) /\ Units(all) = Units(bs) /\ DOMAIN bs \subseteq S
      /\ ((\E k \in DOMAIN draw : draw[k].batch > Len(bs)) => Len(bs) + 1 \in S)
  BY FallbackAdded
<1>2. S = 1..Len(all) /\ Len(all) \in Nat /\ IsFiniteSet(S) /\ \A i \in S : all[i] \in Batches
  BY <1>1, SequenceDomain
<1>3. \A i \in S : all[i].qty \in Int
  BY <1>2 DEF Batches
<1>4. next = [i \in S |-> [all[i] EXCEPT !.qty = all[i].qty - TakenFrom(draw, i)]]
  BY DEF AfterDraw
<1>5. \A i : TakenFrom(draw, i) \in Nat /\ Allocated(draw) \in Nat
  BY <1>0, TakenTyped
<1> HIDE DEF all, next
<1>6. ASSUME NEW i \in S
      PROVE  next[i] \in Batches /\ next[i].qty = all[i].qty - TakenFrom(draw, i)
  <2>1. PICK t \in Nat : t = TakenFrom(draw, i)
    BY <1>5
  <2>2. next[i] = [all[i] EXCEPT !.qty = all[i].qty - t]
    BY <1>4, <2>1
  <2>3. all[i] \in Batches /\ all[i].qty \in Int
    BY <1>2, <1>3
  <2>4. PICK b \in Batches : b = all[i]
    BY <2>3
  <2>5. next[i] = [b EXCEPT !.qty = b.qty - t] /\ b.qty - t \in Int
    BY <2>2, <2>3, <2>4
  <2>6. [b EXCEPT !.qty = b.qty - t] \in Batches
        /\ [b EXCEPT !.qty = b.qty - t].qty = b.qty - t
    BY <2>5 DEF Batches
  <2>7. QED
    BY <2>1, <2>4, <2>5, <2>6
<1>7. next \in Seq(Batches) /\ DOMAIN next = S
  <2>1. PICK n \in Nat : n = Len(all)
    BY <1>2
  <2>2. DOMAIN next = 1..n /\ next = [i \in 1..n |-> next[i]] /\ S = 1..n
    BY <1>2, <1>4, <2>1
  <2>3. next \in [1..n -> Batches]
    BY <1>6, <2>2
  <2>4. QED
    BY <2>2, <2>3
<1>8. QtyOf(next) \in [S -> Int] /\ QtyOf(all) \in [S -> Int] /\ taken \in [S -> Int]
      /\ \A i \in S : QtyOf(all)[i] = QtyOf(next)[i] + taken[i]
  <2>1. QtyOf(next) = [i \in S |-> next[i].qty] /\ QtyOf(all) = [i \in S |-> all[i].qty]
    BY <1>7 DEF QtyOf
  <2>2. QED
    BY <1>3, <1>5, <1>6, <2>1
<1>9. SumFunction(QtyOf(all)) = SumFunction(QtyOf(next)) + SumFunction(taken)
  <2>1. PICK f, e, h, D : f = QtyOf(next) /\ e = taken /\ h = QtyOf(all) /\ D = S
    OBVIOUS
  <2>2. IsFiniteSet(D) /\ f \in [D -> Int] /\ e \in [D -> Int] /\ h \in [D -> Int]
        /\ \A x \in D : h[x] = f[x] + e[x]
    BY <1>2, <1>8, <2>1
  <2>3. Termwise(D, f, e, h)
    BY <2>2 DEF Termwise
  <2> HIDE DEF S, taken
  <2>4. SumFunction(h) = SumFunction(f) + SumFunction(e)
    BY ONLY <2>3, TotalTermwise
  <2>5. QED
    BY <2>1, <2>4
<1>10. \A k \in DOMAIN draw : draw[k].batch \in S
  <2>1. DOMAIN bs = 1..Len(bs) /\ Len(bs) \in Nat
    BY StockedBatches
  <2>2. QED
    BY <1>0, <1>1, <2>1
<1>11. SumFunctionOnSet(taken, S) = Allocated(draw)
  BY <1>0, <1>2, <1>10, TakenIsAllocated
<1>12. SumFunction(taken) = Allocated(draw)
  BY <1>11 DEF SumFunction
<1>13. SumFunction(QtyOf(next)) \in Int
  BY <1>2, <1>8, TotalInt
<1>14. Units(next) = Units(bs) - Allocated(draw)
  BY <1>1, <1>5, <1>9, <1>12, <1>13 DEF Units
<1>15. QED
  BY <1>6, <1>7, <1>14 DEF next, all

LEMMA DrawFits ==
    ASSUME NEW bs \in Seq(Batches), NEW q \in Nat
    PROVE  Fits(bs, FifoDraw(bs, q)) /\ Allocated(FifoDraw(bs, q)) = q
<1>1. PICK last, short : DrawOf(bs, q, FifoDraw(bs, q), last, short)
  BY DrawIs
<1>2. InStock(bs) \subseteq 1..(Len(bs) + 1)
  BY StockedBatches
<1>3. QED
  BY <1>1, <1>2 DEF DrawOf, Fits

(***************************************************************************)
(* The records keep their types, and a draw from them is fair.             *)
(***************************************************************************)
LEMMA BatchTyped ==
    ASSUME BatchTypeOK, [BatchNext]_batchVars
    PROVE  BatchTypeOK'
<1> USE DrawnQuantitiesAssumption, ExpiryAssumption
<1>0. batches \in Seq(Batches) /\ rowOnHand \in Int /\ rowAvailable \in Int /\ drawn \in Seq(Allocations)
  BY DEF BatchTypeOK
<1>1. << >> \in Seq(Allocations)
  OBVIOUS
<1>2. ASSUME NEW b \in Batches
      PROVE  Append(batches, b) \in Seq(Batches)
  BY <1>0, <1>2
<1>3. ASSUME NEW i \in DOMAIN batches, NEW n \in Int
      PROVE  [batches EXCEPT ![i].qty = @ + n] \in Seq(Batches)
             /\ [batches EXCEPT ![i].qty = @ - n] \in Seq(Batches)
  <2>1. batches[i] \in Batches /\ batches[i].qty \in Int /\ i \in Nat \ {0}
    BY <1>0, StockedBatches
  <2>2. [batches[i] EXCEPT !.qty = batches[i].qty + n] \in Batches
        /\ [batches[i] EXCEPT !.qty = batches[i].qty - n] \in Batches
    <3>1. PICK b \in Batches : b = batches[i]
      BY <2>1
    <3>2. b.qty + n \in Int /\ b.qty - n \in Int
      BY <2>1, <3>1
    <3>3. QED
      BY <3>1, <3>2 DEF Batches
  <2>3. PICK up, down : up = [batches[i] EXCEPT !.qty = batches[i].qty + n]
                        /\ down = [batches[i] EXCEPT !.qty = batches[i].qty - n]
    OBVIOUS
  <2>4. up \in Batches /\ down \in Batches
    BY <2>2, <2>3
  <2>5. [batches EXCEPT ![i] = up] \in Seq(Batches) /\ [batches EXCEPT ![i] = down] \in Seq(Batches)
    BY <1>0, <2>4, SequenceSet
  <2>6. QED
    BY <2>1, <2>3, <2>5
<1>4. CASE UNCHANGED batchVars
  BY <1>0, <1>4 DEF batchVars, BatchTypeOK
<1>5. ASSUME NEW q \in DrawQuantities, NEW n \in BatchNumbers, ReceiveByNumber(n, q)
      PROVE  BatchTypeOK'
  <2>1. q \in Int /\ [number |-> n, qty |-> q, status |-> "ACTIVE", expiry |-> ExpiryOf[n]] \in Batches
    BY DEF Batches
  <2>2. batches' \in Seq(Batches)
    BY <1>2, <1>3, <1>5, <2>1 DEF ReceiveByNumber
  <2>3. QED
    BY <1>0, <1>1, <1>5, <2>1, <2>2 DEF ReceiveByNumber, Grow, BatchTypeOK
<1>6. ASSUME NEW q \in DrawQuantities, NEW i \in DOMAIN batches, ReceiveById(i, q)
      PROVE  BatchTypeOK'
  <2>1. q \in Int
    OBVIOUS
  <2>2. batches' \in Seq(Batches)
    BY <1>3, <1>6, <2>1 DEF ReceiveById
  <2>3. QED
    BY <1>0, <1>1, <1>6, <2>1, <2>2 DEF ReceiveById, Grow, BatchTypeOK
<1>7. ASSUME NEW q \in DrawQuantities, NEW i \in DOMAIN batches, DeductById(i, q)
      PROVE  BatchTypeOK'
  <2>1. q \in Nat \ {0} /\ q \in Int /\ i \in Nat \ {0}
    BY <1>0, StockedBatches
  <2>2. [batch |-> i, qty |-> q] \in Allocations
    BY <2>1 DEF Allocations
  <2>3. [batches EXCEPT ![i].qty = @ - q] \in Seq(Batches)
    BY <1>3, <2>1
  <2>4. batches' \in Seq(Batches)
    BY <1>7, <2>3 DEF DeductById
  <2>5. << [batch |-> i, qty |-> q] >> \in Seq(Allocations)
    BY <2>2
  <2>6. QED
    BY <1>0, <1>7, <2>1, <2>4, <2>5 DEF DeductById, BatchTypeOK
<1>8. ASSUME NEW q \in DrawQuantities, ReceiveUnbatched(q)
      PROVE  BatchTypeOK'
  <2>1. q \in Int
    OBVIOUS
  <2>2. QED
    BY <1>0, <1>1, <1>8, <2>1 DEF ReceiveUnbatched, Grow, BatchTypeOK
<1>9. ASSUME NEW q \in DrawQuantities, QuarantineBatch(q)
      PROVE  BatchTypeOK'
  <2>1. q \in Int /\ [number |-> ReturnNumber, qty |-> q, expiry |-> NoExpiry, status |-> "QUARANTINED"]
                      \in Batches
    BY DEF Batches
  <2>2. batches' \in Seq(Batches)
    BY <1>2, <1>9, <2>1 DEF QuarantineBatch
  <2>3. QED
    BY <1>0, <1>1, <1>9, <2>1, <2>2 DEF QuarantineBatch, Grow, BatchTypeOK
<1>10. ASSUME NEW q \in DrawQuantities, DeductFifo(q)
       PROVE  BatchTypeOK'
  <2>1. q \in Nat
    OBVIOUS
  <2>2. Fits(batches, FifoDraw(batches, q))
    BY <1>0, <2>1, DrawFits
  <2>3. AfterDraw(batches, FifoDraw(batches, q)) \in Seq(Batches) /\ FifoDraw(batches, q) \in Seq(Allocations)
    BY <1>0, <2>2, AfterDrawIs DEF Fits
  <2>4. QED
    BY <1>0, <1>10, <2>1, <2>3 DEF DeductFifo, BatchTypeOK
<1>11. QED
  BY <1>4, <1>5, <1>6, <1>7, <1>8, <1>9, <1>10 DEF BatchNext

LEMMA TypedIsFair ==
    ASSUME BatchTypeOK
    PROVE  DrawIsFair
<1>1. batches \in Seq(Batches) /\ \A q \in DrawQuantities : q \in Nat
  BY DrawnQuantitiesAssumption DEF BatchTypeOK
<1>2. ASSUME NEW q \in DrawQuantities
      PROVE  /\ \A i \in InStock(batches) :
                  TakenFrom(DrawLoop(batches, q).taken, i) = DrawShare(batches, q, i)
             /\ Allocated(FifoDraw(batches, q)) = q
             /\ Units(AfterDraw(batches, FifoDraw(batches, q))) = Units(batches) - q
  <2>1. Fits(batches, FifoDraw(batches, q)) /\ Allocated(FifoDraw(batches, q)) = q
    BY <1>1, DrawFits
  <2>2. Units(AfterDraw(batches, FifoDraw(batches, q))) = Units(batches) - q
    BY <1>1, <2>1, AfterDrawIs
  <2>3. QED
    BY <1>1, <2>1, <2>2, LoopGives
<1>3. QED
  BY <1>2 DEF DrawIsFair

(***************************************************************************)
(* The first to expire leaves first.                                       *)
(***************************************************************************)
LEMMA DrawInOrder ==
    ASSUME NEW bs \in Seq(Batches), NEW q \in Nat, NEW next,
           next = AfterDraw(bs, FifoDraw(bs, q))
    PROVE  /\ \A i, j \in DOMAIN bs :
                /\ bs[i].qty > 0
                /\ bs[i].expiry < bs[j].expiry
                /\ next[j].qty # bs[j].qty
                => next[i].qty = 0
           /\ \A j \in DOMAIN next :
                /\ next[j].qty < 0
                /\ j \in DOMAIN bs => bs[j].qty # next[j].qty
                => \A i \in DOMAIN next : next[i].qty <= 0
<1> DEFINE draw == FifoDraw(bs, q)
           all == WithFallback(bs, draw)
           S == InStock(bs)
<1>1. PICK last, short : DrawOf(bs, q, draw, last, short)
  BY DrawIs
<1>2. /\ short \in Nat /\ short = Left(q, Stocked(bs))
      /\ last \in 1..(Len(bs) + 1) /\ LastOf(bs, last)
      /\ \A m \in DOMAIN draw : draw[m].batch \in S \/ (short # 0 /\ draw[m].batch = last)
      /\ \A i : TakenFrom(draw, i) = (IF i \in S THEN DrawShare(bs, q, i) ELSE 0)
                                     + (IF i = last THEN short ELSE 0)
  BY <1>1 DEF DrawOf
<1>3. /\ DOMAIN bs = 1..Len(bs) /\ Len(bs) \in Nat /\ S \subseteq DOMAIN bs
      /\ \A i \in DOMAIN bs : bs[i].qty \in Int /\ bs[i].expiry \in Nat /\ (i \in S <=> bs[i].qty > 0)
  BY StockedBatches DEF InStock
<1>4. Fits(bs, draw)
  BY DrawFits
<1>5. DOMAIN next = DOMAIN all /\ \A i \in DOMAIN next : next[i].qty = all[i].qty - TakenFrom(draw, i)
  BY <1>4, AfterDrawIs
<1>6. /\ \A i \in DOMAIN bs : all[i] = bs[i] /\ i \in DOMAIN all
      /\ \A i \in DOMAIN all \ DOMAIN bs :
           i = Len(bs) + 1 /\ all[i].qty = 0 /\ \E k \in DOMAIN draw : draw[k].batch > Len(bs)
  BY FallbackAdded
<1>7. \A i \in S : DrawShare(bs, q, i) \in 0..bs[i].qty
  BY ShareValue
<1> HIDE DEF draw, all, S
<1>8. \A i \in DOMAIN bs : next[i].qty = bs[i].qty - TakenFrom(draw, i)
  BY <1>5, <1>6
<1>9. short # 0 => \A i \in S : DrawShare(bs, q, i) = bs[i].qty
  <2>1. ASSUME short # 0, NEW i \in S
        PROVE  DrawShare(bs, q, i) = bs[i].qty
    <3>1. i \in InStock(bs) /\ Stocked(bs) \in Nat
      BY SharesFollowOrder DEF S
    <3>2. q > Stocked(bs)
      BY <1>2, <2>1, <3>1 DEF Left
    <3>3. QED
      BY <3>1, <3>2, SharesFollowOrder
  <2>2. QED
    BY <2>1
<1>10. ASSUME NEW i \in DOMAIN bs, NEW j \in DOMAIN bs, bs[i].qty > 0,
              bs[i].expiry < bs[j].expiry, next[j].qty # bs[j].qty
       PROVE  next[i].qty = 0
  <2>1. i \in S /\ Earlier(bs, i, j) /\ ~Earlier(bs, j, i) /\ i # j
    BY <1>3, <1>10 DEF Earlier
  <2>2. S # {} /\ last \in S /\ (i = last \/ Earlier(bs, i, last)) /\ (j \in S => j = last \/ Earlier(bs, j, last))
    BY <1>2, <2>1 DEF LastOf, S
  <2>3. j \in S
    <3>1. CASE j \notin S
      <4>1. TakenFrom(draw, j) = 0
        BY <1>2, <2>2, <3>1
      <4>2. QED
        BY <1>3, <1>8, <1>10, <4>1
    <3>2. QED
      BY <3>1
  <2>4. i # last
    BY <2>1, <2>2, <2>3
  <2>5. TakenFrom(draw, i) = DrawShare(bs, q, i)
    BY <1>2, <1>7, <2>1, <2>4, <1>3
  <2>6. DrawShare(bs, q, i) = bs[i].qty
    <3>1. CASE short # 0
      BY <1>9, <2>1, <3>1
    <3>2. CASE short = 0
      <4>1. TakenFrom(draw, j) = DrawShare(bs, q, j)
        BY <1>2, <1>3, <1>7, <2>3, <3>2
      <4>2. DrawShare(bs, q, j) # 0
        BY <1>3, <1>8, <1>10, <4>1
      <4>3. i \in InStock(bs) /\ j \in InStock(bs)
        BY <2>1, <2>3 DEF S
      <4>4. QED
        BY <2>1, <4>2, <4>3, SharesFollowOrder
    <3>3. QED
      BY <3>1, <3>2
  <2>7. QED
    BY <1>3, <1>8, <2>5, <2>6
<1>11. ASSUME NEW j \in DOMAIN next, next[j].qty < 0, j \in DOMAIN bs => bs[j].qty # next[j].qty,
              NEW i \in DOMAIN next
       PROVE  next[i].qty <= 0
  <2>1. short # 0
    <3>1. SUFFICES ASSUME short = 0 PROVE FALSE
      OBVIOUS
    <3>2. \A m \in DOMAIN draw : draw[m].batch \in 1..Len(bs)
      BY <1>2, <1>3, <3>1
    <3>3. \A m \in DOMAIN draw : ~(draw[m].batch > Len(bs))
      BY <1>3, <3>2
    <3>4. j \in DOMAIN bs
      BY <1>5, <1>6, <3>3
    <3>5. TakenFrom(draw, j) = IF j \in S THEN DrawShare(bs, q, j) ELSE 0
      BY <1>2, <1>3, <1>7, <3>1
    <3>6. CASE j \in S
      BY <1>3, <1>7, <1>8, <1>11, <3>4, <3>5, <3>6
    <3>7. CASE j \notin S
      BY <1>3, <1>8, <1>11, <3>4, <3>5, <3>7
    <3>8. QED
      BY <3>6, <3>7
  <2>2. CASE i \in S
    <3>1. DrawShare(bs, q, i) = bs[i].qty /\ i \in DOMAIN bs
      BY <1>3, <1>9, <2>1, <2>2
    <3>2. TakenFrom(draw, i) = bs[i].qty + (IF i = last THEN short ELSE 0)
      BY <1>2, <2>2, <3>1
    <3>3. QED
      BY <1>2, <1>3, <1>8, <3>1, <3>2
  <2>3. CASE i \notin S
    <3>1. TakenFrom(draw, i) = IF i = last THEN short ELSE 0
      BY <1>2, <2>3
    <3>2. CASE i \in DOMAIN bs
      BY <1>2, <1>3, <1>8, <2>3, <3>1, <3>2
    <3>3. CASE i \notin DOMAIN bs
      <4>1. all[i].qty = 0
        BY <1>5, <1>6, <3>3
      <4>2. QED
        BY <1>2, <1>5, <3>1, <4>1
    <3>4. QED
      BY <3>2, <3>3
  <2>4. QED
    BY <2>2, <2>3
<1>12. QED
  BY <1>10, <1>11

LEMMA DeductionInOrder ==
    ASSUME BatchTypeOK, NEW q \in DrawQuantities, DeductFifo(q)
    PROVE  /\ \A i, j \in DOMAIN batches :
                /\ batches[i].qty > 0
                /\ batches[i].expiry < batches[j].expiry
                /\ batches'[j].qty # batches[j].qty
                => batches'[i].qty = 0
           /\ \A j \in DOMAIN batches' :
                /\ batches'[j].qty < 0
                /\ j \in DOMAIN batches => batches[j].qty # batches'[j].qty
                => \A i \in DOMAIN batches' : batches'[i].qty <= 0
<1>1. batches \in Seq(Batches) /\ q \in Nat
  BY DrawnQuantitiesAssumption DEF BatchTypeOK
<1>2. batches' = AfterDraw(batches, FifoDraw(batches, q))
  BY DEF DeductFifo
<1>3. QED
  BY <1>1, <1>2, DrawInOrder

\* The batch records of receiveStock, deductStock and completeReturn, and the
\* allocations a deduction returns, keep their types.
THEOREM BatchesTyped == BatchSpec => []BatchTypeOK
<1>1. BatchInit => BatchTypeOK
  BY DEF BatchInit, BatchTypeOK
<1>2. BatchTypeOK /\ [BatchNext]_batchVars => BatchTypeOK'
  BY BatchTyped
<1>3. QED
  BY <1>1, <1>2, PTL DEF BatchSpec

\* From every state, deductFromBatchesFIFO gives every batch its share of every
\* quantity, allocates exactly the quantity, and the records lose exactly that.
THEOREM DrawsAreFair == BatchSpec => []DrawIsFair
<1>1. BatchTypeOK => DrawIsFair
  BY TypedIsFair
<1>2. QED
  BY <1>1, BatchesTyped, PTL

\* A deduction that names no batch touches none while one that expires before
\* it keeps units, and drives none below zero while any other has a unit left.
THEOREM FirstExpiredLeavesFirst == BatchSpec => FirstExpiredFirstOut
<1> DEFINE Ordered ==
      \A q \in DrawQuantities : DeductFifo(q) =>
         /\ \A i, j \in DOMAIN batches :
              /\ batches[i].qty > 0
              /\ batches[i].expiry < batches[j].expiry
              /\ batches'[j].qty # batches[j].qty
              => batches'[i].qty = 0
         /\ \A j \in DOMAIN batches' :
              /\ batches'[j].qty < 0
              /\ j \in DOMAIN batches => batches[j].qty # batches'[j].qty
              => \A i \in DOMAIN batches' : batches'[i].qty <= 0
<1>1. BatchTypeOK => Ordered
  BY DeductionInOrder
<1>2. BatchTypeOK => [Ordered]_batchVars
  BY <1>1
<1>3. BatchSpec => [][Ordered]_batchVars
  BY <1>2, BatchesTyped, PTL
<1>4. QED
  BY <1>3 DEF FirstExpiredFirstOut
=============================================================================
