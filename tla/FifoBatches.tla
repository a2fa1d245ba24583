---------------------------- MODULE FifoBatches ----------------------------
(***************************************************************************)
(* The batches of one balance row: receiveStock and deductStock by batch,  *)
(* and deductFromBatchesFIFO of src/src/services/inventory-write.service.ts*)
(* Calls hold the row lock, and the batches are read after it is granted,  *)
(* so they run one at a time here.                                         *)
(***************************************************************************)
EXTENDS Integers, Sequences, FiniteSetsExt, Functions

CONSTANTS
    RowAllowsNegative,  \* Branch.allowsNegativeStock
    BatchNumbers,       \* batch numbers of goods receipts
    ExpiryOf,           \* the expiry date printed on each, as a day
    NoExpiry,           \* of a batch without a date: PostgreSQL sorts it last
    DrawQuantities,     \* the quantities a call may name
    MaxBatches,         \* bound: batch records of the row
    MaxUnits            \* bound: units on hand, and short, of the row or a batch

ASSUME ExpiryAssumption == ExpiryOf \in [BatchNumbers -> Nat] /\ NoExpiry \in Nat
ASSUME DrawnQuantitiesAssumption == DrawQuantities \subseteq Nat \ {0}

VARIABLES
    batches,       \* InventoryBatch records in the order of createdAt
    rowOnHand,     \* InventoryBalance.quantityOnHand
    rowAvailable,  \* InventoryBalance.quantityAvailable
    drawn          \* the allocations the latest deduction returned

batchVars == <<batches, rowOnHand, rowAvailable, drawn>>

NoNumber == "FALLBACK"
ReturnNumber == "RETURN"
Batches == [number: BatchNumbers \cup {NoNumber, ReturnNumber}, qty: Int,
            expiry: Nat,
            status: {"ACTIVE", "QUARANTINED"}]
Allocations == [batch: Nat \ {0}, qty: Nat \ {0}]

BatchTypeOK ==
    /\ batches \in Seq(Batches)
    /\ rowOnHand \in Int
    /\ rowAvailable \in Int
    /\ drawn \in Seq(Allocations)

QtyOf(records) == [i \in DOMAIN records |-> records[i].qty]
Units(bs) == SumFunction(QtyOf(bs))
Allocated(draw) == SumFunction(QtyOf(draw))

-----------------------------------------------------------------------------
(***************************************************************************)
(* deductFromBatchesFIFO.  The query keeps the batches with units left, by *)
(* expiry and then by age; it looks at no status.                          *)
(***************************************************************************)
FaultyEarlier(bs, i, j) == i < j

Earlier(bs, i, j) ==
    \/ bs[i].expiry < bs[j].expiry
    \/ bs[i].expiry = bs[j].expiry /\ i < j

InStock(bs) == {i \in DOMAIN bs : bs[i].qty > 0}

\* The batches that come before i, and the batch at each position.
Before(bs, i) == {j \in InStock(bs) : Earlier(bs, j, i)}
FifoOrder(bs) ==
    [k \in 1..Cardinality(InStock(bs)) |->
       CHOOSE i \in InStock(bs) : Cardinality(Before(bs, i)) = k - 1]

GreedyTake(have, remaining) == have

\* What one batch gives: all it has, or all that is still asked for.
Take(have, remaining) == Min({have, remaining})

DrawFrom(i, have, so) ==
    LET toDeduct == Take(have, so.remaining)
    IN  IF so.remaining <= 0 THEN so
        ELSE [remaining |-> so.remaining - toDeduct,
              taken |-> Append(so.taken, [batch |-> i, qty |-> toDeduct])]

\* The loop: drain batch after batch until the quantity is met.
DrawLoop(bs, q) ==
    LET order == FifoOrder(bs)
        after[k \in 0..Len(order)] ==
          IF k = 0 THEN [remaining |-> q, taken |-> <<>>]
          ELSE DrawFrom(order[k], bs[order[k]].qty, after[k - 1])
    IN  after[Len(order)]

\* What the loop could not cover goes to the last batch of the query, or to
\* a new FALLBACK batch when the query returned none.
FallbackBatch(bs) ==
    LET order == FifoOrder(bs)
    IN  IF order = <<>> THEN Len(bs) + 1 ELSE order[Len(order)]

FifoDraw(bs, q) ==
    LET loop == DrawLoop(bs, q)
    IN  IF loop.remaining > 0
          THEN Append(loop.taken, [batch |-> FallbackBatch(bs),
                                   qty |-> loop.remaining])
          ELSE loop.taken

\* The batch records after an allocation list has been written.
TakenFrom(draw, i) ==
    SumFunction([k \in DOMAIN draw |-> IF draw[k].batch = i THEN draw[k].qty ELSE 0])

WithFallback(bs, draw) ==
    IF \E k \in DOMAIN draw : draw[k].batch > Len(bs)
      THEN Append(bs, [number |-> NoNumber, qty |-> 0,
                       expiry |-> NoExpiry, status |-> "ACTIVE"])
      ELSE bs

AfterDraw(bs, draw) ==
    LET all == WithFallback(bs, draw)
    IN  [i \in DOMAIN all |-> [all[i] EXCEPT !.qty = @ - TakenFrom(draw, i)]]

-----------------------------------------------------------------------------
BatchInit ==
    /\ batches = <<>>
    /\ rowOnHand = 0
    /\ rowAvailable = 0
    /\ drawn = <<>>

Grow(q) ==
    /\ rowOnHand + q <= MaxUnits
    /\ rowOnHand' = rowOnHand + q
    /\ drawn' = <<>>

\* receiveStock with a batch number: the batch of that number grows, or a
\* new one is created.
ReceiveByNumber(n, q) ==
    /\ Grow(q)
    /\ rowAvailable' = rowAvailable + q
    /\ \/ \E i \in DOMAIN batches :
            /\ batches[i].number = n
            /\ batches[i].qty + q <= MaxUnits
            /\ batches' = [batches EXCEPT ![i].qty = @ + q]
       \/ /\ \A i \in DOMAIN batches : batches[i].number # n
          /\ Len(batches) < MaxBatches
          /\ batches' = Append(batches, [number |-> n, qty |-> q, status |-> "ACTIVE",
                                         expiry |-> ExpiryOf[n]])

\* receiveStock with a batch id: a stock adjustment of one batch.
ReceiveById(i, q) ==
    /\ Grow(q)
    /\ batches[i].qty + q <= MaxUnits
    /\ rowAvailable' = rowAvailable + q
    /\ batches' = [batches EXCEPT ![i].qty = @ + q]

\* receiveStock with neither: the restock of a return or of a voided sale.
ReceiveUnbatched(q) ==
    /\ Grow(q)
    /\ rowAvailable' = rowAvailable + q
    /\ UNCHANGED batches

\* completeReturn's QUARANTINE disposition.
QuarantineBatch(q) ==
    /\ Grow(q)
    /\ Len(batches) < MaxBatches
    /\ batches' = Append(batches, [number |-> ReturnNumber, qty |-> q,
                                   expiry |-> NoExpiry, status |-> "QUARANTINED"])
    /\ UNCHANGED rowAvailable

CanDeduct(q) ==
    /\ rowAvailable >= q \/ RowAllowsNegative
    /\ rowOnHand - q >= -MaxUnits

\* deductStock with a batch id: that batch pays, whatever it holds.
DeductById(i, q) ==
    /\ CanDeduct(q)
    /\ batches[i].qty - q >= -MaxUnits
    /\ rowOnHand' = rowOnHand - q
    /\ rowAvailable' = rowAvailable - q
    /\ batches' = [batches EXCEPT ![i].qty = @ - q]
    /\ drawn' = <<[batch |-> i, qty |-> q]>>

\* deductStock without one: deductFromBatchesFIFO.
DeductFifo(q) ==
    LET draw == FifoDraw(batches, q)
    IN  /\ CanDeduct(q)
        /\ Len(WithFallback(batches, draw)) <= MaxBatches
        /\ rowOnHand' = rowOnHand - q
        /\ rowAvailable' = rowAvailable - q
        /\ batches' = AfterDraw(batches, draw)
        /\ drawn' = draw

BatchNext ==
    \E q \in DrawQuantities :
      \/ \E n \in BatchNumbers : ReceiveByNumber(n, q)
      \/ \E i \in DOMAIN batches : ReceiveById(i, q) \/ DeductById(i, q)
      \/ ReceiveUnbatched(q)
      \/ QuarantineBatch(q)
      \/ DeductFifo(q)

BatchSpec == BatchInit /\ [][BatchNext]_batchVars

-----------------------------------------------------------------------------
\* Reference: a batch gives what is still asked for after all the batches
\* before it gave everything they had.
DrawShare(bs, q, i) ==
    Min({bs[i].qty, Max({0, q - SumFunctionOnSet(QtyOf(bs), Before(bs, i))})})

\* On records of the right type: the loop of deductFromBatchesFIFO gives every
\* batch exactly its share, what it gives and what it could not cover add up
\* to the quantity, and the batch records lose exactly that.
DrawIsFair ==
    /\ BatchTypeOK
    /\ \A q \in DrawQuantities :
         LET draw == FifoDraw(batches, q)
         IN  /\ \A i \in InStock(batches) :
                  TakenFrom(DrawLoop(batches, q).taken, i) = DrawShare(batches, q, i)
             /\ Allocated(draw) = q
             /\ Units(AfterDraw(batches, draw)) = Units(batches) - q

\* Unless the deduction named its batch: no batch is touched while one that
\* expires before it still has units, and none is driven below zero while
\* anything else on the row has a unit left (deductFromBatchesFIFO).
FirstExpiredFirstOut ==
    [][\A q \in DrawQuantities : DeductFifo(q) =>
         /\ \A i, j \in DOMAIN batches :
              /\ batches[i].qty > 0
              /\ batches[i].expiry < batches[j].expiry
              /\ batches'[j].qty # batches[j].qty
              => batches'[i].qty = 0
         /\ \A j \in DOMAIN batches' :
              /\ batches'[j].qty < 0
              /\ j \in DOMAIN batches => batches[j].qty # batches'[j].qty
              => \A i \in DOMAIN batches' : batches'[i].qty <= 0]_batchVars

\* SaleItemBatch is unique by sale item and batch, and checkout creates one
\* record per allocation: a deduction names a batch at most once.
OneAllocationPerBatch ==
    \A i, j \in DOMAIN drawn : drawn[i].batch = drawn[j].batch => i = j
=============================================================================
