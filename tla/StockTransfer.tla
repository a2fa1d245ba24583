---------------------------- MODULE StockTransfer ----------------------------
(***************************************************************************)
(* Stock transfers between two branches, transfers.service.ts: a transfer  *)
(* is created, submitted, approved, picked (which reserves its stock),     *)
(* dispatched (which takes the stock off the source and puts it in transit *)
(* to the destination) and received.                                       *)
(*                                                                         *)
(* Every handler reads the transfer, checks its status and writes it by    *)
(* id: the write does not look at what it replaces.  A handler is given    *)
(* the transfer as it was read.  A call that runs alone reads and writes   *)
(* in one step; a slow one is overtaken, between the two, by calls that    *)
(* run alone.  All items are of one product variant, so they compete for   *)
(* one balance row at each branch; items of different variants never meet. *)
(*                                                                         *)
(* Quantities count the smallest unit a Decimal(18, 2) column stores, 0.01.*)
(***************************************************************************)
EXTENDS Integers, Sequences, SequencesExt, Functions

CONSTANTS
    Transfers,     \* identifiers of StockTransfer records
    Items,         \* identifiers of StockTransferItem records
    TransferOf,    \* the transfer of each item
    Opening,       \* stock on hand at the source when the run starts
    Requested,     \* the quantity requested of each item
    Quantities,    \* the quantities an approval may name
    Outcomes,      \* received, damaged and missing, as a receipt may report them
    ListedTimes,   \* how often a receipt may list one item; {1} is a client
                   \* that lists each item once
    Slow           \* the operations that may be overtaken after their read

ASSUME TransferOfAssumption == TransferOf \in [Items -> Transfers]
ASSUME ItemsAssumption == IsFiniteSet(Items)
ASSUME OpeningAssumption == Opening \in Nat
ASSUME QuantitiesAssumption == /\ Requested \in [Items -> Nat \ {0}]
                               /\ Quantities \subseteq Nat
ASSUME OutcomesAssumption == Outcomes \subseteq [received: Nat, damaged: Nat, missing: Nat]
ASSUME ListedTimesAssumption == ListedTimes \subseteq Nat

VARIABLES
    status,       \* StockTransfer.status
    item,         \* the quantities of each StockTransferItem
    holds,        \* the InventoryReservation records of each item
    parts,        \* StockTransferItemBatch.dispatchedQuantity, by item
    source,       \* the balance row of the source branch
    destination,  \* the balance row of the destination branch
    slow,         \* the overtaken call, if any, and what it read
    overtaken     \* history: a call has written a transfer that had changed
                  \* since the call read it

records == <<status, item, holds, parts>>
stock == <<source, destination>>
vars == <<records, stock, slow, overtaken>>

Statuses == {"NONE", "DRAFT", "REQUESTED", "APPROVED", "READY_FOR_DISPATCH",
             "DISPATCHED", "RECEIVED", "DISCREPANCY_REVIEW"}
ItemRecords == [requested: Nat, approved: Nat, dispatched: Nat,
                received: Nat, damaged: Nat, missing: Nat]
Holds == [qty: Nat \ {0}, status: {"ACTIVE", "FULFILLED"}]

ItemsOf(t) == {i \in Items : TransferOf[i] = t}

\* What a handler reads of a transfer.
Read(t) ==
    [status |-> status[t],
     item |-> Restrict(item, ItemsOf(t)),
     holds |-> Restrict(holds, ItemsOf(t)),
     parts |-> Restrict(parts, ItemsOf(t))]

NoCall == [op |-> "none"]

TypeOK ==
    /\ status \in [Transfers -> Statuses]
    /\ item \in [Items -> ItemRecords]
    /\ holds \in [Items -> Seq(Holds)]
    /\ parts \in [Items -> Seq(Nat \ {0})]
    /\ source \in [onHand: Int, reserved: Int, available: Int]
    /\ destination \in [onHand: Nat, transit: Int]
    /\ slow = NoCall \/ slow.op \in Slow
    /\ overtaken \in BOOLEAN

NothingYet == [requested |-> 0, approved |-> 0, dispatched |-> 0,
               received |-> 0, damaged |-> 0, missing |-> 0]

Init ==
    /\ status = [t \in Transfers |-> "NONE"]
    /\ item = [i \in Items |-> NothingYet]
    /\ holds = [i \in Items |-> <<>>]
    /\ parts = [i \in Items |-> <<>>]
    /\ source = [onHand |-> Opening, reserved |-> 0, available |-> Opening]
    /\ destination = [onHand |-> 0, transit |-> 0]
    /\ slow = NoCall
    /\ overtaken = FALSE

-----------------------------------------------------------------------------
Create(t) ==
    /\ status[t] = "NONE"
    /\ item' = [i \in Items |-> IF i \in ItemsOf(t)
                                  THEN [NothingYet EXCEPT !.requested = Requested[i]]
                                  ELSE item[i]]
    /\ status' = [status EXCEPT ![t] = "DRAFT"]
    /\ UNCHANGED <<holds, parts, stock>>

Submit(t, read) ==
    /\ status' = [status EXCEPT ![t] = "REQUESTED"]
    /\ UNCHANGED <<item, holds, parts, stock>>

\* An item the approval does not list keeps its approved quantity, 0 at first.
Approve(t, read) ==
    /\ \E listed \in SUBSET ItemsOf(t) :
         /\ listed # {}
         /\ \E granted \in [listed -> Quantities] :
              /\ \A i \in listed : granted[i] <= read.item[i].requested
              /\ item' = [i \in Items |-> IF i \in listed
                                            THEN [item[i] EXCEPT !.approved = granted[i]]
                                            ELSE item[i]]
    /\ status' = [status EXCEPT ![t] = "APPROVED"]
    /\ UNCHANGED <<holds, parts, stock>>

Granted(t, read) == {i \in ItemsOf(t) : read.item[i].approved > 0}

\* reserveStock for each granted item in turn; it decides on the available
\* stock that was read before the row lock (module InventoryWrite).
StartPicking(t, read, available) ==
    LET granted == Granted(t, read)
        total == SumFunctionOnSet([i \in granted |-> read.item[i].approved], granted)
    IN  /\ available >= total
        /\ source' = [source EXCEPT !.available = @ - total, !.reserved = @ + total]
        /\ holds' = [i \in Items |->
                       IF i \in granted
                         THEN Append(holds[i], [qty |-> read.item[i].approved,
                                                status |-> "ACTIVE"])
                         ELSE holds[i]]
        /\ status' = [status EXCEPT ![t] = "READY_FOR_DISPATCH"]
        /\ UNCHANGED <<item, parts, destination>>

-----------------------------------------------------------------------------
(***************************************************************************)
(* Dispatch.                                                               *)
(***************************************************************************)
Total(s) == SumFunction(s)

\* How deductFromBatchesFIFO may spread a quantity over batches: it gives
\* out exactly the quantity (module FifoBatches).  Their order means nothing.
Spreads(q) == {s \in BoundedSeq(1..q, q) : Total(s) = q /\ IsSorted(s, <=)}

\* findFirst: any ACTIVE reservation of the item, as it was read.
ActiveHold(read, i) ==
    {h \in DOMAIN read.holds[i] : read.holds[i][h].status = "ACTIVE"}

FaultyTaken(held, approved) == approved
\* What leaves the source for an item: the reservation it fulfils.
Taken(held, approved) == held

\* fulfillReservation of hold chosen[i], for each granted item; in transit
\* goes what was approved, not what the reservation held.
Dispatch(t, read) ==
    LET granted == Granted(t, read)
    IN  /\ \A i \in granted : ActiveHold(read, i) # {}
        /\ \E chosen \in [granted -> UNION {ActiveHold(read, i) : i \in granted}] :
             /\ \A i \in granted : chosen[i] \in ActiveHold(read, i)
             /\ LET held == [i \in granted |-> read.holds[i][chosen[i]].qty]
                    total == SumFunction([i \in granted |-> Taken(held[i], read.item[i].approved)])
                IN  /\ holds' = [i \in Items |->
                                   IF i \in granted
                                     THEN [holds[i] EXCEPT ![chosen[i]].status = "FULFILLED"]
                                     ELSE holds[i]]
                    /\ source' = [source EXCEPT !.onHand = @ - total, !.reserved = @ - total]
                    /\ \E spread \in [granted -> UNION {Spreads(held[i]) : i \in granted}] :
                         /\ \A i \in granted : spread[i] \in Spreads(held[i])
                         /\ parts' = [i \in Items |-> IF i \in granted
                                                        THEN parts[i] \o spread[i]
                                                        ELSE parts[i]]
        /\ item' = [i \in Items |->
                      IF i \in granted
                        THEN [item[i] EXCEPT !.dispatched = read.item[i].approved]
                        ELSE item[i]]
        /\ destination' = [destination EXCEPT !.transit =
             @ + SumFunctionOnSet([i \in granted |-> read.item[i].approved], granted)]
        /\ status' = [status EXCEPT ![t] = "DISPATCHED"]

-----------------------------------------------------------------------------
(***************************************************************************)
(* Receipt.                                                                *)
(***************************************************************************)
FaultyShare(part, dispatched, received) == (part * received) \div dispatched

\* A batch's part of what arrived, as a Decimal(18, 2) column rounds it.
Share(part, dispatched, received) ==
    (2 * part * received + dispatched) \div (2 * dispatched)

\* What the destination's row gains for one line of the receipt: a share for
\* each batch that was dispatched.
Credit(dispatched, batches, received) ==
    Total([k \in DOMAIN batches |-> Share(batches[k], dispatched, received)])

IsDiscrepancy(dispatched, r) ==
    \/ r.received + r.damaged + r.missing # dispatched
    \/ r.damaged > 0
    \/ r.missing > 0

\* Lines for one item carry the same outcome, which the item keeps.
Receive(t, read) ==
    /\ \E times \in [ItemsOf(t) -> ListedTimes], r \in [ItemsOf(t) -> Outcomes] :
         LET listed == {i \in ItemsOf(t) : times[i] > 0}
             shipped(i) == read.item[i].dispatched
         IN  /\ listed # {}
             /\ destination' =
                  [transit |-> destination.transit
                     - SumFunctionOnSet([i \in listed |-> times[i] * shipped(i)], listed),
                   onHand |-> destination.onHand
                     + SumFunctionOnSet([i \in listed |-> times[i] *
                         Credit(shipped(i), read.parts[i], r[i].received)], listed)]
             /\ item' = [i \in Items |->
                  IF i \in listed
                    THEN [item[i] EXCEPT !.received = r[i].received, !.damaged = r[i].damaged,
                                         !.missing = r[i].missing]
                    ELSE item[i]]
             /\ status' = [status EXCEPT ![t] =
                  IF \E i \in listed : IsDiscrepancy(shipped(i), r[i])
                    THEN "DISCREPANCY_REVIEW" ELSE "RECEIVED"]
    /\ UNCHANGED <<holds, parts, source>>

-----------------------------------------------------------------------------
Expected == [submit |-> "DRAFT", approve |-> "REQUESTED",
             startPicking |-> "APPROVED", dispatch |-> "READY_FOR_DISPATCH",
             receive |-> "DISPATCHED"]

ASSUME SlowAssumption == Slow \subseteq DOMAIN Expected

FaultyAccepts(op, state) ==
    \/ state = Expected[op]
    \/ op = "submit" /\ state \in {"READY_FOR_DISPATCH", "DISPATCHED"}

\* The status check each handler begins with.
Accepts(op, state) == state = Expected[op]

Handle(op, t, read, available) ==
    /\ Accepts(op, read.status)
    /\ \/ op = "submit" /\ Submit(t, read)
       \/ op = "approve" /\ Approve(t, read)
       \/ op = "startPicking" /\ StartPicking(t, read, available)
       \/ op = "dispatch" /\ Dispatch(t, read)
       \/ op = "receive" /\ Receive(t, read)

Alone ==
    /\ \E t \in Transfers :
         \/ Create(t)
         \/ \E op \in DOMAIN Expected : Handle(op, t, Read(t), source.available)
    /\ UNCHANGED <<slow, overtaken>>

\* Bound: after a call has been overtaken no other one is.
Pause ==
    /\ slow = NoCall
    /\ ~overtaken
    /\ \E op \in Slow, t \in Transfers :
         /\ Accepts(op, status[t])
         /\ slow' = [op |-> op, transfer |-> t, read |-> Read(t),
                   available |-> IF op = "startPicking" THEN source.available ELSE 0]
    /\ UNCHANGED <<records, stock, overtaken>>

\* The slow call writes, or is refused.
Resume ==
    /\ slow # NoCall
    /\ slow' = NoCall
    /\ \/ /\ Handle(slow.op, slow.transfer, slow.read, slow.available)
          /\ overtaken' = (overtaken \/ slow.read # Read(slow.transfer))
       \/ UNCHANGED <<records, stock, overtaken>>

Next == Alone \/ Pause \/ Resume

Spec == Init /\ [][Next]_vars

-----------------------------------------------------------------------------
InStatus(state) == {i \in Items : status[TransferOf[i]] = state}
Shipped(S) == SumFunctionOnSet([i \in Items |-> item[i].dispatched], S)
Held(i) == Total([h \in DOMAIN holds[i] |->
                    IF holds[i][h].status = "ACTIVE" THEN holds[i][h].qty ELSE 0])

\* However calls overlap, on records of the right type: the source has lost
\* what the batch records of the transfers say, and nothing that it did not
\* hold for them (dispatch).
SourceTracked ==
    /\ TypeOK
    /\ source.onHand = source.reserved + source.available
    /\ source.onHand = Opening - SumFunction([i \in Items |-> Total(parts[i])])

\* The rest fails when a call overtakes another on the same transfer; calls on
\* different transfers may overlap as they like.

\* A transfer holds stock from picking to dispatch and at no other time, and
\* holds what was approved, so that dispatch always finds its reservation, and
\* the batches it then names add up to what it says was dispatched
\* (startPicking, dispatch).
HeldUntilDispatch ==
    ~overtaken =>
      /\ \A i \in Items :
           /\ Held(i) = IF i \in InStatus("READY_FOR_DISPATCH") THEN item[i].approved ELSE 0
           /\ Total(parts[i]) = item[i].dispatched
      /\ source.reserved = SumFunction([i \in Items |-> Held(i)])

\* What the destination shows as in transit is what its DISPATCHED transfers
\* shipped.  What a partial receipt credits differs from what it reports by
\* at most half the smallest unit for each batch, shares being rounded one by
\* one; while no receipt reported a discrepancy nothing is lost to rounding,
\* and the destination has gained exactly what the source lost (receive).
DestinationTracked ==
    LET shippedItems == {i \in Items : item[i].dispatched > 0}
        reported == SumFunctionOnSet([i \in Items |-> item[i].received], shippedItems)
        batches == SumFunctionOnSet([i \in Items |-> Len(parts[i])],
                                    {i \in shippedItems : item[i].received > 0})
        error == 2 * (destination.onHand - reported)
    IN  ~overtaken =>
          /\ destination.transit = Shipped(InStatus("DISPATCHED"))
          /\ error \in (-batches)..batches
          /\ InStatus("DISCREPANCY_REVIEW") = {}
               => destination.onHand = Shipped(InStatus("RECEIVED"))
=============================================================================
