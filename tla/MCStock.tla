------------------------------- MODULE MCStock --------------------------------
(***************************************************************************)
(* Instances of StockTransfer and of FifoBatches for TLC: stock sent to    *)
(* another branch, and the batches a row is split into.  A behaviour is of *)
(* one part, while the other part does nothing.                            *)
(***************************************************************************)
EXTENDS StockTransfer, FifoBatches

CONSTANTS t1, t2, i1, i2, i3

VARIABLE part

\* t1 lists two lines of the same variant, t2 competes with it for the stock.
MCTransfers == {t1, t2}
MCItems == {i1, i2, i3}
MCTransferOf == [i \in MCItems |-> IF i = i3 THEN t2 ELSE t1]
MCRequested == [i \in MCItems |-> IF i = i3 THEN 1 ELSE 3]
MCQuantities == {0, 1, 3}
Outcome(received, damaged, missing) ==
    [received |-> received, damaged |-> damaged, missing |-> missing]
\* All of 3 (too many of 1), all of 1 (3 short without a word), 3 with one
\* missing, 1 damaged.
MCOutcomes == {Outcome(3, 0, 0), Outcome(1, 0, 0), Outcome(2, 0, 1), Outcome(0, 1, 0)}
MCOnce == {1}
MCSlow == DOMAIN Expected
MCSymmetry == Permutations({i1, i2})

\* B was received after A, in some runs, and expires before it.
MCNumbers == {"A", "B"}
MCExpiryOf == [n \in MCNumbers |-> IF n = "A" THEN 2 ELSE 1]
MCDraws == 1..2

MCInit ==
    /\ Init
    /\ BatchInit
    /\ part \in {"transfers", "batches"}

TransferStep ==
    /\ part = "transfers"
    /\ Next
    /\ UNCHANGED <<part, batchVars>>

BatchStep ==
    /\ part = "batches"
    /\ BatchNext
    /\ UNCHANGED <<part, vars>>

MCNext == TransferStep \/ BatchStep

MCSpec == MCInit /\ [][MCNext]_<<part, vars, batchVars>>
=============================================================================
