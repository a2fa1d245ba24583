------------------------------- MODULE MCBranch -------------------------------
(***************************************************************************)
(* Instances of Shift and of StockDocuments for TLC: what a branch counts, *)
(* the cash in its drawers and the stock on its shelves.  A behaviour is   *)
(* of one part, while the other part does nothing.                         *)
(***************************************************************************)
EXTENDS Shift, StockDocuments

VARIABLE part

MCQuantities == {-1, 1}
MCMaxOfKind == [count |-> 1, adjustment |-> 2, issue |-> 1]

MCInit ==
    /\ Init
    /\ DocumentInit
    /\ part \in {"cash", "stock"}

CashStep ==
    /\ part = "cash"
    /\ Next
    /\ UNCHANGED <<part, documentVars>>

StockStep ==
    /\ part = "stock"
    /\ DocumentNext
    /\ UNCHANGED <<part, vars>>

MCNext == CashStep \/ StockStep

MCSpec == MCInit /\ [][MCNext]_<<part, vars, documentVars>>
=============================================================================
