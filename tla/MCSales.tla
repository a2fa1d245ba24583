------------------------------- MODULE MCSales --------------------------------
(***************************************************************************)
(* Instances of WholesaleOrder and of Checkout for TLC.  A behaviour is    *)
(* one of either part, while the other part does nothing.                  *)
(***************************************************************************)
EXTENDS WholesaleOrder, Checkout, TLC

CONSTANTS i1, i2

VARIABLE part

MCItems == {i1, i2}
MCOrdered == [i \in MCItems |-> IF i = i1 THEN 2 ELSE 1]
\* Enough for two orders of the first line, for one and a half of the other.
MCOpening == [i \in MCItems |-> IF i = i1 THEN 4 ELSE 2]
MCSlow == {"accept", "reject", "convert", "approve", "fulfil", "invoice", "generate",
           "cancel", "void"}

MCAdjustments == {-1}
MCSymmetry == Permutations(Keys)

MCInit ==
    /\ Init
    /\ TillInit
    /\ part \in {"orders", "till"}

OrderStep ==
    /\ part = "orders"
    /\ Next
    /\ UNCHANGED <<part, tillVars>>

TillStep ==
    /\ part = "till"
    /\ TillNext
    /\ UNCHANGED <<part, vars>>

MCNext == OrderStep \/ TillStep

MCSpec == MCInit /\ [][MCNext]_<<part, vars, tillVars>>
=============================================================================
