----------------------------- MODULE MCFifoBatches -----------------------------
(***************************************************************************)
(* Instances of FifoBatches for TLC.                                       *)
(***************************************************************************)
EXTENDS FifoBatches

MCNumbers == {"A", "B"}
\* B was received after A, in some runs, and expires before it.
MCExpiryOf == [n \in MCNumbers |-> IF n = "A" THEN 2 ELSE 1]
MCNoExpiry == 3
MCQuantities == 1..2
=============================================================================
