----------------------------- MODULE MCPayments -----------------------------
(***************************************************************************)
(* Instances of Payments for TLC.                                          *)
(***************************************************************************)
EXTENDS Payments, TLC

CONSTANTS s1, c1

MCSales == {s1}
MCTotal == s1 :> 2
MCCheckouts == {c1}
MCAmounts == {1, 2}
MCSlow == Operations
MCNoneSlow == {}
=============================================================================
