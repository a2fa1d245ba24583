---------------------------- MODULE MCOnlineOrder ----------------------------
(***************************************************************************)
(* Instances of OnlineOrder and of Cart for TLC: the carts of a shopper,   *)
(* and one order that came out of such a cart.  A behaviour is of one      *)
(* part, while the other part does nothing.                                *)
(***************************************************************************)
EXTENDS OnlineOrder, Cart, TLC

CONSTANTS h1, h2

VARIABLE part

MCHolds == {h1, h2}
MCOverrides == {"CANCELLED"}
MCSlow == {"callback", "dispatch"}
MCSymmetry == Permutations(Holds)

MCQuantities == 1..2

MCInit ==
    /\ Init
    /\ CartInit
    /\ part \in {"carts", "order"}
    /\ part = "order" => customers = <<>>

OrderStep ==
    /\ part = "order"
    /\ Next
    /\ UNCHANGED <<part, cartVars>>

CartStep ==
    /\ part = "carts"
    /\ CartNext
    /\ UNCHANGED <<part, vars>>

MCNext == OrderStep \/ CartStep

MCSpec == MCInit /\ [][MCNext]_<<part, vars, cartVars>>
=============================================================================
