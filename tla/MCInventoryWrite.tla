--------------------------- MODULE MCInventoryWrite ---------------------------
(***************************************************************************)
(* Instances of InventoryWrite for TLC.                                    *)
(***************************************************************************)
EXTENDS InventoryWrite, TLC

CONSTANTS row1, row2, res1, res2, c1, c2, c3, c4

\* row1 is stocked and may not go negative; row2 does not exist yet and
\* belongs to a branch that allows negative stock.
MCRows == {row1, row2}
MCNegativeAllowed == {row2}
MCOpening == [r \in MCRows |-> IF r = row1 THEN 2 ELSE 0]
MCReservations == {res1, res2}
MCOneReservation == {res1}
MCQuantities == 1..2
MCFourCalls == {c1, c2, c3, c4}
MCSymmetry == Permutations(Reservations) \cup Permutations(Requests)
=============================================================================
