------------------------- MODULE MCRewardsRedemption -------------------------
(* Small instances of RewardsRedemption.                                   *)
EXTENDS RewardsRedemption

CONSTANTS scarce, plenty

OnePoint == [o \in Options |-> 1]
OnePiece == [o \in Limited |-> 1]
TwoPoints == [u \in Users |-> 2]
=============================================================================
