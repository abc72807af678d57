----------------------------- MODULE MCCoinsCache -----------------------------
(* Two outpoints, so that an operation on one could disturb the other.       *)
EXTENDS CoinsCache

CONSTANTS o1, o2, c1, c2, b1, b2

MCOutpoints == {o1, o2}
MCCoins == {c1, c2}
MCBlocks == {b1, b2}
=============================================================================
