----------------------- MODULE MCMarketplacePurchase -----------------------
(* Instances of MarketplacePurchase for TLC. *)
EXTENDS MarketplacePurchase, TLC

CONSTANTS a, b, c, l1, r1, r2, r3

\* Wallets and client references are only compared with each other.
Symmetric == Permutations(Users) \cup Permutations(Refs)
=============================================================================
