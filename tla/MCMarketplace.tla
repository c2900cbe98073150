--------------------------- MODULE MCMarketplace ---------------------------
(* What TLC needs to check Marketplace on a small instance. *)
EXTENDS Marketplace, TLC

(* Accounts other than the platform's, and requests, are interchangeable. *)
MarketSymmetry ==
  Permutations(Accounts \ {Platform}) \cup Permutations(Requests)
=============================================================================
