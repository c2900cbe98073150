----------------------------- MODULE MCCredits -----------------------------
(***************************************************************************)
(* Instances of Credits for TLC.  Users, requests, purchases and the       *)
(* accounts other than the platform's are model values that nothing in     *)
(* Credits distinguishes.                                                  *)
(***************************************************************************)
EXTENDS Credits, TLC

CreditsSymmetry ==
  Permutations(Users) \cup Permutations(Requests) \cup Permutations(Purchases)
    \cup Permutations(Accounts \ {Platform})
=============================================================================
