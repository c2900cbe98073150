----------------------------- MODULE MCAccounts -----------------------------
(* What TLC needs to check Accounts on a small instance. *)
EXTENDS Accounts, TLC

(* Nothing orders users, tokens or requests but what they do. *)
AccountSymmetry ==
  Permutations(Users) \cup Permutations(Tokens) \cup Permutations(Resets)
=============================================================================
