---------------------------- MODULE CreditToken ----------------------------
(***************************************************************************)
(* contracts/CreditToken.sol: an ERC-20 token that can be locked in the    *)
(* contract as platform credits, unlocked again, or burnt by the owner     *)
(* when a job is charged.  A call is one transaction and therefore one     *)
(* step: it takes effect when all its require()s hold, or not at all.      *)
(***************************************************************************)
EXTENDS Integers, FiniteSetsExt

CONSTANTS
  Accounts,    \* externally owned accounts, the platform's among them
  Vault,       \* the address of the contract itself
  Funds        \* bound: the tokens that each account starts with

ASSUME TokenConstantsOK ==
  /\ IsFiniteSet(Accounts) /\ Vault \notin Accounts
  /\ Funds \in Nat \ {0}

VARIABLES
  token,          \* ERC-20 balanceOf
  creditBalance,  \* credits locked in the contract
  totalSupply

tokenVars == <<token, creditBalance, totalSupply>>

Holders == Accounts \cup {Vault}

(* After deployment all tokens are in six wallets, from where transfers    *)
(* have spread them; no credit is locked yet.                              *)
Minted == Funds * Cardinality(Accounts)

TokenInit ==
  /\ token = [h \in Holders |-> IF h = Vault THEN 0 ELSE Funds]
  /\ creditBalance = [a \in Accounts |-> 0]
  /\ totalSupply = Minted

TokenTypeOK ==
  /\ token \in [Holders -> Nat]
  /\ creditBalance \in [Accounts -> Nat]
  /\ totalSupply \in Int

Move(from, to, n) ==
  /\ token[from] >= n
  /\ token' = [token EXCEPT ![from] = @ - n, ![to] = @ + n]

(* ERC-20 transfer, to another account or straight to the contract. *)
transfer(a, h, n) ==
  /\ a # h
  /\ Move(a, h, n)
  /\ UNCHANGED <<creditBalance, totalSupply>>

purchaseCredits(a, n) ==
  /\ Move(a, Vault, n)
  /\ creditBalance' = [creditBalance EXCEPT ![a] = @ + n]
  /\ UNCHANGED totalSupply

(* Variant for mutation runs: the credits are kept when they are unlocked. *)
withdrawCredits_Kept(a, n) ==
  /\ creditBalance[a] >= n
  /\ Move(Vault, a, n)
  /\ UNCHANGED <<creditBalance, totalSupply>>

withdrawCredits(a, n) ==
  /\ creditBalance[a] >= n
  /\ creditBalance' = [creditBalance EXCEPT ![a] = @ - n]
  /\ Move(Vault, a, n)
  /\ UNCHANGED totalSupply

(* Variant for mutation runs: no require() in spendCredits. *)
CanSpend_Always(u, n) == TRUE

(* Whether spendCredits(u, n), sent by the owner, does not revert: its own *)
(* require() and the one of _burn.                                         *)
CanSpend(u, n) == creditBalance[u] >= n /\ token[Vault] >= n

spendCredits(u, n) ==
  /\ creditBalance' = [creditBalance EXCEPT ![u] = @ - n]
  /\ token' = [token EXCEPT ![Vault] = @ - n]
  /\ totalSupply' = totalSupply - n
=============================================================================
