------------------------------ MODULE Credits ------------------------------
(***************************************************************************)
(* The two ledgers that a job is paid from: user_credits in the database,  *)
(* debited when a job is created, and the CreditToken contract, charged by *)
(* the worker that executes the job.  sync_credit_balance copies the       *)
(* second into the first.                                                  *)
(*                                                                         *)
(* A statement of the database, a transaction that is mined and a read of  *)
(* the chain are one step each; requests, workers and wallets interleave   *)
(* between them.  A job is executed at most once (JobPipeline), so the     *)
(* worker at a job is represented by the job's stage.                      *)
(*                                                                         *)
(* Amounts in the database are whole INC, amounts in the contract are wei: *)
(* WeiPerInc of them are one INC.  TLC takes small numbers for both.       *)
(***************************************************************************)
EXTENDS CreditToken

CONSTANTS
  Users, Jobs,
  Requests,             \* concurrent sync_credit_balance requests
  Purchases,            \* purchase_credits requests
  Platform,             \* the account whose key the server signs with
  CrawlJobs,            \* the jobs that are HttpCrawl; others BlockchainIndex
  NoUser, NoWallet,     \* null values
  SIGNUP_BONUS,         \* 1000 INC
  JobDebit,             \* 50 INC, for a job of either type
  CRAWL_JOB_COST,       \* 100 INC
  EVENT_INDEX_COST,     \* 50 INC
  WeiPerInc,            \* 10^18
  MaxU64,               \* 2^64 - 1
  MaxI64                \* 2^63 - 1

ASSUME CreditsConstantsOK ==
  /\ IsFiniteSet(Jobs) /\ CrawlJobs \subseteq Jobs
  /\ NoUser \notin Users /\ NoWallet \notin Accounts
  /\ Platform \in Accounts
  /\ {SIGNUP_BONUS, JobDebit, CRAWL_JOB_COST, EVENT_INDEX_COST, WeiPerInc,
      MaxU64, MaxI64} \subseteq Nat
  /\ WeiPerInc > 0

(* 50 * 10^18 is more than 2^64 - 1, and so is 100 * 10^18. *)
ASSUME CostsOverflow ==
  /\ EVENT_INDEX_COST * WeiPerInc > MaxU64
  /\ CRAWL_JOB_COST * WeiPerInc > MaxU64

VARIABLES
  registered,   \* the users that have rows in users and user_credits
  balance,      \* user_credits.credit_balance
  wallet,       \* user_credits.on_chain_address, or NoWallet for NULL
  sync,         \* sync[q]: a sync_credit_balance request under way
  stage,        \* stage[j]: how far job j and its charge have come
  owner,        \* jobs.user_id
  payer,        \* payer[j]: the address that the worker has read for job j
  spent,        \* the jobs for which a CreditsSpent event is on the chain
  synced,       \* history: the users whose balance a sync has overwritten
  buy           \* buy[p]: a purchase_credits request and its transaction

userVars == <<registered, wallet>>
jobVars  == <<stage, owner, payer, spent>>
syncVars == <<sync, synced>>
vars == <<tokenVars, userVars, balance, jobVars, syncVars, buy>>

(* none: no row; queued: up to the worker's SELECT of the address;         *)
(* charging: before spend_credits; sent: its transaction is awaited;       *)
(* orphan: its transaction is in the mempool and nobody awaits it; mined:  *)
(* the receipt is on its way; past: the charge is behind the job.          *)
Stages == {"none", "queued", "charging", "sent", "orphan", "mined", "past"}

NoSync == [at |-> "idle", user |-> NoUser, addr |-> NoWallet, inc |-> 0]

SyncRecord ==
  [at : {"idle", "address", "read"}, user : Users \cup {NoUser},
   addr : Accounts \cup {NoWallet}, inc : Nat]

(* idle: no transaction; sent: it is awaited; orphan: it is in the mempool *)
(* and nobody awaits it; mined: the receipt has arrived; over.  n is the   *)
(* amount asked for, chain what became of the transaction, and row the     *)
(* amount in credit_transactions, or NoRow.                                *)
NoRow == -1

NoPurchase == [at |-> "idle", n |-> 0, chain |-> "none", row |-> NoRow]

PurchaseRecord ==
  [at : {"idle", "sent", "orphan", "mined", "over"}, n : Nat,
   chain : {"none", "moved", "reverted"}, row : Int]

TypeOK ==
  /\ TokenTypeOK
  /\ registered \subseteq Users /\ synced \subseteq Users
  /\ balance \in [Users -> Int]
  /\ wallet \in [Users -> Accounts \cup {NoWallet}]
  /\ sync \in [Requests -> SyncRecord]
  /\ \A q \in Requests :
       sync[q].at # "idle" => sync[q].user \in Users /\ sync[q].addr \in Accounts
  /\ stage \in [Jobs -> Stages]
  /\ owner \in [Jobs -> Users \cup {NoUser}]
  /\ payer \in [Jobs -> Accounts \cup {NoWallet}]
  /\ \A j \in Jobs :
       /\ stage[j] \in {"charging", "sent", "orphan", "mined"} =>
            payer[j] \in Accounts
       /\ stage[j] # "none" => owner[j] \in Users
  /\ spent \subseteq Jobs
  /\ buy \in [Purchases -> PurchaseRecord]

Init ==
  /\ TokenInit
  /\ registered = {} /\ synced = {}
  /\ balance = [u \in Users |-> 0]
  /\ wallet = [u \in Users |-> NoWallet]
  /\ sync = [q \in Requests |-> NoSync]
  /\ stage = [j \in Jobs |-> "none"]
  /\ owner = [j \in Jobs |-> NoUser]
  /\ payer = [j \in Jobs |-> NoWallet]
  /\ spent = {}
  /\ buy = [p \in Purchases |-> NoPurchase]
-----------------------------------------------------------------------------
(* Requests of users. *)

(* POST /auth/register: users, user_credits and the bonus transaction are  *)
(* inserted together.                                                      *)
register(u) ==
  /\ u \notin registered
  /\ registered' = registered \cup {u}
  /\ balance' = [balance EXCEPT ![u] = SIGNUP_BONUS]
  /\ UNCHANGED <<tokenVars, wallet, jobVars, syncVars, buy>>

(* INSERT ... ON CONFLICT DO UPDATE SET on_chain_address, and no other     *)
(* column: the row exists since the user registered.                       *)
register_wallet(u, a) ==
  /\ u \in registered
  /\ wallet' = [wallet EXCEPT ![u] = a]
  /\ UNCHANGED <<tokenVars, registered, balance, jobVars, syncVars, buy>>

(* Variant for mutation runs: the UPDATE without its condition, as if the  *)
(* balance had been checked before it.                                     *)
Debit_Unguarded(u) == balance' = [balance EXCEPT ![u] = @ - JobDebit]

(* UPDATE ... SET credit_balance = credit_balance - 50 WHERE ... AND       *)
(* credit_balance >= 50, and one row is affected.                          *)
Debit(u) ==
  /\ balance[u] >= JobDebit
  /\ balance' = [balance EXCEPT ![u] = @ - JobDebit]

(* create_job, create_blockchain_job: the debit and the INSERT are one     *)
(* transaction.  Without enough credits, or on an error, nothing changes.  *)
create_job(j, u) ==
  /\ stage[j] = "none" /\ u \in registered
  /\ Debit(u)
  /\ stage' = [stage EXCEPT ![j] = "queued"]
  /\ owner' = [owner EXCEPT ![j] = u]
  /\ UNCHANGED <<tokenVars, userVars, payer, spent, syncVars, buy>>
-----------------------------------------------------------------------------
(* sync_credit_balance: SELECT the address, read the chain, UPDATE. *)

SyncAddress(q, u) ==
  /\ sync[q].at = "idle" /\ wallet[u] # NoWallet
  /\ sync' = [sync EXCEPT ![q] = [at |-> "address", user |-> u,
                                  addr |-> wallet[u], inc |-> 0]]
  /\ UNCHANGED <<tokenVars, userVars, balance, jobVars, synced, buy>>

(* get_balance, and balance_wei / 10^18 rounded down. *)
SyncRead(q) ==
  /\ sync[q].at = "address"
  /\ sync' = [sync EXCEPT ![q].at = "read",
                          ![q].inc = creditBalance[sync[q].addr] \div WeiPerInc]
  /\ UNCHANGED <<tokenVars, userVars, balance, jobVars, synced, buy>>

SyncWrite(q) ==
  /\ sync[q].at = "read"
  /\ balance' = [balance EXCEPT ![sync[q].user] = sync[q].inc]
  /\ synced' = synced \cup {sync[q].user}
  /\ sync' = [sync EXCEPT ![q] = NoSync]
  /\ UNCHANGED <<tokenVars, userVars, jobVars, buy>>

(* The endpoint or the database fails, or the process is killed. *)
SyncAbort(q) ==
  /\ sync[q].at # "idle"
  /\ sync' = [sync EXCEPT ![q] = NoSync]
  /\ UNCHANGED <<tokenVars, userVars, balance, jobVars, synced, buy>>
-----------------------------------------------------------------------------
(* The charge of a job by the worker that executes it. *)

Cost(j) ==
  WeiPerInc * (IF j \in CrawlJobs THEN CRAWL_JOB_COST ELSE EVENT_INDEX_COST)

ToStage(j, from, to) ==
  stage[j] = from /\ stage' = [stage EXCEPT ![j] = to]

KeepLedgers == UNCHANGED <<tokenVars, userVars, balance, syncVars, buy>>

(* SELECT on_chain_address.  Without a wallet, when the SELECT fails, or   *)
(* when the job fails before it comes to its charge, it is not charged.    *)
ReadAddress(j) ==
  /\ \/ /\ ToStage(j, "queued", "charging") /\ wallet[owner[j]] # NoWallet
        /\ payer' = [payer EXCEPT ![j] = wallet[owner[j]]]
     \/ ToStage(j, "queued", "past") /\ UNCHANGED payer
  /\ KeepLedgers /\ UNCHANGED <<owner, spent>>

(* spend_credits, first await: the gas estimate passes and the transaction *)
(* is broadcast, with or without an answer; or it is not sent.             *)
SpendSend(j) ==
  /\ \/ /\ \E s \in {"sent", "orphan"} : ToStage(j, "charging", s)
        /\ CanSpend(payer[j], Cost(j))
     \/ ToStage(j, "charging", "past")
  /\ KeepLedgers /\ UNCHANGED <<owner, payer, spent>>

(* The transaction is mined, and reverts if the credits are gone by then. *)
SpendMined(j) ==
  /\ ToStage(j, "sent", "mined") \/ ToStage(j, "orphan", "past")
  /\ IF CanSpend(payer[j], Cost(j))
     THEN spendCredits(payer[j], Cost(j)) /\ spent' = spent \cup {j}
     ELSE UNCHANGED <<tokenVars, spent>>
  /\ UNCHANGED <<userVars, balance, owner, payer, syncVars, buy>>

(* U256::as_u64 panics above 2^64 - 1. *)
FitsU64(wei) == wei <= MaxU64

(* spend_credits returns Ok whatever the receipt's status is; then the     *)
(* cost is converted for UPDATE user_credits.  A panic ends the worker     *)
(* before the UPDATE.                                                      *)
SpendReceipt(j) ==
  /\ ToStage(j, "mined", "past")
  /\ IF FitsU64(Cost(j))
     THEN balance' = [balance EXCEPT ![owner[j]] = @ - Cost(j)]
     ELSE UNCHANGED balance
  /\ UNCHANGED <<tokenVars, userVars, owner, payer, spent, syncVars, buy>>

(* Variant for mutation runs: a lost receipt makes the worker try again.   *)
SpendAbort_Retries(j) ==
  /\ \E s \in {"sent", "mined"} : ToStage(j, s, "charging")
  /\ KeepLedgers /\ UNCHANGED <<owner, payer, spent>>

(* The await fails or the process is killed: the job is not charged again. *)
SpendAbort(j) ==
  /\ \/ ToStage(j, "sent", "orphan") \/ ToStage(j, "mined", "past")
     \/ ToStage(j, "charging", "past")
  /\ KeepLedgers /\ UNCHANGED <<owner, payer, spent>>

(* A transaction that nobody awaits drops out of the mempool. *)
SpendDropped(j) ==
  /\ ToStage(j, "orphan", "past")
  /\ KeepLedgers /\ UNCHANGED <<owner, payer, spent>>
-----------------------------------------------------------------------------
(* purchase_credits of the GraphQL API: a purchaseCredits that is signed   *)
(* with the platform's key, and a row for the user who asked for it.       *)

KeepTokens == UNCHANGED tokenVars

Bought(p, from, b) ==
  /\ buy[p].at = from
  /\ buy' = [buy EXCEPT ![p] = b]
  /\ UNCHANGED <<userVars, balance, jobVars, syncVars>>

(* The gas estimate passes, and the transaction is broadcast; the answer   *)
(* of the endpoint may be lost.  Or the call fails and nothing is sent.    *)
PurchaseSend(p) ==
  /\ \E n \in 1 .. Minted, at \in {"sent", "orphan"} :
       /\ token[Platform] >= n
       /\ Bought(p, "idle",
              [at |-> at, n |-> n, chain |-> "none", row |-> NoRow])
  /\ KeepTokens

(* The transaction is mined: it moves the tokens, or reverts. *)
PurchaseMined(p) ==
  \E from \in {"sent", "orphan"}, chain \in {"moved", "reverted"} :
    /\ Bought(p, from, [buy[p] EXCEPT !.at = IF from = "sent" THEN "mined" ELSE "over",
                                      !.chain = chain])
    /\ chain = "moved" <=> token[Platform] >= buy[p].n
    /\ IF chain = "moved" THEN purchaseCredits(Platform, buy[p].n) ELSE KeepTokens

(* Variant for mutation runs: the row is written when the transaction has  *)
(* been sent.                                                              *)
PurchaseInsert_Early(p) ==
  /\ \E from \in {"sent", "mined"} :
       Bought(p, from, [buy[p] EXCEPT !.at = "over", !.row = buy[p].n])
  /\ KeepTokens

(* A receipt with either status: INSERT INTO credit_transactions, with the *)
(* amount, or 0 when it does not fit an i64.                               *)
PurchaseInsert(p) ==
  /\ Bought(p, "mined",
            [buy[p] EXCEPT !.at = "over",
                           !.row = IF buy[p].n <= MaxI64 THEN buy[p].n ELSE 0])
  /\ KeepTokens

(* The await or the INSERT fails, or the process is killed: there is no    *)
(* row, and the transaction goes its way.                                  *)
PurchaseAbort(p) ==
  /\ \/ Bought(p, "sent", [buy[p] EXCEPT !.at = "orphan"])
     \/ Bought(p, "mined", [buy[p] EXCEPT !.at = "over"])
  /\ KeepTokens

(* A transaction that nobody awaits drops out of the mempool. *)
PurchaseDropped(p) ==
  Bought(p, "orphan", [buy[p] EXCEPT !.at = "over"]) /\ KeepTokens

PurchaseStep(p) ==
  \/ PurchaseSend(p) \/ PurchaseMined(p) \/ PurchaseInsert(p)
  \/ PurchaseAbort(p) \/ PurchaseDropped(p)
-----------------------------------------------------------------------------
(* Wallets, the platform's own included. *)
WalletStep ==
  /\ \E a \in Accounts, n \in 1 .. Minted :
       \/ \E h \in Holders : transfer(a, h, n)
       \/ purchaseCredits(a, n)
       \/ withdrawCredits(a, n)
  /\ UNCHANGED <<userVars, balance, jobVars, syncVars, buy>>

UserStep(u) ==
  \/ register(u)
  \/ \E a \in Accounts : register_wallet(u, a)
  \/ \E j \in Jobs : create_job(j, u)
  \/ \E q \in Requests : SyncAddress(q, u)

SyncStep(q) == SyncRead(q) \/ SyncWrite(q) \/ SyncAbort(q)

ChargeStep(j) ==
  \/ ReadAddress(j) \/ SpendSend(j) \/ SpendMined(j) \/ SpendReceipt(j)
  \/ SpendAbort(j) \/ SpendDropped(j)

Next ==
  \/ \E u \in Users : UserStep(u)
  \/ \E q \in Requests : SyncStep(q)
  \/ \E j \in Jobs : ChargeStep(j)
  \/ \E p \in Purchases : PurchaseStep(p)
  \/ WalletStep

Spec == Init /\ [][Next]_vars
-----------------------------------------------------------------------------
(* Properties. *)

(* The contract can always pay out: the credits of all accounts together   *)
(* are covered by the tokens that it holds, whatever is locked, unlocked,  *)
(* burnt or sent to it directly, so that withdrawCredits never fails in    *)
(* its _transfer.                                                          *)
Solvent ==
  SumFunctionOnSet(creditBalance, Accounts) <= token[Vault]

(* INC leaves circulation only for jobs, once for each: the supply and     *)
(* what was burnt for the jobs with a CreditsSpent event add up to what    *)
(* was minted, whatever receipts are lost and workers killed.              *)
BurnedForJobs ==
  /\ totalSupply + SumFunctionOnSet([j \in Jobs |-> Cost(j)], spent) = Minted
  /\ SumFunctionOnSet(token, Holders) = totalSupply

(* No order of requests, syncs and charges overdraws a balance. *)
NoOverdraft == \A u \in Users : balance[u] >= 0

(* Until the first sync of a user, the balance is the bonus less one debit *)
(* for each job the user has created: nothing else writes the column,      *)
(* neither a change of wallet nor the worker's charge.                     *)
JobsOf(u) == {j \in Jobs : owner[j] = u}

LedgerExact ==
  \A u \in registered \ synced :
    balance[u] = SIGNUP_BONUS - JobDebit * Cardinality(JobsOf(u))

(* Whatever requests, syncs, changes of wallet and charges interleave, a   *)
(* user's balance is not overdrawn, and the jobs are paid from it.         *)
BalanceSound == NoOverdraft /\ LedgerExact

(* A row of a purchase names a transaction that is in a block, for the     *)
(* amount that was asked for, or for 0 when that is beyond an i64: never   *)
(* one that was replaced, dropped or not sent, whatever fails in between.  *)
(* (It may have reverted: nobody looks at the status of the receipt.)      *)
PurchasesOnChain ==
  \A p \in Purchases :
    buy[p].row # NoRow =>
      /\ buy[p].chain # "none"
      /\ buy[p].row = IF buy[p].n <= MaxI64 THEN buy[p].n ELSE 0

(* Behind the theorems of CreditsProofs: jobs belong to registered users,  *)
(* and a job that does not exist belongs to nobody.                        *)
Owned ==
  \A j \in Jobs :
    /\ owner[j] # NoUser => owner[j] \in registered
    /\ stage[j] = "none" => owner[j] = NoUser

(* A receipt that has arrived is one of a block. *)
MinedIsOnChain ==
  \A p \in Purchases : buy[p].at = "mined" => buy[p].chain # "none"

IndInv ==
  TypeOK /\ Owned /\ BalanceSound /\ PurchasesOnChain /\ MinedIsOnChain

(* README: the token "gates API usage; crawl jobs cost 100 credits, event  *)
(* indexing costs 50": the debits of the jobs that a user has created are  *)
(* covered by the bonus and by all INC there is.                           *)
PaidInFull ==
  \A u \in Users : JobDebit * Cardinality(JobsOf(u))
                     <= SIGNUP_BONUS + (Minted \div WeiPerInc)
=============================================================================
