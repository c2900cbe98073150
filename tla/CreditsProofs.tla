--------------------------- MODULE CreditsProofs ---------------------------
(***************************************************************************)
(* Theorems about Credits, for any numbers of users, jobs, accounts and    *)
(* requests and for any amounts.                                           *)
(***************************************************************************)
EXTENDS Credits, FiniteSums

(* The costs of jobs are amounts, and too large for a u64. *)
LEMMA CostIsNat ==
  ASSUME NEW j \in Jobs
  PROVE  Cost(j) \in Nat /\ ~FitsU64(Cost(j))
<1>1. /\ CRAWL_JOB_COST \in Nat /\ EVENT_INDEX_COST \in Nat
      /\ WeiPerInc \in Nat /\ MaxU64 \in Nat
  BY CreditsConstantsOK
<1>2. CASE j \in CrawlJobs
  <2>1. Cost(j) = CRAWL_JOB_COST * WeiPerInc
    BY <1>1, <1>2 DEF Cost
  <2> QED
    BY <1>1, <2>1, CostsOverflow DEF FitsU64
<1>3. CASE j \notin CrawlJobs
  <2>1. Cost(j) = EVENT_INDEX_COST * WeiPerInc
    BY <1>1, <1>3 DEF Cost
  <2> QED
    BY <1>1, <2>1, CostsOverflow DEF FitsU64
<1> QED
  BY <1>2, <1>3

(* The jobs of a user are finitely many, and one more when one is created. *)
LEMMA JobsAreCounted ==
  ASSUME NEW u
  PROVE  IsFiniteSet(JobsOf(u)) /\ Cardinality(JobsOf(u)) \in Nat
<1>1. JobsOf(u) \subseteq Jobs /\ IsFiniteSet(Jobs)
  BY CreditsConstantsOK DEF JobsOf
<1> QED
  BY <1>1, FS_Subset, FS_CardinalityType

LEMMA OneMoreJob ==
  ASSUME NEW u, NEW j \in Jobs, owner \in [Jobs -> Users \cup {NoUser}],
         owner[j] # u, owner' = [owner EXCEPT ![j] = u]
  PROVE  Cardinality(JobsOf(u)') = Cardinality(JobsOf(u)) + 1
<1>1. JobsOf(u)' = JobsOf(u) \cup {j} /\ j \notin JobsOf(u)
  BY DEF JobsOf
<1> QED
  BY <1>1, JobsAreCounted, FS_AddElement

LEMMA OthersJobs ==
  ASSUME NEW u, NEW v, NEW j \in Jobs, u # v, owner[j] # v,
         owner \in [Jobs -> Users \cup {NoUser}],
         owner' = [owner EXCEPT ![j] = u]
  PROVE  JobsOf(v)' = JobsOf(v)
BY DEF JobsOf
-----------------------------------------------------------------------------
(* The steps of the token contract keep its types. *)

LEMMA MoveType ==
  ASSUME TokenTypeOK, NEW from \in Holders, NEW to \in Holders, from # to,
         NEW n \in Nat, Move(from, to, n)
  PROVE  token' \in [Holders -> Nat]
<1>1. token[from] \in Nat /\ token[to] \in Nat
  BY DEF TokenTypeOK
<1>2. token[from] - n \in Nat /\ token[to] + n \in Nat
  BY <1>1 DEF Move
<1> QED
  BY <1>2 DEF Move, TokenTypeOK

LEMMA WalletType ==
  ASSUME TokenTypeOK, WalletStep
  PROVE  TokenTypeOK'
<1>1. PICK a \in Accounts, n \in 1 .. Minted :
        \/ \E h \in Holders : transfer(a, h, n)
        \/ purchaseCredits(a, n)
        \/ withdrawCredits(a, n)
  BY DEF WalletStep
<1>2. a \in Holders /\ Vault \in Holders /\ a # Vault
  BY TokenConstantsOK DEF Holders
<1>3. n \in Nat
  BY DEF Minted
<1>4. ASSUME NEW h \in Holders, transfer(a, h, n) PROVE TokenTypeOK'
  BY <1>2, <1>3, <1>4, MoveType DEF transfer, TokenTypeOK
<1>5. CASE purchaseCredits(a, n)
  BY <1>2, <1>3, <1>5, MoveType DEF purchaseCredits, TokenTypeOK
<1>6. CASE withdrawCredits(a, n)
  BY <1>2, <1>3, <1>6, MoveType DEF withdrawCredits, TokenTypeOK
<1> QED
  BY <1>1, <1>4, <1>5, <1>6

LEMMA SpendType ==
  ASSUME TokenTypeOK, NEW a \in Accounts, NEW n \in Nat,
         CanSpend(a, n), spendCredits(a, n)
  PROVE  TokenTypeOK'
<1>1. Vault \in Holders
  BY DEF Holders
<1>2. creditBalance[a] - n \in Nat /\ token[Vault] - n \in Nat
  BY <1>1 DEF CanSpend, TokenTypeOK
<1>3. totalSupply - n \in Int
  BY DEF TokenTypeOK
<1> QED
  BY <1>2, <1>3 DEF TokenTypeOK, spendCredits
-----------------------------------------------------------------------------
(* The inductive invariant. *)

LEMMA InitInv == Init => IndInv
<1> SUFFICES ASSUME Init PROVE IndInv
  OBVIOUS
<1>1. TokenTypeOK
  <2>1. Minted \in Int
    BY TokenConstantsOK, FS_CardinalityType DEF Minted
  <2> QED
    BY <2>1, TokenConstantsOK DEF Init, TokenInit, TokenTypeOK
<1>2. TypeOK
  BY <1>1 DEF Init, TypeOK, SyncRecord, NoSync, Stages, PurchaseRecord, NoPurchase, NoRow
<1>3. Owned /\ NoOverdraft /\ LedgerExact
  BY DEF Init, Owned, NoOverdraft, LedgerExact
<1>4. PurchasesOnChain /\ MinedIsOnChain
  BY DEF Init, PurchasesOnChain, MinedIsOnChain, NoPurchase
<1> QED
  BY <1>2, <1>3, <1>4 DEF IndInv, BalanceSound

(* What is said of purchases outlasts a step that leaves them alone. *)
Purchasing ==
  buy \in [Purchases -> PurchaseRecord] /\ PurchasesOnChain /\ MinedIsOnChain

LEMMA PurchasesKept ==
  ASSUME IndInv, UNCHANGED buy
  PROVE  Purchasing'
BY DEF IndInv, TypeOK, Purchasing, PurchasesOnChain, MinedIsOnChain

(* A step that leaves balances, owners and users alone keeps the ledger. *)
LEMMA LedgerKept ==
  ASSUME LedgerExact, UNCHANGED <<registered, balance, owner>>,
         synced \subseteq synced'
  PROVE  LedgerExact'
<1> SUFFICES ASSUME NEW u \in registered \ synced
             PROVE  balance[u] =
                      SIGNUP_BONUS - JobDebit * Cardinality(JobsOf(u)')
  BY DEF LedgerExact
<1>1. JobsOf(u)' = JobsOf(u)
  BY DEF JobsOf
<1> QED
  BY <1>1 DEF LedgerExact

LEMMA RegisterStep ==
  ASSUME IndInv, NEW u \in Users, register(u)
  PROVE  IndInv'
<1> USE DEF IndInv, BalanceSound
<1>0. Purchasing'
  BY PurchasesKept DEF register
<1>1. SIGNUP_BONUS \in Nat /\ JobDebit \in Nat
  BY CreditsConstantsOK
<1>2. TypeOK'
  BY <1>1 DEF register, TypeOK, TokenTypeOK, tokenVars, jobVars, syncVars
<1>3. Owned' /\ NoOverdraft'
  BY <1>1 DEF register, TypeOK, Owned, NoOverdraft, jobVars
<1>4. LedgerExact'
  <2> SUFFICES ASSUME NEW v \in registered' \ synced'
               PROVE  balance'[v] =
                        SIGNUP_BONUS - JobDebit * Cardinality(JobsOf(v)')
    BY DEF LedgerExact
  <2>1. JobsOf(v)' = JobsOf(v)
    BY DEF JobsOf, register, jobVars
  <2>2. CASE v = u
    <3>1. u # NoUser
      BY CreditsConstantsOK
    <3>2. JobsOf(u) = {}
      BY <3>1 DEF JobsOf, Owned, register
    <3>3. Cardinality(JobsOf(u)) = 0
      BY <3>2, FS_EmptySet
    <3> QED
      BY <1>1, <2>1, <2>2, <3>3 DEF register, TypeOK
  <2>3. CASE v # u
    BY <2>1, <2>3 DEF register, TypeOK, LedgerExact, syncVars
  <2> QED
    BY <2>2, <2>3
<1> QED
  BY <1>0, <1>2, <1>3, <1>4 DEF Purchasing

LEMMA CreateStep ==
  ASSUME IndInv, NEW u \in Users, NEW j \in Jobs, create_job(j, u)
  PROVE  IndInv'
<1> USE DEF IndInv, BalanceSound
<1>0. Purchasing'
  BY PurchasesKept DEF create_job
<1>1. SIGNUP_BONUS \in Nat /\ JobDebit \in Nat /\ u # NoUser
  BY CreditsConstantsOK
<1>2. TypeOK'
  BY <1>1 DEF create_job, Debit, TypeOK, TokenTypeOK, tokenVars, userVars,
              syncVars, Stages
<1>3. Owned' /\ NoOverdraft'
  BY <1>1 DEF create_job, Debit, TypeOK, Owned, NoOverdraft, userVars
<1>4. LedgerExact'
  <2> SUFFICES ASSUME NEW v \in registered \ synced
               PROVE  balance'[v] =
                        SIGNUP_BONUS - JobDebit * Cardinality(JobsOf(v)')
    BY DEF LedgerExact, create_job, userVars, syncVars
  <2>0. owner[j] = NoUser /\ owner' = [owner EXCEPT ![j] = u]
        /\ owner \in [Jobs -> Users \cup {NoUser}] /\ v # NoUser /\ v \in Users
    BY CreditsConstantsOK DEF create_job, Owned, TypeOK
  <2>1. balance[v] = SIGNUP_BONUS - JobDebit * Cardinality(JobsOf(v))
    BY DEF LedgerExact
  <2>2. CASE v = u
    <3> DEFINE n == Cardinality(JobsOf(v))
    <3>1. n \in Nat
      BY JobsAreCounted
    <3>2. Cardinality(JobsOf(v)') = n + 1
      BY <2>0, <2>2, OneMoreJob
    <3>3. balance'[v] = balance[v] - JobDebit
      BY <2>2 DEF create_job, Debit, TypeOK
    <3> HIDE DEF n
    <3>4. JobDebit * (n + 1) = JobDebit * n + JobDebit
      BY <1>1, <3>1
    <3>5. balance[v] = SIGNUP_BONUS - JobDebit * n
      BY <2>1 DEF n
    <3>6. JobDebit * n \in Nat
      BY <1>1, <3>1
    <3> QED
      BY <1>1, <3>2, <3>3, <3>4, <3>5, <3>6
  <2>3. CASE v # u
    <3>1. JobsOf(v)' = JobsOf(v)
      BY <2>0, <2>3, OthersJobs
    <3>2. balance'[v] = balance[v]
      BY <2>3, <2>0 DEF create_job, Debit, TypeOK
    <3> QED
      BY <2>1, <3>1, <3>2
  <2> QED
    BY <2>2, <2>3
<1> QED
  BY <1>0, <1>2, <1>3, <1>4 DEF Purchasing

LEMMA RegisterWalletStep ==
  ASSUME IndInv, NEW u \in Users, NEW a \in Accounts, register_wallet(u, a)
  PROVE  IndInv'
<1> USE DEF IndInv, BalanceSound
<1>0. Purchasing'
  BY PurchasesKept DEF register_wallet
<1>1. TypeOK'
  BY DEF register_wallet, TypeOK, TokenTypeOK, tokenVars, jobVars, syncVars
<1>2. Owned' /\ NoOverdraft'
  BY DEF register_wallet, Owned, NoOverdraft, jobVars
<1>3. LedgerExact'
  BY LedgerKept DEF register_wallet, jobVars, syncVars
<1> QED
  BY <1>0, <1>1, <1>2, <1>3 DEF Purchasing
-----------------------------------------------------------------------------
(* sync_credit_balance and the charge. *)

LEMMA SyncAddressStep ==
  ASSUME IndInv, NEW u \in Users, NEW q \in Requests, SyncAddress(q, u)
  PROVE  IndInv'
<1> USE DEF IndInv, BalanceSound
<1>0. Purchasing'
  BY PurchasesKept DEF SyncAddress
<1>1. [at |-> "address", user |-> u, addr |-> wallet[u], inc |-> 0]
        \in SyncRecord /\ wallet[u] \in Accounts
  BY DEF SyncAddress, TypeOK, SyncRecord
<1>2. TypeOK'
  BY <1>1 DEF SyncAddress, TypeOK, TokenTypeOK, tokenVars, userVars, jobVars
<1>3. Owned' /\ NoOverdraft'
  BY DEF SyncAddress, Owned, NoOverdraft, jobVars, userVars
<1>4. LedgerExact'
  BY LedgerKept DEF SyncAddress, jobVars, userVars
<1> QED
  BY <1>0, <1>2, <1>3, <1>4 DEF Purchasing

LEMMA SyncStepKeeps ==
  ASSUME IndInv, NEW q \in Requests, SyncStep(q)
  PROVE  IndInv'
<1> USE DEF IndInv, BalanceSound
<1>0. Purchasing'
  BY PurchasesKept DEF SyncStep, SyncRead, SyncWrite, SyncAbort
<1> DEFINE r == sync[q]
<1>1. r \in SyncRecord /\ NoSync \in SyncRecord
  BY DEF TypeOK, SyncRecord, NoSync
<1>2. CASE SyncRead(q)
  <2>1. creditBalance[r.addr] \div WeiPerInc \in Nat
    BY <1>2, CreditsConstantsOK DEF SyncRead, TypeOK, TokenTypeOK
  <2>2. sync'[q] \in SyncRecord /\ sync'[q].user = r.user
        /\ sync'[q].addr = r.addr
    BY <1>1, <1>2, <2>1 DEF SyncRead, SyncRecord, TypeOK
  <2>3. TypeOK'
    BY <1>2, <2>2 DEF SyncRead, TypeOK, TokenTypeOK, tokenVars, userVars,
                      jobVars
  <2>4. Owned' /\ NoOverdraft'
    BY <1>2 DEF SyncRead, Owned, NoOverdraft, jobVars, userVars
  <2>5. LedgerExact'
    BY <1>2, LedgerKept DEF SyncRead, jobVars, userVars
  <2> QED
    BY <1>0, <2>3, <2>4, <2>5 DEF Purchasing
<1>3. CASE SyncWrite(q)
  <2>1. r.inc \in Nat /\ r.user \in Users
    BY <1>1, <1>3 DEF SyncWrite, TypeOK, SyncRecord
  <2>2. TypeOK'
    BY <1>1, <1>3, <2>1 DEF SyncWrite, TypeOK, TokenTypeOK, tokenVars,
                            userVars, jobVars, NoSync
  <2>3. Owned' /\ NoOverdraft'
    BY <1>3, <2>1 DEF SyncWrite, Owned, NoOverdraft, jobVars, userVars, TypeOK
  <2>4. LedgerExact'
    <3> SUFFICES ASSUME NEW u \in registered \ synced'
                 PROVE  balance'[u] =
                          SIGNUP_BONUS - JobDebit * Cardinality(JobsOf(u)')
      BY <1>3 DEF LedgerExact, SyncWrite, userVars
    <3>1. JobsOf(u)' = JobsOf(u)
      BY <1>3 DEF JobsOf, SyncWrite, jobVars
    <3>2. u # r.user /\ u \in registered \ synced /\ u \in Users
      BY <1>3 DEF SyncWrite, TypeOK
    <3>3. balance'[u] = balance[u]
      BY <1>3, <3>2 DEF SyncWrite, TypeOK
    <3> QED
      BY <3>1, <3>2, <3>3 DEF LedgerExact
  <2> QED
    BY <1>0, <2>2, <2>3, <2>4 DEF Purchasing
<1>4. CASE SyncAbort(q)
  <2>1. TypeOK'
    BY <1>1, <1>4 DEF SyncAbort, TypeOK, TokenTypeOK, tokenVars, userVars,
                      jobVars, NoSync
  <2>2. Owned' /\ NoOverdraft'
    BY <1>4 DEF SyncAbort, Owned, NoOverdraft, jobVars, userVars
  <2>3. LedgerExact'
    BY <1>4, LedgerKept DEF SyncAbort, jobVars, userVars
  <2> QED
    BY <1>0, <2>1, <2>2, <2>3 DEF Purchasing
<1> QED
  BY <1>2, <1>3, <1>4 DEF SyncStep

(* What every step of a charge does: it moves the stage of an existing     *)
(* job, and touches neither balances nor owners.                           *)
ChargeEffect(j) ==
  /\ stage[j] # "none"
  /\ \E s \in Stages \ {"none"} : stage' = [stage EXCEPT ![j] = s]
  /\ stage'[j] \in {"charging", "sent", "orphan", "mined"} =>
       payer'[j] \in Accounts
  /\ payer' \in [Jobs -> Accounts \cup {NoWallet}]
  /\ \A k \in Jobs \ {j} : payer'[k] = payer[k]
  /\ spent' \subseteq Jobs
  /\ UNCHANGED <<userVars, balance, owner, syncVars, buy>>

LEMMA ChargeHasEffect ==
  ASSUME TypeOK, NEW j \in Jobs, ChargeStep(j)
  PROVE  ChargeEffect(j) /\ TokenTypeOK'
<1> USE DEF ToStage, KeepLedgers, ChargeEffect, Stages
<1>1. CASE ReadAddress(j)
  <2>1. stage[j] = "queued" /\ owner[j] \in Users
    BY <1>1 DEF ReadAddress, TypeOK
  <2> QED
    BY <1>1, <2>1 DEF ReadAddress, TypeOK, TokenTypeOK, tokenVars
<1>2. CASE SpendSend(j)
  BY <1>2 DEF SpendSend, TypeOK, TokenTypeOK, tokenVars
<1>3. CASE SpendMined(j)
  <2>1. payer[j] \in Accounts
    BY <1>3 DEF SpendMined, TypeOK
  <2>2. CASE CanSpend(payer[j], Cost(j))
    <3>1. TokenTypeOK'
      BY <1>3, <2>1, <2>2, CostIsNat, SpendType DEF SpendMined, TypeOK
    <3> QED
      BY <1>3, <2>1, <2>2, <3>1 DEF SpendMined, TypeOK
  <2>3. CASE ~CanSpend(payer[j], Cost(j))
    BY <1>3, <2>1, <2>3 DEF SpendMined, TypeOK, TokenTypeOK, tokenVars
  <2> QED
    BY <2>2, <2>3
<1>4. CASE SpendReceipt(j)
  BY <1>4, CostIsNat DEF SpendReceipt, TypeOK, TokenTypeOK, tokenVars
<1>5. CASE SpendAbort(j)
  BY <1>5 DEF SpendAbort, TypeOK, TokenTypeOK, tokenVars
<1>6. CASE SpendDropped(j)
  BY <1>6 DEF SpendDropped, TypeOK, TokenTypeOK, tokenVars
<1> QED
  BY <1>1, <1>2, <1>3, <1>4, <1>5, <1>6 DEF ChargeStep

LEMMA ChargeStepKeeps ==
  ASSUME IndInv, NEW j \in Jobs, ChargeStep(j)
  PROVE  IndInv'
<1> USE DEF IndInv, BalanceSound
<1>1. ChargeEffect(j) /\ TokenTypeOK'
  BY ChargeHasEffect
<1>2. PICK s \in Stages \ {"none"} : stage' = [stage EXCEPT ![j] = s]
  BY <1>1 DEF ChargeEffect
<1>3. owner[j] \in Users
  BY <1>1 DEF ChargeEffect, TypeOK
<1>4. TypeOK'
  BY <1>1, <1>2, <1>3 DEF ChargeEffect, TypeOK, userVars, syncVars
<1>5. Owned' /\ NoOverdraft'
  BY <1>1, <1>2 DEF ChargeEffect, Owned, NoOverdraft, userVars, TypeOK
<1>6. LedgerExact'
  BY <1>1, LedgerKept DEF ChargeEffect, userVars, syncVars
<1>7. Purchasing'
  BY <1>1, PurchasesKept DEF ChargeEffect
<1> QED
  BY <1>4, <1>5, <1>6, <1>7 DEF Purchasing

LEMMA WalletStepKeeps ==
  ASSUME IndInv, WalletStep
  PROVE  IndInv'
<1> USE DEF IndInv, BalanceSound
<1>0. Purchasing'
  BY PurchasesKept DEF WalletStep
<1>1. TokenTypeOK'
  BY WalletType DEF TypeOK
<1>2. TypeOK'
  BY <1>1 DEF WalletStep, TypeOK, userVars, jobVars, syncVars
<1>3. Owned' /\ NoOverdraft'
  BY DEF WalletStep, Owned, NoOverdraft, jobVars, userVars
<1>4. LedgerExact'
  BY LedgerKept DEF WalletStep, jobVars, userVars, syncVars
<1> QED
  BY <1>0, <1>2, <1>3, <1>4 DEF Purchasing

(* A purchase moves tokens and its own record, and nothing else. *)
LEMMA PurchaseEffect ==
  ASSUME IndInv, NEW p \in Purchases, PurchaseStep(p)
  PROVE  /\ TokenTypeOK' /\ Purchasing'
         /\ UNCHANGED <<userVars, balance, jobVars, syncVars>>
<1> USE DEF IndInv, TypeOK, Bought, KeepTokens, tokenVars
<1>1. UNCHANGED <<userVars, balance, jobVars, syncVars>>
  BY DEF PurchaseStep, PurchaseSend, PurchaseMined, PurchaseInsert,
         PurchaseAbort, PurchaseDropped
<1>2. Platform \in Holders /\ Vault \in Holders /\ Platform # Vault
      /\ Platform \in Accounts
  BY CreditsConstantsOK, TokenConstantsOK DEF Holders
<1> DEFINE b == buy[p]
<1>3. b \in PurchaseRecord
  OBVIOUS
(* It is enough to look at the record of this purchase. *)
<1>4. ASSUME NEW c \in PurchaseRecord, buy' = [buy EXCEPT ![p] = c],
             c.at = "mined" => c.chain # "none",
             c.row # NoRow =>
               /\ c.chain # "none"
               /\ c.row = IF c.n <= MaxI64 THEN c.n ELSE 0
      PROVE  Purchasing'
  BY <1>4 DEF Purchasing, PurchasesOnChain, MinedIsOnChain
<1>5. b.row # NoRow =>
        /\ b.chain # "none"
        /\ b.row = IF b.n <= MaxI64 THEN b.n ELSE 0
  BY DEF PurchasesOnChain
<1>6. CASE PurchaseSend(p)
  <2>1. PICK n \in 1 .. Minted, at \in {"sent", "orphan"} :
          buy' = [buy EXCEPT ![p] = [at |-> at, n |-> n, chain |-> "none", row |-> NoRow]]
    BY <1>6 DEF PurchaseSend
  <2> DEFINE c == [at |-> at, n |-> n, chain |-> "none", row |-> NoRow]
  <2>2. n \in Nat /\ NoRow \in Int
    <3>1. n \in Nat
      BY DEF Minted
    <3> QED
      BY <3>1 DEF NoRow
  <2>3. c \in PurchaseRecord /\ c.at # "mined" /\ c.row = NoRow
    BY <2>2 DEF PurchaseRecord
  <2> QED
    BY <1>1, <1>4, <1>6, <2>1, <2>3 DEF PurchaseSend, TokenTypeOK
<1>7. CASE PurchaseMined(p)
  <2>1. PICK from \in {"sent", "orphan"}, chain \in {"moved", "reverted"} :
          /\ Bought(p, from,
                [b EXCEPT !.at = IF from = "sent" THEN "mined" ELSE "over",
                          !.chain = chain])
          /\ IF chain = "moved" THEN purchaseCredits(Platform, b.n)
             ELSE KeepTokens
    BY <1>7 DEF PurchaseMined
  <2> DEFINE at == IF from = "sent" THEN "mined" ELSE "over"
  <2> DEFINE c == [b EXCEPT !.at = at, !.chain = chain]
  <2>2. /\ c \in PurchaseRecord /\ c.chain = chain /\ c.row = b.row
        /\ c.n = b.n /\ b.n \in Nat
    BY <1>3 DEF PurchaseRecord
  <2>3. chain # "none" /\ buy' = [buy EXCEPT ![p] = c]
    BY <2>1
  <2> HIDE DEF c
  <2>4. Purchasing'
    BY <1>4, <1>5, <2>2, <2>3
  <2>5. CASE purchaseCredits(Platform, b.n)
    <3>1. token' \in [Holders -> Nat]
      BY <1>2, <2>2, <2>5, MoveType DEF purchaseCredits
    <3>2. creditBalance' \in [Accounts -> Nat] /\ totalSupply' \in Int
      BY <1>2, <2>2, <2>5 DEF purchaseCredits, TokenTypeOK
    <3> QED
      BY <1>1, <2>4, <3>1, <3>2 DEF TokenTypeOK
  <2>6. CASE KeepTokens
    BY <1>1, <2>4, <2>6 DEF TokenTypeOK
  <2> QED
    BY <2>1, <2>5, <2>6
<1>8. CASE PurchaseInsert(p)
  <2> DEFINE k == IF b.n <= MaxI64 THEN b.n ELSE 0
  <2> DEFINE c == [b EXCEPT !.at = "over", !.row = k]
  <2>1. k \in Int /\ b.at = "mined"
    BY <1>3, <1>8 DEF PurchaseRecord, PurchaseInsert
  <2>2. /\ c \in PurchaseRecord /\ c.at = "over" /\ c.chain = b.chain
        /\ c.n = b.n /\ c.row = k
    BY <1>3, <2>1 DEF PurchaseRecord
  <2>3. b.chain # "none" /\ buy' = [buy EXCEPT ![p] = c]
    BY <1>8, <2>1 DEF PurchaseInsert, MinedIsOnChain
  <2>4. c.row # NoRow =>
          /\ c.chain # "none"
          /\ c.row = IF c.n <= MaxI64 THEN c.n ELSE 0
    BY <2>2, <2>3
  <2> HIDE DEF c
  <2>5. Purchasing'
    BY <1>4, <2>2, <2>3, <2>4
  <2> QED
    BY <1>1, <1>8, <2>5 DEF PurchaseInsert, TokenTypeOK
<1>9. CASE PurchaseAbort(p) \/ PurchaseDropped(p)
  <2>1. PICK at \in {"orphan", "over"} : buy' = [buy EXCEPT ![p] = [b EXCEPT !.at = at]]
    BY <1>9 DEF PurchaseAbort, PurchaseDropped
  <2> DEFINE c == [b EXCEPT !.at = at]
  <2>2. /\ c \in PurchaseRecord /\ c.at # "mined" /\ c.chain = b.chain
        /\ c.n = b.n /\ c.row = b.row
    BY <1>3 DEF PurchaseRecord
  <2>3. Purchasing'
    BY <1>4, <1>5, <2>1, <2>2
  <2> QED
    BY <1>1, <1>9, <2>3 DEF PurchaseAbort, PurchaseDropped, TokenTypeOK
<1> QED
  BY <1>6, <1>7, <1>8, <1>9 DEF PurchaseStep

LEMMA PurchaseStepKeeps ==
  ASSUME IndInv, NEW p \in Purchases, PurchaseStep(p)
  PROVE  IndInv'
<1> USE DEF IndInv, BalanceSound
<1>1. /\ TokenTypeOK' /\ Purchasing'
      /\ UNCHANGED <<userVars, balance, jobVars, syncVars>>
  BY PurchaseEffect
<1>2. TypeOK'
  BY <1>1 DEF TypeOK, Purchasing, userVars, jobVars, syncVars
<1>3. Owned' /\ NoOverdraft'
  BY <1>1 DEF Owned, NoOverdraft, jobVars, userVars
<1>4. LedgerExact'
  BY <1>1, LedgerKept DEF jobVars, userVars, syncVars
<1> QED
  BY <1>1, <1>2, <1>3, <1>4 DEF Purchasing

LEMMA StutterStep ==
  ASSUME IndInv, UNCHANGED vars
  PROVE  IndInv'
<1> USE DEF IndInv, BalanceSound, vars, tokenVars, userVars, jobVars, syncVars
<1>0. Purchasing'
  BY PurchasesKept
<1>1. TypeOK'
  BY DEF TypeOK, TokenTypeOK
<1>2. Owned' /\ NoOverdraft'
  BY DEF Owned, NoOverdraft
<1>3. LedgerExact'
  BY LedgerKept
<1> QED
  BY <1>0, <1>1, <1>2, <1>3 DEF Purchasing

(* IndInv holds in every reachable state. *)
THEOREM Invariance == Spec => []IndInv
<1>1. IndInv /\ [Next]_vars => IndInv'
  <2> SUFFICES ASSUME IndInv, [Next]_vars PROVE IndInv'
    OBVIOUS
  <2>1. ASSUME NEW u \in Users, UserStep(u) PROVE IndInv'
    BY <2>1, RegisterStep, RegisterWalletStep, CreateStep, SyncAddressStep
       DEF UserStep
  <2>2. CASE UNCHANGED vars
    BY <2>2, StutterStep
  <2> QED
    BY <2>1, <2>2, SyncStepKeeps, ChargeStepKeeps, PurchaseStepKeeps,
       WalletStepKeeps DEF Next
<1> QED
  BY InitInv, <1>1, PTL DEF Spec

(* Every variable keeps its type; in particular no lock, unlock or charge  *)
(* drives an account or a locked balance of the token below zero.          *)
THEOREM TypeCorrect == Spec => []TypeOK
<1>1. IndInv => TypeOK
  BY DEF IndInv
<1> QED
  BY Invariance, <1>1, PTL

(* No order of requests, syncs and charges overdraws a balance, and until  *)
(* a user's first sync it is the bonus less one debit for each job.        *)
THEOREM BalanceSoundHolds == Spec => []BalanceSound
<1>1. IndInv => BalanceSound
  BY DEF IndInv
<1> QED
  BY Invariance, <1>1, PTL

(* A row of a purchase names a transaction that is in a block.             *)
THEOREM PurchasesOnChainHolds == Spec => []PurchasesOnChain
<1>1. IndInv => PurchasesOnChain
  BY DEF IndInv
<1> QED
  BY Invariance, <1>1, PTL
-----------------------------------------------------------------------------
(* The token ledger.  A job is charged at most once, which is what counts  *)
(* the burnt tokens: a job with a CreditsSpent event has left the stages   *)
(* at which a transaction of its own can still be mined.                   *)
ChargedOnce == \A j \in spent : stage[j] \in {"mined", "past"}

Backed == Solvent /\ BurnedForJobs /\ ChargedOnce

Locked == SumFunctionOnSet(creditBalance, Accounts)
Circulating == SumFunctionOnSet(token, Holders)
JobCosts == [j \in Jobs |-> Cost(j)]

LEMMA LedgersAreFinite ==
  /\ IsFiniteSet(Accounts) /\ IsFiniteSet(Holders)
  /\ Vault \in Holders /\ Vault \notin Accounts /\ Accounts \subseteq Holders
BY TokenConstantsOK, FS_AddElement DEF Holders

LEMMA LedgersAreNumbers ==
  ASSUME TokenTypeOK
  PROVE  /\ Numbers(token, Holders) /\ Circulating \in Int
         /\ Numbers(creditBalance, Accounts) /\ Locked \in Int
         /\ token[Vault] \in Int /\ totalSupply \in Int
<1>1. Numbers(token, Holders) /\ Numbers(creditBalance, Accounts)
  BY DEF TokenTypeOK, Numbers
<1>2. token[Vault] \in Int /\ totalSupply \in Int
  BY LedgersAreFinite DEF TokenTypeOK
<1> QED
  BY <1>1, <1>2, LedgersAreFinite, SumType DEF Circulating, Locked

(* A transfer of tokens changes who has them, and not how many there are. *)
LEMMA MoveKeepsSupply ==
  ASSUME TokenTypeOK, NEW from \in Holders, NEW to \in Holders, from # to,
         NEW n \in Nat, Move(from, to, n)
  PROVE  /\ Circulating' = Circulating
         /\ token'[from] = token[from] - n /\ token'[to] = token[to] + n
         /\ \A h \in Holders \ {from, to} : token'[h] = token[h]
<1>1. /\ token'[from] = token[from] - n /\ token'[to] = token[to] + n
      /\ \A h \in Holders \ {from, to} : token'[h] = token[h]
      /\ token[from] \in Int /\ token[to] \in Int
  BY DEF Move, TokenTypeOK
<1>2. Circulating' = Circulating + token'[from] - token[from] + token'[to] - token[to]
  BY <1>1, LedgersAreFinite, LedgersAreNumbers, SumUpdateTwo DEF Circulating
<1> QED
  BY <1>1, <1>2, LedgersAreNumbers

(* One account locks or unlocks credits. *)
LEMMA LockChanges ==
  ASSUME TokenTypeOK, NEW a \in Accounts, NEW k \in Int,
         creditBalance' = [creditBalance EXCEPT ![a] = @ + k]
  PROVE  Locked' = Locked + k
<1>1. /\ creditBalance'[a] = creditBalance[a] + k
      /\ creditBalance[a] \in Int /\ creditBalance'[a] \in Int
      /\ \A b \in Accounts \ {a} : creditBalance'[b] = creditBalance[b]
  BY DEF TokenTypeOK
<1>2. Locked' = Locked + creditBalance'[a] - creditBalance[a]
  <2>1. IsFiniteSet(Accounts) /\ Numbers(creditBalance, Accounts)
    BY LedgersAreFinite, LedgersAreNumbers
  <2> DEFINE g == creditBalance'
  <2>2. g[a] \in Int /\ \A b \in Accounts \ {a} : g[b] = creditBalance[b]
    BY <1>1
  <2> HIDE DEF g
  <2>3. SumFunctionOnSet(g, Accounts) =
          SumFunctionOnSet(creditBalance, Accounts) + g[a] - creditBalance[a]
    BY <2>1, <2>2, SumUpdate
  <2> QED
    BY <2>3 DEF Locked, g
<1> QED
  BY <1>1, <1>2, LedgersAreNumbers

(* What every transaction of a wallet does to the totals: the supply is    *)
(* what it was, and the vault covers the locked credits by as much as it   *)
(* did, or by more.                                                        *)
Covers ==
  /\ totalSupply' = totalSupply /\ Circulating' = Circulating
  /\ \E k \in Int, d \in Nat : Locked' = Locked + k /\ token'[Vault] = token[Vault] + k + d

LEMMA PurchaseCovers ==
  ASSUME TokenTypeOK, NEW a \in Accounts, NEW n \in Nat, purchaseCredits(a, n)
  PROVE  Covers
<1>1. a \in Holders /\ Vault \in Holders /\ a # Vault
  BY LedgersAreFinite
<1>2. Locked' = Locked + n
  <2>1. n \in Int /\ creditBalance' = [creditBalance EXCEPT ![a] = @ + n]
    BY DEF purchaseCredits
  <2> QED
    BY <2>1, LockChanges
<1>3. Circulating' = Circulating /\ token'[Vault] = token[Vault] + n
  BY <1>1, MoveKeepsSupply DEF purchaseCredits
<1>4. token'[Vault] = token[Vault] + n + 0 /\ n \in Int /\ 0 \in Nat
  BY <1>3, LedgersAreNumbers
<1> QED
  BY <1>2, <1>3, <1>4, Zenon DEF Covers, purchaseCredits

LEMMA WithdrawCovers ==
  ASSUME TokenTypeOK, NEW a \in Accounts, NEW n \in Nat, withdrawCredits(a, n)
  PROVE  Covers
<1>1. a \in Holders /\ Vault \in Holders /\ a # Vault
  BY LedgersAreFinite
<1>2. -n \in Int /\ creditBalance' = [creditBalance EXCEPT ![a] = @ + (-n)]
  <2>1. creditBalance[a] \in Int /\ -n \in Int
    BY DEF TokenTypeOK
  <2>2. creditBalance[a] + (-n) = creditBalance[a] - n
    BY <2>1
  <2> QED
    BY <2>1, <2>2 DEF withdrawCredits
<1>3. Locked' = Locked + (-n)
  BY <1>2, LockChanges
<1>4. Circulating' = Circulating /\ token'[Vault] = token[Vault] - n
  BY <1>1, MoveKeepsSupply DEF withdrawCredits
<1>5. token'[Vault] = token[Vault] + (-n) + 0 /\ 0 \in Nat
  BY <1>4, LedgersAreNumbers
<1> QED
  BY <1>2, <1>3, <1>4, <1>5, Zenon DEF Covers, withdrawCredits

LEMMA TransferCovers ==
  ASSUME TokenTypeOK, NEW a \in Accounts, NEW h \in Holders, NEW n \in Nat,
         transfer(a, h, n)
  PROVE  Covers
<1>1. a \in Holders /\ Vault \in Holders /\ a # Vault /\ a # h
  BY LedgersAreFinite DEF transfer
<1>2. /\ Circulating' = Circulating
      /\ token'[Vault] = IF h = Vault THEN token[Vault] + n ELSE token[Vault]
  BY <1>1, MoveKeepsSupply DEF transfer
<1>3. Locked' = Locked + 0 /\ totalSupply' = totalSupply
  BY LedgersAreNumbers DEF Locked, transfer
<1>4. PICK d \in {0, n} : token'[Vault] = token[Vault] + 0 + d
  BY <1>2, LedgersAreNumbers
<1>5. d \in Nat /\ 0 \in Int
  OBVIOUS
<1> QED
  BY <1>2, <1>3, <1>4, <1>5, Zenon DEF Covers

LEMMA KeepCovers ==
  ASSUME TokenTypeOK, UNCHANGED tokenVars
  PROVE  Covers
<1>1. Locked' = Locked + 0 /\ token'[Vault] = token[Vault] + 0 + 0
  BY LedgersAreNumbers DEF Locked, tokenVars
<1> QED
  BY <1>1 DEF Covers, Circulating, tokenVars

LEMMA CoversBacked ==
  ASSUME TypeOK, Backed, Covers, UNCHANGED spent, ChargedOnce'
  PROVE  Backed'
<1>1. Solvent'
  <2>1. PICK k \in Int, d \in Nat :
          Locked' = Locked + k /\ token'[Vault] = token[Vault] + k + d
    BY DEF Covers
  <2>2. Locked <= token[Vault] /\ Locked \in Int /\ token[Vault] \in Int
    BY LedgersAreNumbers DEF Backed, Solvent, TypeOK, Locked
  <2>3. Locked' <= token'[Vault]
    BY <2>1, <2>2
  <2> QED
    BY <2>3 DEF Solvent, Locked
<1>2. BurnedForJobs'
  BY DEF Covers, Backed, BurnedForJobs, Circulating, Minted, Cost
<1> QED
  BY <1>1, <1>2 DEF Backed

LEMMA WalletsKeepBacked ==
  ASSUME TypeOK, Backed, WalletStep
  PROVE  Backed'
<1>1. PICK a \in Accounts, n \in 1 .. Minted :
        \/ \E h \in Holders : transfer(a, h, n)
        \/ purchaseCredits(a, n)
        \/ withdrawCredits(a, n)
  BY DEF WalletStep
<1>2. n \in Nat
  BY DEF Minted
<1>3. Covers
  BY <1>1, <1>2, TransferCovers, PurchaseCovers, WithdrawCovers DEF TypeOK
<1>4. ChargedOnce' /\ UNCHANGED spent
  BY DEF WalletStep, jobVars, Backed, ChargedOnce
<1> QED
  BY <1>3, <1>4, CoversBacked

LEMMA PurchasesKeepBacked ==
  ASSUME TypeOK, Backed, NEW p \in Purchases, PurchaseStep(p)
  PROVE  Backed'
<1>1. ChargedOnce' /\ UNCHANGED spent
  BY DEF PurchaseStep, PurchaseSend, PurchaseMined, PurchaseInsert, PurchaseAbort,
         PurchaseDropped, Bought, jobVars, Backed, ChargedOnce
<1>2. CASE PurchaseMined(p)
  <2>1. buy[p].n \in Nat /\ Platform \in Accounts
    BY CreditsConstantsOK DEF TypeOK, PurchaseRecord
  <2>2. purchaseCredits(Platform, buy[p].n) \/ UNCHANGED tokenVars
    BY <1>2 DEF PurchaseMined, KeepTokens
  <2>3. Covers
    BY <2>1, <2>2, PurchaseCovers, KeepCovers DEF TypeOK
  <2> QED
    BY <1>1, <2>3, CoversBacked
<1>3. CASE ~PurchaseMined(p)
  <2>1. UNCHANGED tokenVars
    BY <1>3 DEF PurchaseStep, PurchaseSend, PurchaseInsert, PurchaseAbort,
                PurchaseDropped, KeepTokens
  <2> QED
    BY <1>1, <2>1, KeepCovers, CoversBacked DEF TypeOK
<1> QED
  BY <1>2, <1>3

(* The transaction of a job that is charged burns its cost, from what is   *)
(* locked and from what the vault holds.                                   *)
LEMMA SpendKeepsBacked ==
  ASSUME TypeOK, Backed, NEW j \in Jobs, SpendMined(j), CanSpend(payer[j], Cost(j))
  PROVE  Backed'
<1> DEFINE n == Cost(j)
<1>1. n \in Int /\ -n \in Int /\ payer[j] \in Accounts /\ TokenTypeOK
  BY CostIsNat DEF SpendMined, ToStage, TypeOK
<1>2. /\ spendCredits(payer[j], n) /\ spent' = spent \cup {j}
      /\ stage[j] \in {"sent", "orphan"}
      /\ \E s \in {"mined", "past"} : stage' = [stage EXCEPT ![j] = s]
  BY DEF SpendMined, ToStage
<1>3. j \notin spent /\ ChargedOnce'
  BY <1>2 DEF Backed, ChargedOnce, TypeOK
<1> HIDE DEF n
<1>4. Locked' = Locked + (-n)
  <2>1. creditBalance' = [creditBalance EXCEPT ![payer[j]] = @ + (-n)]
    BY <1>1, <1>2 DEF spendCredits, TokenTypeOK
  <2> QED
    BY <1>1, <2>1, LockChanges
<1>5. /\ token'[Vault] = token[Vault] - n /\ token[Vault] \in Int
      /\ \A h \in Holders \ {Vault} : token'[h] = token[h]
  BY <1>1, <1>2, LedgersAreFinite DEF spendCredits, TokenTypeOK
<1>6. Circulating' = Circulating - n
  <2>1. token'[Vault] \in Int
    BY <1>1, <1>5
  <2>2. Circulating' = Circulating + token'[Vault] - token[Vault]
    BY <1>1, <1>5, <2>1, LedgersAreFinite, LedgersAreNumbers, SumUpdate DEF Circulating
  <2> QED
    BY <1>1, <1>5, <2>2, LedgersAreNumbers
<1>7. SumFunctionOnSet(JobCosts, spent') = SumFunctionOnSet(JobCosts, spent) + n
      /\ SumFunctionOnSet(JobCosts, spent) \in Int
  <2>1. IsFiniteSet(spent) /\ Numbers(JobCosts, spent) /\ JobCosts[j] = n
    BY CreditsConstantsOK, FS_Subset, CostIsNat DEF TypeOK, Numbers, JobCosts, n
  <2> QED
    BY <1>1, <1>2, <1>3, <2>1, SumAdd, SumType
<1>8. Solvent'
  BY <1>1, <1>4, <1>5, LedgersAreNumbers DEF Backed, Solvent, Locked
<1>9. BurnedForJobs'
  <2>1. totalSupply + SumFunctionOnSet(JobCosts, spent) = Minted
        /\ Circulating = totalSupply /\ totalSupply' = totalSupply - n
    BY <1>2 DEF Backed, BurnedForJobs, JobCosts, Circulating, spendCredits
  <2>2. totalSupply' + SumFunctionOnSet(JobCosts, spent') = Minted
        /\ Circulating' = totalSupply'
    BY <1>1, <1>6, <1>7, <2>1, LedgersAreNumbers
  <2> QED
    BY <2>2 DEF BurnedForJobs, JobCosts, Circulating, Minted, Cost
<1> QED
  BY <1>3, <1>8, <1>9 DEF Backed

LEMMA ChargesKeepBacked ==
  ASSUME TypeOK, Backed, NEW j \in Jobs, ChargeStep(j)
  PROVE  Backed'
<1>1. CASE SpendMined(j) /\ CanSpend(payer[j], Cost(j))
  BY <1>1, SpendKeepsBacked
<1>2. CASE ~(SpendMined(j) /\ CanSpend(payer[j], Cost(j)))
  <2> USE DEF ToStage, KeepLedgers
  <2>1. UNCHANGED <<tokenVars, spent>>
    BY <1>2 DEF ChargeStep, ReadAddress, SpendSend, SpendMined, SpendReceipt,
                SpendAbort, SpendDropped
  <2>2. \E s \in Stages : stage' = [stage EXCEPT ![j] = s]
                          /\ (stage[j] \in {"mined", "past"} => s \in {"mined", "past"})
    BY DEF ChargeStep, ReadAddress, SpendSend, SpendMined, SpendReceipt, SpendAbort,
           SpendDropped, Stages
  <2>3. ChargedOnce'
    BY <2>1, <2>2 DEF Backed, ChargedOnce, TypeOK
  <2> QED
    BY <2>1, <2>3, KeepCovers, CoversBacked DEF TypeOK
<1> QED
  BY <1>1, <1>2

(* Requests of users and syncs leave the token ledger alone. *)
LEMMA OthersKeepBacked ==
  ASSUME TypeOK, Backed, UNCHANGED <<tokenVars, spent>>,
         UNCHANGED stage
           \/ \E j \in Jobs : stage[j] = "none" /\ \E s \in Stages : stage' = [stage EXCEPT ![j] = s]
  PROVE  Backed'
<1>1. ChargedOnce'
  BY DEF Backed, ChargedOnce, TypeOK
<1> QED
  BY <1>1, KeepCovers, CoversBacked DEF TypeOK

LEMMA InitBacked == Init => Backed
<1> SUFFICES ASSUME Init PROVE Backed
  OBVIOUS
<1> USE LedgersAreFinite
<1>1. Minted \in Int /\ Funds \in Int
  BY TokenConstantsOK, FS_CardinalityType DEF Minted
<1>2. Locked = 0
  <2>1. Locked = 0 * Cardinality(Accounts)
    BY SumConstant DEF Init, TokenInit, Locked
  <2> QED
    BY <2>1, FS_CardinalityType
<1>3. Circulating = Minted
  <2>1. Holders = Accounts \cup {Vault} /\ token[Vault] = 0
        /\ \A a \in Accounts : token[a] = Funds
    BY DEF Init, TokenInit, Holders
  <2>2. SumFunctionOnSet(token, Accounts) = Funds * Cardinality(Accounts)
    BY <1>1, <2>1, SumConstant
  <2>3. Numbers(token, Accounts)
    BY <1>1, <2>1 DEF Numbers
  <2>4. Circulating = SumFunctionOnSet(token, Accounts) + token[Vault]
    BY <2>1, <2>3, SumAdd DEF Circulating
  <2> QED
    BY <1>1, <2>1, <2>2, <2>4 DEF Minted
<1>4. SumFunctionOnSet(JobCosts, spent) = 0
  BY SumOfNone DEF Init
<1>5. BurnedForJobs
  BY <1>1, <1>3, <1>4 DEF Init, TokenInit, BurnedForJobs, JobCosts, Circulating
<1>6. Solvent /\ ChargedOnce
  BY <1>2 DEF Init, TokenInit, Solvent, Locked, ChargedOnce
<1> QED
  BY <1>5, <1>6 DEF Backed

LEMMA BackedInvariance == Spec => []Backed
<1>1. TypeOK /\ Backed /\ [Next]_vars => Backed'
  <2> SUFFICES ASSUME TypeOK, Backed, [Next]_vars PROVE Backed'
    OBVIOUS
  <2>1. ASSUME NEW u \in Users, UserStep(u) PROVE Backed'
    <3>1. UNCHANGED <<tokenVars, spent>>
      BY <2>1 DEF UserStep, register, register_wallet, create_job, SyncAddress, jobVars
    <3>2. UNCHANGED stage
            \/ \E j \in Jobs : stage[j] = "none" /\ \E s \in Stages : stage' = [stage EXCEPT ![j] = s]
      BY <2>1 DEF UserStep, register, register_wallet, create_job, SyncAddress, jobVars, Stages
    <3> QED
      BY <3>1, <3>2, OthersKeepBacked
  <2>2. ASSUME NEW q \in Requests, SyncStep(q) PROVE Backed'
    BY <2>2, OthersKeepBacked DEF SyncStep, SyncRead, SyncWrite, SyncAbort, jobVars
  <2>3. CASE UNCHANGED vars
    BY <2>3, OthersKeepBacked DEF vars, jobVars
  <2> QED
    BY <2>1, <2>2, <2>3, ChargesKeepBacked, PurchasesKeepBacked, WalletsKeepBacked
       DEF Next
<1> QED
  BY InitBacked, TypeCorrect, <1>1, PTL DEF Spec

(* The contract can always pay out what is locked in it: no order of       *)
(* locks, unlocks, charges and transfers breaks the cover.                 *)
THEOREM SolventHolds == Spec => []Solvent
<1>1. Backed => Solvent
  BY DEF Backed
<1> QED
  BY BackedInvariance, <1>1, PTL

(* INC leaves circulation only for jobs that were executed, and once for   *)
(* each, whatever receipts are lost and workers killed.                    *)
THEOREM BurnedForJobsHolds == Spec => []BurnedForJobs
<1>1. Backed => BurnedForJobs
  BY DEF Backed
<1> QED
  BY BackedInvariance, <1>1, PTL
=============================================================================
