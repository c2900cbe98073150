# TLA+ verification of IndexNode

IndexNode is an API server, a background worker and a few smart contracts. Users
buy credits, create jobs that crawl a page or index the events of a contract, and
can later have a document verified against a Merkle root that was committed to a
chain. These modules model the program under `src/`; the configurations check
small instances with TLC, and the proof modules hold theorems for every instance,
checked by TLAPS.

    tlc -workers 2 -config worker_faults.cfg MCJobPipeline.tla
    tlapm JobPipelineProofs.tla

## 1. The system

One process (`api/src/main.rs`, `main`) serves HTTP and GraphQL from a tokio
runtime and starts one thread with a runtime of its own for the worker loop. All
requests, the worker and a metrics task share a PostgreSQL pool of five
connections. Nothing joins the worker thread or restarts it; a shutdown returns
from `main` wherever the worker is. Several processes may run on one database and
one set of contracts.

| Component | State | Operations | Talks to |
|---|---|---|---|
| Job queue (`core/src/queue.rs`, `job.rs`) | rows of `jobs` | enqueue, dequeue (`FOR UPDATE SKIP LOCKED`), `update_status` | called by the resolvers and the worker |
| Worker loop (`main.rs`, `run_worker`, `process_blockchain_index`) | its place in the loop, the job at hand, an optional `TimestampClient` | crawl, charge, fetch events, pin, store, commit, set the status | queue, credits, registry, IPFS, chains, AI, webhooks |
| Commit retries (`retry_pending_commits`) | `pending_merkle_commits`: status, `attempt_count`, `next_retry_at` | select due rows, commit, settle row and job | registry, queue, webhooks |
| Timestamp registry (`TimestampRegistry.sol`, `core/src/timestamp.rs`) | `timestamps` of the contract, `timestamp_commits` | `commitHash` once per hash, `verifyHash`; `commit_hash` sends and awaits | worker, retries, `POST /verify` |
| Webhooks (`fire_webhooks`, `handlers.rs`) | `webhook_subscriptions` | create, list, delete, best-effort signed POST | worker, retries |
| Credits (`CreditToken.sol`, `core/src/credits.rs`, resolvers) | `user_credits`, `credit_transactions`; tokens and locked credits on the chain | bonus, debit, register wallet, purchase, withdraw, spend, sync | jobs, worker |
| Accounts (`handlers.rs`, `auth.rs`, `middleware/auth.rs`) | `users`, `password_reset_tokens`, `api_keys`; JWTs and cookies of clients | register, login, forgot and reset password, `require_auth`, create and revoke keys | all requests |
| Merkle tree (`core/src/merkle.rs`) | none | root, proof, verification | worker, clients |
| Marketplace (`DataMarketplace.sol`, `core/src/marketplace.rs`, resolvers) | listings, purchases, fees; their rows | list, deactivate, purchase, withdraw fees | token |
| Distributed queue, worker, coordinator (`core/src/distributed`) | Redis sorted sets, processing keys, dead letters, heartbeats | enqueue, dequeue, complete, retry | used by no binary yet |
| Event loop (`process_blockchain_index`, `ipfs.rs`, `ai_extractor.rs`) | `blockchain_events`, `ipfs_content`, pins of the IPFS node; all events and an AI budget in memory | per event: add, pin, insert, record, extract; then stamp each row | worker, retries, `POST /verify` |
| Connection pool (`main.rs`, `db.rs`) | five connections, a line of waiters | acquire with a timeout of 3 s, release | everything that runs SQL |
| Subscription (`schema.rs`, trigger of migration 012) | one `LISTEN` connection of the pool per subscriber | stream of inserted events of one contract | pool, event loop |
| HTTP layer, validation, metrics, audit log, CLI, frontend | configuration, or write-only | | |
| Advanced crawler (`core/src/advanced_crawler`) | proxy index, browser pool | rotate, acquire, release | used by no binary yet |

What is hard in it, and what must be true of each part:

- **Job queue.** Workers of several processes dequeue at the same time, and
  `update_status` has no condition on the old status. A job must be executed by one
  worker only, and a settled job must stay settled.
- **Worker and retries.** A commitment is spread over five statements and two
  awaits of a chain, none of which share a transaction, and each error is logged
  and passed over. The process may be killed anywhere; receipts get lost after the
  broadcast; another process may retry the same row. The records must never claim
  more than the chain holds; an unclaimed success must be repeatable; each job must
  end, and its subscribers must hear the truth once.
- **Event loop.** One job is some six calls per event, each of which may fail and
  leave its predecessors' effects behind. Events, content hashes and CIDs are shared
  between jobs; stamps are statements of their own, made by the job or by a retry.
  Whatever is half done, no root may be over half a batch, `POST /verify` must not
  answer for what is on no chain, and must not take an answer back.
- **Subscription.** Rows are announced by a trigger, filtered per subscriber, and a
  connection may be replaced by another under the stream.
- **Connection pool.** Requests, the worker, the metrics task and subscriptions wait
  for one another. A request that waited in vain is answered 500; a worker that did,
  at the wrong statement, ends for good.
- **Timestamp registry.** A hash can be committed once, by anybody. The client
  treats a mined transaction as a success without a look at its receipt's status.
- **Credits.** Two ledgers, one in the database and one in a contract, that are
  debited at different times, in different units, and copied over one another. No
  balance may be overdrawn, a charge may be made only once, and the contract must
  remain solvent.
- **Accounts.** A reset token is looked up, used and marked in separate statements,
  two of which may fail unnoticed; so are the steps that replace one link by another.
  A link must work once, an older one must not undo a newer, and a reset that was
  answered must lock the old password out. A request acts for a user whose key may be
  revoked while it runs.
- **Merkle tree.** Odd levels: root, proof and verification must follow one rule.
  Doubling the last node gives different batches one root.
- **Marketplace.** A row mirrors a transaction that was mined before it; a price is
  split into two transfers by a percentage that may change at any time.
- **Distributed queue.** A job is moved by several commands that no transaction
  joins, each of which may fail before or after it was executed. Between `ZPOPMIN`
  and the processing key, and while it is executed, a job is in no queue. The reply of
  `ZPOPMIN` must be converted, by a library that may refuse it when the entry is gone.

`PROJECT.json` lists every component with its status and every hazard at its line.

## 2. Modules

| Module | Models | Composition |
|---|---|---|
| `JobLifecycle` | abstract: what readers of `jobs` may rely on, a status machine per row | refined by `JobPipeline` and by `EventIndex` (`INSTANCE ... WITH`) |
| `JobQueue` | the `jobs` table and the statements on it | extended by `JobPipeline` |
| `TimestampRegistry` | the contract and `commit_hash` | extended by `JobPipeline` |
| `JobPipeline` | workers, retries, pending commits, events, webhooks, kills and restarts | the composition of the three |
| `JobPipelineProofs` | theorems about `JobPipeline` | |
| `EventIndex` | an index job event by event, stamps, retries, verification, subscribers | the job of `JobPipeline` at a finer grain |
| `EventIndexProofs` | theorems about `EventIndex` and about `MerkleTree` | extends both: the roots of the one stand for trees of the other |
| `ConnectionPool` | who has and who awaits a connection of a server process | |
| `ConnectionPoolProofs` | theorems about `ConnectionPool` | |
| `CreditToken` | the ERC-20 token with locked credits | extended by `Credits` |
| `Credits` | `user_credits`, `credit_transactions`, the resolvers on them, the charge of a job | extends `CreditToken` |
| `FiniteSums` | lemmas: induction on numbers and on finite sets, sums over finite sets | extended by `CreditsProofs`, `MarketplaceProofs`, `EventIndexProofs` |
| `CreditsProofs` | theorems about `Credits` | |
| `DistributedQueue` | the Redis queue and the workers on it | |
| `DistributedQueueProofs` | theorems about `DistributedQueue` | |
| `MerkleTree` | root, proof and verification, as functions of a batch that grows | |
| `Marketplace` | the contract and the resolver that mirrors its listings | |
| `MarketplaceProofs` | theorems about `Marketplace` | |
| `Accounts` | passwords, reset links, sessions, API keys, ownership of keys and webhooks | |
| `AccountsProofs` | theorems about `Accounts` | |
| `MCJobPipeline`, `MCEventIndex`, `MCCredits`, `MCMarketplace`, `MCAccounts` | instance data and symmetry sets for TLC | |

### JobQueue, JobLifecycle

`jobs[j]` is the status column, `arrivals` the order of `created_at`. A row is
inserted at any place of that order, since `created_at` is taken before the
transaction commits; the priority is 50 for every row the code inserts. `dequeue`
is one SQL statement but two steps, `claim` (the subquery locks the first row that
no other transaction has locked) and `dequeue` (the `UPDATE` of that row commits),
because other transactions run in between. `update_status` is unconditional, as in
the code; `resolve_pending` is the retry loop's `UPDATE` with
`AND status = 'pending_commit'`.

`JobLifecycle` allows `none -> queued -> processing`, from there `completed`,
`failed` or `pending_commit`, and from `pending_commit` only `completed` or
`failed`. `JobPipeline` instantiates it with `jobs` for `jobs`, `EventIndex` with the
status that follows from where a job is.

### TimestampRegistry

`registry` is the set of roots with a timestamp. `SendOk`/`SendErr` are the first
await of `commit_hash` (the gas estimate, then the broadcast), `ReceiptOk`/
`ReceiptErr` the second. `StatusOf` is the receipt status that the client never
looks at. `MinedElsewhere` is a transaction that nobody awaits: one whose sender
gave up on it or died, or one of another account.

### JobPipeline

`pc[w]` is the statement a worker is about to execute. **One action is one awaited
effect**: a SQL statement, a call of the chain, a round of webhooks. What the code
does between two awaits belongs to the action before. `Crash` can hit between any
two. `Sql(A, v)` is a statement whose error is ignored; a statement whose error
ends the function or gives the round up is written out.

| Code | Actions |
|---|---|
| `create_job`, `create_blockchain_job` | `Enqueue` |
| `main` | `Start` (with or without a `TimestampClient`; the worker may fail to connect), `Crash` |
| `retry_pending_commits` | `ScanPending`, `NextRow`, `RetrySend`, `RetryAwait`, `RetryStore`, `RetryStamp`, `RetryMark`, `RetryComplete`, `RetryError`, `RetryGiveUp`, `RetryUnconfigured`, `RetryFailNoHook` |
| `run_worker` | `Dequeue`, `Take`, `Crawl`, `StoreResults`, `SetCompleted`, `SetFailed`, `SetParked`, `SetSummary` |
| `process_blockchain_index` | `Charge`, `Fetch`, `CommitSend`, `CommitAwait`, `CommitStore`, `CommitStamp`, `QueueRetry` |
| `fire_webhooks` | `fire_webhooks` |
| time, chain | `ComeDue`, `MineElsewhere` |

`todo[w]` and `att[w]` hold the rows as they were **selected**; what the retry
writes back is computed from them, not from the table. `batch[j]` is the Merkle
root of the stored events, `stamp[j]` how many of them carry it. The crawl, the
fetch of events, IPFS and AI extraction are inputs with their outcomes (success,
no event, failure). Whether a charge succeeds is an input too, only for the jobs
in `Wallets`; what it does after a success (a conversion that panics) is part of
`Charge`. One exit is left out: `from_value` of a job's `config` (`main.rs:420`)
fails for no row that the API inserts.

### EventIndex

`Fetch` of `JobPipeline` is one step that yields a root; here it is the program. Every
job is a process of its own, which covers any number of workers, and its commit may be
retried by another process at the same time. `pc[j]` is the next effect of job `j` or,
when nobody executes it, its status. `events[j]` is `all_events`; `stored[j]` counts the
rows inserted so far, and since the loop inserts in order, row `i` of job `j` is
`<<j, i>>`. A Merkle root is the sequence of the content hashes below it (`MerkleTree`
says when that is justified: equal roots mean batches with the same hashes).

| Code | Actions |
|---|---|
| `create_blockchain_job`, `dequeue` | `Create`, `Take` |
| parameters, endpoint, `get_events` per signature | `Reject`, `GetEvents` |
| `store_content`, `pin_content` | `AddContent`, `PinContent` |
| `INSERT INTO blockchain_events` with its trigger | `InsertEvent` (with `Notify`) |
| `INSERT INTO ipfs_content`, extraction within its budget | `RecordContent`, `Extract` |
| root, `commit_hash`, its row, a stamp per event | `Commit`, `StoreCommit`, `Stamp` |
| parking, status, kills | `QueueRetry`, `SetStatus`, `Crash` |
| `retry_pending_commits` | `RetryCommit`, `RetryStore`, `RetryStamp`, `RetryMark`, `RetryResolve`, `RetryCrash` |
| `POST /verify` | `verify_hash`, a formula of the state |
| `Subscription.blockchain_events`, `PgListener` | `Subscribe`, `Deliver`, `LoseConnection`, `Reconnect` |

`verify_hash` is the query of `handlers.rs` as it is written: it joins any row that has
the hash with any commit that has the row's `merkle_root`, whichever jobs these belong
to. A notification is a position in `log`, the order of the `INSERT`s; `from` and
`whole` of a subscriber (where it began, and whether its connection was ever lost) are
history.

### ConnectionPool

A client is a request slot, a subscription slot, the worker or the metrics task. `at[c]`
is the stage it is at; `After` says what comes after a stage that has had its
connection, `Otherwise` after one whose `acquire()` has timed out, `Resume` after one
that needs none. A stage stands for a statement or a transaction, so that a handler with
three statements passes through the line three times. `Acquire` serves the line in
order, as sqlx does; `Finish` gives the connection back, except that a subscription
keeps it. `TimeOut` is possible only when no holder is about to give its connection
back: the model takes a statement to be shorter than 3 s, because otherwise any request
might be refused at any time and there would be nothing to say.

### CreditToken, Credits

`CreditToken` has `transfer`, `purchaseCredits`, `withdrawCredits`, `spendCredits`
with their `require`s. In `Credits`, a job's `stage` is the worker at that job's
charge: that one worker executes it, and once, is what `Ownership` and
`LifecycleSpec` of `JobPipeline` say. Amounts in the database are whole INC,
amounts on the chain are wei; `SyncRead` divides, `SpendReceipt` converts the cost
to a `u64` or panics. `sync_credit_balance` is three steps (address, chain,
`UPDATE`) between which anything may happen. `purchase_credits` signs with the
platform's key: it is a `purchaseCredits` of the platform's own account, in five steps
(`PurchaseSend`, `PurchaseMined`, `PurchaseInsert`, and `PurchaseAbort`,
`PurchaseDropped` for a lost receipt, a failed `INSERT` or a kill) that end in a row of
`credit_transactions`.
A user's identity reaches the resolvers as an input; the modules start where a
request has been authenticated.

### DistributedQueue

`queued` holds the entries of all sorted sets: an entry is a job with its
`retry_count`, and `info[j]` is the rest of what was serialized and never changes.
`pc[w]` is the command of Redis, or the handler, that a worker is at. One command is
one action, so the scan of `dequeue` takes a step per priority (`PopNil`), during
which others may push and pop. A command that fails (`PopFails`, `MarkFails`,
`CompleteFails`, `RetryFails`) may have been executed or not; an error in `dequeue`
sends `Worker::run` back to its loop without the job, an error in `complete` or
`retry` ends it. `PopUnread` is a command that succeeds with a reply that the client does
not convert: the entry is in no set and with no worker, and `dequeue` returns an error. `Expire` is the 300 s of the processing key, which a slow handler
outlives. `done`, `dropped`, `runs` and `since` are history.

| Code | Actions |
|---|---|
| `DistributedQueue::enqueue` | `Enqueue` |
| `dequeue` | `Pop`, `PopNil`, `PopUnread`, `PopFails`, `Mark`, `MarkFails` |
| the handler | `HandlerOk`, `HandlerErr` |
| `complete`, `retry`, `dead_letter` | `Complete`, `CompleteFails`, `Retry`, `RetryFails` |
| time, kills | `Expire`, `Crash` |

What the client makes of a reply is the constant `Converts`. Redis answers `ZPOPMIN` with
an array, of entry and score or empty, and `dequeue` asks for an `Option<String>`
(`queue.rs:60`). The client of the build, redis 0.27 (`Cargo.lock`), makes one of a nil
or of a string and refuses an array, so that the code as it is built is `Converts =
{FALSE}`: every `dequeue` ends with an error at the priority 100, an entry that waits there
is removed and lost, no other priority is ever looked at, and no handler is called. That
is proved (`BuiltRunsNothing`, `BuiltServesOnlyTheTop`). The run has `Converts = {TRUE,
FALSE}`: a reply may be converted or refused, so that what the rest of the code does with
a job is checked too, and each property has to allow for a refusal at any time. The
behaviour of the library is external to `src/`; a server has not been tried. No binary
calls `run_distributed_worker`, the only caller of this code.

### MerkleTree

SHA-256 of two concatenated hex hashes is the pair of them. The three functions of
`merkle.rs` are translated level by level with recursive functions; `Node` is an
independent reference, the textbook tree defined from the root down, in which a node is
there if the first leaf below it is in the batch. The state is the batch that
`process_blockchain_index` collects, so that TLC visits each batch.

### Marketplace

Every function of `DataMarketplace.sol` that changes state is an action, a
transaction that reverts is no step, `listings` and `purchases` are sequences whose
indices are the counters. `setPlatformFee` and `withdrawFees` are calls of the
owner. All accounts have approved what they have. INC has no callback, so a
purchase is one step and the reentrancy guard never refuses. A request of the API is
`create_marketplace_listing` (validation, `send`), `Mined`, `InsertRow`; `CutOff` is a
lost receipt or connection, or a kill, after which the transaction may still be
mined. `purchase_dataset` of the API has no action: it reads `on_chain_listing_id`,
which no statement of the program ever sets, and returns an error (`schema.rs:769`)
before it changes anything.

### Accounts

No handler of this part uses a transaction, so that each statement is an action of its
own: `forgot_password` (the look-up), `ClearTokens`, `InsertToken`, `SendMail`;
`reset_password` (the look-up), `WritePassword`, `MarkUsed`. A statement that fails may
have been executed; the errors of `ClearTokens` and `MarkUsed` are passed over, as
`let _ =` does. `CutForgot` and `CutReset` drop a handler between two statements: its
client hung up, or the process was killed. A request that is refused (wrong password, a
token that is unknown, used or expired, a weak password) changes nothing and is no step.
A reset stands for the password that it asks for, which makes passwords comparable
without hashes. Sessions are JWTs, stored nowhere: a login is one read of a row, and a
session ends when it expires or its cookie is cleared, never because a password changed.
`require_auth` is where a request learns for whom it acts; its handler is a later step,
when the key may be gone. What `Forgot`, `Reset` and `Session` hold under `after`,
`links`, `old` and `password` is history for the properties.

| Code | Actions |
|---|---|
| `forgot_password` | `forgot_password`, `ClearTokens`, `InsertToken`, `SendMail`, `CutForgot` |
| `reset_password` | `reset_password`, `WritePassword`, `MarkUsed`, `CutReset` |
| `login`, `logout` | `login`, `ExpireSession` |
| `require_auth` | `require_auth` |
| keys, webhooks | `create_api_key`, `delete_api_key`, `create_webhook`, `delete_webhook`, `OtherCall` |
| time | `ExpireToken`, `ExpireSession`, `ExpireKey` |

## 3. What the runs check

| Run | Instance | Shows | Distinct states |
|---|---|---|---|
| `worker_faults` | 2 workers, an index job and a paying crawl job, 1 root, 2 attempts, RPC down at any start, 1 kill, 1 SQL error | `TypeOK`, `Ownership`, `AnchorSound`, `RetriedIsAnchored`, `LifecycleSpec` | 2.5 million |
| `one_worker` | 1 worker, 2 index jobs with one root and a crawl job, 2 attempts, 1 kill, fair | `StatusTruthful`, `HooksTruthful`, `RetryProgress`, `EveryJobFinishes`, `QueueDrains` | 399 thousand |
| `event_index` | 2 jobs with 2 and 1 events of which one is shared, an empty signature, AI budget of half a call, 1 subscriber, 1 SQL error, kill or lost connection | `TypeOK`, `VerifiedIsAnchored`, `VerifiedForever`, `WholeBatch`, `CompletedVerifies`, `StreamFaithful` | 1.9 million |
| `connection_pool` | 2 connections; 2 requests, 2 subscriptions, worker, metrics; fair | `TypeOK`, `RefusedOnlyIfStarved`, `EveryRequestAnswered` | 462 thousand |
| `credits` | 1 user, 2 wallets with 1 token each, a crawl and an index job, 1 sync, 1 purchase | `TypeOK`, `Solvent`, `BurnedForJobs`, `BalanceSound`, `PurchasesOnChain` | 3.1 million |
| `distributed` | 2 workers, 2 jobs, priorities 0 to 2 of which 2 is out of range, 2 tries, replies converted or refused, 1 failing command or kill, fair | `TypeOK`, `ExactlyOnePlace`, `BoundedRuns`, `HighestFirst`, `EveryJobSettles`, `Served` | 275 thousand |
| `merkle` | every batch of up to 7 events with 2 hashes | `RootOfTree`, `ProofsExact`, `RootTellsBatch` | 255 |
| `marketplace` | 3 accounts, 2 requests, prices 7 and 20, fees 5, 20 and (refused) 50, 2 listings, 2 purchases, 1 cut-off | `TypeOK`, `LedgerExact`, `RowsMirrorListings` | 617 thousand |
| `accounts` | 2 users, 2 requests for a link, 2 resets, 1 session, 1 key, 1 webhook, 1 request at a time, 1 failing statement or dropped handler | `TypeOK`, `LinksSound`, `ResetTakesEffect`, `OwnersOnly` | 2.7 million |

- **Ownership.** A locked row is queued, an executing worker's job is `processing`,
  and no two workers have the same job.
- **AnchorSound.** A root in `timestamp_commits`, or on an event, is on the chain.
- **LifecycleSpec.** `JobLifecycle`, as a specification that the workers implement.
- **RetriedIsAnchored.** A pending row is marked `committed`, and a job that was parked
  completes, only with its root on the chain and recorded, in whatever process the
  retry ran and whatever fails.
- **StatusTruthful.** Kills and lost receipts alone never make a completed job that
  cannot be verified, or a parked job without a row. A parked job's row is one that the
  retry selects, or it is settled and the job is next, but for one job per kill: between
  the `UPDATE` of the row (`main.rs:672`) and that of the job (`main.rs:679`) a kill strands
  the job in `pending_commit`, since no `SELECT` finds its row again. The count holds with
  one worker; another process can strand a job without a kill (`pending_two_workers`). SQL
  errors break more, because they are passed over: the property says `faults = 0`, a
  statement about each state up to the first error.
- **HooksTruthful.** Subscribers of one worker never hear both outcomes of a job; up to
  the first kill or SQL error they hear the status it has.
- **RetryProgress.** With one worker, attempts never drop and a settled row stays so.
- **EveryJobFinishes, QueueDrains.** Each job ends, each queued job is taken; the
  comments in the module state under which failures.
- **VerifiedIsAnchored, VerifiedForever.** `POST /verify` answers only for hashes below
  a root in the registry, and never takes an answer back.
- **WholeBatch.** A root is over all events the job has read, each of which has its row,
  its pin and a row for its CID; a job that failed in its loop has no root and no stamp.
- **CompletedVerifies.** Undisturbed, a completed job that had a client verifies event
  by event, whether it or a retry stamped the rows.
- **StreamFaithful.** A subscriber is sent rows of its address, in order, once; and all
  of them while its connection lasts.
- **RefusedOnlyIfStarved.** Nobody waits for a connection while having one, so that a
  request is refused, or the worker ends, for want of a connection only at a moment when
  subscriptions have them all. **EveryRequestAnswered**, with 500 if need be.
- **Solvent, BurnedForJobs.** Locked credits are covered by the tokens the contract
  holds; INC is burnt exactly once for each charged job.
- **BalanceSound.** The guard in the `UPDATE` keeps a balance from being overdrawn, and
  until the first sync the balance is the bonus less the debits.
- **PurchasesOnChain.** A row in `credit_transactions` names a transaction in a block,
  with its amount unless that exceeds an `i64`.
- **ExactlyOnePlace.** A job of the Redis queue is in one set, with one worker or among
  the dead letters, and only a failing command, a kill or a reply that the client refuses
  leaves it in none.
- **BoundedRuns.** The handler runs at most `max_retries` times, across workers.
- **HighestFirst.** A worker takes no job while one of a higher priority waits that
  waited when its scan began, although the scan is not atomic.
- **EveryJobSettles, Served.** Without faults a job of the highest priority is done, dead
  or lost with a refused reply in the end; with faults it is taken unless there were as
  many as workers, for no error of `dequeue` ends one. The other priorities are promised
  nothing: after each refusal the scan begins at the top again.
- **RootOfTree, ProofsExact.** The root is the textbook's, every generated proof is
  accepted, and no proof made of the tree's hashes for any other event at that position.
- **RootTellsBatch.** Batches with one root have trees of one height, and the longer
  repeats the tail of the shorter: they hold the same hashes.
- **LedgerExact** (`Marketplace`). Each token is where the log of purchases says, with
  nothing lost in rounding, whatever the fee was; the counters match the log.
- **RowsMirrorListings.** A row stands for a listing of the platform on the chain, at
  its price.
- **LinksSound.** A link is used once, and a user has one good link, the last, until it
  is used or expires, whatever other users do; only requests that overlap and a
  statement that fails may use one twice or leave two, as its conditions say.
- **ResetTakesEffect.** After the answer 200 to a reset the password it has replaced
  opens no session, whatever failed and whichever other resets ran.
- **OwnersOnly.** Keys and webhooks come and go by requests of their owner.

Runs that show where the code departs from what its documents say (one property
each, expected to be violated; `PROJECT.json` quotes the documents under
"findings"):

| Run | Property | What happens |
|---|---|---|
| `pending_two_workers` | `PendingResolves` | a second process settles the pending row before the first has parked the job, which then stays `pending_commit` |
| `paid_job` | `PaidJobSettles` | a charge that succeeds ends the worker thread, the job stays `processing` |
| `synced_twice` | `PaidInFull` | a sync undoes the debits of jobs that are not charged on the chain yet |

Met while modelling, and not given a run of their own.

*Commits and retries.*
- Of two jobs with the same events the second fails after five attempts although its
  root is on the chain, because `commitHash` takes a root once and neither `commit_hash`
  nor the retry asks `verifyHash` (`main.rs:699` tells the owner "On-chain Merkle
  commitment failed").
- The wait before the first retry is 0 s and the later ones 60 to 480 s, where the
  comment at `main.rs:611` says 30 to 480 s (`next_retry_at` defaults to `now()`, and
  the exponent is the attempt about to be recorded).
- Without a `TimestampClient`, `process_blockchain_index` returns `Completed` with
  nothing committed, where the comment at `main.rs:602` says that the root is.
- A kill between `RetryMark` and `RetryComplete` leaves a job in `pending_commit` for
  good (`StatusTruthful` counts these). After a kill between the pending row (`main.rs:1053`) and the status (`main.rs:556`)
  the retry announces `job.completed` for a job that stays `processing`, since its
  guarded `UPDATE` matches nothing.
- A transaction that reverts when it is mined is recorded as the commitment, since
  `commit_hash` ignores the receipt's status. That is harmless for `AnchorSound`,
  because it reverts only when the root is there.
- A job that is `processing` when its worker dies stays so: no code takes such rows up.

*Events.*
- A signature whose `get_events` fails is passed over with a warning, and the job
  completes without its events.
- `to_block.unwrap_or(get_latest_block().await?)` asks the endpoint even when `to_block`
  is given, and fails the job with it; a negative `to_block` wraps in `as u64`.
- An event whose JSON makes a notification of 8000 bytes or more fails its `INSERT`, and
  so its job, because the trigger's `pg_notify` refuses it.
- `content_hash` is over the data only, and the JSON has no log index: identical logs
  share a hash and a CID, and `ipfs_content` has a row for the first only.
- Tokens of an AI call that fails or is cut off are not counted; the budget may be
  passed by less than one call.
- The subscription compares the address as text with one the row has in lower case: a
  checksummed address never matches. `README.md:194` calls the subscription
  `blockchainEventStream`, the schema `blockchainEvents`.
- Subscriptions hold pooled connections: five of them leave none, requests are then
  answered 500, and `update_status` without a connection ends the worker for good.

*Credits, marketplace, accounts.*
- A crawl job is debited 50 in the database (`handlers.rs:298`) and charged 100 on the
  chain.
- `purchase_credits` locks the platform's tokens as the platform's credits, changes no
  balance of the user, ignores the receipt's status, and records 0 for amounts from
  2^63 wei.
- Every row of a listing has `listing_id` 0 (`schema.rs:707`) in a column that is
  `UNIQUE` (migration `010`): the second listing is on the chain and never in the table.
  `price_credits`, whole credits in the database, is passed to the contract as wei, and
  every listing of the API has the platform as its seller.
- The `/graphql` routes are added after the `route_layer` of `require_auth` and so are
  not behind it; the resolvers look at the identity themselves.
- The Pinata credential is stored and never used; `verify_merkle_proof` keeps
  `level_size` and never uses it.
- A Redis worker that fails to mark a job, or dies with one, loses it, because nothing
  scans for processing keys that expired.
- `dequeue` cannot read any reply of `ZPOPMIN` with the client it is built with: see
  `DistributedQueue` above.

### Bounds

- *Workers.* Two are enough for each interleaving of a pair; the theorems cover any
  number. The properties of single workers are checked with one because two break
  them (`pending_two_workers`); `StatusTruthful` is one of them, and its part about rows is
  proved for any number (`TruthfulRows`).
- *Jobs.* Two or three: one under way or parked, one that is dequeued next, one of the
  other kind. One root in `one_worker` lets two jobs commit the same; `worker_faults` has
  a crawl job that is charged.
- *Events.* A job of two events has a first, a last and a middle of its loop (after one
  row, before the next); a job of one shares its event. One signature finds nothing. The
  budget is 1 and a call takes 0 or 2: the second event meets a budget that is passed. One
  subscriber asks for one of two addresses.
- *Connections.* Two connections, two subscriptions: the pool can be held entirely by
  streams, entirely by statements, or by both; the theorem covers five and any number.
- *Attempts.* `MAX_COMMIT_RETRIES` is 5 in the code and 2 in most runs, which leaves
  an attempt that backs off and one that gives up.
- *Kills and SQL errors.* `MaxCrashes`, `MaxDbFaults` and `MaxFaults` bound failures of which one
  can hit at every step; TLC exhausts the places for one of each together.
- *Time.* `due` is a Boolean: whether `next_retry_at` has passed. How long the wait
  is does not matter to any property.
- *Amounts.* In `credits` the bonus and the debit are 1, an index job costs 1 and a
  crawl job 2 on the chain, and each wallet has 1 token: the bonus covers one of the two
  jobs, and a wallet one charge, or both after a transfer. `MaxU64` is smaller than every
  cost, as 2^64 - 1 is; `MaxI64` is 1, so that a purchase of 1 fits and one of 2 does not.
  `WeiPerInc` is 1 because no checked property depends on the rounding; the theorems hold
  for any value.
- *Redis queue.* Two priorities in range and one outside are the cases of the scan
  (above, at, below and never), `Converts = {TRUE, FALSE}` both outcomes of a reply. One
  `created_at` lets `ZPOPMIN` take either entry.
- *Batches.* Up to seven leaves give all shapes of trees up to height three: odd at
  the bottom (3, 5, 7), odd in the middle (5, 6), full (1, 2, 4). Two hashes allow
  events that are equal, whose proofs must then be accepted for one another.
- *Marketplace.* A price of 7 has a fee that rounds down at 5 and at 20 percent, one
  of 20 has none; 27 tokens pay for both purchases. Two listings allow one account to
  be seller of one and buyer of the other.
- *Accounts.* Two links and two resets are every order of a pair, of one user or of
  two; slots for one session, key, webhook and guarded request are used again and again,
  so that users take turns. Longer chains of links add nothing to properties of pairs.
- *Symmetry.* Users, tokens, resets, workers, roots, accounts, and jobs of one kind are interchangeable in
  the runs that name a symmetry set; no run with a liveness property uses one.
- *Deadlock.* It is checked except where everything may rightly stop: a worker
  thread that has exited on an SQL error or a panic is never restarted, in `Credits`
  and `EventIndex` all jobs may be over, and batches and listings are bounded.

### Fairness

`FairSpec` asks for weak fairness of `WorkerStep(w)` (awaits return, with success
or failure, and the thread is scheduled), of `Start(w)` (`restart: unless-stopped`
in `deploy/docker-compose.yml`) and of `ComeDue(j)` (time passes). Which outcome an
await has is never fair: the chain may fail every attempt. Nobody has to create
jobs, kill processes or mine transactions. Strong fairness is not needed, because
no other process can disable a worker's step for good. `DistributedQueue` asks for
weak fairness of `WorkerStep(w)` only: a command returns with a reply or an error, the
handler returns. A worker that has ended is not restarted there, which takes a fault each, and `Served`
says so. The fairness is of the step, not of its outcome: a client that refuses every
reply is among the behaviours.
`ConnectionPool` asks for weak fairness of `Acquire`, `Finish` and `TimeOut` of each client
(statements end, timers run, sqlx hands out what is free): nobody has to send requests or
to stop listening. `EventIndex` and the other modules state no liveness.

## 4. What is proved

`JobPipelineProofs`, for every number of workers, jobs, roots, attempts, kills and
errors, from `ConstantsOK` alone:

| Theorem | States |
|---|---|
| `TypeCorrect` | `Spec => []TypeOK` |
| `OwnershipHolds` | `Spec => []Ownership` |
| `AnchorSoundHolds` | `Spec => []AnchorSound` |
| `LifecycleRefined` | `Spec => LifecycleSpec`: every step of any worker is a step of the status machine or leaves `jobs` alone |
| `RetriedIsAnchoredHolds` | `Spec => []RetriedIsAnchored` |
| `TruthfulRowsHolds` | `Spec => []TruthfulRows`: `StatusTruthful` without its last conjunct |
| `StatusTruthfulHolds` | `Spec => []StatusTruthful`, with one worker |
| `RetryProgressHolds` | `Spec => RetryProgress`, with one worker |
| `HooksTruthfulHolds` | `Spec => [](faults = 0 => HooksTruthful)`, with one worker |

The inductive invariant `IndInv` is `TypeOK`, `Ownership` and `AnchorSound` with
what they need of a worker's local view:

- `AtHand`: a worker past its dequeue has a job; past `Fetch`, or at a pending row,
  the job has a root; a selected row is below the limit. Without it, `Root(w)` need
  not be a root, nor `att + 1` an attempt.
- `Freshness`: until its worker stores the batch, a job has no root and no stamp.
  So a root does not change under a receipt or a stamp. This is where `Ownership`
  is needed: another worker at the same job could store a second batch.
- `ReceiptMeansOnChain`: past a receipt the root is in the registry, even when the
  receipt says `reverted`, because the transaction reverts only if the root is there.

Each action is first reduced to what it does to the queue and to `pc` (the lemmas
with `QueueEffect`, `WorkerEffect`, `TodoEffect`, `RecordsEffect`), and each conjunct
of `IndInv` is then preserved by every effect, so that thirty actions need not be
visited for every conjunct. `LifecycleRefined` uses `Ownership`: the unconditional
`update_status` is a legal step because its worker's job is `processing`.

`RetriedIsAnchored` needs two more invariants, relative to `IndInv`. `RecInv`: a worker
between storing a commit and settling its job has the root recorded, which no other step
undoes. `RowsInv`: a job that was never parked has no pending row, so that a worker that
completes a job by itself completes one without a row, and a row that a retry has selected
stays there. `TruthfulRows` needs `TruthInv` on top: where a worker is tells, as long as
no SQL error has occurred, what it has written; a batch gets its root from the worker that
fetches it, which by `Ownership` is not at a job that is completed or about to be.

The last three theorems assume `OneWorker`, because two workers violate what they state
(`pending_two_workers`): a second process may settle a row that the first has selected.
`RetryInv` says that with one worker this cannot be: the row at hand and the rows still to
come are pending, with the `attempt_count` that was selected, and are rows of different
jobs. `ParkInv` says that a worker parks a job only with a row that is retried, and that
the jobs that nothing will settle are at most as many as the kills; only a step that
settles a row, a step that settles a job and `Crash` change that set. `NoticeInv` (nothing has been told of a job that is under way, or whose row is
pending) survives kills; `AgreeInv` (whoever is about to tell an outcome tells the status
of the job) holds until the first kill. `HooksTruthful` is proved up to the first SQL
error, which is all that its run allows: a status that was not written and an error that
was passed over make a webhook wrong.

`EventIndexProofs`, for any number of jobs, events, subscribers and faults, from
`EventIndexOK`: `TypeCorrect`, `WholeBatchHolds`, `VerifiedIsAnchoredHolds`,
`VerifiedForeverHolds`, `CompletedVerifiesHolds`, `StreamFaithfulHolds` and
`LifecycleHolds`, all properties of its run. `IndInv` has four parts per job: `Position` (how
far its loops are), `Saved` (what the loop has left behind is pinned and recorded),
`Rooted` (who has a root, and who has seen it committed), `Whole` (the property). A step
touches one job, and what jobs share only grows (`Grows`), so that other jobs keep their
part by one lemma. `VerifiedForever` follows because roots, events and stamps last
(`Lasting`). `CompletedVerifies` adds `SettledInv`: undisturbed, the rows below the counter
of a stamping job, or all rows once a retry has stamped them, carry the root.
`StreamFaithful` adds `SendInv`: what waits for a subscriber comes after what it was sent,
in order, which only an insertion at the end and a removal at the front preserve.

The same module has the theorems about `MerkleTree`, from `MerkleConstantsOK` and for
batches of any length: `RootOfTreeHolds`, `ProofsExactHolds`, `RootTellsBatchHolds`, all
properties of its run. The last two assume `NoLeafIsANode`, that no content hash is the
hash of two nodes: with leaves and nodes hashed alike, as in `merkle.rs`, an event whose
hash is a node of another tree would pass for it, and the hash function is what rules
that out. Nothing else is assumed of the hashes but that pairs differ if a component does.

- Each recursive function is first shown to exist (`LevelsExist`, `PositionsExist`,
  `SizesExist`, `RowsExist`, `FoldExists`), because TLA+ defines it by `CHOOSE`; the argument
  is `NumberInduction` on how far it goes.
- `NextLevelType`: a level is half as long as the one below, and its nodes are pairs of
  neighbours there, or of the last node with itself. So the loops end (`HeightType`).
- A verification passes the positions of the proof (`PassesPositions`). Given the siblings
  it passes the ancestors of the event (`GeneratedVerifies`). Begun elsewhere, it misses
  them at each level, whatever it is given (`FullLengthMisses`); a shorter proof for a
  leaf misses every node (`ShorterMisses`).
- Equal roots make trees `Alike` from the root down to the leaves of the lower one
  (`AlikeFromRoot`), which are then at the same height, since leaves are not pairs.
- `NodesOfLevel`: a level has node `k` if and only if `k` times `2^h` is less than the
  number of leaves; the textbook's rule for a missing right child is then the loop's.

`ConnectionPoolProofs`, from `PoolOK`: `TypeCorrect` and `RefusedOnlyIfStarvedHolds`. The
invariant adds that who stands in line is at a statement. A holder is then never in line,
so that a pool nobody is about to return to is held by streams.

`CreditsProofs`, from `TokenConstantsOK`, `CreditsConstantsOK` and `CostsOverflow`:
`TypeCorrect`, `BalanceSoundHolds`, `PurchasesOnChainHolds`, `SolventHolds`,
`BurnedForJobsHolds`, all properties of its run. The invariant adds `Owned`
(jobs belong to registered users, a job that does not exist to nobody), without
which a registration could meet jobs already debited, and `MinedIsOnChain` (a receipt is
one of a block). `CostsOverflow` (50 and 100 INC in wei are more than 2^64 - 1) is what
keeps `SpendReceipt` away from the balance: its debit has no guard, so a cost that fitted
would overdraw it. The last two theorems add `ChargedOnce` (a job with a `CreditsSpent`
event has no transaction of its own left to be mined). Every function of the token moves an
amount between two accounts, or between an account and its credits, or burns what it
unlocks; each is one or two updates of functions whose sums are compared.

`FiniteSums` has the sums. What a sum over any finite set does when the function changes at
one point, or when the set gains a member, needs induction on the set; `SubsetInduction`
gets it from a least counterexample, with the well-founded order of the library's
`WellFoundedInduction`, so that no operator need be a parameter.

`MarketplaceProofs`, from `MarketConstantsOK`: `TypeCorrect`, `LedgerExactHolds`,
`RowsMirrorListingsHolds`, all properties of its run. `ChainInv` is about the contract: each
purchase in the log names a listing and has its fee, and each account has its funds, less
what it paid, plus what it earned, which are sums over the log; a purchase appends one entry
and so changes three of these sums. `RequestInv` is about the API: from the moment its
transaction is mined a request knows the listing that it made, and no other request knows
that one.

`AccountsProofs`, from `AccountsConstantsOK`: `TypeCorrect`, `LinksSoundHolds`,
`ResetTakesEffectHolds`, `OwnersOnlyHolds`, all properties of its run. Its invariant relates
the history of a token to its state: `Requested` and `Started` (what a request or a reset
has behind it, and what it remembers as answered), `UsedFor` (a token is used because a reset
with it was answered or because a later request has voided it), `Effective` (before the
first failure, what was answered has had its effect), `Replaced` (a password that a reset has
replaced does not come back, because nobody is about to write one that was ever in force).

`DistributedQueueProofs`, from `DistributedConstantsOK` and `NullsOK`: `TypeCorrect`,
`ExactlyOnePlaceHolds`, `BoundedRunsHolds`, `KeyNamesWorkerHolds` and
`HighestFirstHolds`, all safety properties of that module, for any `Converts`.
`ConvertedLosesNothing` adds, for `Converts = {TRUE}`, that no reply loses a job.
`BuiltRunsNothing` and `BuiltServesOnlyTheTop` are about the code as it is built,
`Converts = {FALSE}`. What `IndInv` adds to them:

- `Unknown`: a job that nobody has enqueued has left no trace, so that `Enqueue` puts
  it in one place. `OnePlace` in turn is what keeps two workers from one key.
- `CountsAgree`: the `retry_count` of an entry is how often its handler was called, and
  a job that waits may be called once more. `BoundedRuns` alone says nothing about the
  next call.
- `SinceOlder`: an entry that a scan has seen and that is gone does not come back,
  because a job is put back with a higher count. Without it a retried job could
  reappear above the priority that the scan has come to, as one it had seen.

There is one lemma per conjunct of `IndInv` and one step per action in it.

Only model-checked:

- Liveness under fairness (`EveryJobFinishes`, `QueueDrains`, `EveryJobSettles`,
  `Served`, `EveryRequestAnswered`, the violated `PendingResolves` and
  `PaidJobSettles`), which the prover cannot reach.
- Proofs longer than the tree is high, which `ProofsExact` leaves out: that a hash is not
  nested in itself is no theorem of set theory as the provers have it.
- `HooksTruthful` past the first SQL error, and the properties of one worker for several:
  they do not hold there.

## 5. Not modelled

- The coordinator of the Redis workers: heartbeats and counts that nothing acts on.
- The pools of the advanced crawler (proxies, browsers): no binary uses them.
- Routing, middleware order, rate limiting, validation and sanitizing: configuration
  of libraries and functions on strings, without state of their own. Roles: no handler
  that is modelled reads them.
- Inside the IPFS, AI and RPC clients: they hold no state; their outcomes are inputs of
  `EventIndex` and `JobPipeline`.
- The contents of metrics and of the audit log: written and never read. When they take a
  connection is in `ConnectionPool`.
- The upgrade proxies, ownership transfer and ERC-20 allowances: OpenZeppelin code.

## 6. Plan

In this order; each step gives its module, its run and what is to be proved.

1. `JobQueue`, `TimestampRegistry`, `JobPipeline` with their theorems: done.
2. `CreditToken`, `Credits` with their theorems: done.
3. `DistributedQueue` with its theorems: done.
4. `MerkleTree` with its theorems: done.
5. `Marketplace` with its theorems: done.
6. `Accounts` with its theorems: done.
7. `EventIndex`: done with its theorems.
8. `ConnectionPool`: done with its safety theorems.
9. `HooksTruthful` and `RetryProgress` of `JobPipeline` for one worker, `Solvent` and
   `BurnedForJobs` of `Credits`: done.
10. Composition of `Credits` with `JobPipeline`: the charge as an action of both.
    `Ownership` is what `Credits` assumes of the workers; a joint instance would check it
    rather than say so.
