---------------------------- MODULE JobPipeline ----------------------------
(***************************************************************************)
(* The indexing worker of api/src/main.rs (run_worker,                     *)
(* retry_pending_commits, process_blockchain_index), with the tables it    *)
(* shares with the API and with other API processes, and the               *)
(* TimestampRegistry contract it commits Merkle roots to.                  *)
(*                                                                         *)
(* One action is one awaited effect: one SQL statement, one call of the    *)
(* chain, one round of webhooks.  Between two of them the process may be   *)
(* killed and other processes may run.                                     *)
(***************************************************************************)
EXTENDS Integers, Sequences, FiniteSets, JobQueue, TimestampRegistry

CONSTANTS
  Workers,             \* API processes; each runs one worker thread
  CrawlJobs,           \* the jobs that are HttpCrawl; others BlockchainIndex
  Wallets,             \* the jobs whose owner's on-chain credits cover them
  NoJob, NoRoot,       \* null values
  MAX_COMMIT_RETRIES,
  RegistryConfigured,  \* TIMESTAMP_REGISTRY_ADDRESS is set
  StartFaults,         \* an RPC endpoint may be down while a process starts
  MaxCrashes,          \* bound: how often a process is killed
  MaxDbFaults          \* bound: how many SQL statements fail

ASSUME ConstantsOK ==
  /\ CrawlJobs \subseteq Jobs /\ Wallets \subseteq Jobs
  /\ NoJob \notin Jobs /\ NoRoot \notin Roots
  /\ MAX_COMMIT_RETRIES \in Nat \ {0}
  /\ MaxCrashes \in Nat /\ MaxDbFaults \in Nat
  /\ RegistryConfigured \in BOOLEAN /\ StartFaults \in BOOLEAN

VARIABLES
  pc,       \* pc[w]: where worker w is
  client,   \* client[w]: process w holds a TimestampClient
  job,      \* job[w]: the job, or the retried row's job, at hand
  att,      \* att[w]: attempt_count of the retried row, as it was selected
  todo,     \* todo[w]: the selected rows that worker w has not retried yet
  receipt,  \* receipt[w]: status of the transaction last awaited
  batch,    \* batch[j]: Merkle root of the stored events of j, if complete
  stamp,    \* stamp[j]: how many of these events carry merkle_root
  commits,  \* timestamp_commits: receipt status of the row for each root
  pmc,      \* pending_merkle_commits: status of the row of j, or "none"
  attempts, \*   its attempt_count
  due,      \*   whether next_retry_at has passed
  hooks,    \* hooks[j]: the webhook events fired for j
  crashes, faults

localVars == <<pc, client, job, att, todo, receipt>>
eventVars == <<batch, stamp>>
pmcVars   == <<pmc, attempts, due>>
tableVars == <<commits, pmcVars, hooks>>
vars == <<queueVars, registry, localVars, eventVars, tableVars,
          crashes, faults>>
-----------------------------------------------------------------------------
(* Program counters.  A worker that has taken a job: *)
Working == {"crawl", "charge", "results", "fetch", "send", "sent", "store",
            "stamp", "queue", "finish", "fail", "park"}
(* after update_status has been executed: *)
Closing == {"summary", "hook_done", "hook_fail"}
(* a worker at a row of retry_pending_commits: *)
Retrying == {"rsend", "rsent", "rstore", "rstamp", "rmark", "rdone",
             "rhook_done", "rerr", "rgiveup", "rhook_fail",
             "runconf", "runconf2"}
(* with a job or a row at hand; claim is a dequeue that holds a row lock:  *)
Busy == Working \cup Closing \cup Retrying \cup {"claim"}
(* the worker loop between jobs, and a worker that does not run: down is a *)
(* killed process, exited a thread that ended inside a live process.       *)
Idle == {"retry", "rows", "dequeue", "down", "exited"}

Attempts == 0 .. MAX_COMMIT_RETRIES
Row      == [job : Jobs, att : Attempts]
Events   == {"job.completed", "job.failed"}

PcLabels == Busy \cup Idle

LocalTypeOK ==
  /\ pc \in [Workers -> PcLabels]
  /\ client \in [Workers -> BOOLEAN]
  /\ job \in [Workers -> Jobs \cup {NoJob}]
  /\ att \in [Workers -> Attempts]
  /\ todo \in [Workers -> SUBSET Row]
  /\ receipt \in [Workers -> ReceiptStatus]

TableTypeOK ==
  /\ batch \in [Jobs -> Roots \cup {NoRoot}]
  /\ stamp \in [Jobs -> {"none", "some", "all"}]
  /\ commits \in [Roots -> ReceiptStatus \cup {"none"}]
  /\ pmc \in [Jobs -> {"none", "pending", "committed", "failed"}]
  /\ attempts \in [Jobs -> Attempts]
  /\ due \in [Jobs -> BOOLEAN]
  /\ hooks \in [Jobs -> SUBSET Events]

TypeOK ==
  /\ QueueTypeOK /\ ChainTypeOK /\ LocalTypeOK /\ TableTypeOK
  /\ crashes \in 0 .. MaxCrashes /\ faults \in 0 .. MaxDbFaults

Init ==
  /\ QueueInit /\ ChainInit
  /\ pc = [w \in Workers |-> "down"]
  /\ client = [w \in Workers |-> FALSE]
  /\ job = [w \in Workers |-> NoJob]
  /\ att = [w \in Workers |-> 0]
  /\ todo = [w \in Workers |-> {}]
  /\ receipt = [w \in Workers |-> "success"]
  /\ batch = [j \in Jobs |-> NoRoot]
  /\ stamp = [j \in Jobs |-> "none"]
  /\ commits = [r \in Roots |-> "none"]
  /\ pmc = [j \in Jobs |-> "none"]
  /\ attempts = [j \in Jobs |-> 0]
  /\ due = [j \in Jobs |-> FALSE]
  /\ hooks = [j \in Jobs |-> {}]
  /\ crashes = 0 /\ faults = 0
-----------------------------------------------------------------------------
(* Control and failures. *)

At(w, l)   == pc[w] = l
Goto(w, l) == pc' = [pc EXCEPT ![w] = l]

KeepLocals == UNCHANGED <<client, job, att, todo, receipt>>

(* The root of the job at hand; merkle_root in its pending row is the same *)
(* string, copied when the row is inserted.                                *)
Root(w) == batch[job[w]]

DbOk    == UNCHANGED faults
DbFault == faults < MaxDbFaults /\ faults' = faults + 1

(* A statement with effect A on v whose failure is logged or ignored. *)
Sql(A, v) == (DbOk /\ A) \/ (DbFault /\ UNCHANGED v)

(* The worker drops its job and its rows and is at l: a killed process     *)
(* (down) or a thread that returned or panicked (exited).                  *)
Forget(w, l) ==
  /\ Goto(w, l)
  /\ job' = [job EXCEPT ![w] = NoJob]
  /\ att' = [att EXCEPT ![w] = 0]
  /\ todo' = [todo EXCEPT ![w] = {}]
  /\ receipt' = [receipt EXCEPT ![w] = "success"]
  /\ UNCHANGED client

(* create_job and create_blockchain_job insert the row in a transaction. *)
Enqueue(j) ==
  /\ enqueue(j)
  /\ UNCHANGED <<registry, localVars, eventVars, tableVars, crashes, faults>>

(* main: a TimestampClient that cannot connect is replaced by None and the *)
(* process goes on; run_worker returns Err if the Ethereum endpoint fails. *)
Start(w) ==
  /\ At(w, "down")
  /\ \/ Goto(w, "retry")
     \/ StartFaults /\ Goto(w, "exited")
  /\ \E c \in BOOLEAN :
       /\ c => RegistryConfigured
       /\ ~c => ~RegistryConfigured \/ StartFaults
       /\ client' = [client EXCEPT ![w] = c]
  /\ UNCHANGED <<queueVars, registry, job, att, todo, receipt, eventVars,
                 tableVars, crashes, faults>>

(* The process is killed, or main returns after ctrl_c while the worker    *)
(* thread, which nobody joins, is anywhere in its loop.                    *)
Crash(w) ==
  /\ ~At(w, "down") /\ crashes < MaxCrashes
  /\ crashes' = crashes + 1
  /\ Forget(w, "down")
  /\ UNCHANGED <<queueVars, registry, eventVars, tableVars, faults>>
-----------------------------------------------------------------------------
(* retry_pending_commits. *)

(* Variant for mutation runs: the SELECT without status = 'pending'. *)
DueJobs_AnyStatus == {j \in Jobs : /\ pmc[j] # "none" /\ due[j]
                                   /\ attempts[j] < MAX_COMMIT_RETRIES}

DueJobs == {j \in Jobs : /\ pmc[j] = "pending" /\ due[j]
                         /\ attempts[j] < MAX_COMMIT_RETRIES}

(* The SELECT; its failure is logged and the loop goes on to dequeue. *)
ScanPending(w) ==
  /\ At(w, "retry")
  /\ \/ /\ DbOk /\ Goto(w, "rows")
        /\ todo' = [todo EXCEPT ![w] =
                      {[job |-> j, att |-> attempts[j]] : j \in DueJobs}]
     \/ DbFault /\ Goto(w, "dequeue") /\ UNCHANGED todo
  /\ UNCHANGED <<queueVars, registry, client, job, att, receipt, eventVars,
                 tableVars, crashes>>

(* for row in rows *)
NextRow(w) ==
  /\ At(w, "rows")
  /\ \/ \E r \in todo[w] :
          /\ todo' = [todo EXCEPT ![w] = @ \ {r}]
          /\ job' = [job EXCEPT ![w] = r.job]
          /\ att' = [att EXCEPT ![w] = r.att]
          /\ Goto(w, IF client[w] THEN "rsend" ELSE "runconf")
     \/ /\ todo[w] = {}
        /\ job' = [job EXCEPT ![w] = NoJob]
        /\ att' = [att EXCEPT ![w] = 0]
        /\ Goto(w, "dequeue") /\ UNCHANGED todo
  /\ UNCHANGED <<queueVars, registry, client, receipt, eventVars, tableVars,
                 crashes, faults>>

(* commit_hash, first await, from l: success leads to ok, failure to err. *)
Send(w, l, ok, err) ==
  /\ At(w, l)
  /\ \/ SendOk(Root(w)) /\ Goto(w, ok)
     \/ SendErr(Root(w)) /\ Goto(w, err)
  /\ KeepLocals
  /\ UNCHANGED <<queueVars, eventVars, tableVars, crashes, faults>>

(* commit_hash, second await. *)
Await(w, l, ok, err) ==
  /\ At(w, l)
  /\ \/ /\ ReceiptOk(Root(w)) /\ Goto(w, ok)
        /\ receipt' = [receipt EXCEPT ![w] = StatusOf(Root(w))]
     \/ ReceiptErr(Root(w)) /\ Goto(w, err) /\ UNCHANGED receipt
  /\ UNCHANGED <<queueVars, client, job, att, todo, eventVars, tableVars,
                 crashes, faults>>

(* INSERT INTO timestamp_commits ... ON CONFLICT DO NOTHING. *)
InsertCommit(w) ==
  commits' = IF commits[Root(w)] = "none"
             THEN [commits EXCEPT ![Root(w)] = receipt[w]] ELSE commits

RetrySend(w)  == Send(w, "rsend", "rsent", "rerr")
RetryAwait(w) == Await(w, "rsent", "rstore", "rerr")

(* A failed insert leaves the row pending for the next round. *)
RetryStore(w) ==
  /\ At(w, "rstore")
  /\ \/ DbOk /\ InsertCommit(w) /\ Goto(w, "rstamp")
     \/ DbFault /\ UNCHANGED commits /\ Goto(w, "rows")
  /\ KeepLocals
  /\ UNCHANGED <<queueVars, registry, eventVars, pmcVars, hooks, crashes>>

(* UPDATE blockchain_events ... WHERE merkle_root IS NULL. *)
RetryStamp(w) ==
  /\ At(w, "rstamp") /\ Goto(w, "rmark")
  /\ Sql(stamp' = [stamp EXCEPT ![job[w]] = "all"], stamp)
  /\ KeepLocals
  /\ UNCHANGED <<queueVars, registry, batch, tableVars, crashes>>

(* UPDATE pending_merkle_commits SET status, WHERE id only: the old status *)
(* is not looked at.                                                       *)
SetRow(w, st) == pmc' = [pmc EXCEPT ![job[w]] = st]

RetryMark(w) ==
  /\ At(w, "rmark") /\ Goto(w, "rdone")
  /\ Sql(SetRow(w, "committed"), pmc)
  /\ KeepLocals
  /\ UNCHANGED <<queueVars, registry, eventVars, commits, attempts, due,
                 hooks, crashes>>

(* Variants of RetryError for mutation runs: `>' for `>=', and a webhook   *)
(* for every failed attempt.                                               *)
RetryError_Variant(w, last, after) ==
  /\ At(w, "rerr") /\ Goto(w, IF last THEN "rgiveup" ELSE after)
  /\ pmc' = [pmc EXCEPT ![job[w]] = IF last THEN "failed" ELSE @]
  /\ attempts' = [attempts EXCEPT ![job[w]] = att[w] + 1]
  /\ due' = [due EXCEPT ![job[w]] = FALSE]
  /\ KeepLocals
  /\ UNCHANGED <<queueVars, registry, eventVars, commits, hooks, crashes,
                 faults>>
RetryError_OffByOne(w) ==
  RetryError_Variant(w, att[w] + 1 > MAX_COMMIT_RETRIES, "rows")
RetryError_EarlyHook(w) ==
  RetryError_Variant(w, att[w] + 1 >= MAX_COMMIT_RETRIES, "rhook_fail")

(* commit_hash failed for the (att + 1)-th time: give up or back off. *)
RetryError(w) ==
  LET next == att[w] + 1
      SetAttempts == attempts' = [attempts EXCEPT ![job[w]] = next]
      GiveUp  == /\ SetRow(w, "failed") /\ SetAttempts
                 /\ UNCHANGED due
      BackOff == /\ SetAttempts /\ UNCHANGED pmc
                 /\ due' = [due EXCEPT ![job[w]] = FALSE]
  IN  /\ At(w, "rerr")
      /\ IF next >= MAX_COMMIT_RETRIES
         THEN Sql(GiveUp, pmcVars) /\ Goto(w, "rgiveup")
         ELSE Sql(BackOff, pmcVars) /\ Goto(w, "rows")
      /\ KeepLocals
      /\ UNCHANGED <<queueVars, registry, eventVars, commits, hooks, crashes>>

(* No TimestampClient: the row is failed at once. *)
RetryUnconfigured(w) ==
  /\ At(w, "runconf") /\ Goto(w, "runconf2")
  /\ Sql(SetRow(w, "failed"), pmc)
  /\ KeepLocals
  /\ UNCHANGED <<queueVars, registry, eventVars, commits, attempts, due,
                 hooks, crashes>>

(* UPDATE jobs ... AND status = 'pending_commit'; its failure is ignored. *)
ResolveJob(w, l, s, next) ==
  /\ At(w, l) /\ Goto(w, next)
  /\ Sql(resolve_pending(job[w], s), queueVars)
  /\ KeepLocals
  /\ UNCHANGED <<registry, eventVars, tableVars, crashes>>

(* Variant for mutation runs: without a client the job is completed, as    *)
(* process_blockchain_index does.                                          *)
RetryFailNoHook_Completes(w) == ResolveJob(w, "runconf2", "completed", "rows")

RetryComplete(w)   == ResolveJob(w, "rdone", "completed", "rhook_done")
RetryGiveUp(w)     == ResolveJob(w, "rgiveup", "failed", "rhook_fail")
RetryFailNoHook(w) == ResolveJob(w, "runconf2", "failed", "rows")
-----------------------------------------------------------------------------
(* The body of run_worker's loop. *)

(* The rows locked by dequeue statements under way. *)
Locked == {job[v] : v \in {w \in Workers : pc[w] = "claim"}}

(* Variant for mutation runs: the loop ends when the queue is empty. *)
Dequeue_StopsWhenEmpty(w) ==
  /\ At(w, "dequeue")
  /\ \/ \E j \in Jobs : /\ claim(j, Locked) /\ Goto(w, "claim")
                        /\ job' = [job EXCEPT ![w] = j]
     \/ NothingToClaim(Locked) /\ Goto(w, "exited") /\ UNCHANGED job
  /\ UNCHANGED <<queueVars, registry, client, att, todo, receipt, eventVars,
                 tableVars, crashes, faults>>

(* queue.dequeue().await: a row is locked, or there is none, or an error.  *)
(* In the last two cases the loop starts over after a pause.               *)
Dequeue(w) ==
  /\ At(w, "dequeue")
  /\ \/ \E j \in Jobs : /\ claim(j, Locked) /\ DbOk /\ Goto(w, "claim")
                        /\ job' = [job EXCEPT ![w] = j]
     \/ /\ (NothingToClaim(Locked) /\ DbOk) \/ DbFault
        /\ Goto(w, "retry") /\ UNCHANGED job
  /\ UNCHANGED <<queueVars, registry, client, att, todo, receipt, eventVars,
                 tableVars, crashes>>

(* The UPDATE of the locked row commits and the row is returned; or it is  *)
(* rolled back; or it commits and only its answer is lost: then the row is *)
(* processing and no worker has it.  A config that is no JobConfig would   *)
(* end the thread here; the API stores only serialized ones.               *)
Take(w) ==
  /\ At(w, "claim")
  /\ \/ /\ DbOk /\ dequeue(job[w])
        /\ Goto(w, IF job[w] \in CrawlJobs THEN "crawl" ELSE "charge")
     \/ /\ DbFault /\ Goto(w, "retry")
        /\ dequeue(job[w]) \/ UNCHANGED queueVars
  /\ KeepLocals
  /\ UNCHANGED <<registry, eventVars, tableVars, crashes>>

(* The crawl returns links, fails, or runs into crawl_timeout. *)
Crawl(w) ==
  /\ At(w, "crawl")
  /\ \E l \in {"charge", "fail"} : Goto(w, l)
  /\ KeepLocals
  /\ UNCHANGED <<queueVars, registry, eventVars, tableVars, crashes, faults>>

(* The job's cost in whole INC; the code has it in units of 10^-18 INC.    *)
CostInc(j) == IF j \in CrawlJobs THEN 100 ELSE 50

(* U256::as_u64 panics above 2^64 - 1, which is 18.4 INC. *)
FitsU64(inc) == inc <= 18

(* An index job without event signatures, or for a chain without an RPC    *)
(* endpoint, fails first.  Then spend_credits: without a wallet, or when   *)
(* the call fails, the job goes on.  After a success the cost is converted *)
(* for the SQL debit, and a conversion that panics ends the thread.        *)
Charge(w) ==
  LET next == IF job[w] \in CrawlJobs THEN "results" ELSE "fetch"
  IN  /\ At(w, "charge")
      /\ \/ Goto(w, next) /\ KeepLocals
         \/ job[w] \notin CrawlJobs /\ Goto(w, "fail") /\ KeepLocals
         \/ /\ job[w] \in Wallets
            /\ IF FitsU64(CostInc(job[w])) THEN Goto(w, next) /\ KeepLocals
                                           ELSE Forget(w, "exited")
      /\ UNCHANGED <<queueVars, registry, eventVars, tableVars, crashes,
                     faults>>

(* INSERT INTO crawl_results; its failure is logged. *)
StoreResults(w) ==
  /\ At(w, "results") /\ Goto(w, "finish")
  /\ DbOk \/ DbFault
  /\ KeepLocals
  /\ UNCHANGED <<queueVars, registry, eventVars, tableVars, crashes>>

(* Events are fetched, pinned and inserted one by one and the Merkle root  *)
(* of the batch is computed.  An error on the way fails the job; no event, *)
(* or no TimestampClient, means that there is nothing to commit.           *)
Fetch(w) ==
  /\ At(w, "fetch")
  /\ \/ \E l \in {"fail", "finish"} : Goto(w, l) /\ UNCHANGED batch
     \/ \E r \in Roots :
          /\ batch' = [batch EXCEPT ![job[w]] = r]
          /\ Goto(w, IF client[w] THEN "send" ELSE "finish")
  /\ KeepLocals
  /\ UNCHANGED <<queueVars, registry, stamp, tableVars, crashes, faults>>

CommitSend(w)  == Send(w, "send", "sent", "queue")
CommitAwait(w) == Await(w, "sent", "store", "queue")

CommitStore(w) ==
  /\ At(w, "store") /\ Goto(w, "stamp")
  /\ Sql(InsertCommit(w), commits)
  /\ KeepLocals
  /\ UNCHANGED <<queueVars, registry, eventVars, pmcVars, hooks, crashes>>

(* One UPDATE per event: some are done, all are done, or one has failed,   *)
(* which is logged.                                                        *)
CommitStamp(w) ==
  /\ At(w, "stamp")
  /\ \/ /\ DbOk /\ stamp[job[w]] = "none" /\ UNCHANGED pc
        /\ stamp' = [stamp EXCEPT ![job[w]] = "some"]
     \/ /\ DbOk /\ Goto(w, "finish")
        /\ stamp' = [stamp EXCEPT ![job[w]] = "all"]
     \/ DbFault /\ Goto(w, "finish") /\ UNCHANGED stamp
  /\ KeepLocals
  /\ UNCHANGED <<queueVars, registry, batch, tableVars, crashes>>

(* INSERT INTO pending_merkle_commits, due at once; its failure is logged  *)
(* and the job is parked all the same.                                     *)
QueueRetry(w) ==
  /\ At(w, "queue") /\ Goto(w, "park")
  /\ Sql(SetRow(w, "pending") /\ due' = [due EXCEPT ![job[w]] = TRUE],
         <<pmc, due>>)
  /\ KeepLocals
  /\ UNCHANGED <<queueVars, registry, eventVars, commits, attempts, hooks,
                 crashes>>

(* queue.update_status(..).await?: on an error, before or after the UPDATE *)
(* is executed, run_worker returns.                                        *)
SetStatus(w, l, s, next) ==
  /\ At(w, l)
  /\ \/ DbOk /\ update_status(job[w], s) /\ Goto(w, next) /\ KeepLocals
     \/ /\ DbFault /\ Forget(w, "exited")
        /\ update_status(job[w], s) \/ UNCHANGED queueVars
  /\ UNCHANGED <<registry, eventVars, tableVars, crashes>>

(* Variant for mutation runs: JobStatus::Pending for PendingCommit. *)
SetParked_Pending(w) == SetStatus(w, "park", "pending", "retry")

SetCompleted(w) ==
  SetStatus(w, "finish", "completed",
            IF job[w] \in CrawlJobs THEN "summary" ELSE "hook_done")
SetFailed(w) == SetStatus(w, "fail", "failed", "hook_fail")
SetParked(w) == SetStatus(w, "park", "pending_commit", "retry")

(* UPDATE jobs SET result_summary, a column that no step reads. *)
SetSummary(w) ==
  /\ At(w, "summary")
  /\ \/ DbOk /\ Goto(w, "hook_done") /\ KeepLocals
     \/ DbFault /\ Forget(w, "exited")
  /\ UNCHANGED <<queueVars, registry, eventVars, tableVars, crashes>>

(* fire_webhooks: best effort, never an error. *)
Notify(w, l, event, next) ==
  /\ At(w, l) /\ Goto(w, next)
  /\ hooks' = [hooks EXCEPT ![job[w]] = @ \cup {event}]
  /\ KeepLocals
  /\ UNCHANGED <<queueVars, registry, eventVars, commits, pmcVars, crashes,
                 faults>>

fire_webhooks(w) ==
  \/ Notify(w, "hook_done", "job.completed", "retry")
  \/ Notify(w, "hook_fail", "job.failed", "retry")
  \/ Notify(w, "rhook_done", "job.completed", "rows")
  \/ Notify(w, "rhook_fail", "job.failed", "rows")
-----------------------------------------------------------------------------
(* Time and chain. *)

(* next_retry_at is reached. *)
ComeDue(j) ==
  /\ pmc[j] = "pending" /\ ~due[j]
  /\ due' = [due EXCEPT ![j] = TRUE]
  /\ UNCHANGED <<queueVars, registry, localVars, eventVars, commits, pmc,
                 attempts, hooks, crashes, faults>>

MineElsewhere(r) ==
  /\ MinedElsewhere(r)
  /\ UNCHANGED <<queueVars, localVars, eventVars, tableVars, crashes, faults>>

RetryStep(w) ==
  \/ ScanPending(w) \/ NextRow(w) \/ RetrySend(w) \/ RetryAwait(w)
  \/ RetryStore(w) \/ RetryStamp(w) \/ RetryMark(w) \/ RetryError(w)
  \/ RetryUnconfigured(w) \/ RetryComplete(w) \/ RetryGiveUp(w)
  \/ RetryFailNoHook(w)

JobStep(w) ==
  \/ Dequeue(w) \/ Take(w) \/ Crawl(w) \/ Charge(w) \/ StoreResults(w)
  \/ Fetch(w)
  \/ CommitSend(w) \/ CommitAwait(w) \/ CommitStore(w) \/ CommitStamp(w)
  \/ QueueRetry(w) \/ SetCompleted(w) \/ SetFailed(w) \/ SetParked(w)
  \/ SetSummary(w)

WorkerStep(w) == RetryStep(w) \/ JobStep(w) \/ fire_webhooks(w)

Next ==
  \/ \E j \in Jobs : Enqueue(j) \/ ComeDue(j)
  \/ \E w \in Workers : Start(w) \/ Crash(w) \/ WorkerStep(w)
  \/ \E r \in Roots : MineElsewhere(r)

Spec == Init /\ [][Next]_vars

(* A worker's awaits return and its thread is scheduled; a killed process  *)
(* is restarted (docker-compose: restart: unless-stopped); time passes.    *)
(* No one is obliged to create jobs, and no transaction has to be mined.   *)
FairSpec ==
  /\ Spec
  /\ \A w \in Workers : WF_vars(WorkerStep(w)) /\ WF_vars(Start(w))
  /\ \A j \in Jobs : WF_vars(ComeDue(j))
-----------------------------------------------------------------------------
(* Properties. *)

(* A job that a worker is executing is processing, a row that a dequeue    *)
(* has locked is queued, and no other worker executes or locks it,         *)
(* whatever crashes, is rolled back or fails: dequeue skips locked rows,   *)
(* and the retry loop of another process cannot settle a job under way     *)
(* (AND status = 'pending_commit').                                        *)
Ownership ==
  /\ \A w \in Workers :
       /\ pc[w] \in Working => jobs[job[w]] = "processing"
       /\ pc[w] = "claim" => jobs[job[w]] = "queued"
  /\ \A v, w \in Workers :
       {pc[v], pc[w]} \subseteq Working \cup {"claim"} /\ job[v] = job[w]
         => v = w

(* The rows of the jobs table move through their statuses as JobLifecycle  *)
(* promises, although update_status has no condition on the old status.    *)
Lifecycle == INSTANCE JobLifecycle WITH Jobs <- Jobs, jobs <- jobs
LifecycleSpec == Lifecycle!Spec

(* Whatever POST /verify may report as anchored is on the chain: a root in *)
(* timestamp_commits and a root stamped on events are in the registry,     *)
(* although a receipt's status is never looked at and although answers of  *)
(* the chain and of the database get lost.                                 *)
AnchorSound ==
  /\ \A r \in Roots : commits[r] # "none" => r \in registry
  /\ \A j \in Jobs : stamp[j] # "none" => batch[j] \in registry

(* A pending commit that is marked committed has its row in                *)
(* timestamp_commits: the retry loop gives the round up (continue) when it *)
(* cannot store that row.                                                  *)
CommittedIsRecorded ==
  \A j \in Jobs : pmc[j] = "committed" => commits[batch[j]] # "none"

(* A job that was parked for a retry is completed only when its root is on *)
(* the chain and recorded, in whatever process the retry ran, and a        *)
(* pending commit is marked committed only then.                           *)
RetriedIsAnchored ==
  /\ CommittedIsRecorded
  /\ \A j \in Jobs : jobs[j] = "completed" /\ pmc[j] # "none" =>
       batch[j] \in registry /\ commits[batch[j]] # "none"

(* The root of a completed job is recorded and every one of its events     *)
(* carries it, unless the process that ran it had no client.               *)
AlwaysClient == RegistryConfigured /\ ~StartFaults
CompletedIsVerifiable ==
  \A j \in Jobs :
    jobs[j] = "completed" /\ batch[j] # NoRoot /\ AlwaysClient =>
      commits[batch[j]] # "none" /\ stamp[j] = "all"

(* A parked job whose row the retry loop selects, now or once it is due;   *)
(* one whose row is settled and whose own status is updated next; and one  *)
(* that is neither, which no step will ever settle.                        *)
Retriable(j) == pmc[j] = "pending" /\ attempts[j] < MAX_COMMIT_RETRIES
Settling(j) ==
  \E w \in Workers : pc[w] \in {"rdone", "rgiveup", "runconf2"} /\ job[w] = j
Stranded ==
  {j \in Jobs : jobs[j] = "pending_commit" /\ ~Retriable(j) /\ ~Settling(j)}

(* As long as no SQL statement has failed, the tables bear out the status  *)
(* of a job, whatever answers of the chain are lost and whoever is killed: *)
(* a completed job is verifiable, and a parked job has a row.  With one    *)
(* worker each kill strands at most one parked job (one between the UPDATE *)
(* of the row and the UPDATE of the job does), and every other parked job  *)
(* has a row that is retried or is about to be settled.                    *)
StatusTruthful ==
  faults = 0 =>
    /\ CompletedIsVerifiable
    /\ \A j \in Jobs : jobs[j] = "pending_commit" => pmc[j] # "none"
    /\ Cardinality(Stranded) <= crashes

(* With one worker, subscribers never hear job.completed and job.failed of *)
(* the same job, crash or not; as long as it has neither crashed nor met a *)
(* failing SQL statement, a webhook tells the status the job has.          *)
HooksTruthful ==
  \A j \in Jobs :
    /\ hooks[j] # Events
    /\ crashes = 0 /\ faults = 0 =>
         /\ "job.completed" \in hooks[j] => jobs[j] = "completed"
         /\ "job.failed" \in hooks[j] => jobs[j] = "failed"

(* With one worker, the bookkeeping of a pending commit only moves on:     *)
(* attempt_count never drops and a settled row is never touched again,     *)
(* although each UPDATE is computed from the row as it was selected.       *)
RetryProgress ==
  [][\A j \in Jobs :
       /\ attempts[j] <= attempts'[j]
       /\ pmc[j] \in {"committed", "failed"} =>
            pmc'[j] = pmc[j] /\ attempts'[j] = attempts[j]]_pmcVars

(* With one worker that is not killed and a database that answers, every   *)
(* job that is queued ends completed or failed, however often the chain    *)
(* fails: MAX_COMMIT_RETRIES failed commits settle it.                     *)
EveryJobFinishes ==
  \A j \in Jobs : jobs[j] = "queued" ~> jobs[j] \in Terminal \/ crashes > 0

(* A process that is killed is restarted and takes the queue up again.     *)
QueueDrains == \A j \in Jobs : jobs[j] = "queued" ~> jobs[j] # "queued"
-----------------------------------------------------------------------------
(* The inductive invariant behind the theorems of JobPipelineProofs.       *)

(* A worker past its dequeue has a job; past Fetch, or at a pending row,   *)
(* that job has a root; a row at hand or selected is below the limit.      *)
Rooted == {"send", "sent", "store", "stamp", "queue"} \cup Retrying
AtHand ==
  /\ \A w \in Workers :
       /\ pc[w] \in Busy => job[w] \in Jobs
       /\ pc[w] \in Rooted => Root(w) \in Roots
       /\ pc[w] \in Retrying => att[w] < MAX_COMMIT_RETRIES
       /\ \A r \in todo[w] :
            r.att < MAX_COMMIT_RETRIES /\ batch[r.job] \in Roots
  /\ \A j \in Jobs : pmc[j] # "none" => batch[j] \in Roots

(* Until its worker stores the batch, a job has no root and no stamp, so   *)
(* the root of a job, once known, does not change.                         *)
Untouched(j) == batch[j] = NoRoot /\ stamp[j] = "none"
Early == {"crawl", "charge", "results", "fetch"}
Freshness ==
  /\ \A j \in Jobs : jobs[j] \in {"none", "queued"} => Untouched(j)
  /\ \A w \in Workers : pc[w] \in Early => Untouched(job[w])

(* Past a receipt, the root of the job at hand is on the chain. *)
PastReceipt == {"store", "stamp", "rstore", "rstamp"}
ReceiptMeansOnChain ==
  \A w \in Workers : pc[w] \in PastReceipt => Root(w) \in registry

(* The conjunction that TLAPS shows to be inductive: a worker's local view *)
(* stays true of the shared rows, whatever other processes do.             *)
IndInv ==
  /\ TypeOK /\ AtHand /\ Ownership /\ Freshness /\ ReceiptMeansOnChain
  /\ AnchorSound
-----------------------------------------------------------------------------
(* What comments and documents say, and the code does not keep.            *)

(* core/src/job.rs on PendingCommit: "Job will transition to Completed or  *)
(* Failed by the retry worker."                                            *)
PendingResolves ==
  \A j \in Jobs : jobs[j] = "pending_commit" ~> jobs[j] \in Terminal

(* schema.rs on register_wallet: the address "is used for on-chain credit  *)
(* spending when indexing jobs run": a job whose owner can pay runs to a   *)
(* status of its own like every other job.                                 *)
PaidJobSettles ==
  \A j \in Wallets : jobs[j] = "processing" ~> jobs[j] # "processing"
=============================================================================
