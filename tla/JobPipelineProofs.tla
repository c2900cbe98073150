------------------------- MODULE JobPipelineProofs -------------------------
(***************************************************************************)
(* Theorems about JobPipeline, for any number of worker processes, jobs    *)
(* and roots, any retry limit and any number of crashes and SQL failures.  *)
(***************************************************************************)
EXTENDS JobPipeline, FiniteSetTheorems, TLAPS

(* The labels are program counters; stated once, so that the long set of   *)
(* labels stays folded in the proofs below.                                *)
LEMMA Labels ==
  /\ "crawl" \in PcLabels /\ "charge" \in PcLabels /\ "results" \in PcLabels
  /\ "fetch" \in PcLabels /\ "send" \in PcLabels /\ "sent" \in PcLabels
  /\ "store" \in PcLabels /\ "stamp" \in PcLabels /\ "queue" \in PcLabels
  /\ "finish" \in PcLabels /\ "fail" \in PcLabels /\ "park" \in PcLabels
  /\ "summary" \in PcLabels /\ "hook_done" \in PcLabels
  /\ "hook_fail" \in PcLabels
  /\ "rsend" \in PcLabels /\ "rsent" \in PcLabels /\ "rstore" \in PcLabels
  /\ "rstamp" \in PcLabels /\ "rmark" \in PcLabels /\ "rdone" \in PcLabels
  /\ "rhook_done" \in PcLabels /\ "rerr" \in PcLabels
  /\ "rgiveup" \in PcLabels /\ "rhook_fail" \in PcLabels
  /\ "runconf" \in PcLabels /\ "runconf2" \in PcLabels
  /\ "retry" \in PcLabels /\ "rows" \in PcLabels /\ "dequeue" \in PcLabels
  /\ "down" \in PcLabels /\ "exited" \in PcLabels
  /\ "claim" \in PcLabels
  BY DEF PcLabels, Busy, Working, Closing, Retrying, Idle

LEMMA InitIndInv == Init => IndInv
  <1> SUFFICES ASSUME Init PROVE IndInv
    OBVIOUS
  <1> USE ConstantsOK DEF Init, QueueInit, ChainInit
  <1>1. TypeOK
    BY Labels DEF TypeOK, QueueTypeOK, ChainTypeOK, LocalTypeOK, TableTypeOK,
           JobStatus, Attempts, Row, ReceiptStatus
  <1>2. AtHand
    BY DEF AtHand, Busy, Working, Closing, Retrying, Rooted
  <1>3. Ownership /\ Freshness /\ ReceiptMeansOnChain /\ AnchorSound
    BY DEF Ownership, Freshness, ReceiptMeansOnChain, AnchorSound, Working,
           Untouched, Early, PastReceipt
  <1>4. QED
    BY <1>1, <1>2, <1>3 DEF IndInv

(* What AtHand says of a worker at one of the labels of an action. *)
LEMMA JobAtHand ==
  ASSUME IndInv, NEW w \in Workers,
         \/ pc[w] \in Working \/ pc[w] \in Closing \/ pc[w] \in Retrying
         \/ pc[w] = "claim"
  PROVE  job[w] \in Jobs
  BY DEF IndInv, AtHand, Busy

-----------------------------------------------------------------------------
(* What a step does to the queue, and to the workers that have a job.      *)

(* Worker w keeps the job or the claim it has, if it still has one. *)
Kept(w) ==
  /\ pc'[w] \in Working => pc[w] \in Working /\ job'[w] = job[w]
  /\ pc'[w] = "claim" => pc[w] = "claim" /\ job'[w] = job[w]
AllKept == \A w \in Workers : Kept(w)
OthersKept(w) == \A v \in Workers \ {w} : Kept(v)

(* A worker that has the job at hand settles or parks it, and is done. *)
Closes(w) ==
  /\ pc[w] \in Working /\ pc'[w] \notin Working
  /\ \E s \in Terminal \cup {"pending_commit"} : update_status(job[w], s)

(* A worker locks row j. *)
Claims(w, j) ==
  /\ j \in Jobs /\ Available(j, Locked)
  /\ pc'[w] = "claim" /\ job'[w] = j

(* A worker takes the row that it has locked. *)
Takes(w) ==
  /\ pc[w] = "claim" /\ dequeue(job[w])
  /\ pc'[w] # "claim" /\ job'[w] = job[w]

QueueEffect ==
  \/ AllKept /\ UNCHANGED queueVars
  \/ AllKept /\ \E j \in Jobs : enqueue(j)
  \/ AllKept /\ \E j \in Jobs, s \in Terminal : resolve_pending(j, s)
  \/ AllKept /\ \E w \in Workers : Closes(w)
  \/ \E w \in Workers : \/ OthersKept(w) /\ Takes(w)
                        \/ /\ OthersKept(w) /\ UNCHANGED queueVars
                           /\ \E j \in Jobs : Claims(w, j)

LEMMA QueueStep == ASSUME IndInv, [Next]_vars PROVE QueueEffect
  <1> USE DEF QueueEffect, AllKept, OthersKept, Kept, queueVars, localVars, Goto, At,
              KeepLocals, Forget, Terminal, Sql, DbOk, DbFault
  <1> pc \in [Workers -> PcLabels] /\ job \in [Workers -> Jobs \cup {NoJob}]
    BY DEF IndInv, TypeOK, LocalTypeOK
  <1>1. ASSUME NEW j \in Jobs, Enqueue(j) \/ ComeDue(j) PROVE QueueEffect
    BY <1>1 DEF Enqueue, ComeDue
  <1>2. ASSUME NEW w \in Workers, Start(w) \/ Crash(w) PROVE QueueEffect
    BY <1>2 DEF Start, Crash, Working
  <1>3. ASSUME NEW w \in Workers, ScanPending(w) \/ NextRow(w)
        PROVE QueueEffect
    BY <1>3 DEF ScanPending, NextRow, Working
  <1>4. ASSUME NEW w \in Workers,
               \/ RetrySend(w) \/ CommitSend(w)
               \/ RetryAwait(w) \/ CommitAwait(w)
        PROVE QueueEffect
    BY <1>4 DEF RetrySend, CommitSend, Send, RetryAwait, CommitAwait, Await,
                Working
  <1>5. ASSUME NEW w \in Workers,
               \/ RetryStore(w) \/ RetryStamp(w) \/ RetryMark(w)
               \/ RetryError(w) \/ RetryUnconfigured(w)
        PROVE QueueEffect
    BY <1>5 DEF RetryStore, RetryStamp, RetryMark, RetryError,
                RetryUnconfigured, Working
  <1>6. ASSUME NEW w \in Workers,
               RetryComplete(w) \/ RetryGiveUp(w) \/ RetryFailNoHook(w)
        PROVE QueueEffect
    <2>1. job[w] \in Jobs
      BY <1>6, JobAtHand DEF RetryComplete, RetryGiveUp, RetryFailNoHook,
                             ResolveJob, Retrying
    <2>2. AllKept
      BY <1>6 DEF RetryComplete, RetryGiveUp, RetryFailNoHook, ResolveJob,
                  Working
    <2>3. QED
      BY <1>6, <2>1, <2>2 DEF RetryComplete, RetryGiveUp, RetryFailNoHook,
                              ResolveJob
  <1>7. ASSUME NEW w \in Workers, Dequeue(w) \/ Take(w) PROVE QueueEffect
    BY <1>7 DEF Dequeue, Take, claim, Claims, Takes, Working
  <1>8. ASSUME NEW w \in Workers,
               \/ Crawl(w) \/ Charge(w) \/ StoreResults(w) \/ Fetch(w)
               \/ CommitStore(w) \/ CommitStamp(w) \/ QueueRetry(w)
               \/ SetSummary(w)
        PROVE QueueEffect
    BY <1>8 DEF Crawl, Charge, StoreResults, Fetch, CommitStore, CommitStamp,
                QueueRetry, SetSummary, Working
  <1>9. ASSUME NEW w \in Workers,
               SetCompleted(w) \/ SetFailed(w) \/ SetParked(w)
        PROVE QueueEffect
    <2>1. PICK l \in {"finish", "fail", "park"},
               s \in Terminal \cup {"pending_commit"},
               next \in {"summary", "hook_done", "hook_fail", "retry"} :
                 SetStatus(w, l, s, next)
      BY <1>9 DEF SetCompleted, SetFailed, SetParked
    <2>2. AllKept /\ pc[w] \in Working /\ pc'[w] \notin Working
      BY <2>1 DEF SetStatus, Working
    <2>3. QED
      BY <2>1, <2>2 DEF SetStatus, Closes
  <1>10. ASSUME NEW w \in Workers, fire_webhooks(w) PROVE QueueEffect
    BY <1>10 DEF fire_webhooks, Notify, Working
  <1>11. ASSUME NEW r \in Roots, MineElsewhere(r) PROVE QueueEffect
    BY <1>11 DEF MineElsewhere
  <1>12. ASSUME UNCHANGED vars PROVE QueueEffect
    BY <1>12 DEF vars
  <1>13. QED
    BY <1>1, <1>2, <1>3, <1>4, <1>5, <1>6, <1>7, <1>8, <1>9, <1>10, <1>11,
       <1>12
       DEF Next, WorkerStep, RetryStep, JobStep

LEMMA QueueTypeStep == ASSUME IndInv, [Next]_vars PROVE QueueTypeOK'
  <1> USE DEF QueueTypeOK, JobStatus, Terminal, queueVars
  <1>1. QueueEffect /\ QueueTypeOK
    BY QueueStep DEF IndInv, TypeOK
  <1>2. ASSUME NEW w \in Workers, Closes(w) PROVE QueueTypeOK'
    BY <1>1, <1>2 DEF Closes, update_status
  <1>3. ASSUME NEW j \in Jobs, enqueue(j) PROVE QueueTypeOK'
    <2>1. PICK i \in 0 .. Len(arrivals) :
                 arrivals' = SubSeq(arrivals, 1, i) \o <<j>>
                               \o SubSeq(arrivals, i + 1, Len(arrivals))
      BY <1>3 DEF enqueue
    <2>2. /\ SubSeq(arrivals, 1, i) \in Seq(Jobs)
          /\ SubSeq(arrivals, i + 1, Len(arrivals)) \in Seq(Jobs)
      BY <1>1
    <2>3. arrivals' \in Seq(Jobs)
      BY <2>1, <2>2
    <2>4. QED
      BY <1>1, <1>3, <2>3 DEF enqueue
  <1>4. QED
    BY <1>1, <1>2, <1>3 DEF QueueEffect, Takes, dequeue, resolve_pending

LEMMA OwnershipStep == ASSUME IndInv, [Next]_vars PROVE Ownership'
  <1> USE DEF Ownership
  <1>1. QueueEffect /\ Ownership /\ QueueTypeOK
    BY QueueStep DEF IndInv, TypeOK
  <1>2. \A w \in Workers :
          pc[w] \in Working \/ pc[w] = "claim" => job[w] \in Jobs
    BY JobAtHand
  <1>3. CASE AllKept /\ UNCHANGED queueVars
    BY <1>1, <1>3 DEF AllKept, Kept, queueVars
  <1>4. CASE AllKept /\ \E j \in Jobs : enqueue(j)
    BY <1>1, <1>2, <1>4 DEF AllKept, Kept, enqueue, QueueTypeOK
  <1>5. CASE AllKept /\ \E j \in Jobs, s \in Terminal : resolve_pending(j, s)
    BY <1>1, <1>2, <1>5 DEF AllKept, Kept, resolve_pending, QueueTypeOK
  <1>6. CASE AllKept /\ \E w \in Workers : Closes(w)
    BY <1>1, <1>2, <1>6 DEF AllKept, Kept, Closes, update_status, QueueTypeOK
  <1>7. CASE \E w \in Workers : OthersKept(w) /\ Takes(w)
    BY <1>1, <1>2, <1>7 DEF OthersKept, Kept, Takes, dequeue, QueueTypeOK
  <1>8. CASE \E w \in Workers : /\ OthersKept(w) /\ UNCHANGED queueVars
                                /\ \E j \in Jobs : Claims(w, j)
    <2>1. PICK w \in Workers, j \in Jobs :
                 OthersKept(w) /\ UNCHANGED queueVars /\ Claims(w, j)
      BY <1>8
    <2>2. \A v \in Workers : pc[v] \in Working \/ pc[v] = "claim" => job[v] # j
      BY <1>1, <2>1 DEF Claims, Available, Locked
    <2>3. "claim" \notin Working
      BY DEF Working
    <2>4. QED
      BY <1>1, <2>1, <2>2, <2>3 DEF OthersKept, Kept, Claims, Available,
                                    queueVars
  <1>9. QED
    BY <1>1, <1>3, <1>4, <1>5, <1>6, <1>7, <1>8 DEF QueueEffect

(* Each statement on the jobs table is a step of the status machine: the   *)
(* UPDATEs of dequeue and update_status too, which have no condition on    *)
(* the status of their row.                                                *)
LEMMA LifecycleStep ==
  ASSUME IndInv, [Next]_vars PROVE [Lifecycle!Next]_jobs
  <1> USE DEF Lifecycle!Next, Lifecycle!Create, Lifecycle!Take,
              Lifecycle!Finish, Lifecycle!Park, Lifecycle!Resolve,
              Lifecycle!Move, Lifecycle!Final
  <1>1. QueueEffect /\ Ownership /\ QueueTypeOK
    BY QueueStep DEF IndInv, TypeOK
  <1>2. ASSUME NEW w \in Workers, Closes(w) PROVE Lifecycle!Next
    <2>1. jobs[job[w]] = "processing" /\ job[w] \in Jobs
      BY <1>1, <1>2, JobAtHand DEF Closes, Ownership
    <2>2. QED
      BY <1>2, <2>1 DEF Closes, update_status, Terminal
  <1>3. ASSUME NEW j \in Jobs, NEW s \in Terminal, resolve_pending(j, s)
        PROVE [Lifecycle!Next]_jobs
    BY <1>3 DEF resolve_pending, Terminal
  <1>4. ASSUME NEW w \in Workers, Takes(w) PROVE Lifecycle!Next
    BY <1>1, <1>4, JobAtHand DEF Takes, dequeue, Ownership
  <1>5. QED
    BY <1>1, <1>2, <1>3, <1>4 DEF QueueEffect, enqueue, queueVars
-----------------------------------------------------------------------------
(* Types: the chain, the workers' locals, the tables and the bounds.       *)

LEMMA ChainStep ==
  ASSUME IndInv, [Next]_vars
  PROVE  registry \subseteq registry' /\ ChainTypeOK'
  <1> USE DEF ChainTypeOK
  <1>1. ChainTypeOK
    BY DEF IndInv, TypeOK
  <1>2. ASSUME NEW w \in Workers, NEW l, NEW ok, NEW err, Send(w, l, ok, err)
        PROVE UNCHANGED registry
    BY <1>2 DEF Send, SendOk, SendErr
  <1>3. ASSUME NEW w \in Workers, RetryAwait(w) \/ CommitAwait(w)
        PROVE registry \subseteq registry' /\ ChainTypeOK'
    <2>1. Root(w) \in Roots
      BY <1>3 DEF IndInv, AtHand, RetryAwait, CommitAwait, Await, At,
                  Rooted, Retrying
    <2>2. QED
      BY <1>1, <1>3, <2>1 DEF RetryAwait, CommitAwait, Await, ReceiptOk,
                              ReceiptErr, commitHash
  <1>4. ASSUME NEW r \in Roots, MineElsewhere(r)
        PROVE registry \subseteq registry' /\ ChainTypeOK'
    BY <1>1, <1>4 DEF MineElsewhere, MinedElsewhere, commitHash
  <1>5. ASSUME NEW w \in Workers, RetryStep(w)
        PROVE registry \subseteq registry' /\ ChainTypeOK'
    BY <1>1, <1>2, <1>3, <1>5
       DEF RetryStep, ScanPending, NextRow, RetrySend, RetryStore, RetryStamp,
           RetryMark, RetryError, RetryUnconfigured, RetryComplete,
           RetryGiveUp, RetryFailNoHook, ResolveJob
  <1>6. ASSUME NEW w \in Workers, JobStep(w)
        PROVE registry \subseteq registry' /\ ChainTypeOK'
    BY <1>1, <1>2, <1>3, <1>6
       DEF JobStep, Dequeue, Take, Crawl, Charge, StoreResults, Fetch, CommitSend,
           CommitStore, CommitStamp, QueueRetry, SetCompleted, SetFailed,
           SetParked, SetStatus, SetSummary
  <1>7. QED
    BY <1>1, <1>4, <1>5, <1>6
       DEF Next, WorkerStep, fire_webhooks, Notify, Enqueue, ComeDue, Start,
           Crash, vars

LEMMA LocalTypeStep == ASSUME IndInv, [Next]_vars PROVE LocalTypeOK'
  <1> USE Labels DEF LocalTypeOK, ReceiptStatus, localVars, Goto, At,
      KeepLocals
  <1>1. LocalTypeOK /\ QueueTypeOK /\ TableTypeOK
    BY DEF IndInv, TypeOK
  <1>2. 0 \in Attempts
    BY ConstantsOK DEF Attempts
  <1>3. ASSUME NEW w \in Workers, NEW l \in PcLabels, Forget(w, l)
        PROVE LocalTypeOK'
    BY <1>1, <1>2, <1>3 DEF Forget
  <1>4. ASSUME NEW w \in Workers, NEW l \in PcLabels, Goto(w, l), KeepLocals
        PROVE LocalTypeOK'
    BY <1>1, <1>4
  <1>5. ASSUME NEW w \in Workers, ScanPending(w) PROVE LocalTypeOK'
    <2>1. {[job |-> j, att |-> attempts[j]] : j \in DueJobs} \in SUBSET Row
      BY <1>1 DEF DueJobs, Row, TableTypeOK
    <2>2. QED
      BY <1>1, <1>5, <2>1 DEF ScanPending
  <1>6. ASSUME NEW w \in Workers, NextRow(w) PROVE LocalTypeOK'
    BY <1>1, <1>2, <1>6 DEF NextRow, Row
  <1>7. ASSUME NEW w \in Workers,
               RetrySend(w) \/ CommitSend(w) \/ RetryAwait(w) \/ CommitAwait(w)
        PROVE LocalTypeOK'
    BY <1>1, <1>7 DEF RetrySend, CommitSend, RetryAwait, CommitAwait, Send,
                      Await, StatusOf
  <1>8. ASSUME NEW w \in Workers, Dequeue(w) \/ Take(w) PROVE LocalTypeOK'
    BY <1>1, <1>8 DEF Dequeue, Take
  <1>9. ASSUME NEW w \in Workers, Charge(w) \/ SetSummary(w)
        PROVE LocalTypeOK'
    BY <1>3, <1>4, <1>9 DEF Charge, SetSummary
  <1>10. ASSUME NEW w \in Workers,
                SetCompleted(w) \/ SetFailed(w) \/ SetParked(w)
         PROVE LocalTypeOK'
    BY <1>3, <1>4, <1>10 DEF SetCompleted, SetFailed, SetParked, SetStatus
  <1>11. ASSUME NEW w \in Workers, CommitStamp(w) PROVE LocalTypeOK'
    BY <1>1, <1>11 DEF CommitStamp
  <1>12. ASSUME NEW w \in Workers,
                \/ RetryStore(w) \/ RetryStamp(w) \/ RetryMark(w)
                \/ RetryError(w) \/ RetryUnconfigured(w) \/ RetryComplete(w)
                \/ RetryGiveUp(w) \/ RetryFailNoHook(w)
         PROVE LocalTypeOK'
    BY <1>4, <1>12 DEF RetryStore, RetryStamp, RetryMark, RetryError,
       RetryUnconfigured, RetryComplete, RetryGiveUp, RetryFailNoHook,
       ResolveJob
  <1>13. ASSUME NEW w \in Workers,
                \/ Crawl(w) \/ StoreResults(w) \/ Fetch(w) \/ CommitStore(w)
                \/ QueueRetry(w) \/ fire_webhooks(w)
         PROVE LocalTypeOK'
    BY <1>4, <1>13 DEF Crawl, StoreResults, Fetch, CommitStore, QueueRetry,
                       fire_webhooks, Notify
  <1>14. ASSUME NEW w \in Workers, Start(w) \/ Crash(w) PROVE LocalTypeOK'
    BY <1>1, <1>3, <1>14 DEF Start, Crash
  <1>15. ASSUME UNCHANGED localVars PROVE LocalTypeOK'
    BY <1>1, <1>15
  <1>16. QED
    BY <1>5, <1>6, <1>7, <1>8, <1>9, <1>10, <1>11, <1>12, <1>13, <1>14, <1>15
       DEF Next, WorkerStep, RetryStep, JobStep, Enqueue, ComeDue,
           MineElsewhere, vars

LEMMA TableTypeStep == ASSUME IndInv, [Next]_vars PROVE TableTypeOK'
  <1> USE DEF TableTypeOK, ReceiptStatus, Events, eventVars, tableVars,
              pmcVars, At, DbOk, DbFault, Sql, SetRow
  <1>1. TableTypeOK /\ LocalTypeOK
    BY DEF IndInv, TypeOK
  <1>2. ASSUME NEW j \in Jobs, ComeDue(j) PROVE TableTypeOK'
    BY <1>1, <1>2 DEF ComeDue
  <1>3. ASSUME NEW w \in Workers, RetryStore(w) \/ CommitStore(w)
        PROVE TableTypeOK'
    BY <1>1, <1>3 DEF RetryStore, CommitStore, InsertCommit, LocalTypeOK
  <1>4. ASSUME NEW w \in Workers, RetryStamp(w) \/ CommitStamp(w)
        PROVE TableTypeOK'
    BY <1>1, <1>4 DEF RetryStamp, CommitStamp
  <1>5. ASSUME NEW w \in Workers,
               RetryMark(w) \/ RetryUnconfigured(w) \/ QueueRetry(w)
        PROVE TableTypeOK'
    BY <1>1, <1>5 DEF RetryMark, RetryUnconfigured, QueueRetry
  <1>6. ASSUME NEW w \in Workers, RetryError(w) PROVE TableTypeOK'
    <2>1. att[w] + 1 \in Attempts
      BY <1>6, ConstantsOK
         DEF IndInv, TypeOK, LocalTypeOK, AtHand, RetryError, Retrying,
             Attempts
    <2>2. QED
      BY <1>1, <1>6, <2>1 DEF RetryError
  <1>7. ASSUME NEW w \in Workers, Fetch(w) PROVE TableTypeOK'
    BY <1>1, <1>7 DEF Fetch
  <1>8. ASSUME NEW w \in Workers, fire_webhooks(w) PROVE TableTypeOK'
    BY <1>1, <1>8 DEF fire_webhooks, Notify
  <1>9. ASSUME UNCHANGED <<eventVars, tableVars>> PROVE TableTypeOK'
    BY <1>1, <1>9
  <1>10. ASSUME NEW w \in Workers, RetryStep(w) PROVE TableTypeOK'
    BY <1>3, <1>4, <1>5, <1>6, <1>9, <1>10
       DEF RetryStep, ScanPending, NextRow, RetrySend, RetryAwait, Send,
           Await, RetryComplete, RetryGiveUp, RetryFailNoHook, ResolveJob
  <1>11. ASSUME NEW w \in Workers, JobStep(w) PROVE TableTypeOK'
    BY <1>3, <1>4, <1>5, <1>7, <1>9, <1>11
       DEF JobStep, Dequeue, Take, Crawl, Charge, StoreResults, CommitSend,
           CommitAwait, Send, Await, SetCompleted, SetFailed, SetParked,
           SetStatus, SetSummary
  <1>12. QED
    BY <1>2, <1>8, <1>9, <1>10, <1>11
       DEF Next, WorkerStep, Enqueue, Start, Crash, MineElsewhere, vars

LEMMA BoundStep ==
  ASSUME IndInv, [Next]_vars
  PROVE  crashes' \in 0 .. MaxCrashes /\ faults' \in 0 .. MaxDbFaults
  <1> USE ConstantsOK DEF DbOk, DbFault, Sql
  <1>1. crashes \in 0 .. MaxCrashes /\ faults \in 0 .. MaxDbFaults
    BY DEF IndInv, TypeOK
  <1>2. ASSUME NEW w \in Workers, RetryStep(w)
        PROVE UNCHANGED crashes /\ (DbOk \/ DbFault)
    BY <1>2 DEF RetryStep, ScanPending, NextRow, RetrySend, RetryAwait, Send,
       Await, RetryStore, RetryStamp, RetryMark, RetryError,
       RetryUnconfigured, RetryComplete, RetryGiveUp, RetryFailNoHook,
       ResolveJob
  <1>3. ASSUME NEW w \in Workers, JobStep(w)
        PROVE UNCHANGED crashes /\ (DbOk \/ DbFault)
    BY <1>3 DEF JobStep, Dequeue, Take, Crawl, Charge, StoreResults, Fetch,
       CommitSend, CommitAwait, Send, Await, CommitStore, CommitStamp,
       QueueRetry, SetCompleted, SetFailed, SetParked, SetStatus, SetSummary
  <1>4. QED
    BY <1>1, <1>2, <1>3 DEF Next, WorkerStep, fire_webhooks, Notify, Enqueue,
       ComeDue, Start, Crash, MineElsewhere, vars

LEMMA TypeStep == ASSUME IndInv, [Next]_vars PROVE TypeOK'
  BY QueueTypeStep, ChainStep, LocalTypeStep, TableTypeStep, BoundStep
     DEF TypeOK
-----------------------------------------------------------------------------
(* The events and their Merkle root.                                       *)

(* Only the worker that fetches the events of a job touches them before    *)
(* they have a root, and it is past Freshness' concern when it does; a     *)
(* root that is known does not change.                                     *)
Fetches(j) ==
  \E w \in Workers : pc[w] = "fetch" /\ job[w] = j /\ pc'[w] \notin Early

LEMMA EventsStep ==
  ASSUME IndInv, [Next]_vars
  PROVE  \A j \in Jobs :
           /\ batch[j] \in Roots => batch'[j] = batch[j]
           /\ Untouched(j) => Untouched(j)' \/ Fetches(j)
  <1> USE DEF Untouched, Fetches, eventVars, tableVars, At, Goto, DbOk,
              DbFault, Sql
  <1> DEFINE Good == \A j \in Jobs :
               /\ batch[j] \in Roots => batch'[j] = batch[j]
               /\ Untouched(j) => Untouched(j)' \/ Fetches(j)
  <1> SUFFICES Good
    OBVIOUS
  <1>1. LocalTypeOK /\ TableTypeOK /\ NoRoot \notin Roots
    BY ConstantsOK DEF IndInv, TypeOK
  <1>2. ASSUME UNCHANGED eventVars PROVE Good
    BY <1>2
  <1>3. ASSUME NEW w \in Workers, RetryStamp(w) \/ CommitStamp(w) PROVE Good
    <2>1. Root(w) \in Roots /\ job[w] \in Jobs
      BY <1>3, JobAtHand DEF RetryStamp, CommitStamp, IndInv, AtHand, Rooted,
                             Retrying, Working
    <2>2. /\ UNCHANGED batch
          /\ \A j \in Jobs \ {job[w]} : stamp'[j] = stamp[j]
      BY <1>1, <1>3 DEF RetryStamp, CommitStamp, TableTypeOK
    <2>3. QED
      BY <1>1, <2>1, <2>2 DEF Root
  <1>4. ASSUME NEW w \in Workers, Fetch(w) PROVE Good
    <2>1. job[w] \in Jobs /\ Untouched(job[w])
      BY <1>4, JobAtHand DEF Fetch, Working, IndInv, Freshness, Early
    <2>2. /\ UNCHANGED stamp
          /\ \A j \in Jobs \ {job[w]} : batch'[j] = batch[j]
          /\ pc[w] = "fetch" /\ pc'[w] \notin Early
      BY <1>1, <1>4 DEF Fetch, Early, LocalTypeOK, TableTypeOK
    <2>3. QED
      BY <1>1, <2>1, <2>2
  <1>5. ASSUME NEW w \in Workers, RetryStep(w) PROVE Good
    BY <1>2, <1>3, <1>5
       DEF RetryStep, ScanPending, NextRow, RetrySend, RetryAwait, Send,
           Await, RetryStore, RetryMark, RetryError, RetryUnconfigured,
           RetryComplete, RetryGiveUp, RetryFailNoHook, ResolveJob
  <1>6. ASSUME NEW w \in Workers, JobStep(w) PROVE Good
    BY <1>2, <1>3, <1>4, <1>6
       DEF JobStep, Dequeue, Take, Crawl, Charge, StoreResults, CommitSend,
           CommitAwait, Send, Await, CommitStore, QueueRetry, SetCompleted,
           SetFailed, SetParked, SetStatus, SetSummary
  <1>7. QED
    BY <1>2, <1>5, <1>6
       DEF Next, WorkerStep, fire_webhooks, Notify, Enqueue, ComeDue, Start,
           Crash, MineElsewhere, vars
-----------------------------------------------------------------------------
(* What a step does to the view a worker has of its job or row.            *)

(* Worker w goes on with the job it had, and had it in one of these places. *)
Continues(w, labels) == pc[w] \in labels /\ job'[w] = job[w]

Stays(w) ==
  pc'[w] = pc[w] /\ job'[w] = job[w] /\ att'[w] = att[w] /\ todo'[w] = todo[w]

TodoEffect(w) ==
  \/ todo'[w] \subseteq todo[w]
  \/ \A r \in todo'[w] : /\ r.job \in Jobs /\ pmc[r.job] # "none"
                         /\ r.att < MAX_COMMIT_RETRIES

WorkerEffect(w) ==
  /\ pc'[w] \in Early =>
       Continues(w, Early) \/ (job'[w] \in Jobs /\ jobs[job'[w]] = "queued")
  /\ pc'[w] \in Rooted =>
       \/ Continues(w, Rooted)
       \/ Continues(w, {"fetch"}) /\ batch'[job[w]] \in Roots
       \/ \E r \in todo[w] : job'[w] = r.job
  /\ pc'[w] \in Retrying =>
       \/ Continues(w, Retrying) /\ att'[w] = att[w]
       \/ \E r \in todo[w] : job'[w] = r.job /\ att'[w] = r.att
  /\ pc'[w] \in PastReceipt =>
       \/ Continues(w, PastReceipt)
       \/ Continues(w, Rooted) /\ Root(w) \in registry'
  /\ pc'[w] \in Busy =>
       \/ Continues(w, Busy)
       \/ job'[w] \in Jobs
  /\ TodoEffect(w)

LEMMA StaysEffect ==
  ASSUME NEW w \in Workers, Stays(w) PROVE WorkerEffect(w)
  BY DEF Stays, WorkerEffect, Continues, TodoEffect

LEMMA RetryEffect ==
  ASSUME IndInv, NEW w \in Workers, RetryStep(w)
  PROVE  WorkerEffect(w) /\ \A v \in Workers \ {w} : Stays(v)
  <1> USE DEF WorkerEffect, Continues, Stays, Goto, At, KeepLocals, Early,
              Rooted, Retrying, PastReceipt, Busy, Working, Closing
  <1>1. LocalTypeOK /\ TableTypeOK
    BY DEF IndInv, TypeOK
  <1> HIDE DEF WorkerEffect
  <1>2. CASE ScanPending(w)
    <2>1. TodoEffect(w)
      BY <1>1, <1>2, ConstantsOK DEF ScanPending, DueJobs, TodoEffect,
                                     LocalTypeOK, TableTypeOK
    <2>2. QED
      BY <1>1, <1>2, <2>1 DEF ScanPending, WorkerEffect, LocalTypeOK
  <1>3. CASE NextRow(w)
    <2>1. \A r \in todo[w] : r.job \in Jobs
      BY <1>1 DEF LocalTypeOK, Row
    <2>2. QED
      BY <1>1, <1>3, <2>1 DEF NextRow, WorkerEffect, LocalTypeOK, TodoEffect
  <1>4. CASE RetrySend(w)
    BY <1>1, <1>4 DEF RetrySend, Send, WorkerEffect, LocalTypeOK, TodoEffect
  <1>5. CASE RetryAwait(w)
    <2>1. UNCHANGED <<job, att, todo>> /\ \A v \in Workers \ {w} : Stays(v)
      BY <1>1, <1>5 DEF RetryAwait, Await, LocalTypeOK
    <2>2. /\ pc[w] = "rsent"
          /\ \/ pc'[w] = "rstore" /\ Root(w) \in registry'
             \/ pc'[w] = "rerr"
      BY <1>1, <1>5 DEF RetryAwait, Await, LocalTypeOK, ReceiptOk, commitHash
    <2>3. QED
      BY <2>1, <2>2 DEF WorkerEffect, TodoEffect
  <1>6. ASSUME NEW l \in Retrying \cup {"rows"}, pc[w] \in Retrying,
                (l \in PastReceipt => pc[w] \in PastReceipt),
                Goto(w, l), KeepLocals
         PROVE  WorkerEffect(w) /\ \A v \in Workers \ {w} : Stays(v)
    BY <1>1, <1>6 DEF WorkerEffect, LocalTypeOK, TodoEffect
  <1>7. CASE RetryStore(w) \/ RetryStamp(w)
    BY <1>6, <1>7 DEF RetryStore, RetryStamp
  <1>8. CASE RetryMark(w) \/ RetryError(w) \/ RetryUnconfigured(w)
    BY <1>6, <1>8 DEF RetryMark, RetryError, RetryUnconfigured
  <1>9. CASE RetryComplete(w) \/ RetryGiveUp(w) \/ RetryFailNoHook(w)
    BY <1>6, <1>9 DEF RetryComplete, RetryGiveUp, RetryFailNoHook, ResolveJob
  <1>10. QED
    BY <1>2, <1>3, <1>4, <1>5, <1>7, <1>8, <1>9 DEF RetryStep

LEMMA JobEffect ==
  ASSUME IndInv, NEW w \in Workers, JobStep(w) \/ fire_webhooks(w)
  PROVE  WorkerEffect(w) /\ \A v \in Workers \ {w} : Stays(v)
  <1> USE DEF Continues, Stays, Goto, At, KeepLocals, Early, Rooted,
              Retrying, PastReceipt, Busy, Working, Closing
  <1>1. LocalTypeOK /\ TableTypeOK
    BY DEF IndInv, TypeOK
  <1>2. ASSUME NEW l \in {"exited"}, Forget(w, l)
        PROVE WorkerEffect(w) /\ \A v \in Workers \ {w} : Stays(v)
    BY <1>1, <1>2 DEF Forget, WorkerEffect, LocalTypeOK, TodoEffect
  <1>3. ASSUME NEW l, pc[w] \in Busy, KeepLocals, Goto(w, l),
               l \in Busy \/ l \in Idle,
               l \in Early => pc[w] \in Early,
               l \in Rooted => pc[w] \in Rooted,
               l \in Retrying => pc[w] \in Retrying,
               l \in PastReceipt => pc[w] \in PastReceipt
        PROVE WorkerEffect(w) /\ \A v \in Workers \ {w} : Stays(v)
    <2>1. \A v \in Workers \ {w} : Stays(v)
      BY <1>1, <1>3 DEF LocalTypeOK
    <2>2. pc'[w] = l /\ UNCHANGED <<job, att, todo>>
      BY <1>1, <1>3 DEF LocalTypeOK
    <2>3. QED
      <3> HIDE DEF Early, Rooted, Retrying, PastReceipt, Busy, Working,
                   Closing
      <3>1. TodoEffect(w)
        BY <2>2 DEF TodoEffect
      <3>2. QED
        BY <1>3, <2>1, <2>2, <3>1 DEF WorkerEffect
  <1>4. CASE Dequeue(w)
    BY <1>1, <1>4 DEF Dequeue, WorkerEffect, LocalTypeOK, TodoEffect
  <1>5. CASE Take(w)
    <2>1. jobs[job[w]] = "queued" /\ job[w] \in Jobs
      BY <1>5, JobAtHand DEF Take, IndInv, Ownership
    <2>2. QED
      BY <1>1, <1>5, <2>1 DEF Take, WorkerEffect, LocalTypeOK, TodoEffect
  <1>6. CASE Crawl(w) \/ StoreResults(w) \/ SetSummary(w)
    BY <1>2, <1>3, <1>6 DEF Crawl, StoreResults, SetSummary, Idle
  <1>7. CASE Charge(w)
    BY <1>2, <1>3, <1>7 DEF Charge, Idle
  <1>8. CASE Fetch(w)
    <2>1. /\ pc[w] = "fetch" /\ UNCHANGED <<job, att, todo>>
          /\ \A v \in Workers \ {w} : Stays(v)
      BY <1>1, <1>8 DEF Fetch, LocalTypeOK
    <2>2. \/ pc'[w] \in {"fail", "finish"}
          \/ pc'[w] = "send" /\ batch'[job[w]] \in Roots
      BY <1>1, <1>8, <2>1, JobAtHand DEF Fetch, LocalTypeOK, TableTypeOK
    <2>3. QED
      BY <2>1, <2>2 DEF WorkerEffect, TodoEffect
  <1>9. CASE CommitSend(w)
    BY <1>3, <1>9 DEF CommitSend, Send
  <1>10. CASE CommitAwait(w)
    <2>1. UNCHANGED <<job, att, todo>> /\ \A v \in Workers \ {w} : Stays(v)
      BY <1>1, <1>10 DEF CommitAwait, Await, LocalTypeOK
    <2>2. /\ pc[w] = "sent"
          /\ \/ pc'[w] = "store" /\ Root(w) \in registry'
             \/ pc'[w] = "queue"
      BY <1>1, <1>10 DEF CommitAwait, Await, LocalTypeOK, ReceiptOk, commitHash
    <2>3. QED
      BY <2>1, <2>2 DEF WorkerEffect, TodoEffect
  <1>11. CASE CommitStore(w) \/ QueueRetry(w)
    BY <1>3, <1>11 DEF CommitStore, QueueRetry
  <1>12. CASE CommitStamp(w)
    <2>1. CASE UNCHANGED pc /\ KeepLocals
      BY <2>1, StaysEffect
    <2>2. CASE Goto(w, "finish") /\ KeepLocals /\ pc[w] = "stamp"
      BY <1>3, <2>2
    <2>3. QED
      BY <1>12, <2>1, <2>2 DEF CommitStamp
  <1>13. CASE SetCompleted(w) \/ SetFailed(w) \/ SetParked(w)
    BY <1>2, <1>3, <1>13 DEF SetCompleted, SetFailed, SetParked, SetStatus,
                             Idle
  <1>14. CASE fire_webhooks(w)
    BY <1>3, <1>14 DEF fire_webhooks, Notify, Idle
  <1>15. QED
    BY <1>4, <1>6, <1>7, <1>8, <1>9, <1>10, <1>11, <1>12, <1>13, <1>14, <1>5
       DEF JobStep

LEMMA WorkersStep ==
  ASSUME IndInv, [Next]_vars
  PROVE  \A w \in Workers : WorkerEffect(w)
  <1>1. LocalTypeOK
    BY DEF IndInv, TypeOK
  <1>2. ASSUME NEW w \in Workers, Start(w) \/ Crash(w)
        PROVE  WorkerEffect(w) /\ \A v \in Workers \ {w} : Stays(v)
    BY <1>1, <1>2 DEF Start, Crash, Forget, Goto, WorkerEffect, Stays,
       LocalTypeOK, TodoEffect, Early, Rooted, Retrying, PastReceipt, Busy,
       Working, Closing
  <1>3. ASSUME UNCHANGED localVars PROVE \A w \in Workers : Stays(w)
    BY <1>3 DEF localVars, Stays
  <1>4. QED
    BY <1>2, <1>3, StaysEffect, RetryEffect, JobEffect
       DEF Next, WorkerStep, Enqueue, ComeDue, MineElsewhere, vars
-----------------------------------------------------------------------------
(* What a step does to the records of commits.                             *)

(* Only a worker past a receipt writes commits or a stamp, and only one    *)
(* with a rooted job at hand writes a pending row.                         *)
RecordsEffect ==
  /\ \A r \in Roots : commits'[r] # "none" =>
       \/ commits[r] # "none"
       \/ \E w \in Workers : pc[w] \in PastReceipt /\ Root(w) = r
  /\ \A j \in Jobs : stamp'[j] # "none" =>
       \/ stamp[j] # "none"
       \/ \E w \in Workers : pc[w] \in PastReceipt /\ job[w] = j
  /\ \A j \in Jobs : pmc'[j] # "none" =>
       \/ pmc[j] # "none"
       \/ \E w \in Workers : pc[w] \in Rooted /\ job[w] = j

LEMMA RecordsStep == ASSUME IndInv, [Next]_vars PROVE RecordsEffect
  <1> USE DEF RecordsEffect, eventVars, tableVars, pmcVars, At, DbOk,
              DbFault, Sql, SetRow
  <1>1. TableTypeOK
    BY DEF IndInv, TypeOK
  <1>2. ASSUME UNCHANGED <<stamp, commits, pmc>> PROVE RecordsEffect
    BY <1>2
  <1>3. ASSUME NEW w \in Workers, RetryStore(w) \/ CommitStore(w)
        PROVE RecordsEffect
    BY <1>1, <1>3 DEF RetryStore, CommitStore, InsertCommit, PastReceipt,
                      TableTypeOK
  <1>4. ASSUME NEW w \in Workers, RetryStamp(w) \/ CommitStamp(w)
        PROVE RecordsEffect
    BY <1>1, <1>4 DEF RetryStamp, CommitStamp, PastReceipt, TableTypeOK
  <1>5. ASSUME NEW w \in Workers, pc[w] \in Rooted,
               UNCHANGED <<stamp, commits>>,
               \A j \in Jobs \ {job[w]} : pmc'[j] = pmc[j]
        PROVE RecordsEffect
    BY <1>5
  <1>6. ASSUME NEW w \in Workers,
               \/ RetryMark(w) \/ RetryUnconfigured(w) \/ RetryError(w)
               \/ QueueRetry(w)
        PROVE RecordsEffect
    <2>1. pc[w] \in Rooted
      BY <1>6 DEF RetryMark, RetryUnconfigured, RetryError, QueueRetry,
                  Rooted, Retrying
    <2>2. UNCHANGED <<stamp, commits>>
      BY <1>6 DEF RetryMark, RetryUnconfigured, RetryError, QueueRetry
    <2>3. \/ UNCHANGED pmc
          \/ \E s \in {"pending", "committed", "failed"} :
               pmc' = [pmc EXCEPT ![job[w]] = s]
      BY <1>6 DEF RetryMark, RetryUnconfigured, RetryError, QueueRetry
    <2>4. QED
      BY <1>1, <1>5, <2>1, <2>2, <2>3 DEF TableTypeOK
  <1>7. ASSUME NEW w \in Workers, RetryStep(w) PROVE RecordsEffect
    BY <1>2, <1>3, <1>4, <1>6, <1>7
       DEF RetryStep, ScanPending, NextRow, RetrySend, RetryAwait, Send,
           Await, RetryComplete, RetryGiveUp, RetryFailNoHook, ResolveJob
  <1>8. ASSUME NEW w \in Workers, JobStep(w) PROVE RecordsEffect
    BY <1>2, <1>3, <1>4, <1>6, <1>8
       DEF JobStep, Dequeue, Take, Crawl, Charge, StoreResults, Fetch, CommitSend,
           CommitAwait, Send, Await, SetCompleted, SetFailed, SetParked,
           SetStatus, SetSummary
  <1>9. QED
    BY <1>2, <1>7, <1>8
       DEF Next, WorkerStep, fire_webhooks, Notify, Enqueue, ComeDue, Start,
           Crash, MineElsewhere, vars
-----------------------------------------------------------------------------
(* The rest of the inductive step.                                         *)

LEMMA FreshnessStep == ASSUME IndInv, [Next]_vars PROVE Freshness'
  <1>1. /\ QueueEffect /\ Ownership /\ Freshness /\ QueueTypeOK
        /\ \A w \in Workers : pc[w] \in Working => job[w] \in Jobs
    BY QueueStep, JobAtHand DEF IndInv, TypeOK
  <1>2. \A j \in Jobs : Untouched(j) => Untouched(j)' \/ Fetches(j)
    BY EventsStep
  <1>3. \A j \in Jobs : Fetches(j) => jobs[j] = "processing"
    BY <1>1 DEF Fetches, Ownership, Working
  <1>4. ASSUME NEW j \in Jobs, jobs'[j] \in {"none", "queued"}
        PROVE jobs[j] \in {"none", "queued"}
    <2>1. ASSUME NEW w \in Workers, Closes(w)
          PROVE jobs[j] \in {"none", "queued"}
      BY <1>1, <1>4, <2>1 DEF Closes, update_status, Terminal, QueueTypeOK
    <2>2. ASSUME NEW w \in Workers, Takes(w)
          PROVE jobs[j] \in {"none", "queued"}
      BY <1>1, <1>4, <2>2, JobAtHand DEF Takes, dequeue, QueueTypeOK
    <2>3. QED
      BY <1>1, <1>4, <2>1, <2>2 DEF QueueEffect, Terminal, QueueTypeOK,
           enqueue, resolve_pending, queueVars
  <1>5. ASSUME NEW w \in Workers, pc'[w] \in Early
        PROVE batch'[job'[w]] = NoRoot /\ stamp'[job'[w]] = "none"
    <2>1. CASE Continues(w, Early)
      <3>1. job[w] \in Jobs /\ Untouched(job[w]) /\ job'[w] = job[w]
        BY <1>1, <2>1 DEF Continues, Freshness, Early, Working
      <3>2. ~ Fetches(job[w])
        BY <1>1, <1>5, <2>1 DEF Fetches, Continues, Ownership, Early, Working
      <3>3. QED
        BY <1>2, <3>1, <3>2 DEF Untouched
    <2>2. CASE job'[w] \in Jobs /\ jobs[job'[w]] = "queued"
      <3>1. Untouched(job'[w]) /\ ~ Fetches(job'[w])
        BY <1>1, <1>3, <2>2 DEF Freshness
      <3>2. QED
        BY <1>2, <2>2, <3>1 DEF Untouched
    <2>3. QED
      BY <1>5, <2>1, <2>2, WorkersStep DEF WorkerEffect
  <1>6. QED
    BY <1>1, <1>2, <1>3, <1>4, <1>5 DEF Freshness, Untouched

LEMMA AtHandStep == ASSUME IndInv, [Next]_vars PROVE AtHand'
  <1> USE DEF Root
  <1>1. AtHand /\ LocalTypeOK /\ \A w \in Workers : WorkerEffect(w)
    BY WorkersStep DEF IndInv, TypeOK
  <1>2. \A j \in Jobs : batch[j] \in Roots => batch'[j] = batch[j]
    BY EventsStep
  <1>3. ASSUME NEW w \in Workers, pc'[w] \in Busy PROVE job'[w] \in Jobs
    BY <1>1, <1>3 DEF WorkerEffect, Continues, AtHand, Busy
  <1>4. ASSUME NEW w \in Workers, pc[w] \in Rooted
        PROVE job[w] \in Jobs /\ batch[job[w]] \in Roots
    <2>1. pc[w] \in Working \/ pc[w] \in Retrying
      BY <1>4 DEF Rooted, Working
    <2>2. QED
      BY <1>1, <1>4, <2>1, JobAtHand DEF AtHand
  <1>5. ASSUME NEW w \in Workers, NEW r \in todo[w]
        PROVE /\ r.job \in Jobs /\ r.att < MAX_COMMIT_RETRIES
              /\ batch[r.job] \in Roots
    BY <1>1 DEF AtHand, LocalTypeOK, Row
  <1>6. ASSUME NEW w \in Workers, pc'[w] \in Rooted
        PROVE Root(w)' \in Roots
    <2>1. CASE Continues(w, Rooted)
      BY <1>2, <1>4, <2>1 DEF Continues
    <2>2. CASE Continues(w, {"fetch"}) /\ batch'[job[w]] \in Roots
      BY <2>2 DEF Continues
    <2>3. CASE \E r \in todo[w] : job'[w] = r.job
      BY <1>2, <1>5, <2>3
    <2>4. QED
      BY <1>1, <1>6, <2>1, <2>2, <2>3 DEF WorkerEffect
  <1>7. ASSUME NEW w \in Workers, pc'[w] \in Retrying
        PROVE att'[w] < MAX_COMMIT_RETRIES
    BY <1>1, <1>5, <1>7 DEF WorkerEffect, Continues, AtHand
  <1>8. ASSUME NEW w \in Workers, NEW r \in todo'[w]
        PROVE r.att < MAX_COMMIT_RETRIES /\ batch'[r.job] \in Roots
    <2>1. CASE r \in todo[w]
      BY <1>2, <1>5, <2>1
    <2>2. CASE /\ r.job \in Jobs /\ pmc[r.job] # "none"
               /\ r.att < MAX_COMMIT_RETRIES
      BY <1>1, <1>2, <2>2 DEF AtHand
    <2>3. QED
      BY <1>1, <2>1, <2>2 DEF WorkerEffect, TodoEffect
  <1>9. ASSUME NEW j \in Jobs, pmc'[j] # "none" PROVE batch'[j] \in Roots
    <2>1. CASE pmc[j] # "none"
      BY <1>1, <1>2, <2>1 DEF AtHand
    <2>2. CASE \E w \in Workers : pc[w] \in Rooted /\ job[w] = j
      BY <1>2, <1>4, <2>2
    <2>3. QED
      BY <1>9, <2>1, <2>2, RecordsStep DEF RecordsEffect
  <1>10. QED
    BY <1>3, <1>6, <1>7, <1>8, <1>9 DEF AtHand, Busy

LEMMA AnchorStep ==
  ASSUME IndInv, [Next]_vars PROVE ReceiptMeansOnChain' /\ AnchorSound'
  <1> USE DEF Root
  <1>1. /\ registry \subseteq registry' /\ registry \subseteq Roots
        /\ \A j \in Jobs : batch[j] \in Roots => batch'[j] = batch[j]
    BY ChainStep, EventsStep DEF IndInv, TypeOK, ChainTypeOK
  <1>2. ASSUME NEW w \in Workers, pc[w] \in Rooted
        PROVE job[w] \in Jobs /\ batch'[job[w]] = batch[job[w]]
    <2>1. pc[w] \in Working \/ pc[w] \in Retrying
      BY <1>2 DEF Rooted, Working
    <2>2. QED
      BY <1>1, <1>2, <2>1, JobAtHand DEF IndInv, AtHand
  <1>3. ASSUME NEW w \in Workers, pc[w] \in PastReceipt
        PROVE pc[w] \in Rooted /\ batch[job[w]] \in registry
    BY <1>3 DEF IndInv, ReceiptMeansOnChain, PastReceipt, Rooted, Retrying
  <1>4. ReceiptMeansOnChain'
    <2> SUFFICES ASSUME NEW w \in Workers, pc'[w] \in PastReceipt
                 PROVE batch'[job'[w]] \in registry'
      BY DEF ReceiptMeansOnChain
    <2>1. \/ Continues(w, PastReceipt)
          \/ Continues(w, Rooted) /\ Root(w) \in registry'
      BY WorkersStep DEF WorkerEffect
    <2>2. QED
      BY <1>1, <1>2, <1>3, <2>1 DEF Continues
  <1>5. ASSUME NEW r \in Roots, commits'[r] # "none" PROVE r \in registry'
    BY <1>1, <1>3, <1>5, RecordsStep DEF RecordsEffect, IndInv, AnchorSound
  <1>6. ASSUME NEW j \in Jobs, stamp'[j] # "none"
        PROVE batch'[j] \in registry'
    <2>1. batch[j] \in registry
      BY <1>3, <1>6, RecordsStep DEF RecordsEffect, IndInv, AnchorSound
    <2>2. QED
      BY <1>1, <2>1
  <1>7. QED
    BY <1>4, <1>5, <1>6 DEF AnchorSound

LEMMA IndInvStep == IndInv /\ [Next]_vars => IndInv'
  BY TypeStep, AtHandStep, OwnershipStep, FreshnessStep, AnchorStep
     DEF IndInv
-----------------------------------------------------------------------------
(* Marked commits are recorded: a second invariant, relative to IndInv.    *)

Marking == {"rstamp", "rmark", "rdone"}
RecInv ==
  /\ \A w \in Workers : pc[w] \in Marking => commits[Root(w)] # "none"
  /\ CommittedIsRecorded

MarkEffect ==
  /\ \A w \in Workers : pc'[w] \in Marking =>
       /\ Continues(w, {"rstore"} \cup Marking)
       /\ pc[w] = "rstore" => commits'[Root(w)] # "none"
  /\ \A j \in Jobs : pmc'[j] = "committed" =>
       \/ pmc[j] = "committed"
       \/ \E w \in Workers : pc[w] = "rmark" /\ job[w] = j
  /\ \A r \in Roots : commits[r] # "none" => commits'[r] = commits[r]

LEMMA MarkStep == ASSUME IndInv, [Next]_vars PROVE MarkEffect
  <1> USE DEF MarkEffect, Marking, Continues, Goto, At, KeepLocals, DbOk,
              DbFault, Sql, SetRow, tableVars, pmcVars, localVars
  <1>1. LocalTypeOK /\ TableTypeOK
    BY DEF IndInv, TypeOK
  <1> USE DEF LocalTypeOK, TableTypeOK
  <1>2. ASSUME NEW w \in Workers, RetryStore(w) \/ CommitStore(w)
        PROVE MarkEffect
    <2>1. Root(w) \in Roots /\ receipt[w] # "none"
      BY <1>1, <1>2 DEF IndInv, AtHand, RetryStore, CommitStore, Rooted,
                        Retrying, ReceiptStatus
    <2>2. QED
      BY <1>1, <1>2, <2>1 DEF RetryStore, CommitStore, InsertCommit
  <1>3. ASSUME NEW w \in Workers, RetryStamp(w) PROVE MarkEffect
    BY <1>1, <1>3 DEF RetryStamp
  <1>4. ASSUME NEW w \in Workers, RetryMark(w) PROVE MarkEffect
    BY <1>1, <1>4 DEF RetryMark
  <1>5. ASSUME NEW w \in Workers,
               RetryError(w) \/ RetryUnconfigured(w) \/ QueueRetry(w)
        PROVE MarkEffect
    <2>1. /\ UNCHANGED <<commits, job>>
          /\ \E s \in {"pending", "failed"} :
               UNCHANGED pmc \/ pmc' = [pmc EXCEPT ![job[w]] = s]
      BY <1>5 DEF RetryError, RetryUnconfigured, QueueRetry
    <2>2. \E l \in {"rgiveup", "rows", "runconf2", "park"} :
            pc' = [pc EXCEPT ![w] = l]
      BY <1>5 DEF RetryError, RetryUnconfigured, QueueRetry
    <2>3. QED
      BY <1>1, <2>1, <2>2
  <1>6. ASSUME UNCHANGED <<commits, pmc>>,
               \A w \in Workers : pc'[w] \in Marking =>
                                    pc[w] \in Marking /\ job'[w] = job[w]
        PROVE MarkEffect
    BY <1>6
  <1>7. ASSUME NEW w \in Workers,
               \/ ScanPending(w) \/ NextRow(w) \/ RetrySend(w)
               \/ RetryComplete(w) \/ RetryGiveUp(w) \/ RetryFailNoHook(w)
        PROVE MarkEffect
    BY <1>1, <1>6, <1>7 DEF ScanPending, NextRow, RetrySend, Send,
       RetryComplete, RetryGiveUp, RetryFailNoHook, ResolveJob
  <1>8. ASSUME NEW w \in Workers, RetryAwait(w) \/ CommitAwait(w)
        PROVE MarkEffect
    BY <1>1, <1>6, <1>8 DEF RetryAwait, CommitAwait, Await
  <1>9. ASSUME NEW w \in Workers,
               \/ Dequeue(w) \/ Take(w) \/ Crawl(w) \/ Charge(w)
               \/ StoreResults(w) \/ Fetch(w) \/ CommitSend(w)
        PROVE MarkEffect
    BY <1>1, <1>6, <1>9 DEF Dequeue, Take, Crawl, Charge, StoreResults,
       Fetch, CommitSend, Send, Forget
  <1>10. ASSUME NEW w \in Workers,
                \/ CommitStamp(w) \/ SetCompleted(w) \/ SetFailed(w)
                \/ SetParked(w) \/ SetSummary(w) \/ fire_webhooks(w)
                \/ Start(w) \/ Crash(w)
         PROVE MarkEffect
    BY <1>1, <1>6, <1>10 DEF CommitStamp, SetCompleted, SetFailed, SetParked,
       SetStatus, SetSummary, fire_webhooks, Notify, Start, Crash, Forget
  <1>11. QED
    BY <1>2, <1>3, <1>4, <1>5, <1>6, <1>7, <1>8, <1>9, <1>10
       DEF Next, WorkerStep, RetryStep, JobStep, Enqueue, ComeDue,
           MineElsewhere, vars

LEMMA RecInvStep == IndInv /\ RecInv /\ [Next]_vars => RecInv'
  <1> SUFFICES ASSUME IndInv, RecInv, [Next]_vars PROVE RecInv'
    OBVIOUS
  <1> USE DEF Root
  <1>1. MarkEffect /\ \A j \in Jobs : batch[j] \in Roots => batch'[j] = batch[j]
    BY MarkStep, EventsStep
  <1>2. ASSUME NEW w \in Workers, pc[w] \in {"rstore"} \cup Marking
        PROVE job[w] \in Jobs /\ batch[job[w]] \in Roots
    BY <1>2, JobAtHand DEF Marking, IndInv, AtHand, Rooted, Retrying
  <1>3. ASSUME NEW w \in Workers, pc'[w] \in Marking
        PROVE commits'[batch'[job'[w]]] # "none"
    BY <1>1, <1>2, <1>3 DEF MarkEffect, Continues, RecInv, Marking
  <1>4. ASSUME NEW j \in Jobs, pmc'[j] = "committed"
        PROVE commits'[batch'[j]] # "none"
    <2>1. batch[j] \in Roots /\ commits[batch[j]] # "none"
      BY <1>1, <1>2, <1>4
         DEF MarkEffect, RecInv, CommittedIsRecorded, Marking, IndInv, AtHand
    <2>2. QED
      BY <1>1, <2>1 DEF MarkEffect
  <1>5. QED
    BY <1>3, <1>4 DEF RecInv, CommittedIsRecorded
-----------------------------------------------------------------------------
(* Retries and the jobs they settle: RetriedIsAnchored.                    *)

(* A worker at a job that it has not parked. *)
Unparked == Working \ {"park"}

(* A job that was never parked has no pending row, a row that a retry has  *)
(* selected is there, and a completed job with a row has its root in       *)
(* timestamp_commits.                                                      *)
RowsInv ==
  /\ \A w \in Workers : pc[w] \in Unparked => pmc[job[w]] = "none"
  /\ \A w \in Workers : pc[w] \in Retrying => pmc[job[w]] # "none"
  /\ \A w \in Workers : \A r \in todo[w] : pmc[r.job] # "none"
  /\ \A j \in Jobs : jobs[j] \in {"none", "queued"} => pmc[j] = "none"
  /\ \A j \in Jobs : jobs[j] = "completed" /\ pmc[j] # "none" =>
                        commits[batch[j]] # "none"

(* A pending row is inserted by the worker that is about to park its job,  *)
(* and stays; a job is completed by its worker or by a retry.              *)
Inserts(j) ==
  \E w \in Workers : pc[w] = "queue" /\ job[w] = j /\ pc'[w] = "park"
Completes(j) ==
  \E w \in Workers : pc[w] \in {"rdone", "finish"} /\ job[w] = j

PmcEffect ==
  \A j \in Jobs : /\ pmc'[j] # "none" => pmc[j] # "none" \/ Inserts(j)
                  /\ pmc[j] # "none" => pmc'[j] # "none"

LEMMA PmcStep == ASSUME IndInv, RowsInv, [Next]_vars PROVE PmcEffect
  <1> USE DEF PmcEffect, Inserts, At, Sql, SetRow, tableVars, pmcVars
  <1>1. LocalTypeOK /\ TableTypeOK
    BY DEF IndInv, TypeOK
  <1>2. ASSUME NEW w \in Workers,
               RetryMark(w) \/ RetryError(w) \/ RetryUnconfigured(w)
        PROVE PmcEffect
    <2>1. job[w] \in Jobs /\ pmc[job[w]] # "none"
      BY <1>2, JobAtHand
         DEF RetryMark, RetryError, RetryUnconfigured, Retrying, RowsInv
    <2>2. \/ UNCHANGED pmc
          \/ \E s \in {"committed", "failed"} :
               pmc' = [pmc EXCEPT ![job[w]] = s]
      BY <1>2 DEF RetryMark, RetryError, RetryUnconfigured
    <2>3. QED
      BY <1>1, <2>1, <2>2 DEF TableTypeOK
  <1>3. ASSUME NEW w \in Workers, QueueRetry(w) PROVE PmcEffect
    BY <1>1, <1>3 DEF QueueRetry, Goto, LocalTypeOK, TableTypeOK
  <1>4. ASSUME NEW w \in Workers, RetryStep(w) PROVE PmcEffect
    BY <1>2, <1>4
       DEF RetryStep, ScanPending, NextRow, RetrySend, RetryAwait, Send,
           Await, RetryStore, RetryStamp, RetryComplete, RetryGiveUp,
           RetryFailNoHook, ResolveJob
  <1>5. ASSUME NEW w \in Workers, JobStep(w) PROVE PmcEffect
    BY <1>3, <1>5
       DEF JobStep, Dequeue, Take, Crawl, Charge, StoreResults, Fetch,
           CommitSend, CommitAwait, Send, Await, CommitStore, CommitStamp,
           SetCompleted, SetFailed, SetParked, SetStatus, SetSummary
  <1>6. QED
    BY <1>4, <1>5
       DEF Next, WorkerStep, fire_webhooks, Notify, Enqueue, ComeDue, Start,
           Crash, MineElsewhere, vars

CompletedEffect ==
  /\ \A j \in Jobs : jobs'[j] = "completed" =>
       jobs[j] = "completed" \/ Completes(j)
  /\ \A j \in Jobs : jobs'[j] \in {"none", "queued"} =>
       jobs[j] \in {"none", "queued"}

LEMMA CompletedStep == ASSUME IndInv, [Next]_vars PROVE CompletedEffect
  <1> USE DEF CompletedEffect, Completes, At, Sql, queueVars
  <1>1. QueueTypeOK /\ LocalTypeOK
    BY DEF IndInv, TypeOK
  <1>2. ASSUME UNCHANGED jobs PROVE CompletedEffect
    BY <1>2
  <1>3. ASSUME NEW w \in Workers,
               \/ SetCompleted(w) \/ SetFailed(w) \/ SetParked(w) \/ Take(w)
        PROVE CompletedEffect
    <2>1. job[w] \in Jobs
      BY <1>3, JobAtHand DEF SetCompleted, SetFailed, SetParked, SetStatus, Take,
                             Working
    <2>2. \/ UNCHANGED jobs
          \/ jobs' = [jobs EXCEPT ![job[w]] = "completed"] /\ pc[w] = "finish"
          \/ \E s \in {"failed", "pending_commit", "processing"} :
               jobs' = [jobs EXCEPT ![job[w]] = s]
      BY <1>3 DEF SetCompleted, SetFailed, SetParked, SetStatus, Take,
                  update_status, dequeue
    <2>3. QED
      BY <1>1, <2>1, <2>2 DEF QueueTypeOK
  <1>4. ASSUME NEW w \in Workers,
               RetryComplete(w) \/ RetryGiveUp(w) \/ RetryFailNoHook(w)
        PROVE CompletedEffect
    <2>1. job[w] \in Jobs
      BY <1>4, JobAtHand DEF RetryComplete, RetryGiveUp, RetryFailNoHook,
                             ResolveJob, Retrying
    <2>2. \/ UNCHANGED jobs
          \/ jobs' = [jobs EXCEPT ![job[w]] = "completed"] /\ pc[w] = "rdone"
          \/ jobs' = [jobs EXCEPT ![job[w]] = "failed"]
      BY <1>4 DEF RetryComplete, RetryGiveUp, RetryFailNoHook, ResolveJob,
                  resolve_pending
    <2>3. QED
      BY <1>1, <2>1, <2>2 DEF QueueTypeOK
  <1>5. ASSUME NEW j \in Jobs, Enqueue(j) PROVE CompletedEffect
    BY <1>1, <1>5 DEF Enqueue, enqueue, QueueTypeOK
  <1>6. ASSUME NEW w \in Workers, RetryStep(w) PROVE CompletedEffect
    BY <1>2, <1>4, <1>6
       DEF RetryStep, ScanPending, NextRow, RetrySend, RetryAwait, Send,
           Await, RetryStore, RetryStamp, RetryMark, RetryError,
           RetryUnconfigured
  <1>7. ASSUME NEW w \in Workers, JobStep(w) PROVE CompletedEffect
    BY <1>2, <1>3, <1>7
       DEF JobStep, Dequeue, Crawl, Charge, StoreResults, Fetch, CommitSend,
           CommitAwait, Send, Await, CommitStore, CommitStamp, QueueRetry,
           SetSummary
  <1>8. QED
    BY <1>2, <1>5, <1>6, <1>7
       DEF Next, WorkerStep, fire_webhooks, Notify, ComeDue, Start, Crash,
           MineElsewhere, vars

(* A worker is at a job that is not parked only after it has locked its    *)
(* row.                                                                    *)
UnparkedEffect ==
  \A w \in Workers : pc'[w] \in Unparked =>
    Continues(w, Unparked \cup {"claim"})

LEMMA UnparkedStep == ASSUME IndInv, [Next]_vars PROVE UnparkedEffect
  <1> USE DEF UnparkedEffect, Continues, Unparked, Working, Goto, At,
              KeepLocals, Forget, Sql, DbOk, DbFault, localVars
  <1>1. LocalTypeOK
    BY DEF IndInv, TypeOK
  <1> USE DEF LocalTypeOK
  <1>2. ASSUME NEW w \in Workers, RetryStep(w) PROVE UnparkedEffect
    BY <1>1, <1>2
       DEF RetryStep, ScanPending, NextRow, RetrySend, RetryAwait, Send,
           Await, RetryStore, RetryStamp, RetryMark, RetryError,
           RetryUnconfigured, RetryComplete, RetryGiveUp, RetryFailNoHook,
           ResolveJob
  <1>3. ASSUME NEW w \in Workers,
               Dequeue(w) \/ Take(w) \/ Crawl(w) \/ Charge(w) \/ StoreResults(w)
        PROVE UnparkedEffect
    BY <1>1, <1>3 DEF Dequeue, Take, Crawl, Charge, StoreResults
  <1>4. ASSUME NEW w \in Workers,
               \/ Fetch(w) \/ CommitSend(w) \/ CommitAwait(w) \/ CommitStore(w)
               \/ CommitStamp(w) \/ QueueRetry(w)
        PROVE UnparkedEffect
    BY <1>1, <1>4 DEF Fetch, CommitSend, CommitAwait, Send, Await, CommitStore,
                      CommitStamp, QueueRetry
  <1>5. ASSUME NEW w \in Workers,
               \/ SetCompleted(w) \/ SetFailed(w) \/ SetParked(w)
               \/ SetSummary(w) \/ fire_webhooks(w) \/ Start(w) \/ Crash(w)
        PROVE UnparkedEffect
    BY <1>1, <1>5 DEF SetCompleted, SetFailed, SetParked, SetStatus, SetSummary,
                      fire_webhooks, Notify, Start, Crash
  <1>6. QED
    BY <1>2, <1>3, <1>4, <1>5
       DEF Next, WorkerStep, JobStep, Enqueue, ComeDue, MineElsewhere, vars

LEMMA RowsInvStep ==
  IndInv /\ RecInv /\ RowsInv /\ [Next]_vars => RowsInv'
  <1> SUFFICES ASSUME IndInv, RecInv, RowsInv, [Next]_vars PROVE RowsInv'
    OBVIOUS
  <1>1. /\ PmcEffect /\ CompletedEffect /\ UnparkedEffect /\ MarkEffect
        /\ \A w \in Workers : WorkerEffect(w)
        /\ \A j \in Jobs : batch[j] \in Roots => batch'[j] = batch[j]
    BY PmcStep, CompletedStep, UnparkedStep, MarkStep, WorkersStep, EventsStep
  <1>2. Ownership /\ AtHand /\ LocalTypeOK
    BY DEF IndInv, TypeOK
  <1>3. ASSUME NEW j \in Jobs, jobs[j] # "processing" PROVE ~Inserts(j)
    BY <1>2, <1>3 DEF Inserts, Ownership, Working
  <1>4. ASSUME NEW v \in Workers, pc[v] \in Unparked \cup {"claim"},
               Inserts(job[v])
        PROVE pc[v] = "queue" /\ pc'[v] = "park"
    BY <1>2, <1>4 DEF Inserts, Ownership, Unparked, Working
  <1>5. ASSUME NEW w \in Workers, pc'[w] \in Unparked PROVE pmc'[job'[w]] = "none"
    <2>1. Continues(w, Unparked \cup {"claim"})
      BY <1>1, <1>5 DEF UnparkedEffect
    <2>2. job[w] \in Jobs
      BY <2>1, JobAtHand DEF Continues, Unparked
    <2>3. pmc[job[w]] = "none"
      BY <1>2, <2>1, <2>2 DEF Continues, RowsInv, Ownership
    <2>4. QED
      BY <1>1, <1>4, <1>5, <2>1, <2>2, <2>3 DEF Continues, PmcEffect, Unparked
  <1>6. ASSUME NEW w \in Workers, pc'[w] \in Retrying
        PROVE pmc'[job'[w]] # "none"
    <2>1. CASE Continues(w, Retrying)
      BY <1>1, <2>1, JobAtHand DEF Continues, RowsInv, PmcEffect
    <2>2. CASE \E r \in todo[w] : job'[w] = r.job
      BY <1>1, <1>2, <2>2 DEF RowsInv, PmcEffect, LocalTypeOK, Row
    <2>3. QED
      BY <1>1, <1>6, <2>1, <2>2 DEF WorkerEffect
  <1>7. ASSUME NEW w \in Workers, NEW r \in todo'[w]
        PROVE pmc'[r.job] # "none"
    <2>1. r \in todo[w] \/ (r.job \in Jobs /\ pmc[r.job] # "none")
      BY <1>1 DEF WorkerEffect, TodoEffect
    <2>2. QED
      BY <1>1, <1>2, <2>1 DEF RowsInv, PmcEffect, LocalTypeOK, Row
  <1>8. ASSUME NEW j \in Jobs, jobs'[j] \in {"none", "queued"}
        PROVE pmc'[j] = "none"
    BY <1>1, <1>3, <1>8 DEF CompletedEffect, PmcEffect, RowsInv
  <1>9. ASSUME NEW j \in Jobs, jobs'[j] = "completed", pmc'[j] # "none"
        PROVE commits'[batch'[j]] # "none"
    <2>1. pmc[j] # "none"
      <3>1. CASE jobs[j] = "completed"
        BY <1>1, <1>3, <1>9, <3>1 DEF PmcEffect
      <3>2. CASE Completes(j)
        <4>1. PICK w \in Workers : pc[w] \in {"rdone", "finish"} /\ job[w] = j
          BY <3>2 DEF Completes
        <4>2. CASE pc[w] = "rdone"
          BY <4>1, <4>2 DEF RowsInv, Retrying
        <4>3. CASE pc[w] = "finish"
          BY <1>1, <1>4, <1>9, <4>1, <4>3 DEF PmcEffect, Unparked, Working
        <4>4. QED
          BY <4>1, <4>2, <4>3
      <3>3. QED
        BY <1>1, <1>9, <3>1, <3>2 DEF CompletedEffect
    <2>2. batch[j] \in Roots /\ batch'[j] = batch[j]
      BY <1>1, <1>2, <2>1 DEF AtHand
    <2>3. commits[batch[j]] # "none"
      <3>1. CASE jobs[j] = "completed"
        BY <2>1, <3>1 DEF RowsInv
      <3>2. ASSUME NEW w \in Workers, pc[w] = "rdone", job[w] = j
            PROVE commits[batch[j]] # "none"
        BY <3>2 DEF RecInv, Marking, Root
      <3>3. ASSUME NEW w \in Workers, pc[w] = "finish", job[w] = j
            PROVE FALSE
        BY <2>1, <3>3 DEF RowsInv, Unparked, Working
      <3>4. QED
        BY <1>1, <1>9, <3>1, <3>2, <3>3 DEF CompletedEffect, Completes
    <2>4. QED
      BY <1>1, <2>2, <2>3 DEF MarkEffect
  <1>10. QED
    BY <1>5, <1>6, <1>7, <1>8, <1>9 DEF RowsInv
-----------------------------------------------------------------------------
(* The theorems.                                                           *)

(* The invariant behind all the others: what a worker knows locally stays  *)
(* true of the rows and of the chain it shares with the other processes.   *)
THEOREM Invariance == Spec => []IndInv
  BY InitIndInv, IndInvStep, PTL DEF Spec

(* Every variable keeps its type: no step of the worker leaves a status    *)
(* outside JobStatus or the CHECK of migrations/016, and attempt_count     *)
(* does not pass MAX_COMMIT_RETRIES.                                       *)
THEOREM TypeCorrect == Spec => []TypeOK
  <1>1. IndInv => TypeOK
    BY DEF IndInv
  <1>2. QED
    BY <1>1, Invariance, PTL

(* dequeue hands a job to one worker, and until that worker settles or     *)
(* drops it the job is processing and nobody else's, for any number of     *)
(* processes, crashes and SQL failures.                                    *)
THEOREM OwnershipHolds == Spec => []Ownership
  <1>1. IndInv => Ownership
    BY DEF IndInv
  <1>2. QED
    BY <1>1, Invariance, PTL

(* What the tables record as anchored is on the chain.                     *)
THEOREM AnchorSoundHolds == Spec => []AnchorSound
  <1>1. IndInv => AnchorSound
    BY DEF IndInv
  <1>2. QED
    BY <1>1, Invariance, PTL

(* The worker processes implement the status machine of JobLifecycle: each *)
(* of their steps is one of its steps or leaves the jobs table alone.      *)
THEOREM LifecycleRefined == Spec => LifecycleSpec
  <1>1. Init => Lifecycle!Init
    BY DEF Init, QueueInit, Lifecycle!Init
  <1>2. IndInv /\ [Next]_vars => [Lifecycle!Next]_jobs
    BY LifecycleStep
  <1>3. QED
    BY <1>1, <1>2, Invariance, PTL DEF Spec, LifecycleSpec, Lifecycle!Spec

(* A pending commit is marked committed, and a job that was parked is      *)
(* completed, only after its root is on the chain and in                   *)
(* timestamp_commits, for any interleaving of the retry loops of several   *)
(* processes with each other, with crashes and with SQL failures.          *)
THEOREM RetriedIsAnchoredHolds == Spec => []RetriedIsAnchored
  <1>1. Init => RecInv /\ RowsInv
    BY DEF Init, QueueInit, RecInv, RowsInv, Marking, CommittedIsRecorded,
           Unparked, Working, Retrying
  <1>2. IndInv /\ RecInv /\ RowsInv => RetriedIsAnchored
    BY DEF RecInv, RowsInv, RetriedIsAnchored, IndInv, AnchorSound, AtHand
  <1>3. QED
    BY <1>1, <1>2, RecInvStep, RowsInvStep, Invariance, PTL DEF Spec
-----------------------------------------------------------------------------
(* For any number of workers: what the other tables bear out of a job's    *)
(* status as long as no SQL statement has failed.                          *)
NotRunning == {"down", "exited"}

Recorded(j)  == commits[batch[j]] # "none" /\ stamp[j] = "all"
Rootless(j)  == batch[j] = NoRoot

(* What a worker that has met no SQL error has done by the time it is at   *)
(* one of these statements; what a job's status then stands for.           *)
PlaceInv(w) ==
  /\ pc[w] = "stamp" => commits[Root(w)] # "none"
  /\ pc[w] \in {"rmark", "rdone"} => stamp[job[w]] = "all"
  /\ pc[w] = "park" => pmc[job[w]] # "none"
  /\ AlwaysClient =>
       /\ pc[w] \notin NotRunning => client[w]
       /\ pc[w] = "finish" => Rootless(job[w]) \/ Recorded(job[w])

JobStatusInv(j) ==
  /\ jobs[j] = "pending_commit" => pmc[j] # "none"
  /\ AlwaysClient /\ jobs[j] = "completed" => Rootless(j) \/ Recorded(j)

TruthInv ==
  faults = 0 => /\ \A w \in Workers : PlaceInv(w)
                /\ \A j \in Jobs : JobStatusInv(j)
-----------------------------------------------------------------------------
(* What a step without an SQL error does to the rows that TruthInv reads.  *)

(* A batch gets its root from the worker that fetches it; a stamped batch  *)
(* stays stamped; a job is parked by its worker.                           *)
RowsEffect ==
  /\ \A j \in Jobs : stamp[j] = "all" => stamp'[j] = "all"
  /\ \A j \in Jobs : batch'[j] = batch[j]
                       \/ \E w \in Workers : pc[w] = "fetch" /\ job[w] = j
  /\ \A j \in Jobs : jobs'[j] = "pending_commit" =>
       jobs[j] = "pending_commit"
         \/ \E w \in Workers : pc[w] = "park" /\ job[w] = j

LEMMA RowsStep == ASSUME IndInv, [Next]_vars PROVE RowsEffect
  <1> USE DEF RowsEffect, At, Sql, eventVars, queueVars, tableVars
  <1>1. QueueTypeOK /\ LocalTypeOK /\ TableTypeOK
    BY DEF IndInv, TypeOK
  <1> USE DEF QueueTypeOK, TableTypeOK
  <1>2. ASSUME UNCHANGED <<jobs, batch, stamp>> PROVE RowsEffect
    BY <1>2
  <1>3. ASSUME NEW w \in Workers, RetryStamp(w) \/ CommitStamp(w) \/ Fetch(w)
        PROVE  RowsEffect
    <2>1. job[w] \in Jobs
      BY <1>3, JobAtHand DEF RetryStamp, CommitStamp, Fetch, Retrying, Working
    <2>2. CASE RetryStamp(w) \/ CommitStamp(w)
      <3>1. /\ UNCHANGED <<jobs, batch>>
            /\ \/ UNCHANGED stamp
               \/ stamp' = [stamp EXCEPT ![job[w]] = "all"]
               \/ /\ stamp' = [stamp EXCEPT ![job[w]] = "some"]
                  /\ stamp[job[w]] = "none"
        BY <2>2 DEF RetryStamp, CommitStamp
      <3>2. QED
        BY <1>1, <2>1, <3>1
    <2>3. CASE Fetch(w)
      <3>1. /\ UNCHANGED <<jobs, stamp>> /\ pc[w] = "fetch"
            /\ \A j \in Jobs : batch'[j] = batch[j] \/ job[w] = j
        BY <1>1, <2>1, <2>3 DEF Fetch
      <3>2. QED
        BY <3>1
    <2>4. QED
      BY <1>3, <2>2, <2>3
  <1>4. ASSUME NEW w \in Workers,
               \/ Take(w) \/ SetCompleted(w) \/ SetFailed(w) \/ SetParked(w)
               \/ RetryComplete(w) \/ RetryGiveUp(w) \/ RetryFailNoHook(w)
        PROVE  RowsEffect
    <2>1. job[w] \in Jobs
      BY <1>4, JobAtHand
         DEF Take, SetCompleted, SetFailed, SetParked, SetStatus, RetryComplete,
             RetryGiveUp, RetryFailNoHook, ResolveJob, Retrying, Working
    <2>2. /\ UNCHANGED <<batch, stamp>>
          /\ \/ UNCHANGED jobs
             \/ jobs' = [jobs EXCEPT ![job[w]] = "pending_commit"] /\ pc[w] = "park"
             \/ \E s \in {"processing", "completed", "failed"} :
                  jobs' = [jobs EXCEPT ![job[w]] = s]
      BY <1>4
         DEF Take, SetCompleted, SetFailed, SetParked, SetStatus, RetryComplete,
             RetryGiveUp, RetryFailNoHook, ResolveJob, dequeue, update_status,
             resolve_pending
    <2>3. QED
      BY <1>1, <2>1, <2>2
  <1>5. ASSUME NEW j \in Jobs, Enqueue(j) PROVE RowsEffect
    BY <1>1, <1>5 DEF Enqueue, enqueue
  <1>6. ASSUME NEW w \in Workers, RetryStep(w) PROVE RowsEffect
    BY <1>2, <1>3, <1>4, <1>6
       DEF RetryStep, ScanPending, NextRow, RetrySend, RetryAwait, Send, Await,
           RetryStore, RetryMark, RetryError, RetryUnconfigured
  <1>7. ASSUME NEW w \in Workers, JobStep(w) PROVE RowsEffect
    BY <1>2, <1>3, <1>4, <1>7
       DEF JobStep, Dequeue, Crawl, Charge, StoreResults, CommitSend,
           CommitAwait, Send, Await, CommitStore, QueueRetry, SetSummary
  <1>8. QED
    BY <1>2, <1>5, <1>6, <1>7
       DEF Next, WorkerStep, fire_webhooks, Notify, ComeDue, Start, Crash,
           MineElsewhere, vars
-----------------------------------------------------------------------------
(* How a worker gets to the places that PlaceInv speaks of.                *)

PlaceEffect(w) ==
  /\ pc'[w] = "stamp" =>
       /\ Continues(w, {"store", "stamp"})
       /\ pc[w] = "store" => commits'[Root(w)] # "none"
  /\ pc'[w] \in {"rmark", "rdone"} =>
       /\ Continues(w, {"rstamp", "rmark", "rdone"})
       /\ pc[w] = "rstamp" => stamp'[job[w]] = "all"
  /\ pc'[w] = "park" =>
       /\ Continues(w, {"queue", "park"})
       /\ pc[w] = "queue" => pmc'[job[w]] # "none"
  /\ pc'[w] = "finish" =>
       /\ Continues(w, {"results", "fetch", "stamp", "finish"})
       /\ pc[w] = "stamp" => stamp'[job[w]] = "all"
       /\ pc[w] \in {"results", "fetch"} /\ client[w] =>
            batch'[job[w]] = batch[job[w]]
  /\ AlwaysClient /\ pc'[w] \notin NotRunning =>
       client'[w] \/ (pc[w] \notin NotRunning /\ client'[w] = client[w])

PlacesEffect == \A w \in Workers : PlaceEffect(w)

LEMMA PlacesStep ==
  ASSUME IndInv, [Next]_vars, faults' = 0 PROVE PlacesEffect /\ faults = 0
  <1> USE DEF PlacesEffect, PlaceEffect, Continues, Goto, At, KeepLocals, Sql,
              localVars, NotRunning
  <1>1. LocalTypeOK /\ TableTypeOK /\ faults \in Nat
    BY ConstantsOK DEF IndInv, TypeOK
  <1>2. ~DbFault
    BY <1>1 DEF DbFault
  <1> USE DEF LocalTypeOK
  <1> HIDE DEF PlacesEffect, PlaceEffect
  (* A worker whose step leads to none of these places. *)
  <1>3. ASSUME NEW w \in Workers, NEW l \in PcLabels, pc' = [pc EXCEPT ![w] = l],
               l \notin {"stamp", "rmark", "rdone", "park", "finish"},
               \A v \in Workers \ {w} : job'[v] = job[v],
               UNCHANGED client, l \notin NotRunning => pc[w] \notin NotRunning
        PROVE  PlacesEffect
    BY <1>1, <1>3 DEF PlacesEffect, PlaceEffect
  <1>4. ASSUME UNCHANGED <<pc, job, client>> PROVE PlacesEffect
    BY <1>4 DEF PlacesEffect, PlaceEffect
  <1>5. ASSUME NEW w \in Workers,
               \/ ScanPending(w) \/ NextRow(w) \/ RetrySend(w) \/ RetryAwait(w)
               \/ RetryStore(w) \/ RetryError(w) \/ RetryUnconfigured(w)
               \/ RetryComplete(w) \/ RetryGiveUp(w) \/ RetryFailNoHook(w)
        PROVE  PlacesEffect /\ faults = 0
    <2>1. \E l \in PcLabels \ ({"stamp", "rmark", "rdone", "park", "finish"}
                                 \cup NotRunning) : pc' = [pc EXCEPT ![w] = l]
      BY <1>2, <1>5
         DEF ScanPending, NextRow, RetrySend, RetryAwait, Send, Await, RetryStore,
             RetryError, RetryUnconfigured, RetryComplete, RetryGiveUp,
             RetryFailNoHook, ResolveJob, PcLabels, Busy, Idle, Retrying
    <2>2. /\ pc[w] \notin NotRunning /\ UNCHANGED client /\ faults = 0
          /\ \A v \in Workers \ {w} : job'[v] = job[v]
      BY <1>1, <1>2, <1>5
         DEF ScanPending, NextRow, RetrySend, RetryAwait, Send, Await, RetryStore,
             RetryError, RetryUnconfigured, RetryComplete, RetryGiveUp,
             RetryFailNoHook, ResolveJob, DbOk
    <2>3. QED
      BY <1>3, <2>1, <2>2
  <1>6. ASSUME NEW w \in Workers,
               \/ Dequeue(w) \/ Take(w) \/ Crawl(w) \/ Charge(w)
               \/ CommitSend(w) \/ CommitAwait(w)
        PROVE  PlacesEffect /\ faults = 0
    <2>1. \E l \in PcLabels \ {"stamp", "rmark", "rdone", "park", "finish"} :
            pc' = [pc EXCEPT ![w] = l]
      BY <1>2, <1>6
         DEF Dequeue, Take, Crawl, Charge, CommitSend, CommitAwait, Send, Await,
             Forget, PcLabels, Busy, Idle, Working, Closing
    <2>2. /\ pc[w] \notin NotRunning /\ UNCHANGED client /\ faults = 0
          /\ \A v \in Workers \ {w} : job'[v] = job[v]
      BY <1>1, <1>2, <1>6
         DEF Dequeue, Take, Crawl, Charge, CommitSend, CommitAwait, Send, Await,
             Forget, DbOk
    <2>3. QED
      BY <1>3, <2>1, <2>2
  <1>7. ASSUME NEW w \in Workers,
               \/ SetCompleted(w) \/ SetFailed(w) \/ SetParked(w)
               \/ SetSummary(w) \/ fire_webhooks(w) \/ Crash(w)
        PROVE  PlacesEffect /\ faults = 0
    <2>1. \E l \in PcLabels \ {"stamp", "rmark", "rdone", "park", "finish"} :
            /\ pc' = [pc EXCEPT ![w] = l]
            /\ l \notin NotRunning => pc[w] \notin NotRunning
      BY <1>2, <1>7
         DEF SetCompleted, SetFailed, SetParked, SetStatus, SetSummary,
             fire_webhooks, Notify, Crash, Forget, PcLabels, Busy, Idle, Closing
    <2>2. /\ UNCHANGED client /\ faults = 0
          /\ \A v \in Workers \ {w} : job'[v] = job[v]
      BY <1>1, <1>2, <1>7
         DEF SetCompleted, SetFailed, SetParked, SetStatus, SetSummary,
             fire_webhooks, Notify, Crash, Forget, DbOk
    <2>3. QED
      BY <1>3, <2>1, <2>2
  <1>8. ASSUME NEW w \in Workers, Start(w) PROVE PlacesEffect /\ faults = 0
    <2>1. /\ UNCHANGED job /\ faults = 0
          /\ \E l \in {"retry", "exited"} : pc' = [pc EXCEPT ![w] = l]
          /\ \E c \in BOOLEAN : /\ client' = [client EXCEPT ![w] = c]
                                /\ AlwaysClient => c
      BY <1>8 DEF Start, AlwaysClient
    <2>2. QED
      BY <1>1, <2>1 DEF PlacesEffect, PlaceEffect
  <1>9. ASSUME NEW w \in Workers,
               RetryStamp(w) \/ RetryMark(w) \/ StoreResults(w) \/ QueueRetry(w)
        PROVE  PlacesEffect /\ faults = 0
    <2>1. job[w] \in Jobs
      BY <1>9, JobAtHand
         DEF RetryStamp, RetryMark, StoreResults, QueueRetry, Retrying, Working
    <2>2. /\ UNCHANGED <<job, client>> /\ faults = 0
          /\ \/ /\ pc[w] = "rstamp" /\ pc' = [pc EXCEPT ![w] = "rmark"]
                /\ stamp' = [stamp EXCEPT ![job[w]] = "all"]
             \/ pc[w] = "rmark" /\ pc' = [pc EXCEPT ![w] = "rdone"]
             \/ /\ pc[w] = "results" /\ pc' = [pc EXCEPT ![w] = "finish"]
                /\ UNCHANGED batch
             \/ /\ pc[w] = "queue" /\ pc' = [pc EXCEPT ![w] = "park"]
                /\ pmc' = [pmc EXCEPT ![job[w]] = "pending"]
      BY <1>2, <1>9
         DEF RetryStamp, RetryMark, StoreResults, QueueRetry, DbOk, SetRow,
             eventVars
    <2>3. QED
      BY <1>1, <2>1, <2>2 DEF PlacesEffect, PlaceEffect, TableTypeOK
  <1>10. ASSUME NEW w \in Workers, Fetch(w) PROVE PlacesEffect /\ faults = 0
    <2>1. /\ UNCHANGED <<job, client>> /\ faults = 0 /\ pc[w] = "fetch"
          /\ \/ \E l \in {"fail", "send"} : pc' = [pc EXCEPT ![w] = l]
             \/ /\ pc' = [pc EXCEPT ![w] = "finish"]
                /\ UNCHANGED batch \/ ~client[w]
      BY <1>10 DEF Fetch
    <2>2. QED
      BY <1>1, <2>1 DEF PlacesEffect, PlaceEffect
  <1>11. ASSUME NEW w \in Workers, CommitStore(w) \/ CommitStamp(w)
         PROVE  PlacesEffect /\ faults = 0
    <2>1. job[w] \in Jobs /\ Root(w) \in Roots /\ receipt[w] # "none"
      BY <1>1, <1>11, JobAtHand
         DEF CommitStore, CommitStamp, IndInv, AtHand, Rooted, Working,
             ReceiptStatus
    <2>2. CASE CommitStore(w)
      <3>1. /\ UNCHANGED <<job, client, batch>> /\ faults = 0 /\ pc[w] = "store"
            /\ pc' = [pc EXCEPT ![w] = "stamp"] /\ InsertCommit(w)
        BY <1>2, <2>2 DEF CommitStore, DbOk, eventVars
      <3>2. commits'[Root(w)] # "none"
        BY <1>1, <2>1, <3>1 DEF InsertCommit, TableTypeOK
      <3>3. QED
        BY <1>1, <3>1, <3>2 DEF PlacesEffect, PlaceEffect
    <2>3. CASE CommitStamp(w)
      <3>1. /\ UNCHANGED <<job, client>> /\ faults = 0 /\ pc[w] = "stamp"
            /\ \/ UNCHANGED pc
               \/ /\ pc' = [pc EXCEPT ![w] = "finish"]
                  /\ stamp' = [stamp EXCEPT ![job[w]] = "all"]
        BY <1>2, <2>3 DEF CommitStamp, DbOk
      <3>2. QED
        BY <1>1, <2>1, <3>1 DEF PlacesEffect, PlaceEffect, TableTypeOK
    <2>4. QED
      BY <1>11, <2>2, <2>3
  <1>12. CASE \/ \E j \in Jobs : Enqueue(j) \/ ComeDue(j)
              \/ \E r \in Roots : MineElsewhere(r)
              \/ UNCHANGED vars
    BY <1>4, <1>12 DEF Enqueue, ComeDue, MineElsewhere, vars
  <1>13. QED
    BY <1>5, <1>6, <1>7, <1>8, <1>9, <1>10, <1>11, <1>12
       DEF Next, WorkerStep, RetryStep, JobStep
-----------------------------------------------------------------------------
(* TruthInv is preserved, relative to the invariants of JobPipelineProofs. *)

LEMMA TruthInvStep ==
  IndInv /\ RecInv /\ RowsInv /\ TruthInv /\ [Next]_vars => TruthInv'
  <1> SUFFICES ASSUME IndInv, RecInv, RowsInv, TruthInv, [Next]_vars, faults' = 0
               PROVE  /\ \A w \in Workers : PlaceInv(w)'
                      /\ \A j \in Jobs : JobStatusInv(j)'
    BY DEF TruthInv
  <1>1. /\ PlacesEffect /\ RowsEffect /\ PmcEffect /\ CompletedEffect /\ MarkEffect
        /\ faults = 0
        /\ \A j \in Jobs : batch[j] \in Roots => batch'[j] = batch[j]
    BY PlacesStep, RowsStep, PmcStep, CompletedStep, MarkStep, EventsStep
  <1>2. /\ \A w \in Workers : PlaceInv(w)
        /\ \A j \in Jobs : JobStatusInv(j)
    BY <1>1 DEF TruthInv
  <1>3. LocalTypeOK /\ TableTypeOK /\ NoRoot \notin Roots
    BY ConstantsOK DEF IndInv, TypeOK
  (* A recorded batch stays recorded. *)
  <1>4. ASSUME NEW j \in Jobs, batch[j] \in Roots, Recorded(j) PROVE Recorded(j)'
    BY <1>1, <1>4 DEF Recorded, MarkEffect, RowsEffect
  (* A job that nobody fetches keeps its batch. *)
  <1>5. ASSUME NEW j \in Jobs, Rootless(j) \/ Recorded(j),
               \A w \in Workers : ~(pc[w] = "fetch" /\ job[w] = j)
        PROVE  Rootless(j)' \/ Recorded(j)'
    <2>1. CASE batch[j] \in Roots
      BY <1>3, <1>4, <1>5, <2>1 DEF Rootless
    <2>2. CASE batch[j] \notin Roots
      BY <1>1, <1>3, <1>5, <2>2 DEF Rootless, RowsEffect, TableTypeOK
    <2>3. QED
      BY <2>1, <2>2
  <1>6. ASSUME NEW w \in Workers PROVE PlaceInv(w)'
    <2>1. PlaceEffect(w) /\ PlaceInv(w)
      BY <1>1, <1>2 DEF PlacesEffect
    <2>2. ASSUME pc'[w] = "stamp" PROVE commits'[batch'[job'[w]]] # "none"
      <3>1. Continues(w, {"store", "stamp"}) /\ Root(w) \in Roots /\ job[w] \in Jobs
        BY <2>1, <2>2, JobAtHand
           DEF PlaceEffect, Continues, IndInv, AtHand, Rooted, Working
      <3>2. commits'[Root(w)] # "none"
        BY <1>1, <2>1, <2>2, <3>1 DEF PlaceEffect, PlaceInv, Continues, MarkEffect
      <3>3. QED
        BY <1>1, <3>1, <3>2 DEF Root, Continues
    <2>3. ASSUME pc'[w] \in {"rmark", "rdone"} PROVE stamp'[job'[w]] = "all"
      <3>1. /\ Continues(w, {"rstamp", "rmark", "rdone"}) /\ job[w] \in Jobs
        BY <2>1, <2>3, JobAtHand DEF PlaceEffect, Continues, Retrying
      <3>2. QED
        BY <1>1, <2>1, <2>3, <3>1 DEF PlaceEffect, PlaceInv, Continues, RowsEffect
    <2>4. ASSUME pc'[w] = "park" PROVE pmc'[job'[w]] # "none"
      <3>1. Continues(w, {"queue", "park"}) /\ job[w] \in Jobs
        BY <2>1, <2>4, JobAtHand DEF PlaceEffect, Continues, Working
      <3>2. QED
        BY <1>1, <2>1, <2>4, <3>1 DEF PlaceEffect, PlaceInv, Continues, PmcEffect
    <2>5. ASSUME AlwaysClient, pc'[w] \notin NotRunning PROVE client'[w]
      BY <2>1, <2>5 DEF PlaceEffect, PlaceInv
    <2>6. ASSUME AlwaysClient, pc'[w] = "finish"
          PROVE  \/ batch'[job'[w]] = NoRoot
                 \/ commits'[batch'[job'[w]]] # "none" /\ stamp'[job'[w]] = "all"
      <3>1. /\ Continues(w, {"results", "fetch", "stamp", "finish"})
            /\ job[w] \in Jobs /\ client[w]
        BY <2>1, <2>6, JobAtHand
           DEF PlaceEffect, PlaceInv, Continues, Working, NotRunning
      <3>2. CASE pc[w] \in {"results", "fetch"}
        <4>1. batch[job[w]] = NoRoot /\ batch'[job[w]] = batch[job[w]]
          BY <2>1, <2>6, <3>1, <3>2
             DEF PlaceEffect, IndInv, Freshness, Early, Untouched
        <4>2. QED
          BY <3>1, <4>1 DEF Continues
      <3>3. CASE pc[w] = "stamp"
        <4>1. /\ batch[job[w]] \in Roots /\ commits[batch[job[w]]] # "none"
              /\ stamp'[job[w]] = "all"
          BY <2>1, <2>6, <3>1, <3>3
             DEF PlaceEffect, PlaceInv, IndInv, AtHand, Rooted, Root
        <4>2. QED
          BY <1>1, <3>1, <4>1 DEF Continues, MarkEffect
      <3>4. CASE pc[w] = "finish"
        <4>1. \A v \in Workers : ~(pc[v] = "fetch" /\ job[v] = job[w])
          BY <3>4 DEF IndInv, Ownership, Working
        <4>2. PICK j \in Jobs : j = job[w]
          BY <3>1
        <4>3. Rootless(j)' \/ Recorded(j)'
          BY <1>5, <2>1, <2>6, <3>4, <4>1, <4>2 DEF PlaceInv
        <4>4. QED
          BY <3>1, <4>2, <4>3 DEF Rootless, Recorded, Continues
      <3>5. QED
        BY <3>1, <3>2, <3>3, <3>4 DEF Continues
    <2>7. QED
      BY <2>2, <2>3, <2>4, <2>5, <2>6 DEF PlaceInv, Root, Rootless, Recorded
  <1>7. ASSUME NEW j \in Jobs, jobs'[j] = "pending_commit" PROVE pmc'[j] # "none"
    BY <1>1, <1>2, <1>7 DEF RowsEffect, PmcEffect, JobStatusInv, PlaceInv
  <1>8. ASSUME NEW j \in Jobs, AlwaysClient, jobs'[j] = "completed"
        PROVE  Rootless(j)' \/ Recorded(j)'
    <2>1. CASE jobs[j] = "completed"
      <3>1. \A w \in Workers : ~(pc[w] = "fetch" /\ job[w] = j)
        BY <2>1 DEF IndInv, Ownership, Working
      <3>2. QED
        BY <1>2, <1>5, <1>8, <2>1, <3>1 DEF JobStatusInv
    <2>2. ASSUME NEW w \in Workers, pc[w] = "finish", job[w] = j
          PROVE  Rootless(j)' \/ Recorded(j)'
      <3>1. \A v \in Workers : ~(pc[v] = "fetch" /\ job[v] = j)
        BY <2>2 DEF IndInv, Ownership, Working
      <3>2. QED
        BY <1>2, <1>5, <1>8, <2>2, <3>1 DEF PlaceInv
    <2>3. ASSUME NEW w \in Workers, pc[w] = "rdone", job[w] = j
          PROVE  Recorded(j)'
      <3>1. batch[j] \in Roots /\ commits[batch[j]] # "none" /\ stamp[j] = "all"
        BY <1>2, <2>3
           DEF PlaceInv, RecInv, Marking, IndInv, AtHand, Rooted, Retrying, Root
      <3>2. QED
        BY <1>4, <3>1 DEF Recorded
    <2>4. QED
      BY <1>1, <1>8, <2>1, <2>2, <2>3 DEF CompletedEffect, Completes
  <1>9. QED
    BY <1>6, <1>7, <1>8 DEF JobStatusInv
-----------------------------------------------------------------------------
(* As long as no SQL statement has failed, a completed job that had a      *)
(* client is recorded and stamped and a parked job has a row, whatever     *)
(* is killed and whatever the chain does, for any number of processes.     *)
TruthfulRows ==
  faults = 0 =>
    /\ CompletedIsVerifiable
    /\ \A j \in Jobs : jobs[j] = "pending_commit" => pmc[j] # "none"

LEMMA TruthInvInit == Init => RecInv /\ RowsInv /\ TruthInv
  BY DEF Init, QueueInit, RecInv, RowsInv, Marking, CommittedIsRecorded,
         Unparked, Working, Retrying, TruthInv, PlaceInv, JobStatusInv,
         NotRunning

LEMMA TruthInvImplies == TruthInv => TruthfulRows
  BY DEF TruthInv, JobStatusInv, TruthfulRows, CompletedIsVerifiable, Rootless,
         Recorded

THEOREM TruthfulRowsHolds == Spec => []TruthfulRows
  BY TruthInvInit, TruthInvImplies, RecInvStep, RowsInvStep, TruthInvStep,
     Invariance, PTL DEF Spec
-----------------------------------------------------------------------------
(* One worker: the bookkeeping of the retries, whatever is killed or fails. *)
OneWorker == \A v, w \in Workers : v = w

(* A retried row that has not been settled. *)
AtPending ==
  {"rsend", "rsent", "rstore", "rstamp", "rmark", "rerr", "runconf"}

(* What the one worker has selected is still what the table says: the row  *)
(* at hand and the rows it has not come to are pending, with the           *)
(* attempt_count that was selected, and are rows of different jobs.        *)
RetryInv ==
  /\ \A w \in Workers : pc[w] \in AtPending =>
       pmc[job[w]] = "pending" /\ att[w] = attempts[job[w]]
  /\ \A w \in Workers : \A r \in todo[w] :
       /\ pmc[r.job] = "pending" /\ r.att = attempts[r.job]
       /\ pc[w] \in Retrying => r.job # job[w]

(* What RetryProgress says of a step. *)
Progress ==
  \A j \in Jobs :
    /\ attempts[j] <= attempts'[j]
    /\ pmc[j] \in {"committed", "failed"} =>
         pmc'[j] = pmc[j] /\ attempts'[j] = attempts[j]

(* A step of w that leaves the rows alone and selects nothing. *)
Carries(w) ==
  /\ todo'[w] \subseteq todo[w]
  /\ pc'[w] \in AtPending => Continues(w, AtPending) /\ att'[w] = att[w]
  /\ pc'[w] \in Retrying => Continues(w, Retrying)

LEMMA CarriesRetry ==
  ASSUME IndInv, RetryInv, UNCHANGED <<pmc, attempts>>,
         \A w \in Workers : Carries(w)
  PROVE  RetryInv' /\ Progress
  <1>1. RetryInv'
    BY DEF RetryInv, Carries, Continues
  <1>2. Progress
    BY ConstantsOK DEF Progress, IndInv, TypeOK, TableTypeOK, Attempts
  <1>3. QED
    BY <1>1, <1>2

(* The steps that leave the rows alone. *)
LEMMA CarriesStep ==
  ASSUME IndInv, NEW w \in Workers,
         \/ RetrySend(w) \/ RetryAwait(w) \/ RetryStore(w) \/ RetryStamp(w)
         \/ RetryComplete(w) \/ RetryGiveUp(w) \/ RetryFailNoHook(w)
         \/ Dequeue(w) \/ Take(w) \/ Crawl(w) \/ Charge(w) \/ StoreResults(w)
         \/ Fetch(w) \/ CommitSend(w) \/ CommitAwait(w) \/ CommitStore(w)
         \/ CommitStamp(w) \/ SetCompleted(w) \/ SetFailed(w) \/ SetParked(w)
         \/ SetSummary(w) \/ fire_webhooks(w) \/ Start(w) \/ Crash(w)
  PROVE  UNCHANGED <<pmc, attempts>> /\ Carries(w)
  <1> USE DEF Carries, Continues, AtPending, Retrying, Goto, At, KeepLocals
  <1>1. LocalTypeOK
    BY DEF IndInv, TypeOK
  <1> USE DEF LocalTypeOK, tableVars, pmcVars
  <1>2. CASE RetrySend(w) \/ RetryAwait(w) \/ CommitSend(w) \/ CommitAwait(w)
    BY <1>1, <1>2
       DEF RetrySend, RetryAwait, CommitSend, CommitAwait, Send, Await
  <1>3. CASE RetryStore(w) \/ RetryStamp(w)
    BY <1>1, <1>3 DEF RetryStore, RetryStamp
  <1>4. CASE RetryComplete(w) \/ RetryGiveUp(w) \/ RetryFailNoHook(w)
    BY <1>1, <1>4
       DEF RetryComplete, RetryGiveUp, RetryFailNoHook, ResolveJob
  <1>5. CASE Dequeue(w) \/ Take(w) \/ Crawl(w) \/ Charge(w) \/ StoreResults(w)
    BY <1>1, <1>5 DEF Dequeue, Take, Crawl, Charge, StoreResults, Forget
  <1>6. CASE Fetch(w) \/ CommitStore(w) \/ CommitStamp(w)
    BY <1>1, <1>6 DEF Fetch, CommitStore, CommitStamp
  <1>7. CASE SetCompleted(w) \/ SetFailed(w) \/ SetParked(w) \/ SetSummary(w)
    BY <1>1, <1>7
       DEF SetCompleted, SetFailed, SetParked, SetStatus, SetSummary, Forget
  <1>8. CASE fire_webhooks(w)
    BY <1>1, <1>8 DEF fire_webhooks, Notify
  <1>9. CASE Start(w) \/ Crash(w)
    BY <1>1, <1>9 DEF Start, Crash, Forget
  <1>10. QED
    BY <1>2, <1>3, <1>4, <1>5, <1>6, <1>7, <1>8, <1>9

LEMMA RetryInvStep ==
  ASSUME OneWorker, IndInv, RowsInv, RetryInv, [Next]_vars
  PROVE  RetryInv' /\ Progress
  <1> DEFINE Good == RetryInv' /\ Progress
  <1> USE DEF Goto, At, KeepLocals, Sql, SetRow, pmcVars
  <1>1. LocalTypeOK /\ TableTypeOK
    BY DEF IndInv, TypeOK
  <1>2. /\ Attempts \subseteq Nat
        /\ \A j \in Jobs : attempts[j] \in Nat
    BY <1>1, ConstantsOK DEF Attempts, TableTypeOK
  <1>3. ASSUME NEW w \in Workers,
               pc'[w] \in AtPending =>
                 pmc'[job'[w]] = "pending" /\ att'[w] = attempts'[job'[w]],
               \A r \in todo'[w] :
                 /\ pmc'[r.job] = "pending" /\ r.att = attempts'[r.job]
                 /\ pc'[w] \in Retrying => r.job # job'[w]
        PROVE  RetryInv'
    <2>1. \A v \in Workers : v = w
      BY DEF OneWorker
    <2>2. QED
      BY <1>3, <2>1 DEF RetryInv
  <1>4. ASSUME NEW w \in Workers, UNCHANGED <<pmc, attempts>>, Carries(w)
        PROVE  Good
    <2>1. \A v \in Workers : Carries(v)
      BY <1>4 DEF OneWorker
    <2>2. QED
      BY <1>4, <2>1, CarriesRetry
  <1>5. ASSUME NEW w \in Workers, ScanPending(w) PROVE Good
    <2>1. /\ UNCHANGED <<pmc, attempts, job, att>> /\ pc[w] = "retry"
          /\ \/ /\ pc' = [pc EXCEPT ![w] = "dequeue"] /\ UNCHANGED todo
             \/ /\ pc' = [pc EXCEPT ![w] = "rows"]
                /\ \A r \in todo'[w] : pmc[r.job] = "pending" /\ r.att = attempts[r.job]
      BY <1>1, <1>5 DEF ScanPending, DueJobs, LocalTypeOK, tableVars
    <2>2. pc'[w] \notin AtPending \cup Retrying
      BY <1>1, <2>1 DEF LocalTypeOK, AtPending, Retrying
    <2>3. \A r \in todo'[w] : pmc[r.job] = "pending" /\ r.att = attempts[r.job]
      BY <2>1 DEF RetryInv
    <2>4. RetryInv'
      BY <1>3, <2>1, <2>2, <2>3
    <2>5. Progress
      BY <1>2, <2>1 DEF Progress
    <2>6. QED
      BY <2>4, <2>5
  <1>6. ASSUME NEW w \in Workers, NextRow(w) PROVE Good
    <2>1. UNCHANGED <<pmc, attempts>> /\ pc[w] = "rows"
      BY <1>6 DEF NextRow, tableVars
    <2>2. Progress
      BY <1>2, <2>1 DEF Progress
    <2>3. CASE todo[w] = {} /\ Goto(w, "dequeue") /\ UNCHANGED todo
      <3>1. pc'[w] = "dequeue"
        BY <1>1, <2>3 DEF LocalTypeOK
      <3>2. Carries(w)
        BY <2>3, <3>1 DEF Carries, AtPending, Retrying
      <3>3. QED
        BY <1>4, <2>1, <3>2
    <2>4. ASSUME NEW r \in todo[w],
                 todo' = [todo EXCEPT ![w] = @ \ {r}],
                 job' = [job EXCEPT ![w] = r.job],
                 att' = [att EXCEPT ![w] = r.att]
          PROVE  RetryInv'
      <3>1. /\ todo'[w] = todo[w] \ {r} /\ job'[w] = r.job /\ att'[w] = r.att
        BY <1>1, <2>4 DEF LocalTypeOK
      <3>2. \A q \in todo[w] : pmc[q.job] = "pending" /\ q.att = attempts[q.job]
        BY DEF RetryInv
      <3>3. \A q \in todo[w] \ {r} : q.job # r.job
        <4>1. todo[w] \in SUBSET Row
          BY <1>1 DEF LocalTypeOK
        <4>2. QED
          BY <3>2, <4>1 DEF Row
      <3>4. QED
        BY <1>3, <2>1, <3>1, <3>2, <3>3 DEF RetryInv
    <2>5. QED
      BY <1>6, <2>2, <2>3, <2>4 DEF NextRow
  (* A statement on the row at hand, which is pending. *)
  <1>7. ASSUME NEW w \in Workers, pc[w] \in AtPending, UNCHANGED <<job, att, todo>>,
               pc'[w] \notin AtPending, job[w] \in Jobs,
               NEW s \in {"pending", "committed", "failed"},
               NEW n \in {att[w], att[w] + 1},
               pmc' = [pmc EXCEPT ![job[w]] = s],
               attempts' = [attempts EXCEPT ![job[w]] = n]
        PROVE  Good
    <2>1. /\ pmc[job[w]] = "pending" /\ att[w] = attempts[job[w]] /\ att[w] \in Nat
          /\ \A r \in todo[w] : /\ pmc[r.job] = "pending" /\ r.att = attempts[r.job]
                                /\ r.job # job[w] /\ r.job \in Jobs
      <3>1. pc[w] \in Retrying
        BY <1>7 DEF AtPending, Retrying
      <3>2. todo[w] \in SUBSET Row /\ att[w] \in Attempts
        BY <1>1 DEF LocalTypeOK
      <3>3. \A r \in todo[w] : r.job \in Jobs
        BY <3>2 DEF Row
      <3>4. QED
        BY <1>2, <1>7, <3>1, <3>2, <3>3 DEF RetryInv
    <2>2. \A j \in Jobs : /\ j # job[w] => pmc'[j] = pmc[j] /\ attempts'[j] = attempts[j]
                          /\ attempts'[job[w]] = n
      BY <1>1, <1>7 DEF TableTypeOK
    <2>3. RetryInv'
      BY <1>3, <1>7, <2>1, <2>2 DEF RetryInv
    <2>4. Progress
      BY <1>2, <1>7, <2>1, <2>2 DEF Progress
    <2>5. QED
      BY <2>3, <2>4
  <1>8. ASSUME NEW w \in Workers, RetryMark(w) \/ RetryUnconfigured(w) \/ RetryError(w)
        PROVE  Good
    <2>1. job[w] \in Jobs
      BY <1>8, JobAtHand DEF RetryMark, RetryUnconfigured, RetryError, Retrying
    <2>2. /\ pc[w] \in AtPending /\ pc'[w] \notin AtPending
          /\ UNCHANGED <<job, att, todo>>
      BY <1>1, <1>8
         DEF RetryMark, RetryUnconfigured, RetryError, AtPending, LocalTypeOK
    <2>3. pmc[job[w]] = "pending" /\ att[w] = attempts[job[w]]
      BY <2>2 DEF RetryInv
    <2>4. /\ \/ pmc' = pmc
             \/ \E s \in {"committed", "failed"} : pmc' = [pmc EXCEPT ![job[w]] = s]
          /\ attempts' = attempts \/ attempts' = [attempts EXCEPT ![job[w]] = att[w] + 1]
      BY <1>8 DEF RetryMark, RetryUnconfigured, RetryError
    <2>5. /\ pmc = [pmc EXCEPT ![job[w]] = "pending"]
          /\ attempts = [attempts EXCEPT ![job[w]] = att[w]]
      BY <1>1, <2>1, <2>3 DEF TableTypeOK
    <2>6. /\ \E s \in {"pending", "committed", "failed"} : pmc' = [pmc EXCEPT ![job[w]] = s]
          /\ \E n \in {att[w], att[w] + 1} : attempts' = [attempts EXCEPT ![job[w]] = n]
      BY <2>4, <2>5
    <2>7. QED
      BY <1>7, <2>1, <2>2, <2>6
  <1>9. ASSUME NEW w \in Workers, QueueRetry(w) PROVE Good
    <2>1. /\ job[w] \in Jobs /\ pmc[job[w]] = "none"
      BY <1>9, JobAtHand DEF QueueRetry, Working, RowsInv, Unparked
    <2>2. /\ UNCHANGED <<job, att, todo, attempts>> /\ pc'[w] = "park"
          /\ UNCHANGED pmc \/ pmc' = [pmc EXCEPT ![job[w]] = "pending"]
      BY <1>1, <1>9 DEF QueueRetry, LocalTypeOK
    <2>3. /\ pc'[w] \notin AtPending \cup Retrying
          /\ \A j \in Jobs : j # job[w] => pmc'[j] = pmc[j]
      BY <1>1, <2>2 DEF AtPending, Retrying, TableTypeOK
    <2>4. RetryInv'
      <3>1. todo[w] \in SUBSET Row
        BY <1>1 DEF LocalTypeOK
      <3>2. \A r \in todo[w] : r.job \in Jobs
        BY <3>1 DEF Row
      <3>3. \A r \in todo[w] : /\ r.job # job[w] /\ pmc[r.job] = "pending"
                               /\ r.att = attempts[r.job]
        BY <2>1 DEF RetryInv
      <3>4. QED
        BY <1>3, <2>2, <2>3, <3>2, <3>3
    <2>5. Progress
      BY <1>2, <2>1, <2>2, <2>3 DEF Progress
    <2>6. QED
      BY <2>4, <2>5
  <1>10. CASE \/ \E j \in Jobs : Enqueue(j) \/ ComeDue(j)
              \/ \E r \in Roots : MineElsewhere(r)
              \/ UNCHANGED vars
    <2>1. UNCHANGED <<pmc, attempts, localVars>>
      BY <1>10 DEF Enqueue, ComeDue, MineElsewhere, tableVars, vars
    <2>2. \A w \in Workers : Carries(w)
      BY <2>1 DEF Carries, Continues, localVars
    <2>3. QED
      BY <2>1, <2>2, CarriesRetry
  <1>11. QED
    BY <1>4, <1>5, <1>6, <1>8, <1>9, <1>10, CarriesStep
       DEF Next, WorkerStep, RetryStep, JobStep

(* With one worker a settled row is never touched again and attempt_count  *)
(* never drops, whatever crashes and whatever SQL statement fails, although *)
(* each UPDATE is computed from the row as it was selected.                *)
THEOREM RetryProgressHolds == ASSUME OneWorker PROVE Spec => RetryProgress
  <1>1. Init => RecInv /\ RowsInv /\ RetryInv
    BY DEF Init, QueueInit, RecInv, RowsInv, Marking, CommittedIsRecorded,
           Unparked, Working, Retrying, RetryInv, AtPending
  <1>2. IndInv /\ RowsInv /\ RetryInv /\ [Next]_vars => RetryInv'
    BY RetryInvStep
  <1>3. IndInv /\ RowsInv /\ RetryInv /\ [Next]_vars =>
          [\A j \in Jobs :
             /\ attempts[j] <= attempts'[j]
             /\ pmc[j] \in {"committed", "failed"} =>
                  pmc'[j] = pmc[j] /\ attempts'[j] = attempts[j]]_pmcVars
    BY RetryInvStep DEF Progress
  <1>4. QED
    BY <1>1, <1>2, <1>3, RecInvStep, RowsInvStep, Invariance, PTL
       DEF Spec, RetryProgress
-----------------------------------------------------------------------------
(* One worker: the webhooks of a job tell one outcome, and the true one.   *)

(* A worker with a job of which nothing has been told. *)
Untold == Working \cup Closing
            \cup {"rdone", "rhook_done", "rgiveup", "rhook_fail"}

(* A webhook is fired once a job is off the pending rows: it never had a   *)
(* row, or its row is settled.                                             *)
HeldInv(w) ==
  /\ pc[w] \in Untold => hooks[job[w]] = {}
  /\ pc[w] \in Closing =>
       pmc[job[w]] = "none" /\ jobs[job[w]] \in Terminal
  /\ pc[w] \in {"rdone", "rhook_done"} => pmc[job[w]] = "committed"
  /\ pc[w] \in {"rgiveup", "rhook_fail", "runconf2"} => pmc[job[w]] = "failed"
ToldInv(j) ==
  /\ hooks[j] # Events
  /\ pmc[j] = "pending" \/ jobs[j] \in {"none", "queued"} => hooks[j] = {}
NoticeInv ==
  faults = 0 => (\A w \in Workers : HeldInv(w)) /\ (\A j \in Jobs : ToldInv(j))

(* What a worker that has not been killed is about to tell is the status.  *)
Parking(j) == \E w \in Workers : pc[w] = "park" /\ job[w] = j
Stands(w) ==
  /\ pc[w] \in {"rdone", "rgiveup", "runconf2"} =>
       jobs[job[w]] = "pending_commit"
  /\ pc[w] \in {"summary", "hook_done", "rhook_done"} =>
       jobs[job[w]] = "completed"
  /\ pc[w] \in {"hook_fail", "rhook_fail"} => jobs[job[w]] = "failed"
Agrees(j) ==
  /\ pmc[j] = "pending" => jobs[j] = "pending_commit" \/ Parking(j)
  /\ "job.completed" \in hooks[j] => jobs[j] = "completed"
  /\ "job.failed" \in hooks[j] => jobs[j] = "failed"
AgreeInv ==
  crashes = 0 /\ faults = 0 =>
    (\A w \in Workers : Stands(w)) /\ (\A j \in Jobs : Agrees(j))

(* A step of w after which it has not come to a new place that the two     *)
(* invariants speak of.                                                    *)
Quiet(w) ==
  /\ pc'[w] \in Untold \cup {"runconf2"} =>
       /\ job'[w] = job[w]
       /\ \/ pc'[w] = pc[w]
          \/ pc[w] \in Working /\ pc'[w] \in Working
          \/ pc[w] = "summary" /\ pc'[w] = "hook_done"
  /\ pc[w] = "park" =>
       \/ pc'[w] = "park" /\ job'[w] = job[w]
       \/ crashes' # 0

LEMMA QuietStep ==
  ASSUME IndInv, faults' = 0, NEW w \in Workers,
         \/ ScanPending(w) \/ NextRow(w) \/ RetrySend(w) \/ RetryAwait(w)
         \/ RetryStore(w) \/ RetryStamp(w)
         \/ Dequeue(w) \/ Crawl(w) \/ Charge(w) \/ StoreResults(w)
         \/ Fetch(w) \/ CommitSend(w) \/ CommitAwait(w) \/ CommitStore(w)
         \/ CommitStamp(w) \/ SetSummary(w) \/ Start(w) \/ Crash(w)
  PROVE  /\ UNCHANGED <<jobs, pmc, hooks>> /\ Quiet(w) /\ faults = 0
         /\ crashes' = 0 => crashes = 0
  <1> USE DEF Quiet, Untold, Working, Closing, Goto, At, KeepLocals, Sql, DbOk
  <1>1. LocalTypeOK /\ faults \in Nat /\ crashes \in Nat
    BY ConstantsOK DEF IndInv, TypeOK
  <1>2. ~DbFault
    BY <1>1 DEF DbFault
  <1> USE DEF LocalTypeOK, queueVars, tableVars, pmcVars
  <1>3. CASE ScanPending(w) \/ NextRow(w) \/ RetryStore(w) \/ RetryStamp(w)
    BY <1>1, <1>2, <1>3 DEF ScanPending, NextRow, RetryStore, RetryStamp
  <1>4. CASE RetrySend(w) \/ RetryAwait(w) \/ CommitSend(w) \/ CommitAwait(w)
    BY <1>1, <1>2, <1>4
       DEF RetrySend, RetryAwait, CommitSend, CommitAwait, Send, Await
  <1>5. CASE Dequeue(w) \/ Crawl(w) \/ Charge(w) \/ StoreResults(w)
    BY <1>1, <1>2, <1>5 DEF Dequeue, Crawl, Charge, StoreResults, Forget
  <1>6. CASE Fetch(w) \/ CommitStore(w) \/ CommitStamp(w) \/ SetSummary(w)
    BY <1>1, <1>2, <1>6 DEF Fetch, CommitStore, CommitStamp, SetSummary
  <1>7. CASE Start(w) \/ Crash(w)
    BY <1>1, <1>7 DEF Start, Crash, Forget
  <1>8. QED
    BY <1>3, <1>4, <1>5, <1>6, <1>7

LEMMA NoticeStep ==
  ASSUME OneWorker, IndInv, RowsInv, RetryInv, NoticeInv, AgreeInv, [Next]_vars
  PROVE  NoticeInv' /\ AgreeInv'
  <1> SUFFICES ASSUME faults' = 0 PROVE NoticeInv' /\ AgreeInv'
    BY DEF NoticeInv, AgreeInv
  <1> DEFINE Good == NoticeInv' /\ AgreeInv'
  <1> USE DEF Goto, At, KeepLocals, SetRow
  <1>1. /\ LocalTypeOK /\ TableTypeOK /\ QueueTypeOK
        /\ faults \in Nat /\ crashes \in Nat
    BY ConstantsOK DEF IndInv, TypeOK
  <1>2. ~DbFault
    BY <1>1 DEF DbFault
  <1>3. ASSUME NEW w \in Workers, HeldInv(w)', \A j \in Jobs : ToldInv(j)',
               crashes' = 0 => Stands(w)' /\ \A j \in Jobs : Agrees(j)'
        PROVE  Good
    <2>1. \A v \in Workers : v = w
      BY DEF OneWorker
    <2>2. QED
      BY <1>3, <2>1 DEF NoticeInv, AgreeInv
  <1>4. ASSUME faults = 0
        PROVE  /\ \A w \in Workers : HeldInv(w)
               /\ \A j \in Jobs : ToldInv(j)
               /\ crashes = 0 => /\ \A w \in Workers : Stands(w)
                                /\ \A j \in Jobs : Agrees(j)
    BY <1>4 DEF NoticeInv, AgreeInv
  (* Nothing that the invariants speak of changes. *)
  <1>5. ASSUME NEW w \in Workers, UNCHANGED <<jobs, pmc, hooks>>, Quiet(w),
               faults = 0, crashes' = 0 => crashes = 0
        PROVE  Good
    <2>1. HeldInv(w)'
      BY <1>4, <1>5 DEF HeldInv, Quiet, Untold, Working, Closing
    <2>2. \A j \in Jobs : ToldInv(j)'
      BY <1>4, <1>5 DEF ToldInv
    <2>3. ASSUME crashes' = 0 PROVE Stands(w)'
      BY <1>4, <1>5, <2>3 DEF Stands, Quiet, Untold, Working, Closing
    <2>4. ASSUME crashes' = 0, NEW j \in Jobs PROVE Agrees(j)'
      <3>1. Parking(j) => Parking(j)'
        <4>1. \A v \in Workers : v = w
          BY DEF OneWorker
        <4>2. QED
          BY <1>5, <2>4, <4>1 DEF Parking, Quiet
      <3>2. QED
        BY <1>4, <1>5, <2>4, <3>1 DEF Agrees
    <2>5. QED
      BY <1>3, <2>1, <2>2, <2>3, <2>4
  (* A step of w on the rows of its job k. *)
  <1>6. ASSUME NEW w \in Workers, NEW k \in Jobs, job[w] = k, job'[w] = k,
               faults = 0, crashes' = crashes,
               \A j \in Jobs \ {k} :
                 jobs'[j] = jobs[j] /\ pmc'[j] = pmc[j] /\ hooks'[j] = hooks[j],
               HeldInv(w)', ToldInv(k)',
               crashes = 0 => Stands(w)' /\ Agrees(k)'
        PROVE  Good
    <2>1. \A j \in Jobs : ToldInv(j)'
      BY <1>4, <1>6 DEF ToldInv
    <2>2. ASSUME crashes = 0, NEW j \in Jobs PROVE Agrees(j)'
      <3>1. CASE j = k
        BY <1>6, <2>2, <3>1
      <3>2. CASE j # k
        <4>1. ~Parking(j)
          BY <1>6, <3>2 DEF Parking, OneWorker
        <4>2. QED
          BY <1>4, <1>6, <2>2, <3>2, <4>1 DEF Agrees
      <3>3. QED
        BY <3>1, <3>2
    <2>3. QED
      BY <1>3, <1>6, <2>1, <2>2
  <1>7. ASSUME NEW w \in Workers, RetryMark(w) \/ RetryUnconfigured(w) \/ RetryError(w)
        PROVE  Good
    <2>1. PICK k \in Jobs : k = job[w]
      BY <1>7, JobAtHand DEF RetryMark, RetryUnconfigured, RetryError, Retrying
    <2>2. /\ faults = 0 /\ pc[w] \in AtPending /\ UNCHANGED <<job, jobs, hooks, crashes>>
          /\ \/ pc'[w] = "rdone" /\ pmc' = [pmc EXCEPT ![k] = "committed"]
             \/ pc'[w] \in {"rgiveup", "runconf2"} /\ pmc' = [pmc EXCEPT ![k] = "failed"]
             \/ pc'[w] = "rows" /\ UNCHANGED pmc
      BY <1>1, <1>2, <1>7, <2>1
         DEF RetryMark, RetryUnconfigured, RetryError, Sql, DbOk, AtPending,
             LocalTypeOK, queueVars
    <2>3. CASE pc'[w] = "rows" /\ UNCHANGED pmc
      <3>1. Quiet(w)
        BY <2>2, <2>3 DEF Quiet, Untold, Working, Closing, AtPending
      <3>2. QED
        BY <1>5, <2>2, <2>3, <3>1
    <2>4. ASSUME NEW s \in {"committed", "failed"}, pmc' = [pmc EXCEPT ![k] = s],
                 \/ s = "committed" /\ pc'[w] = "rdone"
                 \/ s = "failed" /\ pc'[w] \in {"rgiveup", "runconf2"}
          PROVE  Good
      <3>1. hooks[k] = {} /\ pmc'[k] = s /\ \A j \in Jobs \ {k} : pmc'[j] = pmc[j]
        BY <1>1, <1>4, <2>1, <2>2, <2>4 DEF RetryInv, ToldInv, TableTypeOK
      <3>2. ASSUME crashes = 0 PROVE jobs[k] = "pending_commit"
        <4>1. ~Parking(k) /\ pmc[k] = "pending"
          BY <2>1, <2>2 DEF Parking, OneWorker, AtPending, RetryInv
        <4>2. QED
          BY <1>4, <2>2, <3>2, <4>1 DEF Agrees
      <3>3. HeldInv(w)'
        BY <2>1, <2>2, <2>4, <3>1 DEF HeldInv, Closing
      <3>4. ToldInv(k)'
        BY <2>2, <3>1 DEF ToldInv, Events
      <3>5. crashes = 0 => Stands(w)' /\ Agrees(k)'
        BY <2>1, <2>2, <2>4, <3>1, <3>2 DEF Stands, Agrees
      <3>6. QED
        BY <1>6, <2>1, <2>2, <3>1, <3>3, <3>4, <3>5
    <2>5. QED
      BY <2>2, <2>3, <2>4
  <1>8. ASSUME NEW w \in Workers, QueueRetry(w) PROVE Good
    <2>1. PICK k \in Jobs : k = job[w]
      BY <1>8, JobAtHand DEF QueueRetry, Working
    <2>2. /\ faults = 0 /\ pc[w] = "queue" /\ UNCHANGED <<job, jobs, hooks, crashes>>
          /\ pc'[w] = "park" /\ pmc' = [pmc EXCEPT ![k] = "pending"]
      BY <1>1, <1>2, <1>8, <2>1 DEF QueueRetry, Sql, DbOk, LocalTypeOK, queueVars
    <2>3. /\ hooks[k] = {} /\ pmc'[k] = "pending"
          /\ \A j \in Jobs \ {k} : pmc'[j] = pmc[j]
      BY <1>1, <1>4, <2>1, <2>2 DEF HeldInv, Untold, Working, TableTypeOK
    <2>4. HeldInv(w)'
      BY <2>1, <2>2, <2>3 DEF HeldInv, Closing
    <2>5. ToldInv(k)'
      BY <2>2, <2>3 DEF ToldInv, Events
    <2>6. Stands(w)' /\ Agrees(k)'
      BY <2>1, <2>2, <2>3 DEF Stands, Agrees, Parking
    <2>7. QED
      BY <1>6, <2>1, <2>2, <2>3, <2>4, <2>5, <2>6
  (* The statements on the jobs table. *)
  <1>9. ASSUME NEW w \in Workers, Take(w) PROVE Good
    <2>1. PICK k \in Jobs : k = job[w]
      BY <1>9, JobAtHand DEF Take
    <2>2. /\ faults = 0 /\ pc[w] = "claim" /\ UNCHANGED <<job, pmc, hooks, crashes>>
          /\ pc'[w] \in {"crawl", "charge"}
          /\ jobs' = [jobs EXCEPT ![k] = "processing"]
      BY <1>1, <1>2, <1>9, <2>1
         DEF Take, dequeue, DbOk, LocalTypeOK, tableVars, pmcVars
    <2>3. /\ hooks[k] = {} /\ pmc[k] = "none" /\ jobs'[k] = "processing"
          /\ \A j \in Jobs \ {k} : jobs'[j] = jobs[j]
      BY <1>1, <1>4, <2>1, <2>2
         DEF IndInv, Ownership, ToldInv, RowsInv, QueueTypeOK
    <2>4. HeldInv(w)'
      BY <2>1, <2>2, <2>3 DEF HeldInv, Closing
    <2>5. ToldInv(k)'
      BY <2>2, <2>3 DEF ToldInv, Events
    <2>6. Stands(w)' /\ Agrees(k)'
      BY <2>1, <2>2, <2>3 DEF Stands, Agrees
    <2>7. QED
      BY <1>6, <2>1, <2>2, <2>3, <2>4, <2>5, <2>6
  <1>10. ASSUME NEW w \in Workers, SetCompleted(w) \/ SetFailed(w) \/ SetParked(w)
         PROVE  Good
    <2>1. PICK k \in Jobs : k = job[w]
      BY <1>10, JobAtHand DEF SetCompleted, SetFailed, SetParked, SetStatus, Working
    <2>2. /\ faults = 0 /\ UNCHANGED <<job, pmc, hooks, crashes>>
          /\ \/ /\ pc[w] = "finish" /\ pc'[w] \in {"summary", "hook_done"}
                /\ jobs' = [jobs EXCEPT ![k] = "completed"]
             \/ /\ pc[w] = "fail" /\ pc'[w] = "hook_fail"
                /\ jobs' = [jobs EXCEPT ![k] = "failed"]
             \/ /\ pc[w] = "park" /\ pc'[w] = "retry"
                /\ jobs' = [jobs EXCEPT ![k] = "pending_commit"]
      BY <1>1, <1>2, <1>10, <2>1
         DEF SetCompleted, SetFailed, SetParked, SetStatus, update_status, DbOk,
             LocalTypeOK, tableVars, pmcVars
    <2>3. /\ hooks[k] = {} /\ (pc[w] # "park" => pmc[k] = "none")
          /\ \A j \in Jobs \ {k} : jobs'[j] = jobs[j]
      BY <1>1, <1>4, <2>1, <2>2
         DEF HeldInv, Untold, RowsInv, Unparked, Working, QueueTypeOK
    <2>4. \/ /\ pc[w] = "finish" /\ pc'[w] \in {"summary", "hook_done"}
             /\ jobs'[k] = "completed"
          \/ pc[w] = "fail" /\ pc'[w] = "hook_fail" /\ jobs'[k] = "failed"
          \/ pc[w] = "park" /\ pc'[w] = "retry" /\ jobs'[k] = "pending_commit"
      BY <1>1, <2>2 DEF QueueTypeOK
    <2>5. HeldInv(w)'
      BY <2>1, <2>2, <2>3, <2>4 DEF HeldInv, Untold, Working, Closing, Terminal
    <2>6. ToldInv(k)'
      BY <2>2, <2>3, <2>4 DEF ToldInv, Events
    <2>7. Stands(w)' /\ Agrees(k)'
      BY <2>1, <2>2, <2>3, <2>4 DEF Stands, Agrees
    <2>8. QED
      BY <1>6, <2>1, <2>2, <2>3, <2>5, <2>6, <2>7
  <1>11. ASSUME NEW w \in Workers,
                RetryComplete(w) \/ RetryGiveUp(w) \/ RetryFailNoHook(w)
         PROVE  Good
    <2>1. PICK k \in Jobs : k = job[w]
      BY <1>11, JobAtHand
         DEF RetryComplete, RetryGiveUp, RetryFailNoHook, ResolveJob, Retrying
    <2>2. /\ faults = 0 /\ UNCHANGED <<job, pmc, hooks, crashes>>
          /\ \E s \in Terminal :
               /\ jobs' = IF jobs[k] = "pending_commit"
                          THEN [jobs EXCEPT ![k] = s] ELSE jobs
               /\ \/ pc[w] = "rdone" /\ pc'[w] = "rhook_done" /\ s = "completed"
                  \/ pc[w] = "rgiveup" /\ pc'[w] = "rhook_fail" /\ s = "failed"
                  \/ pc[w] = "runconf2" /\ pc'[w] = "rows" /\ s = "failed"
      BY <1>1, <1>2, <1>11, <2>1
         DEF RetryComplete, RetryGiveUp, RetryFailNoHook, ResolveJob,
             resolve_pending, Sql, DbOk, Terminal, LocalTypeOK, tableVars, pmcVars
    <2>3. PICK s \in Terminal :
            /\ \/ pc[w] = "rdone" /\ pc'[w] = "rhook_done" /\ s = "completed"
               \/ pc[w] = "rgiveup" /\ pc'[w] = "rhook_fail" /\ s = "failed"
               \/ pc[w] = "runconf2" /\ pc'[w] = "rows" /\ s = "failed"
            /\ jobs[k] = "pending_commit" => jobs'[k] = s
            /\ jobs[k] # "pending_commit" => jobs'[k] = jobs[k]
            /\ \A j \in Jobs \ {k} : jobs'[j] = jobs[j]
      BY <1>1, <2>2 DEF QueueTypeOK
    <2>4. /\ pc[w] \in {"rdone", "rgiveup"} => hooks[k] = {}
          /\ pc[w] = "rdone" => pmc[k] = "committed"
          /\ pc[w] # "rdone" => pmc[k] = "failed"
          /\ ToldInv(k)
      BY <1>4, <2>1, <2>2, <2>3 DEF HeldInv, Untold
    <2>5. crashes = 0 => jobs[k] = "pending_commit" /\ Agrees(k)
      BY <1>4, <2>1, <2>2, <2>3 DEF Stands
    <2>6. HeldInv(w)'
      BY <2>1, <2>2, <2>3, <2>4 DEF HeldInv, Untold, Working, Closing
    <2>7. ToldInv(k)'
      BY <2>2, <2>3, <2>4 DEF ToldInv, Terminal
    <2>8. crashes = 0 => Stands(w)' /\ Agrees(k)'
      BY <2>1, <2>2, <2>3, <2>4, <2>5 DEF Stands, Agrees
    <2>9. QED
      BY <1>6, <2>1, <2>2, <2>3, <2>6, <2>7, <2>8
  <1>12. ASSUME NEW w \in Workers, fire_webhooks(w) PROVE Good
    <2>1. PICK k \in Jobs : k = job[w]
      BY <1>12, JobAtHand DEF fire_webhooks, Notify, Closing, Retrying
    <2>2. /\ faults = 0 /\ UNCHANGED <<job, jobs, pmc, crashes>>
          /\ \E e \in Events :
               /\ hooks' = [hooks EXCEPT ![k] = @ \cup {e}]
               /\ \/ pc[w] \in {"hook_done", "rhook_done"} /\ e = "job.completed"
                  \/ pc[w] \in {"hook_fail", "rhook_fail"} /\ e = "job.failed"
               /\ pc'[w] \in {"retry", "rows"}
      BY <1>1, <1>12, <2>1
         DEF fire_webhooks, Notify, Events, LocalTypeOK, queueVars, pmcVars
    <2>3. hooks[k] = {} /\ pmc[k] # "pending" /\ jobs[k] \notin {"none", "queued"}
      BY <1>4, <2>1, <2>2
         DEF HeldInv, Untold, Closing, Terminal, RowsInv, Retrying
    <2>4. PICK e \in Events :
            /\ hooks'[k] = {e} /\ \A j \in Jobs \ {k} : hooks'[j] = hooks[j]
            /\ \/ pc[w] \in {"hook_done", "rhook_done"} /\ e = "job.completed"
               \/ pc[w] \in {"hook_fail", "rhook_fail"} /\ e = "job.failed"
            /\ pc'[w] \in {"retry", "rows"}
      BY <1>1, <2>2, <2>3 DEF TableTypeOK
    <2>5. HeldInv(w)'
      BY <2>4 DEF HeldInv, Untold, Working, Closing
    <2>6. ToldInv(k)'
      BY <2>2, <2>3, <2>4 DEF ToldInv, Events
    <2>7. crashes = 0 => Stands(w)' /\ Agrees(k)'
      BY <1>4, <2>1, <2>2, <2>3, <2>4 DEF Stands, Agrees
    <2>8. QED
      BY <1>6, <2>1, <2>2, <2>4, <2>5, <2>6, <2>7
  <1>13. ASSUME NEW i \in Jobs, Enqueue(i) PROVE Good
    <2>1. /\ faults = 0 /\ UNCHANGED <<pc, job, pmc, hooks, crashes>> /\ jobs[i] = "none"
          /\ jobs'[i] = "queued" /\ \A j \in Jobs \ {i} : jobs'[j] = jobs[j]
      BY <1>1, <1>13
         DEF Enqueue, enqueue, QueueTypeOK, localVars, tableVars, pmcVars
    <2>2. hooks[i] = {} /\ pmc[i] = "none"
      BY <1>4, <2>1 DEF ToldInv, RowsInv
    <2>3. ASSUME NEW w \in Workers PROVE HeldInv(w)' /\ (crashes = 0 => Stands(w)')
      <3>1. pc[w] \in Busy => job[w] \in Jobs
        BY DEF IndInv, AtHand
      <3>2. HeldInv(w)'
        BY <1>4, <2>1, <3>1 DEF HeldInv, Terminal, Busy
      <3>3. crashes = 0 => Stands(w)'
        BY <1>4, <2>1, <3>1 DEF Stands, Busy, Closing, Retrying
      <3>4. QED
        BY <3>2, <3>3
    <2>4. ASSUME NEW j \in Jobs PROVE ToldInv(j)' /\ (crashes = 0 => Agrees(j)')
      <3>1. ToldInv(j)'
        BY <1>4, <2>1, <2>2 DEF ToldInv, Events
      <3>2. crashes = 0 => Agrees(j)'
        BY <1>4, <2>1, <2>2 DEF Agrees, Parking
      <3>3. QED
        BY <3>1, <3>2
    <2>5. QED
      BY <2>1, <2>3, <2>4 DEF NoticeInv, AgreeInv
  <1>14. CASE \/ \E j \in Jobs : ComeDue(j)
              \/ \E r \in Roots : MineElsewhere(r)
              \/ UNCHANGED vars
    <2>1. UNCHANGED <<pc, job, jobs, pmc, hooks, crashes, faults>>
      BY <1>14 DEF ComeDue, MineElsewhere, vars, queueVars, localVars, tableVars,
                   pmcVars
    <2>2. QED
      BY <2>1 DEF NoticeInv, AgreeInv, HeldInv, ToldInv, Stands, Agrees, Parking
  <1>15. QED
    BY <1>5, <1>7, <1>8, <1>9, <1>10, <1>11, <1>12, <1>13, <1>14, QuietStep
       DEF Next, WorkerStep, RetryStep, JobStep

(* With one worker and as long as no SQL statement has failed, subscribers *)
(* never hear both outcomes of a job, whatever is killed; and unless the   *)
(* worker is killed a webhook tells the status the job has.                *)
THEOREM HooksTruthfulHolds ==
  ASSUME OneWorker PROVE Spec => [](faults = 0 => HooksTruthful)
  <1>1. Init => RecInv /\ RowsInv /\ RetryInv /\ NoticeInv /\ AgreeInv
    <2> SUFFICES ASSUME Init
                 PROVE  RecInv /\ RowsInv /\ RetryInv /\ NoticeInv /\ AgreeInv
      OBVIOUS
    <2>1. RecInv /\ RowsInv /\ RetryInv
      BY DEF Init, QueueInit, RecInv, RowsInv, Marking, CommittedIsRecorded,
             Unparked, Working, Retrying, RetryInv, AtPending
    <2>2. NoticeInv /\ AgreeInv
      BY DEF Init, QueueInit, NoticeInv, HeldInv, ToldInv, Untold, Working,
             Closing, Events, AgreeInv, Stands, Agrees
    <2>3. QED
      BY <2>1, <2>2
  <1>2. NoticeInv /\ AgreeInv => (faults = 0 => HooksTruthful)
    BY DEF NoticeInv, ToldInv, AgreeInv, Agrees, HooksTruthful
  <1>3. IndInv /\ RowsInv /\ RetryInv /\ [Next]_vars => RetryInv'
    BY RetryInvStep
  <1>4. IndInv /\ RowsInv /\ RetryInv /\ NoticeInv /\ AgreeInv /\ [Next]_vars
          => NoticeInv' /\ AgreeInv'
    BY NoticeStep
  <1>5. QED
    BY <1>1, <1>2, <1>3, <1>4, RecInvStep, RowsInvStep, Invariance, PTL DEF Spec
-----------------------------------------------------------------------------
(* One worker: a parked job is retried, or about to be settled, or was     *)
(* stranded by a kill.                                                     *)
AtSettling == {"rdone", "rgiveup", "runconf2"}

(* A pending row is one that the SELECT finds once it is due; each job     *)
(* that no step will settle was paid for with a kill.                      *)
PendingRow(j) ==
  /\ pmc[j] = "pending" => attempts[j] < MAX_COMMIT_RETRIES
  /\ pmc[j] = "none" => attempts[j] = 0
FewStranded == IsFiniteSet(Stranded) /\ Cardinality(Stranded) <= crashes
ParkInv ==
  faults = 0 =>
    /\ \A w \in Workers : pc[w] = "park" => Retriable(job[w])
    /\ \A j \in Jobs : PendingRow(j)
    /\ FewStranded

(* The steps that leave the rows and the statuses alone, and are not those *)
(* of a worker that is about to park or to settle a job.                   *)
LEMMA CalmStep ==
  ASSUME IndInv, faults' = 0, NEW w \in Workers,
         \/ ScanPending(w) \/ NextRow(w) \/ RetrySend(w) \/ RetryAwait(w)
         \/ RetryStore(w) \/ RetryStamp(w)
         \/ Dequeue(w) \/ Crawl(w) \/ Charge(w) \/ StoreResults(w)
         \/ Fetch(w) \/ CommitSend(w) \/ CommitAwait(w) \/ CommitStore(w)
         \/ CommitStamp(w) \/ SetSummary(w) \/ fire_webhooks(w) \/ Start(w)
  PROVE  /\ UNCHANGED <<jobs, pmc, attempts, crashes>> /\ faults = 0
         /\ pc[w] \notin AtSettling /\ pc'[w] # "park"
  <1> USE DEF AtSettling, Goto, At, Sql, DbOk, queueVars, tableVars, pmcVars
  <1>1. LocalTypeOK /\ faults \in Nat
    BY ConstantsOK DEF IndInv, TypeOK
  <1>2. ~DbFault
    BY <1>1 DEF DbFault
  <1> USE DEF LocalTypeOK
  <1>3. CASE ScanPending(w) \/ NextRow(w) \/ RetryStore(w) \/ RetryStamp(w)
    BY <1>1, <1>2, <1>3 DEF ScanPending, NextRow, RetryStore, RetryStamp
  <1>4. CASE RetrySend(w) \/ RetryAwait(w) \/ CommitSend(w) \/ CommitAwait(w)
    BY <1>1, <1>2, <1>4
       DEF RetrySend, RetryAwait, CommitSend, CommitAwait, Send, Await
  <1>5. CASE Dequeue(w) \/ Crawl(w) \/ Charge(w) \/ StoreResults(w)
    BY <1>1, <1>2, <1>5 DEF Dequeue, Crawl, Charge, StoreResults, Forget
  <1>6. CASE Fetch(w) \/ CommitStore(w) \/ CommitStamp(w) \/ SetSummary(w)
    BY <1>1, <1>2, <1>6 DEF Fetch, CommitStore, CommitStamp, SetSummary
  <1>7. CASE fire_webhooks(w) \/ Start(w)
    BY <1>1, <1>7 DEF fire_webhooks, Notify, Start
  <1>8. QED
    BY <1>3, <1>4, <1>5, <1>6, <1>7

LEMMA ParkStep ==
  ASSUME OneWorker, IndInv, RowsInv, RetryInv, ParkInv, [Next]_vars
  PROVE  ParkInv'
  <1> SUFFICES ASSUME faults' = 0 PROVE ParkInv'
    BY DEF ParkInv
  <1> USE DEF Goto, At, KeepLocals, SetRow
  <1>1. /\ LocalTypeOK /\ TableTypeOK /\ QueueTypeOK
        /\ faults \in Nat /\ crashes \in Nat
        /\ MAX_COMMIT_RETRIES \in Nat \ {0}
        /\ \A j \in Jobs : attempts[j] \in Nat
    BY ConstantsOK DEF IndInv, TypeOK, TableTypeOK, Attempts
  <1>2. ~DbFault
    BY <1>1 DEF DbFault
  <1>3. ASSUME faults = 0
        PROVE  /\ \A w \in Workers : pc[w] = "park" => Retriable(job[w])
               /\ \A j \in Jobs : PendingRow(j)
               /\ FewStranded
    BY <1>3 DEF ParkInv
  <1>4. ASSUME FewStranded, Stranded' \subseteq Stranded, crashes' = crashes
        PROVE  FewStranded'
    <2>1. /\ IsFiniteSet(Stranded') /\ Cardinality(Stranded') <= Cardinality(Stranded)
          /\ Cardinality(Stranded') \in Nat /\ Cardinality(Stranded) \in Nat
      BY <1>4, FS_Subset, FS_CardinalityType DEF FewStranded
    <2>2. QED
      BY <1>1, <1>4, <2>1 DEF FewStranded
  (* Nothing that the invariant speaks of changes. *)
  <1>5. ASSUME UNCHANGED <<jobs, pmc, attempts, crashes>>, faults = 0,
               NEW w \in Workers, pc[w] \notin AtSettling, pc'[w] # "park"
        PROVE  ParkInv'
    <2>1. \A v \in Workers : v = w
      BY DEF OneWorker
    <2>2. Stranded' \subseteq Stranded
      BY <1>5, <2>1 DEF Stranded, Retriable, Settling, AtSettling
    <2>3. FewStranded'
      BY <1>3, <1>4, <1>5, <2>2
    <2>4. QED
      BY <1>3, <1>5, <2>1, <2>3 DEF ParkInv, PendingRow
  (* A step of w on the rows of its job k. *)
  <1>6. ASSUME NEW w \in Workers, NEW k \in Jobs, job[w] = k, job'[w] = k,
               faults = 0, crashes' = crashes,
               \A j \in Jobs \ {k} : /\ jobs'[j] = jobs[j] /\ pmc'[j] = pmc[j]
                                     /\ attempts'[j] = attempts[j],
               PendingRow(k)', pc'[w] = "park" => Retriable(k)',
               jobs'[k] = "pending_commit" => Retriable(k)' \/ pc'[w] \in AtSettling
        PROVE  ParkInv'
    <2>1. \A v \in Workers : v = w
      BY DEF OneWorker
    <2>2. k \notin Stranded'
      BY <1>6 DEF Stranded, Settling, AtSettling
    <2>3. ASSUME NEW j \in Jobs \ {k} PROVE j \in Stranded' => j \in Stranded
      <3>1. ~Settling(j)
        BY <1>6, <2>1 DEF Settling
      <3>2. Retriable(j)' <=> Retriable(j)
        BY <1>6 DEF Retriable
      <3>3. QED
        BY <1>6, <3>1, <3>2 DEF Stranded
    <2>4. FewStranded'
      <3>1. Stranded' \subseteq Stranded
        BY <2>2, <2>3 DEF Stranded
      <3>2. QED
        BY <1>3, <1>4, <1>6, <3>1
    <2>5. \A j \in Jobs : PendingRow(j)'
      BY <1>3, <1>6 DEF PendingRow
    <2>6. \A v \in Workers : pc'[v] = "park" => Retriable(job[v])'
      BY <1>6, <2>1 DEF Retriable
    <2>7. QED
      BY <2>4, <2>5, <2>6 DEF ParkInv
  <1>7. ASSUME NEW w \in Workers, Crash(w) PROVE ParkInv'
    <2>1. /\ UNCHANGED <<jobs, pmc, attempts>> /\ faults = 0
          /\ crashes' = crashes + 1 /\ pc'[w] = "down"
          /\ \A v \in Workers : v = w
      BY <1>1, <1>7
         DEF Crash, Forget, LocalTypeOK, queueVars, tableVars, pmcVars, OneWorker
    <2>2. Stranded' \subseteq Stranded \cup {job[w]}
      BY <2>1 DEF Stranded, Retriable, Settling
    <2>3. FewStranded'
      <3> DEFINE S == Stranded \cup {job[w]}
      <3>1. IsFiniteSet(S) /\ Cardinality(S) <= Cardinality(Stranded) + 1
        BY <1>3, <2>1, FS_AddElement, FS_CardinalityType DEF FewStranded
      <3>2. IsFiniteSet(Stranded') /\ Cardinality(Stranded') <= Cardinality(S)
        BY <2>2, <3>1, FS_Subset
      <3>3. /\ Cardinality(Stranded') \in Nat /\ Cardinality(S) \in Nat
            /\ Cardinality(Stranded) \in Nat
        BY <1>3, <2>1, <3>1, <3>2, FS_CardinalityType DEF FewStranded
      <3>4. QED
        BY <1>1, <1>3, <2>1, <3>1, <3>2, <3>3 DEF FewStranded
    <2>4. QED
      BY <1>3, <2>1, <2>3 DEF ParkInv, PendingRow
  <1>8. ASSUME NEW w \in Workers, RetryMark(w) \/ RetryUnconfigured(w) \/ RetryError(w)
        PROVE  ParkInv'
    <2>1. PICK k \in Jobs : k = job[w]
      BY <1>8, JobAtHand DEF RetryMark, RetryUnconfigured, RetryError, Retrying
    <2>2. /\ faults = 0 /\ pc[w] \in AtPending /\ UNCHANGED <<job, jobs, crashes>>
          /\ \/ /\ pc'[w] = "rdone" /\ pmc' = [pmc EXCEPT ![k] = "committed"]
                /\ UNCHANGED attempts
             \/ /\ pc'[w] \in {"rgiveup", "runconf2"}
                /\ pmc' = [pmc EXCEPT ![k] = "failed"]
                /\ \A j \in Jobs \ {k} : attempts'[j] = attempts[j]
             \/ /\ pc'[w] = "rows" /\ UNCHANGED pmc
                /\ att[w] + 1 < MAX_COMMIT_RETRIES
                /\ attempts' = [attempts EXCEPT ![k] = att[w] + 1]
      <3>1. CASE RetryMark(w) \/ RetryUnconfigured(w)
        BY <1>1, <1>2, <2>1, <3>1
           DEF RetryMark, RetryUnconfigured, Sql, DbOk, AtPending, LocalTypeOK,
               queueVars
      <3>2. CASE RetryError(w)
        <4>1. att[w] \in Nat
          BY <1>1 DEF LocalTypeOK, Attempts
        <4>2. QED
          BY <1>1, <1>2, <2>1, <3>2, <4>1
             DEF RetryError, Sql, DbOk, AtPending, LocalTypeOK, TableTypeOK,
                 queueVars
      <3>3. QED
        BY <1>8, <3>1, <3>2
    <2>3. pmc[k] = "pending" /\ \A j \in Jobs \ {k} : pmc'[j] = pmc[j]
      BY <1>1, <2>1, <2>2 DEF RetryInv, TableTypeOK
    <2>4. CASE pc'[w] = "rows"
      <3>1. /\ pmc'[k] = "pending" /\ attempts'[k] < MAX_COMMIT_RETRIES
            /\ \A j \in Jobs \ {k} : attempts'[j] = attempts[j]
        BY <1>1, <2>2, <2>3, <2>4 DEF TableTypeOK
      <3>2. Retriable(k)' /\ PendingRow(k)'
        BY <3>1 DEF Retriable, PendingRow
      <3>3. QED
        BY <1>6, <2>1, <2>2, <2>3, <3>1, <3>2
    <2>5. CASE pc'[w] # "rows"
      <3>1. /\ pmc'[k] \in {"committed", "failed"} /\ pc'[w] \in AtSettling
            /\ \A j \in Jobs \ {k} : attempts'[j] = attempts[j]
        BY <1>1, <2>2, <2>5 DEF TableTypeOK, AtSettling
      <3>2. PendingRow(k)' /\ pc'[w] # "park"
        BY <3>1 DEF PendingRow, AtSettling
      <3>3. QED
        BY <1>6, <2>1, <2>2, <2>3, <3>1, <3>2
    <2>6. QED
      BY <2>4, <2>5
  <1>9. ASSUME NEW w \in Workers, QueueRetry(w) PROVE ParkInv'
    <2>1. PICK k \in Jobs : k = job[w]
      BY <1>9, JobAtHand DEF QueueRetry, Working
    <2>2. /\ faults = 0 /\ UNCHANGED <<job, jobs, attempts, crashes>>
          /\ pc[w] = "queue" /\ pc'[w] = "park"
          /\ pmc' = [pmc EXCEPT ![k] = "pending"]
      BY <1>1, <1>2, <1>9, <2>1 DEF QueueRetry, Sql, DbOk, LocalTypeOK, queueVars
    <2>3. pmc[k] = "none"
      BY <2>1, <2>2 DEF RowsInv, Unparked, Working
    <2>4. Retriable(k)' /\ PendingRow(k)'
      BY <1>1, <1>3, <2>2, <2>3 DEF PendingRow, Retriable, TableTypeOK
    <2>5. \A j \in Jobs \ {k} : pmc'[j] = pmc[j]
      BY <1>1, <2>2 DEF TableTypeOK
    <2>6. QED
      BY <1>6, <2>1, <2>2, <2>4, <2>5
  <1>10. ASSUME NEW w \in Workers,
                Take(w) \/ SetCompleted(w) \/ SetFailed(w) \/ SetParked(w)
         PROVE  ParkInv'
    <2>1. PICK k \in Jobs : k = job[w]
      BY <1>10, JobAtHand
         DEF Take, SetCompleted, SetFailed, SetParked, SetStatus, Working
    <2>2. /\ faults = 0 /\ UNCHANGED <<job, pmc, attempts, crashes>>
          /\ pc'[w] # "park"
          /\ \E s \in {"processing", "completed", "failed", "pending_commit"} :
               /\ jobs' = [jobs EXCEPT ![k] = s]
               /\ s = "pending_commit" => pc[w] = "park"
      BY <1>1, <1>2, <1>10, <2>1
         DEF Take, dequeue, SetCompleted, SetFailed, SetParked, SetStatus,
             update_status, DbOk, LocalTypeOK, tableVars, pmcVars
    <2>3. /\ jobs'[k] = "pending_commit" => pc[w] = "park"
          /\ \A j \in Jobs \ {k} : jobs'[j] = jobs[j]
      BY <1>1, <2>2 DEF QueueTypeOK
    <2>4. PendingRow(k)' /\ (pc[w] = "park" => Retriable(k)')
      BY <1>3, <2>1, <2>2 DEF PendingRow, Retriable
    <2>5. QED
      BY <1>6, <2>1, <2>2, <2>3, <2>4
  <1>11. ASSUME NEW w \in Workers,
                RetryComplete(w) \/ RetryGiveUp(w) \/ RetryFailNoHook(w)
         PROVE  ParkInv'
    <2>1. PICK k \in Jobs : k = job[w]
      BY <1>11, JobAtHand
         DEF RetryComplete, RetryGiveUp, RetryFailNoHook, ResolveJob, Retrying
    <2>2. /\ faults = 0 /\ UNCHANGED <<job, pmc, attempts, crashes>>
          /\ pc'[w] # "park"
          /\ \E s \in Terminal :
               jobs' = IF jobs[k] = "pending_commit"
                       THEN [jobs EXCEPT ![k] = s] ELSE jobs
      BY <1>1, <1>2, <1>11, <2>1
         DEF RetryComplete, RetryGiveUp, RetryFailNoHook, ResolveJob,
             resolve_pending, Sql, DbOk, Terminal, LocalTypeOK, tableVars, pmcVars
    <2>3. /\ jobs'[k] # "pending_commit"
          /\ \A j \in Jobs \ {k} : jobs'[j] = jobs[j]
      BY <1>1, <2>2 DEF QueueTypeOK, Terminal
    <2>4. PendingRow(k)'
      BY <1>3, <2>2 DEF PendingRow
    <2>5. QED
      BY <1>6, <2>1, <2>2, <2>3, <2>4
  <1>12. CASE \/ \E j \in Jobs : Enqueue(j) \/ ComeDue(j)
              \/ \E r \in Roots : MineElsewhere(r)
              \/ UNCHANGED vars
    <2>1. /\ UNCHANGED <<pc, job, pmc, attempts, crashes, faults>>
          /\ \A j \in Jobs : jobs'[j] = "pending_commit" => jobs[j] = "pending_commit"
      BY <1>1, <1>12
         DEF Enqueue, enqueue, ComeDue, MineElsewhere, vars, queueVars, localVars,
             tableVars, pmcVars, QueueTypeOK
    <2>2. Stranded' \subseteq Stranded
      BY <2>1 DEF Stranded, Retriable, Settling
    <2>3. FewStranded'
      BY <1>3, <1>4, <2>1, <2>2
    <2>4. QED
      BY <1>3, <2>1, <2>3 DEF ParkInv, PendingRow, Retriable
  <1>13. QED
    BY <1>5, <1>7, <1>8, <1>9, <1>10, <1>11, <1>12, CalmStep
       DEF Next, WorkerStep, RetryStep, JobStep

(* With one worker and as long as no SQL statement has failed, the tables  *)
(* bear out the status of every job: a kill strands one parked job at      *)
(* most (main.rs:672-679), nothing else does.                              *)
THEOREM StatusTruthfulHolds == ASSUME OneWorker PROVE Spec => []StatusTruthful
  <1>1. Init => RetryInv /\ ParkInv
    <2> SUFFICES ASSUME Init PROVE RetryInv /\ ParkInv
      OBVIOUS
    <2>1. RetryInv
      BY DEF Init, QueueInit, RetryInv, AtPending
    <2>2. Stranded = {}
      BY DEF Init, QueueInit, Stranded
    <2>3. FewStranded
      BY <2>2, FS_EmptySet DEF Init, FewStranded
    <2>4. QED
      BY <2>1, <2>3 DEF Init, ParkInv, PendingRow
  <1>2. TruthInv /\ ParkInv => StatusTruthful
    BY TruthInvImplies DEF TruthfulRows, ParkInv, FewStranded, StatusTruthful
  <1>3. IndInv /\ RowsInv /\ RetryInv /\ [Next]_vars => RetryInv'
    BY RetryInvStep
  <1>4. IndInv /\ RowsInv /\ RetryInv /\ ParkInv /\ [Next]_vars => ParkInv'
    BY ParkStep
  <1>5. QED
    BY <1>1, <1>2, <1>3, <1>4, TruthInvInit, RecInvStep, RowsInvStep, TruthInvStep,
       Invariance, PTL DEF Spec
=============================================================================
