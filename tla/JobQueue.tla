------------------------------ MODULE JobQueue ------------------------------
(***************************************************************************)
(* The jobs table as core/src/queue.rs uses it.  An INSERT and an UPDATE   *)
(* with a plain condition are one atomic change.  dequeue is an UPDATE     *)
(* over a locking subquery and takes two steps: the subquery locks a row,  *)
(* then the UPDATE of that row is committed; in between, or instead, other *)
(* transactions run.                                                       *)
(*                                                                         *)
(* Rows are inserted with the same priority (50, by both resolvers), so    *)
(* the order of the queue is that of created_at; arrivals lists the rows   *)
(* in that order.                                                          *)
(***************************************************************************)
EXTENDS Naturals, Sequences

CONSTANT Jobs

VARIABLES
  jobs,      \* jobs[j]: status column of row j, "none" if there is no row
  arrivals   \* the rows in created_at order

queueVars == <<jobs, arrivals>>

JobStatus ==
  {"none", "queued", "processing", "completed", "failed", "pending_commit"}

Terminal == {"completed", "failed"}

QueueTypeOK ==
  /\ jobs \in [Jobs -> JobStatus]
  /\ arrivals \in Seq(Jobs)

QueueInit ==
  /\ jobs = [j \in Jobs |-> "none"]
  /\ arrivals = <<>>

(* INSERT INTO jobs (..., 'queued', ...).  created_at is taken before the  *)
(* transaction commits, so a row may appear behind or ahead of others.     *)
enqueue(j) ==
  /\ jobs[j] = "none"
  /\ jobs' = [jobs EXCEPT ![j] = "queued"]
  /\ \E i \in 0 .. Len(arrivals) :
       arrivals' = SubSeq(arrivals, 1, i) \o <<j>>
                     \o SubSeq(arrivals, i + 1, Len(arrivals))

(* Variant for mutation runs: the locks of others are not looked at.       *)
Available_NoLock(j, locked) == jobs[j] = "queued"

(* A row that the subquery of dequeue may return while other transactions  *)
(* hold locks on the rows in locked: WHERE status = 'queued' ... FOR       *)
(* UPDATE SKIP LOCKED.                                                     *)
Available(j, locked) == jobs[j] = "queued" /\ j \notin locked

(* The subquery locks row j: the first available row in the order of       *)
(* priority DESC, created_at ASC.                                          *)
claim(j, locked) ==
  /\ Available(j, locked)
  /\ \E i \in 1 .. Len(arrivals) :
       /\ arrivals[i] = j
       /\ \A k \in 1 .. (i - 1) : ~Available(arrivals[k], locked)

NothingToClaim(locked) == \A j \in Jobs : ~Available(j, locked)

(* UPDATE jobs SET status = 'processing' WHERE id = j, the claimed row. *)
dequeue(j) ==
  /\ jobs' = [jobs EXCEPT ![j] = "processing"]
  /\ UNCHANGED arrivals

(* UPDATE jobs SET status = s WHERE id = j: no condition on the old status. *)
update_status(j, s) ==
  /\ jobs' = [jobs EXCEPT ![j] = s]
  /\ UNCHANGED arrivals

(* Variant for mutation runs: resolve_pending without its status guard. *)
resolve_pending_unguarded(j, s) == update_status(j, s)

(* Variant for mutation runs: resolve_pending for a job under way. *)
resolve_pending_processing(j, s) ==
  /\ jobs' = IF jobs[j] = "processing" THEN [jobs EXCEPT ![j] = s] ELSE jobs
  /\ UNCHANGED arrivals

(* UPDATE jobs SET status = s WHERE id = j AND status = 'pending_commit',   *)
(* the form the retry loop of main.rs uses.                                 *)
resolve_pending(j, s) ==
  /\ jobs' = IF jobs[j] = "pending_commit" THEN [jobs EXCEPT ![j] = s]
                                           ELSE jobs
  /\ UNCHANGED arrivals
=============================================================================
