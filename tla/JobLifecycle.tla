---------------------------- MODULE JobLifecycle ----------------------------
(***************************************************************************)
(* What the jobs table promises its readers: every row follows the status  *)
(* machine of core/src/job.rs, whatever the number of worker processes and *)
(* whatever fails.  A row is created queued, is taken once, and leaves     *)
(* processing for a final status or for pending_commit, which in turn can  *)
(* only become final.                                                      *)
(***************************************************************************)
CONSTANT Jobs

VARIABLE jobs   \* jobs[j]: the status column of row j, "none" if no row

Final == {"completed", "failed"}

Init == jobs = [j \in Jobs |-> "none"]

(* Row j moves from status a to status b. *)
Move(j, a, b) == jobs[j] = a /\ jobs' = [jobs EXCEPT ![j] = b]

Create(j)  == Move(j, "none", "queued")
Take(j)    == Move(j, "queued", "processing")
Finish(j)  == \E s \in Final : Move(j, "processing", s)
Park(j)    == Move(j, "processing", "pending_commit")
Resolve(j) == \E s \in Final : Move(j, "pending_commit", s)

Next == \E j \in Jobs :
          Create(j) \/ Take(j) \/ Finish(j) \/ Park(j) \/ Resolve(j)

Spec == Init /\ [][Next]_jobs
=============================================================================
