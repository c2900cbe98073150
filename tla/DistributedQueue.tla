-------------------------- MODULE DistributedQueue --------------------------
(***************************************************************************)
(* core/src/distributed: a queue of jobs in Redis (queue.rs) and the       *)
(* workers that serve it (worker.rs).  There is a sorted set for each      *)
(* priority, a key per job that says who executes it, and a list of dead   *)
(* letters.                                                                *)
(*                                                                         *)
(* One command of Redis, or one call of the handler, is one step.  A       *)
(* command that fails may have been executed all the same, its reply lost. *)
(*                                                                         *)
(* ZPOPMIN replies with an array: the entry and its score, or nothing.     *)
(* dequeue asks the client for an Option<String> of it, a conversion that  *)
(* redis 0.27 (Cargo.lock) refuses for every array; the entry is gone from *)
(* the set then, and nobody has it (PopUnread).                            *)
(***************************************************************************)
EXTENDS Integers, FiniteSets

CONSTANTS
  Workers, Jobs,
  MAX_PRIORITY,   \* dequeue scans the priorities MAX_PRIORITY .. 0 (100 .. 0)
  Priorities,     \* what producers pass as priority, created_at, max_retries
  Times,
  RetryLimits,
  NoMember, NoWorker, NoInfo,   \* null values
  Converts,       \* what the client may make of a reply of ZPOPMIN: TRUE, an
                  \* entry or nothing; FALSE, an error.  {FALSE} as it is built
  MaxFaults       \* bound: failing commands and killed workers together

ASSUME DistributedConstantsOK ==
  /\ MAX_PRIORITY \in Nat /\ Priorities \subseteq Int
  /\ Times \subseteq Int /\ RetryLimits \subseteq Nat /\ MaxFaults \in Nat
  /\ NoWorker \notin Workers
  /\ Converts \subseteq BOOLEAN /\ Converts # {}

(* An entry of a sorted set is a job with its retry_count; what else it    *)
(* carries never changes and is kept in info.                              *)
Member == [id : Jobs, retry_count : Nat]
JobInfo == [priority : Priorities, created_at : Times, max_retries : RetryLimits]

ASSUME NullsOK == NoMember \notin Member /\ NoInfo \notin JobInfo

VARIABLES
  info,        \* info[j]: what job j was enqueued with, or NoInfo
  queued,      \* the entries of all sorted sets
  processing,  \* processing[j]: the key processing:<id>, or NoWorker
  dead,        \* the entries of queue:dead_letter
  pc,          \* pc[w]: the command that worker w issues next
  level,       \* level[w]: the priority that its scan has come to
  hold,        \* hold[w]: the entry it has popped, or NoMember
  done,        \* history: the jobs whose handler has returned Ok
  dropped,     \* history: the jobs popped by a reply that was not converted
  runs,        \* history: how often the handler was called for a job
  since,       \* history: what was queued when the scan that w is in began
  faults       \* failing commands and killed workers so far

jobVars == <<info, done, dropped, runs>>
vars == <<queued, processing, dead, pc, level, hold, since, jobVars, faults>>

PC == {"scan", "mark", "run", "complete", "retry", "down"}

TypeOK ==
  /\ info \in [Jobs -> JobInfo \cup {NoInfo}]
  /\ queued \subseteq Member /\ dead \subseteq Member
  /\ processing \in [Jobs -> Workers \cup {NoWorker}]
  /\ pc \in [Workers -> PC]
  /\ level \in [Workers -> 0..MAX_PRIORITY]
  /\ hold \in [Workers -> Member \cup {NoMember}]
  /\ \A w \in Workers : hold[w] = NoMember <=> pc[w] \in {"scan", "down"}
  /\ \A m \in queued : info[m.id] \in JobInfo
  /\ \A w \in Workers : hold[w] # NoMember => info[hold[w].id] \in JobInfo
  /\ done \subseteq Jobs /\ dropped \subseteq Jobs
  /\ runs \in [Jobs -> Nat]
  /\ since \in [Workers -> SUBSET Member]
  /\ faults \in 0..MaxFaults

Init ==
  /\ info = [j \in Jobs |-> NoInfo]
  /\ queued = {} /\ dead = {} /\ dropped = {}
  /\ processing = [j \in Jobs |-> NoWorker]
  /\ pc = [w \in Workers |-> "scan"]
  /\ level = [w \in Workers |-> MAX_PRIORITY]
  /\ hold = [w \in Workers |-> NoMember]
  /\ done = {} /\ runs = [j \in Jobs |-> 0]
  /\ since = [w \in Workers |-> {}]
  /\ faults = 0
-----------------------------------------------------------------------------
Fault == faults < MaxFaults /\ faults' = faults + 1

Goto(w, l) == pc' = [pc EXCEPT ![w] = l]

(* Variant for mutation runs: the next scan goes on where this one ended. *)
Loop_KeepsLevel(w) ==
  /\ Goto(w, "scan")
  /\ hold' = [hold EXCEPT ![w] = NoMember]
  /\ since' = [since EXCEPT ![w] = queued']
  /\ UNCHANGED level

(* Back to the top of loop {} in Worker::run; it sleeps before, or not.    *)
Loop(w) ==
  /\ Goto(w, "scan")
  /\ level' = [level EXCEPT ![w] = MAX_PRIORITY]
  /\ hold' = [hold EXCEPT ![w] = NoMember]
  /\ since' = [since EXCEPT ![w] = queued']

(* Worker::run returns an error, or the process is killed.                 *)
Exit(w) ==
  /\ Goto(w, "down")
  /\ hold' = [hold EXCEPT ![w] = NoMember]
  /\ since' = [since EXCEPT ![w] = {}]
  /\ UNCHANGED level

(* A new job.  Nothing keeps a producer from a priority out of range.      *)
Enqueue(j) ==
  /\ info[j] = NoInfo
  /\ \E i \in JobInfo : info' = [info EXCEPT ![j] = i]
  /\ queued' = queued \cup {[id |-> j, retry_count |-> 0]}
  /\ UNCHANGED <<processing, dead, pc, level, hold, done, dropped, runs, since,
                 faults>>

(* ZPOPMIN queue:priority:p takes an entry with the least created_at.      *)
AtLevel(p) == {m \in queued : info[m.id].priority = p}

Lowest(p) ==
  {m \in AtLevel(p) :
     \A n \in AtLevel(p) : info[m.id].created_at <= info[n.id].created_at}

(* Variant for mutation runs: the entry is read and left in the set. *)
Pop_Peek(w) ==
  /\ pc[w] = "scan"
  /\ \E m \in Lowest(level[w]) : hold' = [hold EXCEPT ![w] = m]
  /\ Goto(w, "mark")
  /\ UNCHANGED <<queued, processing, dead, level, since, jobVars, faults>>

(* A reply that the client converts: dequeue has the entry.                *)
Pop(w) ==
  /\ pc[w] = "scan" /\ TRUE \in Converts
  /\ \E m \in Lowest(level[w]) :
       /\ queued' = queued \ {m}
       /\ hold' = [hold EXCEPT ![w] = m]
  /\ Goto(w, "mark")
  /\ UNCHANGED <<processing, dead, level, since, jobVars, faults>>

(* Variant for mutation runs: the loop has no lower end. *)
PopNil_Endless(w) ==
  /\ pc[w] = "scan" /\ AtLevel(level[w]) = {} /\ TRUE \in Converts
  /\ level' = [level EXCEPT ![w] = @ - 1]
  /\ UNCHANGED <<queued, processing, dead, pc, hold, since, jobVars, faults>>

(* A reply without an entry: on to the next priority, or back with None.   *)
PopNil(w) ==
  /\ pc[w] = "scan" /\ AtLevel(level[w]) = {} /\ TRUE \in Converts
  /\ UNCHANGED <<queued, processing, dead, jobVars, faults>>
  /\ IF level[w] > 0
       THEN /\ level' = [level EXCEPT ![w] = @ - 1]
            /\ UNCHANGED <<pc, hold, since>>
       ELSE Loop(w)

(* A reply that the client does not convert, though the command succeeded: *)
(* dequeue returns the error, and the entry in the reply, if any, is lost. *)
Unread(w) ==
  /\ pc[w] = "scan" /\ FALSE \in Converts
  /\ \/ AtLevel(level[w]) = {} /\ UNCHANGED <<queued, dropped>>
     \/ \E m \in Lowest(level[w]) :
          /\ queued' = queued \ {m}
          /\ dropped' = dropped \cup {m.id}
  /\ UNCHANGED <<info, processing, dead, done, runs, faults>>

(* Variant for mutation runs: Worker::run returns an error of dequeue. *)
PopUnread_Exits(w) == Unread(w) /\ Exit(w)

PopUnread(w) == Unread(w) /\ Loop(w)

(* The command fails, before or after Redis has executed it.               *)
PopFails(w) ==
  /\ pc[w] = "scan" /\ Fault
  /\ \/ UNCHANGED queued
     \/ \E m \in Lowest(level[w]) : queued' = queued \ {m}
  /\ Loop(w)
  /\ UNCHANGED <<processing, dead, jobVars>>

SetEx(w) == processing' = [processing EXCEPT ![hold[w].id] = w]

(* SET EX marks the job as processing; then the handler is called.         *)
Mark(w) ==
  /\ pc[w] = "mark" /\ SetEx(w) /\ Goto(w, "run")
  /\ runs' = [runs EXCEPT ![hold[w].id] = @ + 1]
  /\ since' = [since EXCEPT ![w] = {}]
  /\ UNCHANGED <<info, queued, dead, level, hold, done, dropped, faults>>

(* dequeue fails with the job in hand, and Worker::run goes on without it. *)
MarkFails(w) ==
  /\ pc[w] = "mark" /\ Fault
  /\ SetEx(w) \/ UNCHANGED processing
  /\ UNCHANGED <<queued, dead, jobVars>>
  /\ Loop(w)

HandlerOk(w) ==
  /\ pc[w] = "run" /\ Goto(w, "complete")
  /\ done' = done \cup {hold[w].id}
  /\ UNCHANGED <<info, queued, processing, dead, level, hold, dropped, runs,
                 since, faults>>

HandlerErr(w) ==
  /\ pc[w] = "run" /\ Goto(w, "retry")
  /\ UNCHANGED <<queued, processing, dead, level, hold, jobVars, since, faults>>

Del(w) == processing' = [processing EXCEPT ![hold[w].id] = NoWorker]

Complete(w) ==
  /\ pc[w] = "complete" /\ Del(w)
  /\ UNCHANGED <<queued, dead, jobVars, faults>>
  /\ Loop(w)

CompleteFails(w) ==
  /\ pc[w] = "complete" /\ Fault
  /\ Del(w) \/ UNCHANGED processing
  /\ UNCHANGED <<queued, dead, jobVars>>
  /\ Exit(w)

(* Variant for mutation runs: retry_count may come to max_retries. *)
PutBack_OffByOne(m) ==
  LET n == [m EXCEPT !.retry_count = @ + 1] IN
  IF n.retry_count > info[m.id].max_retries
    THEN dead' = dead \cup {n} /\ UNCHANGED queued
    ELSE queued' = queued \cup {n} /\ UNCHANGED dead

(* Variant for mutation runs: a job that is not tried again is dropped. *)
PutBack_Drops(m) ==
  LET n == [m EXCEPT !.retry_count = @ + 1] IN
  /\ queued' = queued \cup {k \in {n} : k.retry_count < info[m.id].max_retries}
  /\ UNCHANGED dead

(* DistributedQueue::retry: LPUSH to the dead letters, or ZADD with the    *)
(* score that the job had before.                                          *)
PutBack(m) ==
  LET n == [m EXCEPT !.retry_count = @ + 1] IN
  IF n.retry_count >= info[m.id].max_retries
    THEN dead' = dead \cup {n} /\ UNCHANGED queued
    ELSE queued' = queued \cup {n} /\ UNCHANGED dead

Retry(w) ==
  /\ pc[w] = "retry" /\ PutBack(hold[w])
  /\ UNCHANGED <<processing, jobVars, faults>>
  /\ Loop(w)

RetryFails(w) ==
  /\ pc[w] = "retry" /\ Fault
  /\ PutBack(hold[w]) \/ UNCHANGED <<queued, dead>>
  /\ UNCHANGED <<processing, jobVars>>
  /\ Exit(w)

(* The key of a job expires after 300 s, also under a handler that is slow. *)
Expire(j) ==
  /\ processing[j] # NoWorker
  /\ processing' = [processing EXCEPT ![j] = NoWorker]
  /\ UNCHANGED <<queued, dead, pc, level, hold, jobVars, since, faults>>

Crash(w) ==
  /\ pc[w] # "down" /\ Fault /\ Exit(w)
  /\ UNCHANGED <<queued, processing, dead, jobVars>>

WorkerStep(w) ==
  \/ Pop(w) \/ PopNil(w) \/ PopUnread(w) \/ PopFails(w)
  \/ Mark(w) \/ MarkFails(w)
  \/ HandlerOk(w) \/ HandlerErr(w)
  \/ Complete(w) \/ CompleteFails(w)
  \/ Retry(w) \/ RetryFails(w)

Next ==
  \/ \E j \in Jobs : Enqueue(j) \/ Expire(j)
  \/ \E w \in Workers : WorkerStep(w) \/ Crash(w)

Spec == Init /\ [][Next]_vars

(* Every command returns, with a reply or an error, and the handler too.   *)
FairSpec == Spec /\ \A w \in Workers : WF_vars(WorkerStep(w))
-----------------------------------------------------------------------------
InRange(j) == info[j] # NoInfo /\ info[j].priority \in 0..MAX_PRIORITY

AtTop(j) == info[j] # NoInfo /\ info[j].priority = MAX_PRIORITY

Waiting(j) == \E m \in queued : m.id = j
HeldBy(w, j) == hold[w] # NoMember /\ hold[w].id = j
IsDead(j) == \E m \in dead : m.id = j

(* A job is in at most one place: in one sorted set, once, or with one     *)
(* worker, or among the dead letters, once.  A job that has succeeded is   *)
(* at most still with the worker that has yet to delete its key, and one   *)
(* lost with a reply that nobody could read is nowhere.                    *)
(* DistributedQueue::dequeue and retry move it by two commands that no     *)
(* transaction joins, and workers compete for it.                          *)
OnePlace ==
  \A j \in Jobs :
    /\ \A m, n \in queued \cup dead : m.id = j /\ n.id = j => m = n
    /\ Waiting(j) => ~IsDead(j)
    /\ \A v, w \in Workers : HeldBy(v, j) /\ HeldBy(w, j) => v = w
    /\ \A w \in Workers :
         HeldBy(w, j) => /\ ~Waiting(j) /\ ~IsDead(j)
                         /\ j \in done <=> pc[w] = "complete"
    /\ j \in done => ~Waiting(j) /\ ~IsDead(j)
    /\ j \in dropped =>
         /\ ~Waiting(j) /\ ~IsDead(j) /\ j \notin done
         /\ \A w \in Workers : ~HeldBy(w, j)

(* Without a failing command or a kill, a job disappears in one way only,  *)
(* with a reply of ZPOPMIN that was not converted; else it waits, is with  *)
(* a worker, is dead, or was executed with success.                        *)
NothingLost ==
  faults = 0 =>
    \A j \in Jobs : info[j] # NoInfo =>
      \/ Waiting(j) \/ IsDead(j) \/ j \in done \/ j \in dropped
      \/ \E w \in Workers : HeldBy(w, j)

(* Each job is in exactly one place, or was lost by an unread reply or by  *)
(* a fault.                                                                *)
ExactlyOnePlace == OnePlace /\ NothingLost

(* The handler is called at most max_retries times for a job, and once if  *)
(* max_retries is 0: retry() counts across the workers that had the job.   *)
BoundedRuns ==
  \A j \in Jobs : info[j] # NoInfo =>
    runs[j] <= info[j].max_retries \/ runs[j] <= 1

(* "Try high priority first" (queue.rs:56), although the scan is a command *)
(* per priority: a worker never comes to a priority, nor takes a job from  *)
(* it, while a job of a higher one waits that waited when the scan began.  *)
HighestFirst ==
  \A w \in Workers : pc[w] \in {"scan", "mark"} =>
    \A m \in since[w] \cap queued :
      InRange(m.id) => info[m.id].priority <= level[w]

(* While a worker executes a job, the job's key names that worker or has   *)
(* expired; it never names one that had the job at an earlier try.         *)
KeyNamesWorker ==
  \A w \in Workers : pc[w] \in {"run", "complete", "retry"} =>
    processing[hold[w].id] \in {w, NoWorker}

(* Without faults a job of the highest priority ends with a success or     *)
(* among the dead letters, whatever its handler returns, or is lost with   *)
(* an unread reply.  Nothing is promised to the other priorities: dequeue  *)
(* goes back to the highest after an error, so it may never come to them.  *)
EveryJobSettles ==
  [](faults = 0) =>
    \A j \in Jobs : AtTop(j) ~> (j \in done \/ IsDead(j) \/ j \in dropped)

(* A waiting job of the highest priority leaves its set unless as many     *)
(* faults have happened as there are workers: each worker that ends takes  *)
(* a failing command of its own or a kill, and neither a failing ZPOPMIN   *)
(* nor a reply that is not converted ends the loop of Worker::run.         *)
Served ==
  \A j \in Jobs :
    AtTop(j) /\ Waiting(j) ~> (~Waiting(j) \/ faults >= Cardinality(Workers))
=============================================================================
