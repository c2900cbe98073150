----------------------- MODULE DistributedQueueProofs -----------------------
(***************************************************************************)
(* Theorems about DistributedQueue, for any number of workers and jobs,    *)
(* any priorities and limits, and any number of faults.                    *)
(***************************************************************************)
EXTENDS DistributedQueue, TLAPS

(* A job that nobody has enqueued yet has left no trace. *)
Unknown ==
  \A j \in Jobs : info[j] = NoInfo =>
    runs[j] = 0 /\ j \notin done /\ j \notin dropped /\ ~IsDead(j)

(* retry_count, which travels with the job, is how often its handler was   *)
(* called, and the call in progress is one that the limit allows.          *)
MayRun(m) == m.retry_count = 0 \/ m.retry_count < info[m.id].max_retries

CountsAgree ==
  /\ \A m \in queued : runs[m.id] = m.retry_count /\ MayRun(m)
  /\ \A w \in Workers :
       /\ pc[w] = "mark" =>
            runs[hold[w].id] = hold[w].retry_count /\ MayRun(hold[w])
       /\ pc[w] \in {"run", "complete", "retry"} =>
            runs[hold[w].id] = hold[w].retry_count + 1

(* What a scan has seen in the sets, and is gone from them, does not come  *)
(* back: a job that is put back has a higher retry_count.                  *)
SinceOlder ==
  \A v \in Workers : \A m \in since[v] :
    /\ info[m.id] \in JobInfo /\ m.retry_count <= runs[m.id]
    /\ \A w \in Workers :
         pc[w] \in {"run", "complete", "retry"} /\ hold[w].id = m.id =>
           m.retry_count < runs[m.id]

IndInv ==
  /\ TypeOK /\ Unknown /\ OnePlace /\ NothingLost
  /\ CountsAgree /\ BoundedRuns /\ KeyNamesWorker
  /\ SinceOlder /\ HighestFirst

-----------------------------------------------------------------------------
(* A worker past a successful ZPOPMIN has an entry of a known job. *)
LEMMA Held ==
  ASSUME TypeOK, NEW w \in Workers, pc[w] \notin {"scan", "down"}
  PROVE  /\ hold[w] \in Member /\ hold[w] # NoMember
         /\ hold[w].id \in Jobs /\ hold[w].retry_count \in Nat
         /\ info[hold[w].id] \in JobInfo
         /\ info[hold[w].id].max_retries \in Nat
BY DistributedConstantsOK DEF TypeOK, Member, JobInfo

(* What retry() does with the entry: the job moves to one place. *)
LEMMA PutBackMoves ==
  ASSUME TypeOK, NEW w \in Workers, pc[w] = "retry", PutBack(hold[w])
  PROVE  \E n \in Member :
           /\ n.id = hold[w].id
           /\ \/ queued' = queued \cup {n} /\ dead' = dead
              \/ dead' = dead \cup {n} /\ queued' = queued
<1> DEFINE n == [hold[w] EXCEPT !.retry_count = @ + 1]
<1>1. n \in Member /\ n.id = hold[w].id
  BY Held DEF Member
<1> QED
  BY <1>1 DEF PutBack

(* Every step keeps the types. *)
LEMMA TypeStep ==
  ASSUME TypeOK, Next
  PROVE  TypeOK'
<1>1. ASSUME NEW j \in Jobs, Enqueue(j) PROVE TypeOK'
  BY <1>1 DEF Enqueue, TypeOK, Member
<1>2. ASSUME NEW j \in Jobs, Expire(j) PROVE TypeOK'
  BY <1>2 DEF Expire, TypeOK, jobVars
<1>3. ASSUME NEW w \in Workers, Pop(w) PROVE TypeOK'
  BY <1>3, NullsOK DEF Pop, Goto, Lowest, AtLevel, TypeOK, PC, jobVars
<1>4. ASSUME NEW w \in Workers, PopNil(w) PROVE TypeOK'
  BY <1>4, DistributedConstantsOK DEF PopNil, Loop, Goto, TypeOK, jobVars
<1>5. ASSUME NEW w \in Workers, PopFails(w) PROVE TypeOK'
  BY <1>5, DistributedConstantsOK DEF PopFails, Loop, Goto, Fault, TypeOK,
     jobVars
<1>6. ASSUME NEW w \in Workers, Mark(w) PROVE TypeOK'
  BY <1>6 DEF Mark, SetEx, Goto, TypeOK, PC, Member
<1>7. ASSUME NEW w \in Workers, MarkFails(w) PROVE TypeOK'
  BY <1>7, DistributedConstantsOK DEF MarkFails, SetEx, Loop, Goto, Fault,
     TypeOK, PC, jobVars
<1>8. ASSUME NEW w \in Workers, HandlerOk(w) PROVE TypeOK'
  BY <1>8 DEF HandlerOk, Goto, TypeOK, PC, Member
<1>9. ASSUME NEW w \in Workers, HandlerErr(w) PROVE TypeOK'
  BY <1>9 DEF HandlerErr, Goto, TypeOK, PC, jobVars
<1>10. ASSUME NEW w \in Workers, Complete(w) PROVE TypeOK'
  BY <1>10, DistributedConstantsOK DEF Complete, Del, Loop, Goto, TypeOK,
     PC, Member, jobVars
<1>11. ASSUME NEW w \in Workers, CompleteFails(w) PROVE TypeOK'
  BY <1>11, DistributedConstantsOK DEF CompleteFails, Del, Exit, Goto,
     Fault, TypeOK, PC, jobVars
<1>12. ASSUME NEW w \in Workers, Retry(w) PROVE TypeOK'
  BY <1>12, DistributedConstantsOK DEF Retry, PutBack, Loop, Goto, TypeOK,
     PC, Member, jobVars
<1>13. ASSUME NEW w \in Workers, RetryFails(w) PROVE TypeOK'
  BY <1>13, DistributedConstantsOK DEF RetryFails, PutBack, Exit, Goto,
     Fault, TypeOK, PC, Member, jobVars
<1>14. ASSUME NEW w \in Workers, Crash(w) PROVE TypeOK'
  BY <1>14, DistributedConstantsOK DEF Crash, Exit, Goto, Fault, TypeOK, PC,
     jobVars
<1>15. ASSUME NEW w \in Workers, PopUnread(w) PROVE TypeOK'
  BY <1>15, DistributedConstantsOK DEF PopUnread, Unread, Loop, Goto,
     Lowest, AtLevel, TypeOK, PC, Member
<1> QED
  BY <1>1, <1>2, <1>3, <1>4, <1>5, <1>6, <1>7, <1>8,
     <1>9, <1>10, <1>11, <1>12, <1>13, <1>14, <1>15
  DEF Next, WorkerStep

(* A job leaves traces only once it is known. *)
LEMMA UnknownStep ==
  ASSUME TypeOK, Unknown, Next
  PROVE  Unknown'
<1>1. ASSUME NEW j \in Jobs, Enqueue(j) PROVE Unknown'
  BY <1>1 DEF Enqueue, Unknown, IsDead
<1>2. ASSUME NEW j \in Jobs, Expire(j) PROVE Unknown'
  BY <1>2 DEF Expire, Unknown, IsDead, jobVars
<1>3. ASSUME NEW w \in Workers, Pop(w) PROVE Unknown'
  BY <1>3 DEF Pop, Unknown, IsDead, jobVars
<1>4. ASSUME NEW w \in Workers, PopNil(w) PROVE Unknown'
  BY <1>4 DEF PopNil, Unknown, IsDead, jobVars
<1>5. ASSUME NEW w \in Workers, PopFails(w) PROVE Unknown'
  BY <1>5 DEF PopFails, Unknown, IsDead, jobVars
<1>6. ASSUME NEW w \in Workers, Mark(w) PROVE Unknown'
  BY <1>6, NullsOK DEF Mark, TypeOK, Unknown, IsDead
<1>7. ASSUME NEW w \in Workers, MarkFails(w) PROVE Unknown'
  BY <1>7 DEF MarkFails, Unknown, IsDead, jobVars
<1>8. ASSUME NEW w \in Workers, HandlerOk(w) PROVE Unknown'
  BY <1>8, NullsOK DEF HandlerOk, TypeOK, Unknown, IsDead
<1>9. ASSUME NEW w \in Workers, HandlerErr(w) PROVE Unknown'
  BY <1>9 DEF HandlerErr, Unknown, IsDead, jobVars
<1>10. ASSUME NEW w \in Workers, Complete(w) PROVE Unknown'
  BY <1>10 DEF Complete, Unknown, IsDead, jobVars
<1>11. ASSUME NEW w \in Workers, CompleteFails(w) PROVE Unknown'
  BY <1>11 DEF CompleteFails, Unknown, IsDead, jobVars
<1>12. ASSUME NEW w \in Workers, Retry(w) PROVE Unknown'
  BY <1>12, NullsOK DEF Retry, PutBack, TypeOK, Unknown, IsDead, Member,
     jobVars
<1>13. ASSUME NEW w \in Workers, RetryFails(w) PROVE Unknown'
  BY <1>13, NullsOK DEF RetryFails, PutBack, TypeOK, Unknown, IsDead,
     Member, jobVars
<1>14. ASSUME NEW w \in Workers, Crash(w) PROVE Unknown'
  BY <1>14 DEF Crash, Unknown, IsDead, jobVars
<1>15. ASSUME NEW w \in Workers, PopUnread(w) PROVE Unknown'
  BY <1>15, NullsOK DEF PopUnread, Unread, Lowest, AtLevel, TypeOK, Unknown,
     IsDead, Member
<1> QED
  BY <1>1, <1>2, <1>3, <1>4, <1>5, <1>6, <1>7, <1>8,
     <1>9, <1>10, <1>11, <1>12, <1>13, <1>14, <1>15
  DEF Next, WorkerStep

(* It moves from its worker to a place where it was not. *)
LEMMA PutBackPlace ==
  ASSUME TypeOK, OnePlace, NEW w \in Workers, pc[w] = "retry",
         PutBack(hold[w]), hold' = [hold EXCEPT ![w] = NoMember],
         NEW l \in {"scan", "down"}, pc' = [pc EXCEPT ![w] = l],
         done' = done, dropped' = dropped
  PROVE  OnePlace'
<1>1. PICK n \in Member :
        /\ n.id = hold[w].id
        /\ \/ queued' = queued \cup {n} /\ dead' = dead
           \/ dead' = dead \cup {n} /\ queued' = queued
  BY PutBackMoves
<1>2. HeldBy(w, n.id)
  BY <1>1, Held DEF HeldBy
<1>3. /\ ~Waiting(n.id) /\ ~IsDead(n.id)
      /\ n.id \notin done /\ n.id \notin dropped
      /\ \A v \in Workers : HeldBy(v, n.id) => v = w
  BY <1>1, <1>2 DEF OnePlace, Member
<1>4. \A v \in Workers, j \in Jobs : HeldBy(v, j)' <=> v # w /\ HeldBy(v, j)
  BY DEF HeldBy, TypeOK
<1>5. \A m, k \in queued' \cup dead' : m.id = k.id => m = k
  BY <1>1, <1>3 DEF OnePlace, Waiting, IsDead, TypeOK, Member
<1>6. \A j \in Jobs : /\ Waiting(j)' => Waiting(j) \/ j = n.id
                      /\ IsDead(j)' => IsDead(j) \/ j = n.id
                      /\ ~(Waiting(j)' /\ IsDead(j)')
  BY <1>1, <1>3 DEF OnePlace, Waiting, IsDead
<1>7. \A v \in Workers : v # w => pc'[v] = pc[v]
  BY DEF TypeOK
<1> QED
  BY <1>3, <1>4, <1>5, <1>6, <1>7 DEF OnePlace

(* A step moves an entry from one place to another, or drops it. *)
LEMMA OnePlaceStep ==
  ASSUME TypeOK, Unknown, OnePlace, Next
  PROVE  OnePlace'
<1>1. ASSUME NEW j \in Jobs, Enqueue(j) PROVE OnePlace'
  BY <1>1, NullsOK DEF Enqueue, TypeOK, Unknown, OnePlace, Waiting, IsDead,
     HeldBy
<1>2. ASSUME NEW j \in Jobs, Expire(j) PROVE OnePlace'
  BY <1>2 DEF Expire, OnePlace, Waiting, IsDead, HeldBy, jobVars
<1>3. ASSUME NEW w \in Workers, Pop(w) PROVE OnePlace'
  BY <1>3 DEF Pop, Goto, Lowest, AtLevel, OnePlace, Waiting, IsDead, HeldBy,
     jobVars
<1>4. ASSUME NEW w \in Workers, PopNil(w) PROVE OnePlace'
  BY <1>4 DEF PopNil, Loop, Goto, TypeOK, OnePlace, Waiting, IsDead, HeldBy,
     jobVars
<1>5. ASSUME NEW w \in Workers, PopFails(w) PROVE OnePlace'
  BY <1>5 DEF PopFails, Loop, Goto, OnePlace, Waiting, IsDead, HeldBy,
     jobVars
<1>6. ASSUME NEW w \in Workers, Mark(w) PROVE OnePlace'
  BY <1>6 DEF Mark, Goto, OnePlace, Waiting, IsDead, HeldBy
<1>7. ASSUME NEW w \in Workers, MarkFails(w) PROVE OnePlace'
  BY <1>7 DEF MarkFails, Loop, Goto, OnePlace, Waiting, IsDead, HeldBy,
     jobVars
<1>8. ASSUME NEW w \in Workers, HandlerOk(w) PROVE OnePlace'
  BY <1>8 DEF HandlerOk, Goto, TypeOK, OnePlace, Waiting, IsDead, HeldBy
<1>9. ASSUME NEW w \in Workers, HandlerErr(w) PROVE OnePlace'
  BY <1>9 DEF HandlerErr, Goto, OnePlace, Waiting, IsDead, HeldBy, jobVars
<1>10. ASSUME NEW w \in Workers, Complete(w) PROVE OnePlace'
  BY <1>10 DEF Complete, Loop, Goto, TypeOK, OnePlace, Waiting, IsDead,
     HeldBy, jobVars
<1>11. ASSUME NEW w \in Workers, CompleteFails(w) PROVE OnePlace'
  BY <1>11 DEF CompleteFails, Exit, Goto, TypeOK, OnePlace, Waiting, IsDead,
     HeldBy, jobVars
<1>12. ASSUME NEW w \in Workers, Retry(w) PROVE OnePlace'
  BY <1>12, PutBackPlace DEF Retry, Loop, Goto, jobVars
<1>13. ASSUME NEW w \in Workers, RetryFails(w) PROVE OnePlace'
  <2>1. CASE PutBack(hold[w])
    BY <1>13, <2>1, PutBackPlace DEF RetryFails, Exit, Goto, jobVars
  <2>2. CASE UNCHANGED <<queued, dead>>
    BY <1>13, <2>2 DEF RetryFails, Exit, Goto, TypeOK, OnePlace, Waiting,
       IsDead, HeldBy, jobVars
  <2> QED
    BY <1>13, <2>1, <2>2 DEF RetryFails
<1>14. ASSUME NEW w \in Workers, Crash(w) PROVE OnePlace'
  BY <1>14 DEF Crash, Exit, Goto, TypeOK, OnePlace, Waiting, IsDead, HeldBy,
     jobVars
<1>15. ASSUME NEW w \in Workers, PopUnread(w) PROVE OnePlace'
  BY <1>15 DEF PopUnread, Unread, Loop, Goto, Lowest, AtLevel, TypeOK,
     OnePlace, Waiting, IsDead, HeldBy, Member
<1> QED
  BY <1>1, <1>2, <1>3, <1>4, <1>5, <1>6, <1>7, <1>8,
     <1>9, <1>10, <1>11, <1>12, <1>13, <1>14, <1>15
  DEF Next, WorkerStep

(* Only a fault drops an entry. *)
LEMMA NothingLostStep ==
  ASSUME TypeOK, OnePlace, NothingLost, Next
  PROVE  NothingLost'
<1>1. ASSUME NEW j \in Jobs, Enqueue(j) PROVE NothingLost'
  <2> SUFFICES ASSUME NEW k \in Jobs, faults' = 0, info'[k] # NoInfo
               PROVE  \/ Waiting(k)' \/ IsDead(k)'
                      \/ k \in done' \/ k \in dropped'
                      \/ \E w \in Workers : HeldBy(w, k)'
    BY DEF NothingLost
  <2>1. /\ Waiting(j)' /\ hold' = hold /\ dead' = dead
        /\ done' = done /\ dropped' = dropped /\ faults' = faults
    <3>1. [id |-> j, retry_count |-> 0] \in queued'
      BY <1>1 DEF Enqueue
    <3> QED
      BY <1>1, <3>1 DEF Enqueue, Waiting
  <2>2. \A i \in Jobs : /\ i # j => info'[i] = info[i]
                        /\ Waiting(i) => Waiting(i)'
    BY <1>1 DEF Enqueue, Waiting
  <2>3. \A i \in Jobs : /\ IsDead(i) <=> IsDead(i)'
                        /\ \A w \in Workers : HeldBy(w, i) <=> HeldBy(w, i)'
    BY <2>1 DEF IsDead, HeldBy
  <2>4. CASE k = j
    BY <2>1, <2>4
  <2>5. CASE k # j
    <3>1. info[k] # NoInfo /\ faults = 0
      BY <2>1, <2>2, <2>5
    <3>2. \/ Waiting(k) \/ IsDead(k) \/ k \in done \/ k \in dropped
          \/ \E w \in Workers : HeldBy(w, k)
      BY <3>1 DEF NothingLost
    <3> QED
      BY <2>1, <2>2, <2>3, <3>2
  <2> QED
    BY <2>4, <2>5
<1>2. ASSUME NEW j \in Jobs, Expire(j) PROVE NothingLost'
  BY <1>2 DEF Expire, NothingLost, Waiting, IsDead, HeldBy, jobVars
<1>3. ASSUME NEW w \in Workers, Pop(w) PROVE NothingLost'
  BY <1>3, NullsOK DEF Pop, TypeOK, NothingLost, Waiting, IsDead, HeldBy,
     jobVars
<1>4. ASSUME NEW w \in Workers, PopNil(w) PROVE NothingLost'
  BY <1>4 DEF PopNil, Loop, TypeOK, NothingLost, Waiting, IsDead, HeldBy,
     jobVars
<1>5. ASSUME NEW w \in Workers, PopFails(w) PROVE NothingLost'
  BY <1>5 DEF PopFails, Fault, TypeOK, NothingLost
<1>6. ASSUME NEW w \in Workers, Mark(w) PROVE NothingLost'
  BY <1>6 DEF Mark, NothingLost, Waiting, IsDead, HeldBy
<1>7. ASSUME NEW w \in Workers, MarkFails(w) PROVE NothingLost'
  BY <1>7 DEF MarkFails, Fault, TypeOK, NothingLost
<1>8. ASSUME NEW w \in Workers, HandlerOk(w) PROVE NothingLost'
  BY <1>8 DEF HandlerOk, NothingLost, Waiting, IsDead, HeldBy
<1>9. ASSUME NEW w \in Workers, HandlerErr(w) PROVE NothingLost'
  BY <1>9 DEF HandlerErr, NothingLost, Waiting, IsDead, HeldBy, jobVars
<1>10. ASSUME NEW w \in Workers, Complete(w) PROVE NothingLost'
  BY <1>10 DEF Complete, Loop, OnePlace, NothingLost, Waiting, IsDead,
     HeldBy, jobVars
<1>11. ASSUME NEW w \in Workers, CompleteFails(w) PROVE NothingLost'
  BY <1>11 DEF CompleteFails, Fault, TypeOK, NothingLost
<1>12. ASSUME NEW w \in Workers, Retry(w) PROVE NothingLost'
  <2>1. PICK n \in Member :
          /\ n.id = hold[w].id
          /\ \/ queued' = queued \cup {n} /\ dead' = dead
             \/ dead' = dead \cup {n} /\ queued' = queued
    BY <1>12, PutBackMoves DEF Retry
  <2>2. /\ hold' = [hold EXCEPT ![w] = NoMember]
        /\ done' = done /\ dropped' = dropped
        /\ info' = info /\ faults' = faults
    BY <1>12 DEF Retry, Loop, jobVars
  <2>3. \A v \in Workers, j \in Jobs : HeldBy(v, j) => v = w \/ HeldBy(v, j)'
    BY <2>2 DEF HeldBy, TypeOK
  <2>4. Waiting(n.id)' \/ IsDead(n.id)'
    BY <2>1 DEF Waiting, IsDead
  <2>5. \A j \in Jobs : HeldBy(w, j) => j = n.id
    BY <2>1 DEF HeldBy
  <2>6. \A j \in Jobs : (Waiting(j) => Waiting(j)') /\ (IsDead(j) => IsDead(j)')
    BY <2>1 DEF Waiting, IsDead
  <2> QED
    BY <2>2, <2>3, <2>4, <2>5, <2>6 DEF NothingLost
<1>13. ASSUME NEW w \in Workers, RetryFails(w) PROVE NothingLost'
  BY <1>13 DEF RetryFails, Fault, TypeOK, NothingLost
<1>14. ASSUME NEW w \in Workers, Crash(w) PROVE NothingLost'
  BY <1>14 DEF Crash, Fault, TypeOK, NothingLost
<1>15. ASSUME NEW w \in Workers, PopUnread(w) PROVE NothingLost'
  BY <1>15 DEF PopUnread, Unread, Loop, Lowest, AtLevel, TypeOK,
     NothingLost, Waiting, IsDead, HeldBy
<1> QED
  BY <1>1, <1>2, <1>3, <1>4, <1>5, <1>6, <1>7, <1>8,
     <1>9, <1>10, <1>11, <1>12, <1>13, <1>14, <1>15
  DEF Next, WorkerStep

(* The count travels with the entry. *)
LEMMA CountsStep ==
  ASSUME TypeOK, Unknown, OnePlace, CountsAgree, Next
  PROVE  CountsAgree'
<1>1. ASSUME NEW j \in Jobs, Enqueue(j) PROVE CountsAgree'
  BY <1>1 DEF Enqueue, Unknown, CountsAgree, MayRun
<1>2. ASSUME NEW j \in Jobs, Expire(j) PROVE CountsAgree'
  BY <1>2 DEF Expire, CountsAgree, MayRun, jobVars
<1>3. ASSUME NEW w \in Workers, Pop(w) PROVE CountsAgree'
  BY <1>3 DEF Pop, Goto, Lowest, AtLevel, TypeOK, CountsAgree, MayRun,
     jobVars
<1>4. ASSUME NEW w \in Workers, PopNil(w) PROVE CountsAgree'
  BY <1>4 DEF PopNil, Loop, Goto, TypeOK, CountsAgree, MayRun, jobVars
<1>5. ASSUME NEW w \in Workers, PopFails(w) PROVE CountsAgree'
  BY <1>5 DEF PopFails, Loop, Goto, CountsAgree, MayRun, jobVars
<1>6. ASSUME NEW w \in Workers, Mark(w) PROVE CountsAgree'
  <2>1. /\ pc[w] = "mark" /\ pc' = [pc EXCEPT ![w] = "run"]
        /\ runs' = [runs EXCEPT ![hold[w].id] = @ + 1]
        /\ UNCHANGED <<info, queued, hold>>
    BY <1>6 DEF Mark, Goto
  <2>2. HeldBy(w, hold[w].id) /\ hold[w].id \in Jobs
    BY <2>1, Held DEF HeldBy
  <2>3. /\ \A m \in queued : m.id # hold[w].id
        /\ \A v \in Workers : v # w => ~HeldBy(v, hold[w].id)
    BY <2>2 DEF OnePlace, Waiting
  <2>4. \A m \in queued : runs'[m.id] = m.retry_count /\ MayRun(m)'
    BY <2>1, <2>3 DEF CountsAgree, MayRun, TypeOK, Member
  <2>5. ASSUME NEW v \in Workers, v # w, pc[v] \notin {"scan", "down"}
        PROVE  runs'[hold'[v].id] = runs[hold[v].id]
    BY <2>1, <2>3, <2>5, Held DEF HeldBy, TypeOK
  <2>6. runs'[hold[w].id] = hold[w].retry_count + 1
    BY <2>1, <2>2 DEF CountsAgree, TypeOK
  <2> QED
    BY <2>1, <2>4, <2>5, <2>6 DEF CountsAgree, MayRun, TypeOK
<1>7. ASSUME NEW w \in Workers, MarkFails(w) PROVE CountsAgree'
  BY <1>7 DEF MarkFails, Loop, Goto, TypeOK, CountsAgree, MayRun, jobVars
<1>8. ASSUME NEW w \in Workers, HandlerOk(w) PROVE CountsAgree'
  BY <1>8 DEF HandlerOk, Goto, CountsAgree, MayRun
<1>9. ASSUME NEW w \in Workers, HandlerErr(w) PROVE CountsAgree'
  BY <1>9 DEF HandlerErr, Goto, CountsAgree, MayRun, jobVars
<1>10. ASSUME NEW w \in Workers, Complete(w) PROVE CountsAgree'
  BY <1>10 DEF Complete, Loop, Goto, TypeOK, CountsAgree, MayRun, jobVars
<1>11. ASSUME NEW w \in Workers, CompleteFails(w) PROVE CountsAgree'
  BY <1>11 DEF CompleteFails, Exit, Goto, TypeOK, CountsAgree, MayRun,
     jobVars
<1>12. ASSUME NEW w \in Workers, Retry(w) PROVE CountsAgree'
  BY <1>12, DistributedConstantsOK DEF Retry, PutBack, Loop, Goto, TypeOK,
     CountsAgree, MayRun, HeldBy, Member, JobInfo, jobVars
<1>13. ASSUME NEW w \in Workers, RetryFails(w) PROVE CountsAgree'
  BY <1>13, DistributedConstantsOK DEF RetryFails, PutBack, Exit, Goto,
     TypeOK, CountsAgree, MayRun, HeldBy, Member, JobInfo, jobVars
<1>14. ASSUME NEW w \in Workers, Crash(w) PROVE CountsAgree'
  BY <1>14 DEF Crash, Exit, Goto, TypeOK, CountsAgree, MayRun, jobVars
<1>15. ASSUME NEW w \in Workers, PopUnread(w) PROVE CountsAgree'
  BY <1>15 DEF PopUnread, Unread, Loop, Goto, CountsAgree, MayRun
<1> QED
  BY <1>1, <1>2, <1>3, <1>4, <1>5, <1>6, <1>7, <1>8,
     <1>9, <1>10, <1>11, <1>12, <1>13, <1>14, <1>15
  DEF Next, WorkerStep

(* A handler is called when the limit allows it. *)
LEMMA BoundedStep ==
  ASSUME TypeOK, Unknown, CountsAgree, BoundedRuns, Next
  PROVE  BoundedRuns'
<1>1. ASSUME NEW j \in Jobs, Enqueue(j) PROVE BoundedRuns'
  BY <1>1 DEF Enqueue, Unknown, BoundedRuns
<1>2. ASSUME NEW j \in Jobs, Expire(j) PROVE BoundedRuns'
  BY <1>2 DEF Expire, BoundedRuns, jobVars
<1>3. ASSUME NEW w \in Workers, Pop(w) PROVE BoundedRuns'
  BY <1>3 DEF Pop, BoundedRuns, jobVars
<1>4. ASSUME NEW w \in Workers, PopNil(w) PROVE BoundedRuns'
  BY <1>4 DEF PopNil, BoundedRuns, jobVars
<1>5. ASSUME NEW w \in Workers, PopFails(w) PROVE BoundedRuns'
  BY <1>5 DEF PopFails, BoundedRuns, jobVars
<1>6. ASSUME NEW w \in Workers, Mark(w) PROVE BoundedRuns'
  BY <1>6, Held DEF Mark, CountsAgree, BoundedRuns, MayRun
<1>7. ASSUME NEW w \in Workers, MarkFails(w) PROVE BoundedRuns'
  BY <1>7 DEF MarkFails, BoundedRuns, jobVars
<1>8. ASSUME NEW w \in Workers, HandlerOk(w) PROVE BoundedRuns'
  BY <1>8 DEF HandlerOk, BoundedRuns
<1>9. ASSUME NEW w \in Workers, HandlerErr(w) PROVE BoundedRuns'
  BY <1>9 DEF HandlerErr, BoundedRuns, jobVars
<1>10. ASSUME NEW w \in Workers, Complete(w) PROVE BoundedRuns'
  BY <1>10 DEF Complete, BoundedRuns, jobVars
<1>11. ASSUME NEW w \in Workers, CompleteFails(w) PROVE BoundedRuns'
  BY <1>11 DEF CompleteFails, BoundedRuns, jobVars
<1>12. ASSUME NEW w \in Workers, Retry(w) PROVE BoundedRuns'
  BY <1>12 DEF Retry, BoundedRuns, jobVars
<1>13. ASSUME NEW w \in Workers, RetryFails(w) PROVE BoundedRuns'
  BY <1>13 DEF RetryFails, BoundedRuns, jobVars
<1>14. ASSUME NEW w \in Workers, Crash(w) PROVE BoundedRuns'
  BY <1>14 DEF Crash, BoundedRuns, jobVars
<1>15. ASSUME NEW w \in Workers, PopUnread(w) PROVE BoundedRuns'
  BY <1>15 DEF PopUnread, Unread, BoundedRuns
<1> QED
  BY <1>1, <1>2, <1>3, <1>4, <1>5, <1>6, <1>7, <1>8,
     <1>9, <1>10, <1>11, <1>12, <1>13, <1>14, <1>15
  DEF Next, WorkerStep

(* No other worker writes the key of a job at hand. *)
LEMMA KeyStep ==
  ASSUME TypeOK, OnePlace, KeyNamesWorker, Next
  PROVE  KeyNamesWorker'
<1>1. ASSUME NEW j \in Jobs, Enqueue(j) PROVE KeyNamesWorker'
  BY <1>1 DEF Enqueue, KeyNamesWorker
<1>2. ASSUME NEW j \in Jobs, Expire(j) PROVE KeyNamesWorker'
  BY <1>2 DEF Expire, KeyNamesWorker
<1>3. ASSUME NEW w \in Workers, Pop(w) PROVE KeyNamesWorker'
  BY <1>3 DEF Pop, Goto, KeyNamesWorker
<1>4. ASSUME NEW w \in Workers, PopNil(w) PROVE KeyNamesWorker'
  BY <1>4 DEF PopNil, Loop, Goto, TypeOK, KeyNamesWorker
<1>5. ASSUME NEW w \in Workers, PopFails(w) PROVE KeyNamesWorker'
  BY <1>5 DEF PopFails, Loop, Goto, KeyNamesWorker
<1>6. ASSUME NEW w \in Workers, Mark(w) PROVE KeyNamesWorker'
  BY <1>6 DEF Mark, SetEx, Goto, TypeOK, OnePlace, KeyNamesWorker, HeldBy,
     Member
<1>7. ASSUME NEW w \in Workers, MarkFails(w) PROVE KeyNamesWorker'
  BY <1>7 DEF MarkFails, SetEx, Loop, Goto, TypeOK, OnePlace,
     KeyNamesWorker, HeldBy, Member
<1>8. ASSUME NEW w \in Workers, HandlerOk(w) PROVE KeyNamesWorker'
  BY <1>8 DEF HandlerOk, Goto, KeyNamesWorker
<1>9. ASSUME NEW w \in Workers, HandlerErr(w) PROVE KeyNamesWorker'
  BY <1>9 DEF HandlerErr, Goto, KeyNamesWorker
<1>10. ASSUME NEW w \in Workers, Complete(w) PROVE KeyNamesWorker'
  BY <1>10 DEF Complete, Del, Loop, Goto, TypeOK, KeyNamesWorker
<1>11. ASSUME NEW w \in Workers, CompleteFails(w) PROVE KeyNamesWorker'
  BY <1>11 DEF CompleteFails, Del, Exit, Goto, TypeOK, KeyNamesWorker,
     Member
<1>12. ASSUME NEW w \in Workers, Retry(w) PROVE KeyNamesWorker'
  BY <1>12 DEF Retry, Loop, Goto, TypeOK, KeyNamesWorker
<1>13. ASSUME NEW w \in Workers, RetryFails(w) PROVE KeyNamesWorker'
  BY <1>13 DEF RetryFails, Exit, Goto, TypeOK, KeyNamesWorker
<1>14. ASSUME NEW w \in Workers, Crash(w) PROVE KeyNamesWorker'
  BY <1>14 DEF Crash, Exit, Goto, TypeOK, KeyNamesWorker
<1>15. ASSUME NEW w \in Workers, PopUnread(w) PROVE KeyNamesWorker'
  BY <1>15 DEF PopUnread, Unread, Loop, Goto, KeyNamesWorker
<1> QED
  BY <1>1, <1>2, <1>3, <1>4, <1>5, <1>6, <1>7, <1>8,
     <1>9, <1>10, <1>11, <1>12, <1>13, <1>14, <1>15
  DEF Next, WorkerStep

(* Counts only grow behind a scan. *)
LEMMA SinceStep ==
  ASSUME TypeOK, Unknown, OnePlace, CountsAgree, SinceOlder, Next
  PROVE  SinceOlder'
<1>1. ASSUME NEW j \in Jobs, Enqueue(j) PROVE SinceOlder'
  BY <1>1 DEF Enqueue, SinceOlder
<1>2. ASSUME NEW j \in Jobs, Expire(j) PROVE SinceOlder'
  BY <1>2 DEF Expire, SinceOlder, jobVars
<1>3. ASSUME NEW w \in Workers, Pop(w) PROVE SinceOlder'
  BY <1>3 DEF Pop, Goto, SinceOlder, jobVars
<1>4. ASSUME NEW w \in Workers, PopNil(w) PROVE SinceOlder'
  BY <1>4 DEF PopNil, Loop, Goto, AtLevel, TypeOK, OnePlace, CountsAgree,
     SinceOlder, Waiting, HeldBy, Member, jobVars
<1>5. ASSUME NEW w \in Workers, PopFails(w) PROVE SinceOlder'
  BY <1>5 DEF PopFails, Loop, Goto, TypeOK, OnePlace, CountsAgree,
     SinceOlder, Waiting, HeldBy, Member, jobVars
<1>6. ASSUME NEW w \in Workers, Mark(w) PROVE SinceOlder'
  BY <1>6 DEF Mark, Goto, TypeOK, SinceOlder, Member
<1>7. ASSUME NEW w \in Workers, MarkFails(w) PROVE SinceOlder'
  BY <1>7, NullsOK, Held DEF MarkFails, Loop, Goto, Fault, TypeOK, OnePlace,
     CountsAgree, SinceOlder, Waiting, HeldBy, Member, jobVars
<1>8. ASSUME NEW w \in Workers, HandlerOk(w) PROVE SinceOlder'
  BY <1>8 DEF HandlerOk, Goto, SinceOlder
<1>9. ASSUME NEW w \in Workers, HandlerErr(w) PROVE SinceOlder'
  BY <1>9 DEF HandlerErr, Goto, SinceOlder, jobVars
<1>10. ASSUME NEW w \in Workers, Complete(w) PROVE SinceOlder'
  BY <1>10 DEF Complete, Loop, Goto, TypeOK, OnePlace, CountsAgree,
     SinceOlder, Waiting, HeldBy, Member, jobVars
<1>11. ASSUME NEW w \in Workers, CompleteFails(w) PROVE SinceOlder'
  BY <1>11 DEF CompleteFails, Exit, Goto, TypeOK, SinceOlder, jobVars
<1>12. ASSUME NEW w \in Workers, Retry(w) PROVE SinceOlder'
  <2>1. PICK n \in Member :
          /\ n.id = hold[w].id
          /\ \/ queued' = queued \cup {n} /\ dead' = dead
             \/ dead' = dead \cup {n} /\ queued' = queued
    BY <1>12, PutBackMoves DEF Retry
  <2>2. /\ pc' = [pc EXCEPT ![w] = "scan"]
        /\ hold' = [hold EXCEPT ![w] = NoMember]
        /\ since' = [since EXCEPT ![w] = queued']
        /\ info' = info /\ runs' = runs
    BY <1>12 DEF Retry, Loop, Goto, jobVars
  <2>3. \A m \in queued' :
          /\ info[m.id] \in JobInfo /\ m.retry_count <= runs[m.id]
          /\ \A v \in Workers \ {w} : hold[v] # NoMember => hold[v].id # m.id
    BY <1>12, <2>1, Held DEF Retry, PutBack, TypeOK, OnePlace, CountsAgree,
       Waiting, HeldBy, Member
  <2>4. \A v \in Workers : pc'[v] \in {"run", "complete", "retry"} =>
          v # w /\ pc'[v] = pc[v] /\ hold'[v] = hold[v] /\ hold[v] # NoMember
    BY <2>2 DEF TypeOK
  <2> QED
    BY <2>2, <2>3, <2>4 DEF SinceOlder, TypeOK
<1>13. ASSUME NEW w \in Workers, RetryFails(w) PROVE SinceOlder'
  BY <1>13 DEF RetryFails, Exit, Goto, TypeOK, SinceOlder, jobVars
<1>14. ASSUME NEW w \in Workers, Crash(w) PROVE SinceOlder'
  BY <1>14 DEF Crash, Exit, Goto, TypeOK, SinceOlder, jobVars
<1>15. ASSUME NEW w \in Workers, PopUnread(w) PROVE SinceOlder'
  BY <1>15 DEF PopUnread, Unread, Loop, Goto, TypeOK, OnePlace, CountsAgree,
     SinceOlder, Waiting, HeldBy, Member
<1> QED
  BY <1>1, <1>2, <1>3, <1>4, <1>5, <1>6, <1>7, <1>8,
     <1>9, <1>10, <1>11, <1>12, <1>13, <1>14, <1>15
  DEF Next, WorkerStep

(* The scan passes only sets that are empty. *)
LEMMA HighestStep ==
  ASSUME TypeOK, Unknown, OnePlace, CountsAgree, SinceOlder, HighestFirst, Next
  PROVE  HighestFirst'
<1>1. ASSUME NEW j \in Jobs, Enqueue(j) PROVE HighestFirst'
  BY <1>1, NullsOK DEF Enqueue, SinceOlder, HighestFirst, InRange
<1>2. ASSUME NEW j \in Jobs, Expire(j) PROVE HighestFirst'
  BY <1>2 DEF Expire, HighestFirst, InRange, jobVars
<1>3. ASSUME NEW w \in Workers, Pop(w) PROVE HighestFirst'
  BY <1>3 DEF Pop, Goto, HighestFirst, InRange, jobVars
<1>4. ASSUME NEW w \in Workers, PopNil(w) PROVE HighestFirst'
  <2>1. /\ pc[w] = "scan" /\ AtLevel(level[w]) = {}
        /\ queued' = queued /\ info' = info
    BY <1>4 DEF PopNil, jobVars
  <2>2. CASE level[w] > 0
    <3>1. level' = [level EXCEPT ![w] = @ - 1] /\ pc' = pc /\ since' = since
      BY <1>4, <2>2 DEF PopNil
    <3>2. \A m \in since[w] \cap queued : InRange(m.id) =>
            info[m.id].priority <= level[w] - 1
      <4> SUFFICES ASSUME NEW m \in since[w] \cap queued, InRange(m.id)
                   PROVE  info[m.id].priority <= level[w] - 1
        OBVIOUS
      <4>1. info[m.id].priority \in Int /\ level[w] \in Int
        BY DistributedConstantsOK DEF TypeOK, InRange
      <4>2. info[m.id].priority <= level[w]
        BY <2>1 DEF HighestFirst
      <4>3. info[m.id].priority # level[w]
        BY <2>1 DEF AtLevel
      <4> QED
        BY <4>1, <4>2, <4>3
    <3> QED
      BY <2>1, <3>1, <3>2 DEF HighestFirst, InRange
  <2>3. CASE ~(level[w] > 0)
    <3>1. /\ level' = [level EXCEPT ![w] = MAX_PRIORITY]
          /\ since' = [since EXCEPT ![w] = queued]
          /\ pc' = [pc EXCEPT ![w] = "scan"]
      BY <1>4, <2>1, <2>3 DEF PopNil, Loop, Goto
    <3>2. \A m \in queued : InRange(m.id) => info[m.id].priority <= MAX_PRIORITY
      BY DistributedConstantsOK DEF InRange
    <3> QED
      BY <2>1, <3>1, <3>2 DEF HighestFirst, InRange, TypeOK
  <2> QED
    BY <2>2, <2>3
<1>5. ASSUME NEW w \in Workers, PopFails(w) PROVE HighestFirst'
  BY <1>5 DEF PopFails, Loop, Goto, TypeOK, HighestFirst, InRange, jobVars
<1>6. ASSUME NEW w \in Workers, Mark(w) PROVE HighestFirst'
  BY <1>6 DEF Mark, Goto, HighestFirst, InRange
<1>7. ASSUME NEW w \in Workers, MarkFails(w) PROVE HighestFirst'
  BY <1>7 DEF MarkFails, Loop, Goto, TypeOK, HighestFirst, InRange, jobVars
<1>8. ASSUME NEW w \in Workers, HandlerOk(w) PROVE HighestFirst'
  BY <1>8 DEF HandlerOk, Goto, HighestFirst, InRange
<1>9. ASSUME NEW w \in Workers, HandlerErr(w) PROVE HighestFirst'
  BY <1>9 DEF HandlerErr, Goto, HighestFirst, InRange, jobVars
<1>10. ASSUME NEW w \in Workers, Complete(w) PROVE HighestFirst'
  BY <1>10 DEF Complete, Loop, Goto, TypeOK, HighestFirst, InRange, jobVars
<1>11. ASSUME NEW w \in Workers, CompleteFails(w) PROVE HighestFirst'
  BY <1>11 DEF CompleteFails, Exit, Goto, HighestFirst, InRange, jobVars
<1>12. ASSUME NEW w \in Workers, Retry(w) PROVE HighestFirst'
  BY <1>12, NullsOK, Held DEF Retry, PutBack, Loop, Goto, TypeOK,
     CountsAgree, SinceOlder, HighestFirst, InRange, Waiting, Member,
     JobInfo, jobVars
<1>13. ASSUME NEW w \in Workers, RetryFails(w) PROVE HighestFirst'
  BY <1>13 DEF RetryFails, PutBack, Exit, Goto, TypeOK, CountsAgree,
     SinceOlder, HighestFirst, InRange, Member, jobVars
<1>14. ASSUME NEW w \in Workers, Crash(w) PROVE HighestFirst'
  BY <1>14 DEF Crash, Exit, Goto, HighestFirst, InRange, jobVars
<1>15. ASSUME NEW w \in Workers, PopUnread(w) PROVE HighestFirst'
  BY <1>15 DEF PopUnread, Unread, Loop, Goto, TypeOK, HighestFirst, InRange
<1> QED
  BY <1>1, <1>2, <1>3, <1>4, <1>5, <1>6, <1>7, <1>8,
     <1>9, <1>10, <1>11, <1>12, <1>13, <1>14, <1>15
  DEF Next, WorkerStep

-----------------------------------------------------------------------------
LEMMA InitOK == Init => IndInv
BY DistributedConstantsOK DEF Init, IndInv, TypeOK, PC, Unknown, OnePlace,
   NothingLost, CountsAgree, BoundedRuns, KeyNamesWorker, SinceOlder,
   HighestFirst, IsDead, HeldBy

LEMMA StutterOK ==
  ASSUME IndInv, UNCHANGED vars
  PROVE  IndInv'
BY DEF vars, jobVars, IndInv, TypeOK, Unknown, OnePlace, NothingLost,
       CountsAgree, MayRun, BoundedRuns, KeyNamesWorker, SinceOlder,
       HighestFirst, IsDead, Waiting, HeldBy, InRange

(* The inductive invariant of the queue. *)
THEOREM Invariance == Spec => []IndInv
<1>1. IndInv /\ [Next]_vars => IndInv'
  BY TypeStep, UnknownStep, OnePlaceStep, NothingLostStep, CountsStep,
     BoundedStep, KeyStep, SinceStep, HighestStep, StutterOK DEF IndInv
<1> QED
  BY InitOK, <1>1, PTL DEF Spec

(* Every variable keeps its type, whatever Redis does to a command. *)
THEOREM TypeCorrect == Spec => []TypeOK
BY Invariance, PTL DEF IndInv

(* No number of workers ever has a job in two places (queue.rs:49, 89),    *)
(* and only failing commands, killed workers and replies that the client   *)
(* does not convert (queue.rs:60) lose one.                                *)
THEOREM ExactlyOnePlaceHolds == Spec => []ExactlyOnePlace
BY Invariance, PTL DEF IndInv, ExactlyOnePlace

(* Where the client converts every reply, a job without a fault of Redis   *)
(* is in a set, with a worker, dead or done: no reply loses it.            *)
THEOREM ConvertedLosesNothing ==
  ASSUME Converts = {TRUE}
  PROVE  Spec => [](NothingLost /\ dropped = {})
<1>1. Init => dropped = {}
  BY DEF Init
<1>2. dropped = {} /\ [Next]_vars => (dropped = {})'
  BY DEF Next, vars, jobVars, Enqueue, Expire, WorkerStep, Pop, PopNil,
     PopUnread, Unread, PopFails, Mark, MarkFails, HandlerOk, HandlerErr,
     Complete, CompleteFails, Retry, RetryFails, Crash
<1> QED
  BY <1>1, <1>2, Invariance, PTL DEF Spec, IndInv

(* max_retries bounds the calls of the handler across all workers. *)
THEOREM BoundedRunsHolds == Spec => []BoundedRuns
BY Invariance, PTL DEF IndInv

(* The key of a job names the worker that executes it, until it expires. *)
THEOREM KeyNamesWorkerHolds == Spec => []KeyNamesWorker
BY Invariance, PTL DEF IndInv

(* No job of a higher priority is passed over by a scan (queue.rs:56). *)
THEOREM HighestFirstHolds == Spec => []HighestFirst
BY Invariance, PTL DEF IndInv
-----------------------------------------------------------------------------
(* The workers of the build with redis 0.27, whose conversion refuses the  *)
(* reply of every ZPOPMIN: they ask for the highest priority again and     *)
(* again, and none has a job.                                              *)
AtTheTop ==
  /\ \A w \in Workers : pc[w] \in {"scan", "down"} /\ level[w] = MAX_PRIORITY
  /\ runs = [j \in Jobs |-> 0] /\ done = {} /\ dead = {}

LEMMA AtTheTopStep ==
  ASSUME Converts = {FALSE}, TypeOK, AtTheTop, [Next]_vars
  PROVE  AtTheTop'
<1>1. ASSUME NEW j \in Jobs, Enqueue(j) \/ Expire(j) PROVE AtTheTop'
  BY <1>1 DEF Enqueue, Expire, AtTheTop, jobVars
<1>2. ASSUME NEW w \in Workers, PopUnread(w) PROVE AtTheTop'
  BY <1>2 DEF PopUnread, Unread, Loop, Goto, TypeOK, AtTheTop
<1>3. ASSUME NEW w \in Workers, PopFails(w) PROVE AtTheTop'
  BY <1>3 DEF PopFails, Loop, Goto, TypeOK, AtTheTop, jobVars
<1>4. ASSUME NEW w \in Workers, Crash(w) PROVE AtTheTop'
  BY <1>4 DEF Crash, Exit, Goto, TypeOK, AtTheTop, jobVars
<1>5. ASSUME NEW w \in Workers, WorkerStep(w)
      PROVE  PopUnread(w) \/ PopFails(w)
  BY <1>5 DEF WorkerStep, Pop, PopNil, Mark, MarkFails, HandlerOk, HandlerErr,
     Complete, CompleteFails, Retry, RetryFails, AtTheTop
<1>6. CASE UNCHANGED vars
  BY <1>6 DEF vars, jobVars, AtTheTop
<1> QED
  BY <1>1, <1>2, <1>3, <1>4, <1>5, <1>6 DEF Next

(* As it is built the queue executes nothing: no handler is ever called,   *)
(* no job is done or dead, and no scan comes below the highest priority,   *)
(* whatever Redis does (queue.rs:57-63).                                   *)
THEOREM BuiltRunsNothing ==
  ASSUME Converts = {FALSE}
  PROVE  Spec => []AtTheTop
<1>1. Init => AtTheTop
  BY DEF Init, AtTheTop
<1>2. TypeOK /\ AtTheTop /\ [Next]_vars => AtTheTop'
  BY AtTheTopStep
<1> QED
  BY <1>1, <1>2, TypeCorrect, PTL DEF Spec

(* Nor does a job of another priority ever leave its set.                  *)
StaysBelow ==
  \A j \in Jobs :
    Waiting(j) /\ info[j] # NoInfo /\ info[j].priority # MAX_PRIORITY =>
      Waiting(j)'

THEOREM BuiltServesOnlyTheTop ==
  ASSUME Converts = {FALSE}
  PROVE  Spec => [][StaysBelow]_vars
<1>1. TypeOK /\ AtTheTop /\ [Next]_vars => [StaysBelow]_vars
  <2> SUFFICES ASSUME TypeOK, AtTheTop, Next PROVE StaysBelow
    OBVIOUS
  <2>1. \A m \in queued : m \in queued' \/ info[m.id].priority = MAX_PRIORITY
    BY DEF Next, Enqueue, Expire, WorkerStep, Pop, PopNil, PopUnread, Unread,
       PopFails, Mark, MarkFails, HandlerOk, HandlerErr, Complete,
       CompleteFails, Retry, RetryFails, Crash, Lowest, AtLevel, AtTheTop
  <2> QED
    BY <2>1 DEF StaysBelow, Waiting
<1> QED
  BY <1>1, TypeCorrect, BuiltRunsNothing, PTL DEF Spec

=============================================================================
