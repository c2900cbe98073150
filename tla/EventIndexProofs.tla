-------------------------- MODULE EventIndexProofs --------------------------
(***************************************************************************)
(* Theorems about EventIndex, for any number of jobs, subscribers, events  *)
(* and faults, and for any events that the endpoint returns; and about the *)
(* trees of MerkleTree, which the roots of EventIndex stand for, for       *)
(* batches of any length.                                                  *)
(***************************************************************************)
EXTENDS EventIndex, MerkleTree, SequenceTheorems, FiniteSums

LEMMA Update ==
  ASSUME NEW S, NEW T, NEW f \in [S -> T], NEW g, NEW x \in S, NEW v \in T,
         g = [f EXCEPT ![x] = v] \/ g = f
  PROVE  g \in [S -> T] /\ \A y \in S \ {x} : g[y] = f[y]
OBVIOUS

(* The root of a batch is a root. *)
LEMMA LeavesAreRoot ==
  ASSUME JobTypeOK, NEW j \in Jobs, stored[j] <= Len(events[j])
  PROVE  Leaves(j) \in Roots /\ Leaves(j) # NoRoot /\ Len(Leaves(j)) = stored[j]
<1>1. events[j] \in Seq(Events) /\ stored[j] \in Nat
  BY DEF JobTypeOK
<1>2. \A i \in 1 .. stored[j] : events[j][i] \in Events
  BY <1>1
<1>3. \A e \in Events : ContentHash[e] \in Hashes
  BY EventIndexOK
<1>4. \A i \in 1 .. stored[j] : ContentHash[events[j][i]] \in Hashes
  BY <1>2, <1>3
<1>5. Leaves(j) \in [1 .. stored[j] -> Hashes]
  BY <1>4 DEF Leaves
<1>6. Leaves(j) \in Seq(Hashes)
  BY <1>1, <1>5, SeqDef
<1>7. Len(Leaves(j)) = stored[j]
  BY <1>1, <1>5, <1>6, LenProperties
<1> QED
  BY <1>6, <1>7, EventIndexOK DEF Roots

LEMMA MaxFaultsIsNat == MaxFaults \in Nat
BY EventIndexOK

(* A committed root has every hash of the batch among its leaves. *)
LEMMA WholeRoot ==
  ASSUME JobTypeOK, NEW j \in Jobs, stored[j] = Len(events[j])
  PROVE  Leaves(j) = [i \in DOMAIN events[j] |-> ContentHash[events[j][i]]]
<1>1. DOMAIN events[j] = 1 .. stored[j]
  BY DEF JobTypeOK
<1> QED
  BY <1>1 DEF Leaves
-----------------------------------------------------------------------------
(* A step of a job or of its retry touches that job alone, and what it     *)
(* shares with others only grows.                                          *)
Same(k) ==
  /\ pc'[k] = pc[k] /\ events'[k] = events[k] /\ cur'[k] = cur[k]
  /\ stored'[k] = stored[k] /\ stamped'[k] = stamped[k] /\ root'[k] = root[k]
  /\ pmc'[k] = pmc[k] /\ retry'[k] = retry[k] /\ counted'[k] = counted[k]

Grows ==
  /\ anchored \subseteq anchored' /\ commits \subseteq commits'
  /\ pinned \subseteq pinned'
  /\ \A e \in Events : content[e] # NoRow => content'[e] # NoRow

LEMMA OthersKeep ==
  ASSUME JobTypeOK, NEW k \in Jobs, Same(k), Grows, JobInv(k)
  PROVE  JobInv(k)'
<1> USE DEF Same, Grows
<1>1. events[k] \in Seq(Events) /\ stored[k] \in Nat
  BY DEF JobTypeOK
<1>2. Position(k)'
  BY DEF JobInv, Position
<1>3. Saved(k)'
  <2>1. pc[k] = "insert" => NextEvent(k)' \in pinned'
    BY DEF JobInv, Saved, NextEvent
  <2>2. ASSUME pc[k] \in Looping, NEW i \in 1 .. stored[k]
        PROVE  /\ events[k][i] \in pinned'
               /\ content'[events[k][i]] # NoRow
                    \/ (pc[k] = "record" /\ i = stored[k])
    <3>1. events[k][i] \in Events
      BY <1>1, <2>2 DEF JobInv, Position
    <3> QED
      BY <2>2, <3>1 DEF JobInv, Saved
  <2> QED
    BY <2>1, <2>2 DEF Saved
<1>4. Rooted(k)'
  BY DEF JobInv, Rooted
<1>5. Whole(k)'
  <2>1. \A i \in DOMAIN events[k] : events[k][i] \in Events
    BY <1>1
  <2> QED
    BY <2>1 DEF JobInv, Whole
<1> QED
  BY <1>2, <1>3, <1>4, <1>5 DEF JobInv

LEMMA StepKeeps ==
  ASSUME IndInv, NEW j \in Jobs, TypeOK', Grows, commits' \subseteq anchored',
         \A k \in Jobs \ {j} : Same(k), JobInv(j)'
  PROVE  IndInv'
<1>1. \A k \in Jobs \ {j} : JobInv(k)'
  BY OthersKeep DEF IndInv, TypeOK
<1> QED
  BY <1>1 DEF IndInv
-----------------------------------------------------------------------------
(* The steps of a job that change its pc and its counter only. *)
Moves(j) ==
  /\ \E b \in PC \ {"none"} : pc' = [pc EXCEPT ![j] = b]
  /\ cur' \in [Jobs -> Nat] /\ \A k \in Jobs \ {j} : cur'[k] = cur[k]
  /\ UNCHANGED <<events, rowVars, root, chainVars, retryVars, ipfsVars, counted,
                 streamVars>>
  /\ faults' \in 0 .. MaxFaults

LEMMA MoveKeeps ==
  ASSUME IndInv, NEW j \in Jobs, Moves(j), Position(j)', Saved(j)', Rooted(j)'
  PROVE  IndInv'
<1> USE DEF Moves, rowVars, chainVars, retryVars, ipfsVars, streamVars
<1>1. TypeOK'
  BY DEF IndInv, TypeOK, JobTypeOK, StoreTypeOK
<1>2. Grows /\ commits' \subseteq anchored' /\ \A k \in Jobs \ {j} : Same(k)
  BY DEF IndInv, TypeOK, JobTypeOK, Grows, Same
<1>3. Whole(j)'
  BY DEF IndInv, JobInv, Whole
<1> QED
  BY <1>1, <1>2, <1>3, StepKeeps DEF JobInv

LEMMA PlainSteps ==
  ASSUME IndInv, NEW j \in Jobs,
         \/ Create(j) \/ Take(j) \/ Reject(j) \/ AddContent(j) \/ SetStatus(j)
         \/ Crash(j)
  PROVE  IndInv'
<1> USE DEF Goto, Create, Take, Reject, AddContent, SetStatus, Crash, Fault,
            NoFault, loopVars, Working, Final
<1>1. Moves(j)
  <2> USE DEF IndInv, TypeOK, JobTypeOK, StoreTypeOK, Moves, PC
  <2>1. CASE Create(j) \/ Take(j) \/ Reject(j)
    BY <2>1
  <2>2. CASE AddContent(j)
    BY <2>2
  <2>3. CASE SetStatus(j)
    BY <2>3, MaxFaultsIsNat
  <2>4. CASE Crash(j)
    <3>1. pc' = [pc EXCEPT ![j] = "dead"] /\ UNCHANGED cur
      BY <2>4
    <3>2. faults' \in 0 .. MaxFaults
      BY <2>4, MaxFaultsIsNat
    <3>3. "dead" \in PC \ {"none"}
      OBVIOUS
    <3>4. UNCHANGED <<events, rowVars, root, chainVars, retryVars, ipfsVars,
                      counted, streamVars>>
      BY <2>4
    <3> QED
      BY <3>1, <3>2, <3>3, <3>4
  <2> QED
    BY <2>1, <2>2, <2>3, <2>4
<1> USE DEF IndInv, TypeOK, JobTypeOK, rowVars, chainVars, retryVars, ipfsVars
<1>2. Position(j)'
  BY DEF JobInv, Position
<1>3. Saved(j)'
  BY DEF JobInv, Saved, Looping, Position, NextEvent
<1>4. Rooted(j)'
  BY DEF JobInv, Rooted, Looping
<1> QED
  BY <1>1, <1>2, <1>3, <1>4, MoveKeeps
-----------------------------------------------------------------------------
(* The event loop. *)

LEMMA GetEventsStep ==
  ASSUME IndInv, NEW j \in Jobs, GetEvents(j)
  PROVE  IndInv'
<1> USE DEF GetEvents, Goto, NoFault, rowVars, chainVars, retryVars, ipfsVars
<1>1. Logs[j][cur[j]] \in Seq(Events)
  BY EventIndexOK
<1>2. events[j] \in Seq(Events) /\ cur[j] \in Nat /\ pc[j] = "fetch"
  BY DEF IndInv, TypeOK, JobTypeOK
<1>3. events' \in [Jobs -> Seq(Events)]
  <2>1. events[j] \o Logs[j][cur[j]] \in Seq(Events)
    BY <1>1, <1>2, ConcatProperties
  <2> QED
    BY <2>1 DEF IndInv, TypeOK, JobTypeOK
<1>4. pc'[j] \in {"fetch", "finish", "add"}
      /\ (pc'[j] = "add" => events'[j] # <<>>)
      /\ \A k \in Jobs \ {j} : pc'[k] = pc[k]
  BY <1>2 DEF IndInv, TypeOK, JobTypeOK
<1>5. pc' \in [Jobs -> PC]
  BY <1>2 DEF IndInv, TypeOK, JobTypeOK, PC, Working
<1>6. TypeOK'
  <2>1. cur' \in [Jobs -> Nat]
    BY <1>2 DEF IndInv, TypeOK, JobTypeOK
  <2>2. JobTypeOK'
    BY <1>3, <1>5, <2>1 DEF IndInv, TypeOK, JobTypeOK
  <2>3. StoreTypeOK'
    BY DEF IndInv, TypeOK, StoreTypeOK, streamVars
  <2> QED
    BY <2>2, <2>3 DEF TypeOK
<1>7. Grows /\ commits' \subseteq anchored' /\ \A k \in Jobs \ {j} : Same(k)
  BY <1>4 DEF IndInv, TypeOK, JobTypeOK, Grows, Same
<1>8. stored[j] = 0 /\ root[j] = NoRoot
  BY <1>2 DEF IndInv, JobInv, Position, Rooted
<1>9. events'[j] # <<>> => Len(events'[j]) > 0
  BY <1>3, EmptySeq
<1>10. Len(events'[j]) >= 0
  BY <1>3
<1>11. Position(j)'
  BY <1>4, <1>8, <1>9, <1>10 DEF IndInv, JobInv, Position
<1>12. Saved(j)'
  BY <1>4, <1>8 DEF Saved, Looping
<1>13. Rooted(j)'
  BY <1>4, <1>8 DEF IndInv, JobInv, Rooted, Looping
<1>14. Whole(j)'
  BY <1>8 DEF IndInv, JobInv, Whole
<1> QED
  BY <1>6, <1>7, <1>11, <1>12, <1>13, <1>14, StepKeeps DEF JobInv

LEMMA PinContentStep ==
  ASSUME IndInv, NEW j \in Jobs, PinContent(j)
  PROVE  IndInv'
<1> USE DEF PinContent, Goto, NoFault, loopVars, rowVars, chainVars, retryVars,
            IndInv, TypeOK, JobTypeOK
<1>1. pc[j] = "pin" /\ stored[j] < Len(events[j])
  BY DEF JobInv, Position
<1>2. NextEvent(j) \in Events
  BY <1>1 DEF NextEvent
<1>3. TypeOK'
  BY <1>2 DEF StoreTypeOK, streamVars, PC, Working
<1>4. Grows /\ commits' \subseteq anchored' /\ \A k \in Jobs \ {j} : Same(k)
  BY DEF Grows, Same
<1>5. Position(j)'
  BY <1>1 DEF JobInv, Position
<1>6. Saved(j)'
  BY <1>1 DEF JobInv, Saved, Looping, NextEvent
<1>7. Rooted(j)' /\ Whole(j)'
  BY <1>1 DEF JobInv, Rooted, Looping, Whole
<1> QED
  BY <1>3, <1>4, <1>5, <1>6, <1>7, StepKeeps DEF JobInv

LEMMA InsertEventStep ==
  ASSUME IndInv, NEW j \in Jobs, InsertEvent(j)
  PROVE  IndInv'
<1> USE DEF InsertEvent, Goto, NoFault, Fault, loopVars, chainVars, retryVars,
            ipfsVars, IndInv, TypeOK, JobTypeOK
<1>1. pc[j] = "insert" /\ stored[j] < Len(events[j]) /\ NextEvent(j) \in pinned
  BY DEF JobInv, Position, Saved
<1>2. stored[j] \in Nat /\ <<j, stored[j] + 1>> \in Rows
  BY DEF Rows
<1>3. ASSUME NEW row \in Rows, Notify(row)
      PROVE  /\ log' \in Seq(Rows) /\ inbox' \in [Subscribers -> Seq(Nat)]
             /\ UNCHANGED <<sub, got>>
  BY <1>3 DEF StoreTypeOK, Notify
<1>4. JobTypeOK'
  <2>1. pc' \in [Jobs -> PC]
    BY DEF PC, Working
  <2>2. stored' \in [Jobs -> Nat]
    <3>1. \/ stored' = [stored EXCEPT ![j] = stored[j] + 1]
          \/ UNCHANGED stored
      OBVIOUS
    <3>2. stored \in [Jobs -> Nat] /\ stored[j] + 1 \in Nat
      BY <1>2
    <3> HIDE DEF JobTypeOK, InsertEvent
    <3> QED
      BY <3>1, <3>2, Update
  <2> QED
    BY <2>1, <2>2
<1>5. StoreTypeOK'
  <2>1. faults' \in 0 .. MaxFaults
    BY MaxFaultsIsNat DEF StoreTypeOK
  <2>2. CASE Notify(<<j, stored[j] + 1>>)
    BY <1>2, <1>3, <2>1, <2>2 DEF StoreTypeOK
  <2>3. CASE UNCHANGED streamVars
    BY <2>1, <2>3 DEF StoreTypeOK, streamVars
  <2> QED
    BY <2>2, <2>3
<1>6. Grows /\ commits' \subseteq anchored' /\ \A k \in Jobs \ {j} : Same(k)
  BY DEF Grows, Same
<1>7. Position(j)'
  BY <1>1, <1>2 DEF JobInv, Position
<1>8. Saved(j)'
  BY <1>1, <1>2 DEF JobInv, Saved, Looping, NextEvent
<1>9. Rooted(j)' /\ Whole(j)'
  BY <1>1 DEF JobInv, Rooted, Looping, Whole
<1> QED
  BY <1>4, <1>5, <1>6, <1>7, <1>8, <1>9, StepKeeps DEF JobInv

LEMMA RecordContentStep ==
  ASSUME IndInv, NEW j \in Jobs, RecordContent(j)
  PROVE  IndInv'
<1> USE DEF RecordContent, Goto, NoFault, Fault, loopVars, rowVars, chainVars,
            retryVars, IndInv, TypeOK, JobTypeOK
<1>1. pc[j] = "record" /\ stored[j] \in Nat /\ 0 < stored[j]
      /\ stored[j] <= Len(events[j])
  BY DEF JobInv, Position
<1>2. LastEvent(j) \in Events /\ <<j, stored[j]>> \in Rows
  BY <1>1 DEF LastEvent, Rows
<1>3. /\ pc'[j] \in {"extract", "add", "commit", "fail"}
      /\ pc'[j] = "extract" => TokensRemaining(j) > 0
      /\ pc'[j] = "add" => stored[j] # Len(events[j])
      /\ pc'[j] = "commit" => stored[j] = Len(events[j])
      /\ \A k \in Jobs \ {j} : pc'[k] = pc[k]
  BY DEF AfterEvent
<1>4. pc' \in [Jobs -> PC]
  BY DEF AfterEvent, PC, Working
<1>5. /\ content' \in [Events -> Rows \cup {NoRow}]
      /\ \A e \in Events : content[e] # NoRow => content'[e] # NoRow
      /\ pc'[j] # "fail" => content'[LastEvent(j)] # NoRow
  <2> DEFINE e0 == LastEvent(j)
  <2> DEFINE new == IF content[e0] = NoRow THEN <<j, stored[j]>> ELSE content[e0]
  <2>1. content \in [Events -> Rows \cup {NoRow}] /\ NoRow \notin Rows
    BY EventIndexOK DEF StoreTypeOK
  <2>2. new \in Rows /\ new # NoRow
    BY <1>2, <2>1
  <2>3. \/ content' = [content EXCEPT ![e0] = new]
        \/ pc'[j] = "fail" /\ UNCHANGED content
    OBVIOUS
  <2> HIDE DEF new, e0
  <2>4. e0 \in Events /\ e0 = LastEvent(j)
    BY <1>2 DEF e0
  <2> QED
    BY <2>1, <2>2, <2>3, <2>4
<1>6. TypeOK'
  BY <1>4, <1>5, MaxFaultsIsNat DEF StoreTypeOK, streamVars
<1>7. Grows /\ commits' \subseteq anchored' /\ \A k \in Jobs \ {j} : Same(k)
  BY <1>3, <1>5 DEF Grows, Same
<1>8. pc'[j] = "extract" => counted[j] < Budget
  BY <1>3, EventIndexOK DEF TokensRemaining
<1>9. Position(j)'
  BY <1>1, <1>3, <1>8 DEF JobInv, Position
<1>10. Saved(j)'
  <2>1. ASSUME pc'[j] \in Looping, NEW i \in 1 .. stored[j]
        PROVE  events[j][i] \in pinned /\ content'[events[j][i]] # NoRow
    <3>1. events[j][i] \in Events
      BY <1>1
    <3>2. pc'[j] # "fail"
      BY <2>1 DEF Looping
    <3> QED
      BY <1>1, <1>5, <3>1, <3>2 DEF JobInv, Saved, Looping, LastEvent
  <2> QED
    BY <1>3, <2>1 DEF Saved
<1>11. Rooted(j)' /\ Whole(j)'
  BY <1>1, <1>3 DEF JobInv, Rooted, Looping, Whole
<1> QED
  BY <1>6, <1>7, <1>9, <1>10, <1>11, StepKeeps DEF JobInv

LEMMA ExtractStep ==
  ASSUME IndInv, NEW j \in Jobs, Extract(j)
  PROVE  IndInv'
<1> USE DEF Extract, Goto, NoFault, loopVars, rowVars, chainVars, retryVars,
            ipfsVars, IndInv, TypeOK, JobTypeOK
<1>1. pc[j] = "extract" /\ 0 < stored[j] /\ stored[j] <= Len(events[j])
      /\ counted[j] < Budget /\ counted[j] \in Nat /\ stored[j] \in Nat
  BY EventIndexOK DEF JobInv, Position
<1>2. /\ pc'[j] \in {"add", "commit"}
      /\ pc'[j] = "add" => stored[j] # Len(events[j])
      /\ pc'[j] = "commit" => stored[j] = Len(events[j])
      /\ \A k \in Jobs \ {j} : pc'[k] = pc[k]
  BY DEF AfterEvent
<1>3. pc' \in [Jobs -> PC]
  BY DEF AfterEvent, PC, Working
<1>4. counted' \in [Jobs -> 0 .. Budget + MaxCall - 1]
  <2>1. PICK n \in {0, MaxCall} : counted' = [counted EXCEPT ![j] = @ + n]
    OBVIOUS
  <2>2. counted[j] + n \in 0 .. Budget + MaxCall - 1
    BY <1>1, EventIndexOK
  <2> QED
    BY <2>1, <2>2
<1>5. TypeOK'
  BY <1>3, <1>4 DEF StoreTypeOK, streamVars
<1>6. Grows /\ commits' \subseteq anchored' /\ \A k \in Jobs \ {j} : Same(k)
  BY <1>2 DEF Grows, Same
<1>7. Position(j)'
  BY <1>1, <1>2 DEF JobInv, Position
<1>8. Saved(j)'
  BY <1>1, <1>2 DEF JobInv, Saved, Looping
<1>9. Rooted(j)' /\ Whole(j)'
  BY <1>1, <1>2 DEF JobInv, Rooted, Looping, Whole
<1> QED
  BY <1>5, <1>6, <1>7, <1>8, <1>9, StepKeeps DEF JobInv
-----------------------------------------------------------------------------
(* The commit, the stamps and the status. *)

LEMMA CommitStep ==
  ASSUME IndInv, NEW j \in Jobs, Commit(j)
  PROVE  IndInv'
<1> USE DEF Commit, Goto, NoFault, loopVars, rowVars, retryVars, ipfsVars,
            CommitOk, CommitErr, IndInv, TypeOK, JobTypeOK
<1>1. /\ pc[j] = "commit" /\ root[j] = NoRoot /\ stored[j] > 0
      /\ stored[j] = Len(events[j]) /\ stored[j] \in Nat
  BY DEF JobInv, Position, Rooted, Looping
<1>2. /\ Leaves(j) \in Roots /\ Leaves(j) # NoRoot
      /\ Leaves(j) = [i \in DOMAIN events[j] |-> ContentHash[events[j][i]]]
  BY <1>1, LeavesAreRoot, WholeRoot
<1>3. /\ root' \in [Jobs -> Roots \cup {NoRoot}]
      /\ \A k \in Jobs \ {j} : root'[k] = root[k]
      /\ anchored' \subseteq Roots /\ anchored \subseteq anchored'
      /\ pc'[j] \in {"row", "queue", "finish"}
      /\ pc'[j] = "row" => Leaves(j) \in anchored'
      /\ root'[j] = IF pc'[j] = "finish" THEN NoRoot ELSE Leaves(j)
  <2> DEFINE r == Leaves(j)
  <2>1. anchored \subseteq Roots /\ root \in [Jobs -> Roots \cup {NoRoot}]
        /\ r \in Roots /\ pc \in [Jobs -> PC]
    BY <1>2 DEF StoreTypeOK
  <2>2. \/ /\ root' = [root EXCEPT ![j] = r]
           /\ \/ pc' = [pc EXCEPT ![j] = "row"] /\ anchored' = anchored \cup {r}
              \/ /\ pc' = [pc EXCEPT ![j] = "queue"]
                 /\ anchored' \in {anchored, anchored \cup {r}}
        \/ pc' = [pc EXCEPT ![j] = "finish"] /\ UNCHANGED <<root, anchored>>
    OBVIOUS
  <2> HIDE DEF r, JobTypeOK, Commit, IndInv
  <2>3. /\ root' \in [Jobs -> Roots \cup {NoRoot}]
        /\ \A k \in Jobs \ {j} : root'[k] = root[k]
    BY <2>1, <2>2, Update
  <2> QED
    BY <1>1, <2>1, <2>2, <2>3 DEF r
<1>4. pc' \in [Jobs -> PC] /\ \A k \in Jobs \ {j} : pc'[k] = pc[k]
  BY DEF PC, Working
<1>5. TypeOK'
  BY <1>3, <1>4 DEF StoreTypeOK, streamVars
<1>6. Grows /\ commits' \subseteq anchored' /\ \A k \in Jobs \ {j} : Same(k)
  BY <1>3, <1>4 DEF Grows, Same
<1>7. Position(j)'
  BY <1>1, <1>3 DEF JobInv, Position
<1>8. Saved(j)'
  BY <1>3 DEF Saved, Looping
<1>9. retry'[j] = "idle"
  BY <1>1 DEF JobInv, Rooted
<1>10. Rooted(j)'
  BY <1>1, <1>2, <1>3, <1>9 DEF Rooted, Looping
<1>11. Whole(j)'
  <2>1. CASE pc'[j] = "finish"
    BY <1>1, <1>3, <2>1 DEF JobInv, Whole
  <2>2. CASE pc'[j] # "finish"
    <3>1. \A i \in 1 .. stored[j] :
            events[j][i] \in pinned /\ content[events[j][i]] # NoRow
      BY <1>1 DEF JobInv, Saved, Looping
    <3>2. DOMAIN events[j] = 1 .. stored[j]
      BY <1>1
    <3> QED
      BY <1>1, <1>2, <1>3, <2>2, <3>1, <3>2 DEF Whole
  <2> QED
    BY <2>1, <2>2
<1> QED
  BY <1>5, <1>6, <1>7, <1>8, <1>10, <1>11, StepKeeps DEF JobInv

LEMMA StoreCommitStep ==
  ASSUME IndInv, NEW j \in Jobs, StoreCommit(j)
  PROVE  IndInv'
<1> USE DEF StoreCommit, Goto, NoFault, Fault, rowVars, retryVars, ipfsVars,
            IndInv, TypeOK, JobTypeOK
<1>1. /\ pc[j] = "row" /\ root[j] # NoRoot /\ root[j] \in anchored
      /\ stored[j] > 0 /\ stored[j] \in Nat
  BY DEF JobInv, Rooted
<1>2. pc' = [pc EXCEPT ![j] = "stamp"] /\ cur' = [cur EXCEPT ![j] = 1]
  OBVIOUS
<1>3. faults' \in 0 .. MaxFaults
  BY MaxFaultsIsNat DEF StoreTypeOK
<1>4. commits \subseteq commits' /\ commits' \subseteq anchored /\ UNCHANGED anchored
  BY <1>1
<1>5. TypeOK'
  BY <1>2, <1>3, <1>4 DEF StoreTypeOK, streamVars, PC, Working
<1>6. Grows /\ commits' \subseteq anchored' /\ \A k \in Jobs \ {j} : Same(k)
  BY <1>2, <1>4 DEF Grows, Same
<1>7. Position(j)'
  BY <1>1, <1>2 DEF JobInv, Position
<1>8. Saved(j)' /\ Rooted(j)' /\ Whole(j)'
  BY <1>1, <1>2 DEF JobInv, Saved, Looping, Rooted, Whole
<1> QED
  BY <1>5, <1>6, <1>7, <1>8, StepKeeps DEF JobInv

LEMMA StampStep ==
  ASSUME IndInv, NEW j \in Jobs, Stamp(j)
  PROVE  IndInv'
<1> USE DEF Stamp, Goto, NoFault, Fault, chainVars, retryVars, ipfsVars,
            IndInv, TypeOK, JobTypeOK
<1>1. /\ pc[j] = "stamp" /\ root[j] # NoRoot /\ cur[j] \in 1 .. stored[j]
      /\ stored[j] \in Nat
  BY DEF JobInv, Rooted, Position
<1>2. /\ pc'[j] \in {"stamp", "finish"}
      /\ pc'[j] = "stamp" => cur[j] < stored[j]
      /\ \A k \in Jobs \ {j} : pc'[k] = pc[k]
      /\ pc' \in [Jobs -> PC]
  BY DEF PC, Working
<1>3. cur' = [cur EXCEPT ![j] = cur[j] + 1] /\ cur' \in [Jobs -> Nat]
  BY <1>1
<1>4. /\ stamped' \in [Jobs -> SUBSET Nat] /\ stamped'[j] \subseteq 1 .. stored[j]
      /\ \A k \in Jobs \ {j} : stamped'[k] = stamped[k]
  <2>1. stamped[j] \subseteq 1 .. stored[j]
    BY DEF JobInv, Position
  <2> DEFINE more == stamped[j] \cup {cur[j]}
  <2>2. more \subseteq 1 .. stored[j]
    BY <1>1, <2>1
  <2>3. stamped' = [stamped EXCEPT ![j] = more] \/ UNCHANGED stamped
    OBVIOUS
  <2>4. stamped \in [Jobs -> SUBSET Nat] /\ more \in SUBSET Nat
    BY <1>1, <2>2
  <2> HIDE DEF more, JobTypeOK, Stamp
  <2>5. /\ stamped' \in [Jobs -> SUBSET Nat]
        /\ \A k \in Jobs \ {j} : stamped'[k] = stamped[k]
    BY <2>3, <2>4, Update
  <2> QED
    BY <2>1, <2>2, <2>3, <2>4, <2>5
<1>5. faults' \in 0 .. MaxFaults
  BY MaxFaultsIsNat DEF StoreTypeOK
<1>6. TypeOK'
  BY <1>2, <1>3, <1>4, <1>5 DEF StoreTypeOK, streamVars
<1>7. Grows /\ commits' \subseteq anchored' /\ \A k \in Jobs \ {j} : Same(k)
  BY <1>2, <1>3, <1>4 DEF Grows, Same
<1>8. Position(j)'
  BY <1>1, <1>2, <1>3, <1>4 DEF JobInv, Position
<1>9. Saved(j)' /\ Rooted(j)' /\ Whole(j)'
  BY <1>1, <1>2 DEF JobInv, Saved, Looping, Rooted, Whole
<1> QED
  BY <1>6, <1>7, <1>8, <1>9, StepKeeps DEF JobInv

LEMMA QueueRetryStep ==
  ASSUME IndInv, NEW j \in Jobs, QueueRetry(j)
  PROVE  IndInv'
<1> USE DEF QueueRetry, Goto, NoFault, Fault, loopVars, rowVars, chainVars,
            ipfsVars, IndInv, TypeOK, JobTypeOK
<1>1. pc[j] = "queue" /\ root[j] # NoRoot /\ pc' = [pc EXCEPT ![j] = "park"]
  BY DEF JobInv, Rooted
<1>2. /\ pmc' \in [Jobs -> {"none", "pending", "committed", "failed"}]
      /\ \A k \in Jobs \ {j} : pmc'[k] = pmc[k]
  OBVIOUS
<1>3. faults' \in 0 .. MaxFaults
  BY MaxFaultsIsNat DEF StoreTypeOK
<1>4. TypeOK'
  BY <1>1, <1>2, <1>3 DEF StoreTypeOK, streamVars, PC, Working
<1>5. Grows /\ commits' \subseteq anchored' /\ \A k \in Jobs \ {j} : Same(k)
  BY <1>1, <1>2 DEF Grows, Same
<1>6. Position(j)'
  BY <1>1 DEF JobInv, Position
<1>7. Saved(j)' /\ Rooted(j)' /\ Whole(j)'
  BY <1>1 DEF JobInv, Saved, Looping, Rooted, Whole
<1> QED
  BY <1>4, <1>5, <1>6, <1>7, StepKeeps DEF JobInv
-----------------------------------------------------------------------------
(* The retry of a commit. *)

LEMMA RetryCommitStep ==
  ASSUME IndInv, NEW j \in Jobs, RetryCommit(j)
  PROVE  IndInv'
<1> USE DEF RetryCommit, RetryAt, NoFault, loopVars, rowVars, ipfsVars,
            CommitOk, CommitErr, IndInv, TypeOK, JobTypeOK
<1>1. root[j] # NoRoot /\ root[j] \in Roots /\ pmc[j] = "pending"
  BY DEF JobInv, Whole
<1>2. /\ anchored \subseteq anchored' /\ anchored' \subseteq anchored \cup {root[j]}
      /\ \E b \in {"row", "idle", "drop"} :
           /\ retry' = [retry EXCEPT ![j] = b]
           /\ b = "row" => root[j] \in anchored'
  OBVIOUS
<1>3. PICK b \in {"row", "idle", "drop"} :
        retry' = [retry EXCEPT ![j] = b] /\ (b = "row" => root[j] \in anchored')
  BY <1>2
<1>4. anchored \subseteq Roots
  BY DEF StoreTypeOK
<1>5. TypeOK'
  BY <1>1, <1>2, <1>3, <1>4 DEF StoreTypeOK, streamVars, Retrying
<1>6. Grows /\ commits' \subseteq anchored' /\ \A k \in Jobs \ {j} : Same(k)
  BY <1>2, <1>3 DEF Grows, Same
<1>7. Position(j)' /\ Saved(j)' /\ Whole(j)'
  BY DEF JobInv, Position, Saved, NextEvent, Whole
<1>8. Rooted(j)'
  BY <1>1, <1>2, <1>3 DEF JobInv, Rooted
<1> QED
  BY <1>5, <1>6, <1>7, <1>8, StepKeeps DEF JobInv

LEMMA RetryStoreStep ==
  ASSUME IndInv, NEW j \in Jobs, RetryStore(j)
  PROVE  IndInv'
<1> USE DEF RetryStore, RetryAt, NoFault, Fault, loopVars, rowVars, ipfsVars,
            IndInv, TypeOK, JobTypeOK
<1>1. root[j] # NoRoot /\ root[j] \in anchored
  BY DEF JobInv, Rooted
<1>2. commits \subseteq commits' /\ commits' \subseteq anchored
  BY <1>1
<1>3. PICK b \in {"stamp", "idle"} : retry' = [retry EXCEPT ![j] = b]
  OBVIOUS
<1>4. faults' \in 0 .. MaxFaults
  BY MaxFaultsIsNat DEF StoreTypeOK
<1>5. TypeOK'
  BY <1>2, <1>3, <1>4 DEF StoreTypeOK, streamVars, Retrying
<1>6. Grows /\ commits' \subseteq anchored' /\ \A k \in Jobs \ {j} : Same(k)
  BY <1>2, <1>3 DEF Grows, Same
<1>7. Position(j)' /\ Saved(j)' /\ Whole(j)'
  BY DEF JobInv, Position, Saved, NextEvent, Whole
<1>8. Rooted(j)'
  BY <1>1, <1>3 DEF JobInv, Rooted
<1> QED
  BY <1>5, <1>6, <1>7, <1>8, StepKeeps DEF JobInv

LEMMA RetryStampStep ==
  ASSUME IndInv, NEW j \in Jobs, RetryStamp(j)
  PROVE  IndInv'
<1> USE DEF RetryStamp, RetryAt, NoFault, Fault, loopVars, chainVars, ipfsVars,
            IndInv, TypeOK, JobTypeOK
<1>1. root[j] # NoRoot /\ stored[j] \in Nat /\ retry' = [retry EXCEPT ![j] = "mark"]
  BY DEF JobInv, Rooted
<1>2. /\ stamped' \in [Jobs -> SUBSET Nat] /\ stamped'[j] \subseteq 1 .. stored[j]
      /\ \A k \in Jobs \ {j} : stamped'[k] = stamped[k]
  <2> DEFINE all == 1 .. stored[j]
  <2>1. stamped \in [Jobs -> SUBSET Nat] /\ all \in SUBSET Nat
        /\ stamped[j] \subseteq all
    BY DEF JobInv, Position
  <2>2. stamped' = [stamped EXCEPT ![j] = all] \/ stamped' = stamped
    OBVIOUS
  <2> HIDE DEF all, IndInv, JobTypeOK, RetryStamp
  <2>3. /\ stamped' \in [Jobs -> SUBSET Nat]
        /\ \A k \in Jobs \ {j} : stamped'[k] = stamped[k]
    BY <2>1, <2>2, Update
  <2>4. stamped'[j] \subseteq all
    BY <2>1, <2>2
  <2> QED
    BY <2>3, <2>4 DEF all
<1>3. faults' \in 0 .. MaxFaults
  BY MaxFaultsIsNat DEF StoreTypeOK
<1>4. TypeOK'
  BY <1>1, <1>2, <1>3 DEF StoreTypeOK, streamVars, Retrying
<1>5. Grows /\ commits' \subseteq anchored' /\ \A k \in Jobs \ {j} : Same(k)
  BY <1>1, <1>2 DEF Grows, Same
<1>6. Position(j)' /\ Saved(j)'
  BY <1>2 DEF JobInv, Position, Saved, NextEvent
<1>7. Rooted(j)' /\ Whole(j)'
  BY <1>1 DEF JobInv, Rooted, Whole
<1> QED
  BY <1>4, <1>5, <1>6, <1>7, StepKeeps DEF JobInv

(* The statements that end a retry, and the death of its process. *)
LEMMA RetryEndSteps ==
  ASSUME IndInv, NEW j \in Jobs, RetryMark(j) \/ RetryResolve(j) \/ RetryCrash(j)
  PROVE  IndInv'
<1> USE DEF RetryMark, RetryResolve, RetryCrash, RetryAt, Resolve, NoFault, Fault,
            loopVars, rowVars, chainVars, ipfsVars, IndInv, TypeOK, JobTypeOK,
            Retrying
<1>1. root[j] # NoRoot
  BY DEF JobInv, Rooted
<1>2. PICK b \in {"done", "lost", "idle"} : retry' = [retry EXCEPT ![j] = b]
  OBVIOUS
<1>3. /\ pmc' \in [Jobs -> {"none", "pending", "committed", "failed"}]
      /\ \A k \in Jobs \ {j} : pmc'[k] = pmc[k]
  OBVIOUS
<1>4. /\ pc' \in [Jobs -> PC] /\ \A k \in Jobs \ {j} : pc'[k] = pc[k]
      /\ pc'[j] = pc[j] \/ pc'[j] \in {"completed", "failed"}
  BY DEF PC, Final
<1>5. faults' \in 0 .. MaxFaults
  BY MaxFaultsIsNat DEF StoreTypeOK
<1>6. UNCHANGED <<loopVars, rowVars, root, chainVars, ipfsVars, counted, streamVars>>
  OBVIOUS
<1>7. TypeOK'
  BY <1>2, <1>3, <1>4, <1>5, <1>6 DEF StoreTypeOK, streamVars
<1>8. Grows /\ commits' \subseteq anchored' /\ \A k \in Jobs \ {j} : Same(k)
  BY <1>2, <1>3, <1>4, <1>6 DEF Grows, Same
<1>9. Position(j)' /\ Saved(j)'
  BY <1>4, <1>6 DEF JobInv, Position, Saved, NextEvent, Looping
<1>10. Rooted(j)' /\ Whole(j)'
  BY <1>1, <1>2, <1>4, <1>6 DEF JobInv, Rooted, Whole, Looping
<1> QED
  BY <1>7, <1>8, <1>9, <1>10, StepKeeps DEF JobInv
-----------------------------------------------------------------------------
(* Subscribers see jobs and change none. *)

LEMMA JobsKeep ==
  ASSUME IndInv, KeepJobs, StoreTypeOK'
  PROVE  IndInv'
<1> USE DEF KeepJobs, loopVars, rowVars, chainVars, retryVars, ipfsVars
<1>1. JobTypeOK'
  BY DEF IndInv, TypeOK, JobTypeOK
<1>2. ASSUME NEW k \in Jobs PROVE JobInv(k)'
  BY OthersKeep DEF IndInv, TypeOK, Same, Grows
<1> QED
  BY <1>1, <1>2 DEF IndInv, TypeOK

LEMMA StreamTypes ==
  ASSUME IndInv, NEW s \in Subscribers, StreamStep(s)
  PROVE  StoreTypeOK' /\ KeepJobs
<1> USE DEF KeepJobs, NoFault, Fault, chainVars, ipfsVars
<1>1. KeepJobs
  BY DEF StreamStep, Subscribe, Deliver, LoseConnection, Reconnect
<1>2. /\ log \in Seq(Rows) /\ inbox[s] \in Seq(Nat) /\ got[s] \in Seq(Nat)
      /\ sub[s] \in Stream
  BY DEF IndInv, TypeOK, StoreTypeOK
<1>3. faults' \in 0 .. MaxFaults
  BY MaxFaultsIsNat DEF IndInv, TypeOK, StoreTypeOK, StreamStep, Subscribe, Deliver,
                        LoseConnection, Reconnect
<1>4. sub' \in [Subscribers -> Stream]
  <2> USE DEF IndInv, TypeOK, StoreTypeOK, Stream
  <2>1. CASE Subscribe(s)
    <3>1. Len(log) \in Nat /\ sub[s] = [at |-> sub[s].at, from |-> sub[s].from,
                                       whole |-> sub[s].whole]
      BY <1>2
    <3>2. [sub[s] EXCEPT !.at = "on", !.from = Len(log)] \in Stream
      BY <1>2, <3>1
    <3> QED
      BY <2>1, <3>2 DEF Subscribe
  <2>2. CASE Deliver(s)
    BY <2>2 DEF Deliver
  <2>3. CASE LoseConnection(s)
    BY <1>2, <2>3 DEF LoseConnection
  <2>4. CASE Reconnect(s)
    BY <1>2, <2>4 DEF Reconnect
  <2> QED
    BY <2>1, <2>2, <2>3, <2>4 DEF StreamStep
<1>5. inbox' \in [Subscribers -> Seq(Nat)] /\ got' \in [Subscribers -> Seq(Nat)]
  <2> USE DEF IndInv, TypeOK, StoreTypeOK
  <2>1. CASE Subscribe(s) \/ Reconnect(s)
    BY <2>1 DEF Subscribe, Reconnect
  <2>2. CASE Deliver(s)
    <3>1. Tail(inbox[s]) \in Seq(Nat) /\ Head(inbox[s]) \in Nat
      BY <1>2, <2>2 DEF Deliver
    <3>2. Append(got[s], Head(inbox[s])) \in Seq(Nat)
      BY <1>2, <3>1
    <3> QED
      BY <2>2, <3>1, <3>2 DEF Deliver
  <2>3. CASE LoseConnection(s)
    <3>1. PICK n \in 0 .. Len(inbox[s]) :
            inbox' = [inbox EXCEPT ![s] = SubSeq(inbox[s], 1, n)]
      BY <2>3 DEF LoseConnection
    <3>2. SubSeq(inbox[s], 1, n) \in Seq(Nat)
      BY <1>2
    <3> QED
      BY <2>3, <3>1, <3>2 DEF LoseConnection
  <2> QED
    BY <2>1, <2>2, <2>3 DEF StreamStep
<1> QED
  BY <1>1, <1>3, <1>4, <1>5 DEF IndInv, TypeOK, StoreTypeOK

LEMMA InitInv == Init => IndInv
<1> SUFFICES ASSUME Init PROVE IndInv
  OBVIOUS
<1>1. JobTypeOK
  BY EventIndexOK DEF Init, JobTypeOK, PC
<1>2. StoreTypeOK
  BY EventIndexOK DEF Init, StoreTypeOK, Stream
<1>3. ASSUME NEW j \in Jobs PROVE JobInv(j)
  BY DEF Init, JobInv, Position, Saved, Rooted, Whole, Looping
<1>4. commits \subseteq anchored
  BY DEF Init
<1> QED
  BY <1>1, <1>2, <1>3, <1>4 DEF IndInv, TypeOK

LEMMA StutterKeeps ==
  ASSUME IndInv, UNCHANGED vars
  PROVE  IndInv'
<1>1. KeepJobs /\ StoreTypeOK'
  BY DEF vars, KeepJobs, streamVars, IndInv, TypeOK, StoreTypeOK, chainVars, ipfsVars
<1> QED
  BY <1>1, JobsKeep

LEMMA NextKeeps == IndInv /\ [Next]_vars => IndInv'
<1> SUFFICES ASSUME IndInv, [Next]_vars PROVE IndInv'
  OBVIOUS
<1>1. ASSUME NEW j \in Jobs, JobStep(j) PROVE IndInv'
  BY <1>1, PlainSteps, GetEventsStep, PinContentStep, InsertEventStep,
     RecordContentStep, ExtractStep, CommitStep, StoreCommitStep, StampStep,
     QueueRetryStep DEF JobStep, EventStep
<1>2. ASSUME NEW j \in Jobs, RetryStep(j) PROVE IndInv'
  BY <1>2, RetryCommitStep, RetryStoreStep, RetryStampStep, RetryEndSteps
     DEF RetryStep
<1>3. ASSUME NEW s \in Subscribers, StreamStep(s) PROVE IndInv'
  BY <1>3, StreamTypes, JobsKeep
<1> QED
  BY <1>1, <1>2, <1>3, StutterKeeps DEF Next

THEOREM Invariance == Spec => []IndInv
BY InitInv, NextKeeps, PTL DEF Spec

(* Every variable keeps its type; what a job has counted exceeds its       *)
(* budget by less than one call of the AI.                                 *)
THEOREM TypeCorrect == Spec => []TypeOK
<1>1. IndInv => TypeOK
  BY DEF IndInv
<1> QED
  BY Invariance, <1>1, PTL

(* No prefix of a batch is ever committed.                                 *)
THEOREM WholeBatchHolds == Spec => []WholeBatch
<1>1. IndInv => WholeBatch
  BY DEF IndInv, JobInv, WholeBatch
<1> QED
  BY Invariance, <1>1, PTL

(* POST /verify answers for a hash only if a root in the registry has it   *)
(* among its leaves.                                                       *)
THEOREM VerifiedIsAnchoredHolds == Spec => []VerifiedIsAnchored
<1>1. IndInv => VerifiedIsAnchored
  <2> SUFFICES ASSUME IndInv, NEW h \in Hashes, verify_hash(h)
               PROVE  \E r \in anchored : \E i \in DOMAIN r : r[i] = h
    BY DEF VerifiedIsAnchored
  <2>1. CASE <<h>> \in commits
    <3>1. <<h>> \in anchored /\ 1 \in DOMAIN <<h>> /\ <<h>>[1] = h
      BY <2>1 DEF IndInv
    <3> QED
      BY <3>1
  <2>2. CASE \E j \in Jobs : /\ root[j] \in commits
                            /\ \E i \in stamped[j] : ContentHash[events[j][i]] = h
    <3>0. PICK j \in Jobs : /\ root[j] \in commits
                            /\ \E i \in stamped[j] : ContentHash[events[j][i]] = h
      BY <2>2
    <3>1. PICK i \in stamped[j] :
            root[j] \in commits /\ ContentHash[events[j][i]] = h
      BY <3>0
    <3>2. root[j] # NoRoot /\ Whole(j) /\ Position(j)
      BY <3>1 DEF IndInv, JobInv, Whole
    <3>3. i \in DOMAIN events[j]
      BY <3>1, <3>2 DEF IndInv, TypeOK, JobTypeOK, Position, Whole
    <3>4. i \in DOMAIN root[j] /\ root[j][i] = h
      BY <3>1, <3>2, <3>3 DEF Whole
    <3> QED
      BY <3>1, <3>4 DEF IndInv
  <2> QED
    BY <2>1, <2>2 DEF verify_hash
<1> QED
  BY Invariance, <1>1, PTL
-----------------------------------------------------------------------------
(* What is committed and stamped stays so. *)
Lasting ==
  /\ commits \subseteq commits'
  /\ \A j \in Jobs : root[j] # NoRoot =>
       /\ root'[j] = root[j] /\ events'[j] = events[j]
       /\ stamped[j] \subseteq stamped'[j]

LEMMA JobStepLasts ==
  ASSUME IndInv, NEW j \in Jobs, JobStep(j)
  PROVE  Lasting
<1> USE DEF Lasting, loopVars, rowVars, chainVars
<1>1. pc[j] \in {"fetch", "commit"} => root[j] = NoRoot
  BY DEF IndInv, JobInv, Rooted, Looping
<1>2. CASE GetEvents(j)
  BY <1>1, <1>2 DEF GetEvents, Goto, IndInv, TypeOK, JobTypeOK
<1>3. CASE Commit(j)
  BY <1>1, <1>3 DEF Commit, Goto, IndInv, TypeOK, JobTypeOK
<1>4. CASE Stamp(j)
  BY <1>4 DEF Stamp, IndInv, TypeOK, JobTypeOK
<1>5. CASE StoreCommit(j)
  BY <1>5 DEF StoreCommit
<1>6. CASE InsertEvent(j)
  BY <1>6 DEF InsertEvent
<1>7. CASE Create(j) \/ Take(j) \/ Reject(j) \/ AddContent(j) \/ PinContent(j)
           \/ RecordContent(j) \/ Extract(j) \/ QueueRetry(j) \/ SetStatus(j)
           \/ Crash(j)
  BY <1>7 DEF Create, Take, Reject, AddContent, PinContent, RecordContent, Extract,
              QueueRetry, SetStatus, Crash
<1> QED
  BY <1>2, <1>3, <1>4, <1>5, <1>6, <1>7 DEF JobStep, EventStep

LEMMA RetryStepLasts ==
  ASSUME IndInv, NEW j \in Jobs, RetryStep(j)
  PROVE  Lasting
<1> USE DEF Lasting, loopVars, rowVars, chainVars
<1>1. CASE RetryStamp(j)
  <2>1. stamped[j] \subseteq 1 .. stored[j] /\ stamped \in [Jobs -> SUBSET Nat]
    BY DEF IndInv, JobInv, Position, TypeOK, JobTypeOK
  <2>2. stamped' = [stamped EXCEPT ![j] = 1 .. stored[j]] \/ UNCHANGED stamped
    BY <1>1 DEF RetryStamp
  <2>3. \A k \in Jobs : stamped[k] \subseteq stamped'[k]
    BY <2>1, <2>2
  <2> QED
    BY <1>1, <2>3 DEF RetryStamp
<1>2. CASE RetryCommit(j) \/ RetryStore(j)
  BY <1>2 DEF RetryCommit, RetryStore
<1>3. CASE RetryMark(j) \/ RetryResolve(j) \/ RetryCrash(j)
  BY <1>3 DEF RetryMark, RetryResolve, RetryCrash
<1> QED
  BY <1>1, <1>2, <1>3 DEF RetryStep

(* What POST /verify has once confirmed it confirms for ever.              *)
THEOREM VerifiedForeverHolds == Spec => VerifiedForever
<1>1. IndInv /\ [Next]_vars => Lasting
  <2> SUFFICES ASSUME IndInv, [Next]_vars PROVE Lasting
    OBVIOUS
  <2>1. ASSUME NEW s \in Subscribers, StreamStep(s) PROVE Lasting
    BY <2>1, StreamTypes DEF KeepJobs, Lasting, loopVars, rowVars, chainVars
  <2>2. CASE UNCHANGED vars
    BY <2>2 DEF vars, Lasting, loopVars, rowVars, chainVars
  <2> QED
    BY <2>1, <2>2, JobStepLasts, RetryStepLasts DEF Next
<1>2. IndInv /\ Lasting => \A h \in Hashes : verify_hash(h) => verify_hash(h)'
  <2> SUFFICES ASSUME IndInv, Lasting, NEW h \in Hashes, verify_hash(h)
               PROVE  verify_hash(h)'
    OBVIOUS
  <2>1. CASE <<h>> \in commits
    BY <2>1 DEF Lasting, verify_hash
  <2>2. CASE \E j \in Jobs : /\ root[j] \in commits
                            /\ \E i \in stamped[j] : ContentHash[events[j][i]] = h
    <3>0. PICK j \in Jobs : /\ root[j] \in commits
                            /\ \E i \in stamped[j] : ContentHash[events[j][i]] = h
      BY <2>2
    <3>1. PICK i \in stamped[j] :
            root[j] \in commits /\ ContentHash[events[j][i]] = h
      BY <3>0
    <3>2. root[j] # NoRoot
      BY <3>1 DEF IndInv, JobInv, Whole
    <3> QED
      BY <3>1, <3>2 DEF Lasting, verify_hash
  <2> QED
    BY <2>1, <2>2 DEF verify_hash
<1> QED
  BY Invariance, <1>1, <1>2, PTL DEF Spec, VerifiedForever
-----------------------------------------------------------------------------
(* Subscribers.  Rows are appended, and an event that has a row stays.     *)
Appends ==
  \A j \in Jobs : /\ stored'[j] \in Nat /\ stored[j] <= stored'[j]
                  /\ stored[j] > 0 => events'[j] = events[j]

LEMMA StepAppends ==
  ASSUME IndInv, NEW j \in Jobs, JobStep(j) \/ RetryStep(j)
  PROVE  /\ Appends
         /\ \/ UNCHANGED streamVars
            \/ Notify(<<j, stored[j] + 1>>) /\ stored'[j] = stored[j] + 1
<1> USE DEF Appends, loopVars, rowVars
<1>1. stored \in [Jobs -> Nat]
  BY DEF IndInv, TypeOK, JobTypeOK
<1>2. CASE GetEvents(j)
  <2>1. pc[j] = "fetch"
    BY <1>2 DEF GetEvents, Goto
  <2>2. stored[j] = 0
    BY <2>1 DEF IndInv, JobInv, Position
  <2>3. \A k \in Jobs \ {j} : events'[k] = events[k]
    BY <1>2 DEF GetEvents, IndInv, TypeOK, JobTypeOK
  <2> QED
    BY <1>1, <1>2, <2>2, <2>3 DEF GetEvents
<1>3. CASE InsertEvent(j)
  BY <1>1, <1>3 DEF InsertEvent
<1>4. CASE \/ Create(j) \/ Take(j) \/ Reject(j) \/ AddContent(j) \/ PinContent(j)
           \/ RecordContent(j) \/ Extract(j) \/ Commit(j) \/ StoreCommit(j)
           \/ Stamp(j) \/ QueueRetry(j) \/ SetStatus(j) \/ Crash(j)
  BY <1>1, <1>4 DEF Create, Take, Reject, AddContent, PinContent, RecordContent,
       Extract, Commit, StoreCommit, Stamp, QueueRetry, SetStatus, Crash
<1>5. CASE RetryStep(j)
  BY <1>1, <1>5 DEF RetryStep, RetryCommit, RetryStore, RetryStamp, RetryMark,
       RetryResolve, RetryCrash
<1> QED
  BY <1>2, <1>3, <1>4, <1>5 DEF JobStep, EventStep

(* The rows of the log keep their events, and so their addresses. *)
LEMMA LogLasts ==
  ASSUME IndInv, LogInv, Appends, log' = log \/ \E r \in Rows : log' = Append(log, r)
  PROVE  /\ Len(log) <= Len(log')
         /\ \A i \in 1 .. Len(log) :
              /\ log'[i] = log[i]
              /\ log[i][2] \in 1 .. stored'[log[i][1]]
              /\ \A s \in Subscribers : Matches(s, i)' = Matches(s, i)
<1>1. log \in Seq(Rows)
  BY DEF IndInv, TypeOK, StoreTypeOK
<1>2. Len(log) <= Len(log') /\ \A i \in 1 .. Len(log) : log'[i] = log[i]
  BY <1>1
<1>3. ASSUME NEW i \in 1 .. Len(log)
      PROVE  /\ log[i][2] \in 1 .. stored'[log[i][1]]
             /\ EventOf(log[i]) = events'[log[i][1]][log[i][2]]
  <2>1. log[i] \in Rows /\ i \in DOMAIN log
    BY <1>1
  <2>2. log[i][1] \in Jobs /\ log[i][2] \in 1 .. stored[log[i][1]]
    BY <2>1 DEF Rows, LogInv
  <2>3. stored[log[i][1]] \in Nat
    BY <2>2 DEF IndInv, TypeOK, JobTypeOK
  <2>4. stored[log[i][1]] <= stored'[log[i][1]]
        /\ stored'[log[i][1]] \in Nat
        /\ events'[log[i][1]] = events[log[i][1]]
    BY <2>2, <2>3 DEF Appends
  <2> QED
    BY <2>2, <2>3, <2>4 DEF EventOf
<1> QED
  BY <1>2, <1>3 DEF Matches, EventOf

LEMMA StreamTyped ==
  ASSUME IndInv, NEW s \in Subscribers
  PROVE  /\ got[s] \in Seq(Nat) /\ inbox[s] \in Seq(Nat) /\ log \in Seq(Rows)
         /\ sub[s].from \in Nat /\ sub[s].whole \in BOOLEAN
         /\ sub[s].at \in {"off", "on", "away"} /\ Len(log) \in Nat
BY DEF IndInv, TypeOK, StoreTypeOK, Stream

(* A step that sends nothing. *)
LEMMA QuietStep ==
  ASSUME IndInv, SendInv, Appends, UNCHANGED streamVars
  PROVE  SendInv'
<1>1. /\ UNCHANGED <<log, sub, inbox, got>> /\ LogInv
      /\ \A s \in Subscribers : StreamInv(s)
  BY DEF streamVars, SendInv
<1>2. \A i \in 1 .. Len(log) :
        /\ log[i][2] \in 1 .. stored'[log[i][1]]
        /\ \A s \in Subscribers : Matches(s, i)' = Matches(s, i)
  BY <1>1, LogLasts
<1>3. log \in Seq(Rows)
  BY DEF IndInv, TypeOK, StoreTypeOK
<1>4. LogInv'
  BY <1>1, <1>2, <1>3 DEF LogInv
<1>5. ASSUME NEW s \in Subscribers PROVE StreamInv(s)'
  <2> USE StreamTyped, <1>1
  <2>1. NoneElse(s)'
    BY <1>2 DEF StreamInv, NoneElse
  <2>2. NoneMissing(s)'
    <3> SUFFICES ASSUME sub[s].at = "on", sub[s].whole,
                        NEW i \in sub[s].from + 1 .. Len(log), Matches(s, i)'
                 PROVE  \/ \E k \in DOMAIN got[s] : got[s][k] = i
                        \/ \E k \in DOMAIN inbox[s] : inbox[s][k] = i
      BY DEF NoneMissing
    <3>1. i \in 1 .. Len(log)
      OBVIOUS
    <3> QED
      BY <1>2, <3>1 DEF StreamInv, NoneMissing
  <2> QED
    BY <2>1, <2>2 DEF StreamInv, Ascending
<1> QED
  BY <1>4, <1>5 DEF SendInv

(* The INSERT of a row, which is notified. *)
LEMMA NotifyStep ==
  ASSUME IndInv, SendInv, Appends, NEW j \in Jobs, Notify(<<j, stored[j] + 1>>),
         stored'[j] = stored[j] + 1
  PROVE  SendInv'
<1> DEFINE row == <<j, stored[j] + 1>>
           n == Len(log) + 1
<1>1. row \in Rows /\ stored[j] \in Nat
  BY DEF IndInv, TypeOK, JobTypeOK, Rows
<1>2. /\ log' = Append(log, row) /\ sub' = sub /\ got' = got
      /\ \A s \in Subscribers :
           inbox'[s] = IF sub[s].at = "on" THEN Append(inbox[s], n) ELSE inbox[s]
  BY DEF Notify, Listening
<1>3. log \in Seq(Rows) /\ Len(log) \in Nat
  BY DEF IndInv, TypeOK, StoreTypeOK
<1>4. Len(log') = n /\ DOMAIN log' = 1 .. n /\ log'[n] = row
  BY <1>1, <1>2, <1>3
<1>5. \A i \in 1 .. Len(log) :
        /\ log'[i] = log[i] /\ log[i][2] \in 1 .. stored'[log[i][1]]
        /\ \A s \in Subscribers : Matches(s, i)' = Matches(s, i)
  BY <1>1, <1>2, LogLasts DEF SendInv
<1>6. LogInv'
  BY <1>1, <1>3, <1>4, <1>5 DEF LogInv
<1>7. ASSUME NEW s \in Subscribers PROVE StreamInv(s)'
  <2> HIDE DEF n
  <2>1. /\ got[s] \in Seq(Nat) /\ inbox[s] \in Seq(Nat)
        /\ sub[s].from \in Nat /\ n = Len(log) + 1
    BY StreamTyped DEF n
  <2>2. StreamInv(s)
    BY DEF SendInv
  <2>3. NoneElse(s)'
    <3> SUFFICES ASSUME NEW k \in DOMAIN got[s]
                 PROVE  got[s][k] \in sub[s].from + 1 .. n /\ Matches(s, got[s][k])'
      BY <1>2, <1>4 DEF NoneElse
    <3>1. got[s][k] \in sub[s].from + 1 .. Len(log) /\ Matches(s, got[s][k])
      BY <2>2 DEF StreamInv, NoneElse
    <3>2. got[s][k] \in 1 .. Len(log)
      BY <1>3, <2>1, <3>1
    <3> QED
      BY <1>2, <1>3, <1>5, <2>1, <3>1, <3>2
  <2>4. Ascending(got[s])'
    BY <1>2, <2>2 DEF StreamInv, Ascending
  <2>5. sub'[s].from <= Len(log') /\ (sub'[s].at = "away" => ~sub'[s].whole)
    BY <1>2, <1>3, <1>4, <2>1, <2>2 DEF StreamInv
  <2>6. CASE sub[s].at = "on"
    <3>1. inbox'[s] = Append(inbox[s], n)
      BY <1>2, <2>6
    <3>2. /\ Len(inbox'[s]) = Len(inbox[s]) + 1 /\ n \in Nat
          /\ DOMAIN inbox'[s] = 1 .. Len(inbox[s]) + 1
          /\ inbox'[s][Len(inbox[s]) + 1] = n
          /\ \A k \in 1 .. Len(inbox[s]) : inbox'[s][k] = inbox[s][k]
          /\ DOMAIN inbox[s] = 1 .. Len(inbox[s]) /\ Len(inbox[s]) \in Nat
      BY <1>3, <2>1, <3>1
    <3>3. \A k \in DOMAIN inbox[s] : inbox[s][k] < n /\ inbox[s][k] \in Nat
      BY <1>3, <2>1, <2>2 DEF StreamInv
    <3>4. Ascending(inbox[s])'
      <4> SUFFICES ASSUME NEW k \in 1 .. Len(inbox[s]) + 1, NEW l \in 1 .. k - 1
                   PROVE  inbox'[s][l] < inbox'[s][k]
        BY <3>2 DEF Ascending
      <4>1. l \in 1 .. Len(inbox[s]) /\ inbox'[s][l] = inbox[s][l]
        BY <3>2
      <4>2. CASE k = Len(inbox[s]) + 1
        BY <3>2, <3>3, <4>1, <4>2
      <4>3. CASE k \in 1 .. Len(inbox[s])
        BY <2>2, <3>2, <4>1, <4>3 DEF StreamInv, Ascending
      <4> QED
        BY <3>2, <4>2, <4>3
    <3>5. \A k \in DOMAIN got[s] : got[s][k] < n
      BY <1>3, <2>1, <2>2 DEF StreamInv, NoneElse
    <3>6. \A l \in DOMAIN inbox'[s] :
            /\ inbox'[s][l] \in sub'[s].from + 1 .. Len(log')
            /\ \A k \in DOMAIN got'[s] : got'[s][k] < inbox'[s][l]
      <4> SUFFICES ASSUME NEW l \in 1 .. Len(inbox[s]) + 1
                   PROVE  /\ inbox'[s][l] \in sub[s].from + 1 .. n
                          /\ \A k \in DOMAIN got[s] : got[s][k] < inbox'[s][l]
        BY <1>2, <1>4, <3>2
      <4>1. CASE l = Len(inbox[s]) + 1
        <5>1. sub[s].from <= Len(log)
          BY <2>2 DEF StreamInv
        <5> QED
          BY <1>3, <2>1, <3>2, <3>5, <4>1, <5>1
      <4>2. CASE l \in 1 .. Len(inbox[s])
        <5>1. /\ inbox[s][l] \in sub[s].from + 1 .. Len(log)
              /\ \A k \in DOMAIN got[s] : got[s][k] < inbox[s][l]
          BY <2>2, <3>2, <4>2 DEF StreamInv
        <5> QED
          BY <1>3, <2>1, <3>2, <4>2, <5>1
      <4> QED
        BY <3>2, <4>1, <4>2
    <3>7. NoneMissing(s)'
      <4> SUFFICES ASSUME sub[s].whole, NEW p \in sub[s].from + 1 .. n, Matches(s, p)'
                   PROVE  \/ \E k \in DOMAIN got[s] : got[s][k] = p
                          \/ \E k \in DOMAIN inbox'[s] : inbox'[s][k] = p
        BY <1>2, <1>4 DEF NoneMissing
      <4>1. CASE p = n
        BY <3>2, <4>1
      <4>2. CASE p # n
        <5>1. p \in sub[s].from + 1 .. Len(log) /\ p \in 1 .. Len(log)
          BY <1>3, <2>1, <4>2
        <5>2. Matches(s, p)
          BY <1>5, <5>1
        <5> QED
          BY <2>2, <2>6, <3>2, <5>1, <5>2 DEF StreamInv, NoneMissing
      <4> QED
        BY <4>1, <4>2
    <3> QED
      BY <1>2, <2>3, <2>4, <2>5, <2>6, <3>4, <3>6, <3>7 DEF StreamInv
  <2>7. CASE sub[s].at # "on"
    <3>1. inbox'[s] = inbox[s] /\ sub'[s] = sub[s] /\ got'[s] = got[s]
      BY <1>2, <2>7
    <3>2. NoneMissing(s)' /\ Ascending(inbox[s])'
      BY <2>2, <2>7, <3>1 DEF NoneMissing, StreamInv, Ascending
    <3>3. \A l \in DOMAIN inbox[s] : inbox[s][l] \in sub[s].from + 1 .. n
      BY <1>3, <2>1, <2>2 DEF StreamInv
    <3> QED
      BY <1>4, <2>2, <2>3, <2>4, <2>5, <2>7, <3>1, <3>2, <3>3 DEF StreamInv
  <2> QED
    BY <2>6, <2>7
<1> QED
  BY <1>6, <1>7 DEF SendInv

(* The steps of a subscription. *)
LEMMA SubscriptionStep ==
  ASSUME IndInv, SendInv, NEW s \in Subscribers, StreamStep(s)
  PROVE  SendInv'
<1>1. KeepJobs /\ log' = log
  BY StreamTypes DEF KeepJobs
<1>2. /\ \A i : Matches(s, i)' = Matches(s, i)
      /\ \A t \in Subscribers, i \in Nat : Matches(t, i)' = Matches(t, i)
      /\ LogInv'
  BY <1>1 DEF KeepJobs, loopVars, rowVars, Matches, EventOf, SendInv, LogInv
<1>3. ASSUME NEW t \in Subscribers, t # s PROVE StreamInv(t)'
  <2>1. sub'[t] = sub[t] /\ inbox'[t] = inbox[t] /\ got'[t] = got[t]
    BY <1>3 DEF StreamStep, Subscribe, Deliver, LoseConnection, Reconnect,
                IndInv, TypeOK, StoreTypeOK
  <2>2. Matches(t, 0)' = Matches(t, 0) /\ StreamInv(t)
    BY <1>2 DEF SendInv
  <2>3. \A i : Matches(t, i)' = Matches(t, i)
    BY <1>1 DEF KeepJobs, loopVars, Matches, EventOf
  <2> QED
    BY <1>1, <2>1, <2>2, <2>3 DEF StreamInv, NoneElse, NoneMissing, Ascending
<1>4. StreamInv(s)'
  <2>1. /\ got[s] \in Seq(Nat) /\ inbox[s] \in Seq(Nat) /\ Len(log) \in Nat
        /\ sub[s].from \in Nat
    BY StreamTyped
  <2>2. StreamInv(s)
    BY DEF SendInv
  <2>3. sub \in [Subscribers -> Stream] /\ inbox \in [Subscribers -> Seq(Nat)]
        /\ got \in [Subscribers -> Seq(Nat)] /\ sub[s] \in Stream
    BY DEF IndInv, TypeOK, StoreTypeOK
  <2>4. CASE Subscribe(s)
    <3>1. /\ sub'[s].at = "on" /\ sub'[s].from = Len(log)
          /\ inbox'[s] = <<>> /\ got'[s] = <<>>
      BY <2>2, <2>3, <2>4 DEF Subscribe, StreamInv, Stream
    <3> QED
      BY <1>1, <2>1, <3>1 DEF StreamInv, NoneElse, NoneMissing, Ascending
  <2>5. CASE Deliver(s)
    <3> DEFINE h == Head(inbox[s])
               w == Tail(inbox[s])
    <3>1. /\ sub'[s] = sub[s] /\ inbox'[s] = w
          /\ got'[s] = IF Matches(s, h) THEN Append(got[s], h) ELSE got[s]
      BY <2>3, <2>5 DEF Deliver
    <3>2. /\ inbox[s] # <<>> /\ h = inbox[s][1] /\ 1 \in DOMAIN inbox[s]
          /\ w \in Seq(Nat) /\ Len(w) = Len(inbox[s]) - 1 /\ Len(w) \in Nat
          /\ \A l \in 1 .. Len(w) : w[l] = inbox[s][l + 1]
      BY <2>1, <2>5 DEF Deliver
    <3>3. /\ DOMAIN w = 1 .. Len(w)
          /\ DOMAIN inbox[s] = 1 .. Len(inbox[s]) /\ Len(inbox[s]) \in Nat
      <4>1. DOMAIN w = 1 .. Len(w)
        BY <3>2
      <4>2. DOMAIN inbox[s] = 1 .. Len(inbox[s]) /\ Len(inbox[s]) \in Nat
        BY <2>1
      <4> QED
        BY <4>1, <4>2
    <3> HIDE DEF h, w
    <3>4. /\ h \in sub[s].from + 1 .. Len(log)
          /\ \A k \in DOMAIN got[s] : got[s][k] < h
      BY <2>2, <3>2 DEF StreamInv
    <3>5. \A l \in 1 .. Len(w) :
            /\ l + 1 \in DOMAIN inbox[s] /\ h < w[l]
            /\ w[l] \in sub[s].from + 1 .. Len(log)
            /\ \A k \in DOMAIN got[s] : got[s][k] < w[l]
      <4> SUFFICES ASSUME NEW l \in 1 .. Len(w)
                   PROVE  /\ l + 1 \in DOMAIN inbox[s] /\ h < w[l]
                          /\ w[l] \in sub[s].from + 1 .. Len(log)
                          /\ \A k \in DOMAIN got[s] : got[s][k] < w[l]
        OBVIOUS
      <4>1. l + 1 \in DOMAIN inbox[s] /\ 1 \in 1 .. (l + 1) - 1
        BY <2>1, <3>2
      <4>2. inbox[s][1] < inbox[s][l + 1]
        BY <2>2, <4>1 DEF StreamInv, Ascending
      <4> QED
        BY <2>2, <3>2, <4>1, <4>2 DEF StreamInv
    <3>6. Ascending(w)
      <4> SUFFICES ASSUME NEW k \in 1 .. Len(w), NEW l \in 1 .. k - 1
                   PROVE  w[l] < w[k]
        BY <3>3 DEF Ascending
      <4>1. k + 1 \in DOMAIN inbox[s] /\ l + 1 \in 1 .. (k + 1) - 1
            /\ l \in 1 .. Len(w)
        BY <3>2, <3>5
      <4>2. inbox[s][l + 1] < inbox[s][k + 1]
        BY <2>2, <4>1 DEF StreamInv, Ascending
      <4> QED
        BY <3>2, <4>1, <4>2
    <3>7. \A i \in DOMAIN inbox[s] : i = 1 \/ (i - 1 \in 1 .. Len(w) /\ w[i - 1] = inbox[s][i])
      <4> SUFFICES ASSUME NEW i \in DOMAIN inbox[s], i # 1
                   PROVE  i - 1 \in 1 .. Len(w) /\ w[i - 1] = inbox[s][i]
        OBVIOUS
      <4>1. i - 1 \in 1 .. Len(w) /\ (i - 1) + 1 = i
        BY <3>2, <3>3
      <4> QED
        BY <3>2, <4>1
    <3>8. ASSUME NoneElse(s)', Ascending(got[s])', NoneMissing(s)',
                  \A l \in 1 .. Len(w) : \A k \in DOMAIN got'[s] : got'[s][k] < w[l]
           PROVE  StreamInv(s)'
      <4>1. /\ Ascending(inbox[s])' /\ sub'[s].from <= Len(log')
            /\ sub'[s].at = "away" => ~sub'[s].whole
        BY <1>1, <2>2, <3>1, <3>6 DEF StreamInv, Ascending
      <4>2. sub'[s].at # "off"
        BY <2>2, <3>1, <3>2 DEF StreamInv
      <4>3. \A l \in DOMAIN inbox'[s] :
              /\ inbox'[s][l] \in sub'[s].from + 1 .. Len(log')
              /\ \A k \in DOMAIN got'[s] : got'[s][k] < inbox'[s][l]
        BY <1>1, <3>1, <3>3, <3>5, <3>8
      <4> QED
        BY <3>8, <4>1, <4>2, <4>3 DEF StreamInv
    <3>9. CASE ~Matches(s, h)
      <4>1. got'[s] = got[s]
        BY <3>1, <3>9
      <4>2. NoneMissing(s)'
        <5> SUFFICES ASSUME sub[s].at = "on", sub[s].whole,
                            NEW i \in sub[s].from + 1 .. Len(log), Matches(s, i)
                     PROVE  \/ \E k \in DOMAIN got[s] : got[s][k] = i
                            \/ \E k \in DOMAIN w : w[k] = i
          BY <1>1, <1>2, <3>1, <4>1 DEF NoneMissing
        <5>1. i # h
          BY <3>9
        <5>2. \/ \E k \in DOMAIN got[s] : got[s][k] = i
              \/ \E k \in DOMAIN inbox[s] : inbox[s][k] = i
          BY <2>2 DEF StreamInv, NoneMissing
        <5>3. CASE \E k \in DOMAIN inbox[s] : inbox[s][k] = i
          <6>1. PICK k \in DOMAIN inbox[s] : inbox[s][k] = i
            BY <5>3
          <6>2. k - 1 \in DOMAIN w /\ w[k - 1] = i
            BY <3>2, <3>3, <3>7, <5>1, <6>1
          <6> QED
            BY <6>2
        <5> QED
          BY <5>2, <5>3
      <4>3. NoneElse(s)' /\ Ascending(got[s])'
        BY <1>1, <1>2, <2>2, <3>1, <4>1 DEF StreamInv, NoneElse, Ascending
      <4>4. \A l \in 1 .. Len(w) : \A k \in DOMAIN got'[s] : got'[s][k] < w[l]
        BY <3>5, <4>1
      <4> QED
        BY <4>2, <4>3, <4>4, <3>8
    <3>10. CASE Matches(s, h)
      <4> DEFINE g == Append(got[s], h)
      <4>1. /\ got'[s] = g /\ Len(g) = Len(got[s]) + 1 /\ g[Len(got[s]) + 1] = h
            /\ \A k \in 1 .. Len(got[s]) : g[k] = got[s][k]
            /\ DOMAIN g = 1 .. Len(got[s]) + 1 /\ Len(got[s]) \in Nat
            /\ DOMAIN got[s] = 1 .. Len(got[s])
        BY <2>1, <3>1, <3>10
      <4>2. \A k \in DOMAIN g : k = Len(got[s]) + 1 \/ k \in DOMAIN got[s]
        BY <4>1
      <4> HIDE DEF g
      <4>3. NoneElse(s)'
        BY <1>1, <1>2, <2>2, <3>1, <3>4, <3>10, <4>1, <4>2 DEF StreamInv, NoneElse
      <4>4. Ascending(g)
        <5> SUFFICES ASSUME NEW k \in DOMAIN g, NEW l \in 1 .. k - 1
                     PROVE  g[l] < g[k]
          BY DEF Ascending
        <5>1. l \in DOMAIN got[s] /\ g[l] = got[s][l]
          BY <4>1
        <5>2. CASE k \in DOMAIN got[s]
          BY <2>2, <4>1, <5>1, <5>2 DEF StreamInv, Ascending
        <5>3. CASE k = Len(got[s]) + 1
          BY <3>4, <4>1, <5>1, <5>3
        <5> QED
          BY <4>2, <5>2, <5>3
      <4>5. \A l \in 1 .. Len(w) : \A k \in DOMAIN g : g[k] < w[l]
        BY <3>5, <4>1, <4>2
      <4>6. NoneMissing(s)'
        <5> SUFFICES ASSUME sub[s].at = "on", sub[s].whole,
                            NEW i \in sub[s].from + 1 .. Len(log), Matches(s, i)
                     PROVE  \/ \E k \in DOMAIN g : g[k] = i
                            \/ \E k \in DOMAIN w : w[k] = i
          BY <1>1, <1>2, <3>1, <4>1 DEF NoneMissing
        <5>1. CASE \E k \in DOMAIN got[s] : got[s][k] = i
          BY <4>1, <5>1
        <5>2. CASE \E k \in DOMAIN inbox[s] : inbox[s][k] = i
          <6>1. PICK k \in DOMAIN inbox[s] : inbox[s][k] = i
            BY <5>2
          <6>2. CASE k = 1
            <7>1. g[Len(got[s]) + 1] = i /\ Len(got[s]) + 1 \in DOMAIN g
              BY <3>2, <4>1, <6>1, <6>2
            <7> QED
              BY <7>1
          <6>3. CASE k # 1
            BY <3>3, <3>7, <6>1, <6>3
          <6> QED
            BY <6>2, <6>3
        <5> QED
          BY <2>2, <5>1, <5>2 DEF StreamInv, NoneMissing
      <4>7. Ascending(got[s])'
        BY <4>1, <4>4 DEF Ascending
      <4>8. \A l \in 1 .. Len(w) : \A k \in DOMAIN got'[s] : got'[s][k] < w[l]
        BY <4>1, <4>5
      <4> QED
        BY <3>8, <4>3, <4>6, <4>7, <4>8
    <3> QED
      BY <3>9, <3>10
  <2>6. CASE LoseConnection(s)
    <3>1. PICK n \in 0 .. Len(inbox[s]) :
            inbox' = [inbox EXCEPT ![s] = SubSeq(inbox[s], 1, n)]
      BY <2>6 DEF LoseConnection
    <3> DEFINE w == SubSeq(inbox[s], 1, n)
    <3>2. /\ inbox'[s] = w /\ DOMAIN w = 1 .. n /\ got'[s] = got[s]
          /\ \A l \in 1 .. n : l \in DOMAIN inbox[s] /\ w[l] = inbox[s][l]
      BY <2>1, <2>3, <2>6, <3>1 DEF LoseConnection
    <3>3. sub'[s].at = "away" /\ ~sub'[s].whole /\ sub'[s].from = sub[s].from
      BY <2>3, <2>6 DEF LoseConnection, Stream
    <3> HIDE DEF w
    <3>4. Ascending(w)
      <4> SUFFICES ASSUME NEW k \in 1 .. n, NEW l \in 1 .. k - 1
                   PROVE  w[l] < w[k]
        BY <3>2 DEF Ascending
      <4> QED
        BY <2>2, <3>2 DEF StreamInv, Ascending
    <3> QED
      BY <1>1, <1>2, <2>2, <3>2, <3>3, <3>4 DEF StreamInv, NoneElse, NoneMissing
  <2>7. CASE Reconnect(s)
    <3>1. /\ sub'[s].at = "on" /\ sub'[s].from = sub[s].from /\ ~sub'[s].whole
          /\ inbox'[s] = inbox[s] /\ got'[s] = got[s]
      BY <2>2, <2>3, <2>7 DEF Reconnect, StreamInv, Stream
    <3> QED
      BY <1>1, <1>2, <2>2, <3>1 DEF StreamInv, NoneElse, NoneMissing
  <2> QED
    BY <2>4, <2>5, <2>6, <2>7 DEF StreamStep
<1> QED
  BY <1>2, <1>3, <1>4 DEF SendInv

LEMMA InitSends == Init => SendInv
BY DEF Init, SendInv, LogInv, StreamInv, NoneElse, NoneMissing, Ascending

(* A subscriber is sent the rows of its address, in order, each once, and  *)
(* all of them while its connection has not been lost.                     *)
THEOREM StreamFaithfulHolds == Spec => []StreamFaithful
<1>1. IndInv /\ SendInv /\ [Next]_vars => SendInv'
  <2> SUFFICES ASSUME IndInv, SendInv, [Next]_vars PROVE SendInv'
    OBVIOUS
  <2>1. ASSUME NEW j \in Jobs, JobStep(j) \/ RetryStep(j) PROVE SendInv'
    BY <2>1, StepAppends, QuietStep, NotifyStep
  <2>2. ASSUME NEW s \in Subscribers, StreamStep(s) PROVE SendInv'
    BY <2>2, SubscriptionStep
  <2>3. CASE UNCHANGED vars
    <3>1. Appends /\ UNCHANGED streamVars
      BY <2>3 DEF vars, Appends, rowVars, loopVars, IndInv, TypeOK, JobTypeOK
    <3> QED
      BY <3>1, QuietStep
  <2> QED
    BY <2>1, <2>2, <2>3 DEF Next
<1>2. SendInv => StreamFaithful
  BY DEF SendInv, StreamInv, StreamFaithful
<1> QED
  BY Invariance, InitSends, <1>1, <1>2, PTL DEF Spec
-----------------------------------------------------------------------------
(* A job that is undisturbed stamps all its rows: by itself, one after     *)
(* another, or by the retry.                                               *)
Checked(j) == root[j] \in commits /\ 1 .. stored[j] \subseteq stamped[j]

Settled(j) ==
  faults = 0 =>
    /\ pc[j] = "stamp" => root[j] \in commits /\ 1 .. cur[j] - 1 \subseteq stamped[j]
    /\ pc[j] \in {"finish", "completed"} /\ root[j] # NoRoot => Checked(j)
    /\ retry[j] = "stamp" => root[j] \in commits
    /\ retry[j] \in {"mark", "done"} => Checked(j)

SettledInv == \A j \in Jobs : Settled(j)

(* A step of one job does not touch another. *)
Apart(j) ==
  \A k \in Jobs \ {j} :
    /\ pc'[k] = pc[k] /\ cur'[k] = cur[k] /\ retry'[k] = retry[k]
    /\ root'[k] = root[k] /\ stored'[k] = stored[k] /\ stamped'[k] = stamped[k]

LEMMA StepApart ==
  ASSUME IndInv, NEW j \in Jobs, JobStep(j) \/ RetryStep(j)
  PROVE  Apart(j)
<1> USE DEF Apart, Goto, RetryAt, loopVars, rowVars, retryVars
<1>1. JobTypeOK
  BY DEF IndInv, TypeOK
<1> USE DEF JobTypeOK
<1>2. CASE Create(j) \/ Take(j) \/ Reject(j) \/ GetEvents(j)
  BY <1>1, <1>2 DEF Create, Take, Reject, GetEvents
<1>3. CASE AddContent(j) \/ PinContent(j) \/ InsertEvent(j) \/ RecordContent(j)
           \/ Extract(j)
  BY <1>1, <1>3 DEF AddContent, PinContent, InsertEvent, RecordContent, Extract
<1>4. CASE \/ Commit(j) \/ StoreCommit(j) \/ Stamp(j) \/ QueueRetry(j)
           \/ SetStatus(j) \/ Crash(j)
  BY <1>1, <1>4 DEF Commit, StoreCommit, Stamp, QueueRetry, SetStatus, Crash
<1>5. CASE RetryStep(j)
  BY <1>1, <1>5 DEF RetryStep, RetryCommit, RetryStore, RetryStamp, RetryMark,
                    RetryResolve, Resolve, RetryCrash
<1> QED
  BY <1>2, <1>3, <1>4, <1>5 DEF JobStep, EventStep

LEMMA StepSettles ==
  ASSUME IndInv, NEW j \in Jobs, Settled(j), JobStep(j) \/ RetryStep(j),
         faults' = 0
  PROVE  Settled(j)' /\ faults = 0
<1> USE DEF Settled, Checked, Goto, RetryAt, loopVars, rowVars, chainVars,
            retryVars
<1>1. JobTypeOK /\ faults \in Nat /\ ~Fault
  BY MaxFaultsIsNat DEF IndInv, TypeOK, StoreTypeOK, Fault
<1>2. Position(j) /\ Rooted(j) /\ stored[j] \in Nat /\ cur[j] \in Nat
  BY <1>1 DEF IndInv, JobInv, JobTypeOK
<1> USE DEF JobTypeOK, NoFault
<1>3. CASE \/ Create(j) \/ Take(j) \/ Reject(j) \/ GetEvents(j) \/ AddContent(j)
           \/ PinContent(j) \/ RecordContent(j) \/ Extract(j)
  <2>1. /\ pc[j] \in Looping \cup {"none", "queued", "fetch"}
        /\ root[j] = NoRoot /\ retry[j] = "idle" /\ faults = 0
        /\ UNCHANGED <<root, retry>>
    BY <1>1, <1>2, <1>3
       DEF Create, Take, Reject, GetEvents, AddContent, PinContent, RecordContent,
           Extract, Rooted, Looping
  <2>2. pc'[j] # "stamp"
    BY <1>1, <1>3
       DEF Create, Take, Reject, GetEvents, AddContent, PinContent, RecordContent,
           Extract, AfterEvent
  <2> QED
    BY <2>1, <2>2
<1>4. CASE InsertEvent(j)
  <2>1. /\ root[j] = NoRoot /\ retry[j] = "idle" /\ faults = 0
        /\ UNCHANGED <<root, retry>> /\ pc'[j] \in {"record", "fail"}
    BY <1>1, <1>2, <1>4 DEF InsertEvent, Rooted, Looping
  <2> QED
    BY <2>1
<1>5. CASE Commit(j)
  <2>1. /\ root[j] = NoRoot /\ retry'[j] = "idle" /\ faults = 0
        /\ \/ pc'[j] \in {"row", "queue"}
           \/ pc'[j] = "finish" /\ root'[j] = NoRoot
    BY <1>1, <1>2, <1>5 DEF Commit, Rooted, Looping
  <2> QED
    BY <2>1
<1>6. CASE StoreCommit(j)
  <2>1. /\ pc'[j] = "stamp" /\ cur'[j] = 1 /\ root[j] \in commits' /\ faults = 0
        /\ UNCHANGED <<root, stored, stamped, retry>> /\ commits \subseteq commits'
    BY <1>1, <1>6 DEF StoreCommit
  <2> QED
    BY <2>1
<1>7. CASE Stamp(j)
  <2>1. /\ pc[j] = "stamp" /\ cur[j] \in 1 .. stored[j] /\ faults = 0
        /\ cur'[j] = cur[j] + 1 /\ stamped'[j] = stamped[j] \cup {cur[j]}
        /\ pc'[j] = IF cur[j] < stored[j] THEN "stamp" ELSE "finish"
        /\ UNCHANGED <<root, stored, commits, retry>>
    BY <1>1, <1>2, <1>7 DEF Stamp, Position
  <2>2. 1 .. cur[j] \subseteq stamped'[j] /\ stamped[j] \subseteq stamped'[j]
    BY <2>1
  <2> QED
    BY <1>2, <2>1, <2>2
<1>8. CASE QueueRetry(j)
  BY <1>1, <1>8 DEF QueueRetry
<1>9. CASE SetStatus(j) \/ Crash(j)
  BY <1>1, <1>9 DEF SetStatus, Crash
<1>10. CASE RetryCommit(j)
  BY <1>1, <1>10 DEF RetryCommit
<1>11. CASE RetryStore(j)
  <2>1. /\ retry'[j] = "stamp" /\ root[j] \in commits' /\ faults = 0
        /\ UNCHANGED <<pc, cur, root, stored, stamped>> /\ commits \subseteq commits'
    BY <1>1, <1>11 DEF RetryStore
  <2> QED
    BY <2>1
<1>12. CASE RetryStamp(j)
  <2>1. /\ retry[j] = "stamp" /\ retry'[j] = "mark" /\ faults = 0
        /\ stamped'[j] = 1 .. stored[j]
        /\ UNCHANGED <<pc, cur, root, stored, commits>>
    BY <1>1, <1>12 DEF RetryStamp
  <2>2. pc[j] = "stamp" => 1 .. cur[j] - 1 \subseteq 1 .. stored[j]
    BY <1>2 DEF Position
  <2> QED
    BY <2>1, <2>2
<1>13. CASE RetryMark(j)
  BY <1>1, <1>13 DEF RetryMark
<1>14. CASE RetryResolve(j)
  <2>1. /\ faults = 0 /\ retry'[j] = "idle"
        /\ UNCHANGED <<cur, root, stored, stamped, commits>>
        /\ \/ retry[j] = "done" /\ pc'[j] \in {pc[j], "completed"}
           \/ pc'[j] \in {pc[j], "failed"}
    BY <1>1, <1>14 DEF RetryResolve, Resolve
  <2> QED
    BY <2>1
<1>15. CASE RetryCrash(j)
  BY <1>1, <1>15 DEF RetryCrash
<1> QED
  BY <1>3, <1>4, <1>5, <1>6, <1>7, <1>8, <1>9, <1>10, <1>11, <1>12, <1>13, <1>14,
     <1>15 DEF JobStep, EventStep, RetryStep

LEMMA SettledStep == IndInv /\ SettledInv /\ [Next]_vars => SettledInv'
<1> SUFFICES ASSUME IndInv, SettledInv, [Next]_vars, NEW k \in Jobs, faults' = 0
             PROVE  Settled(k)'
  BY DEF SettledInv, Settled
<1>1. ASSUME NEW j \in Jobs, JobStep(j) \/ RetryStep(j) PROVE Settled(k)'
  <2>1. Settled(j)' /\ faults = 0 /\ Apart(j) /\ commits \subseteq commits'
    BY <1>1, StepSettles, StepApart, JobStepLasts, RetryStepLasts
       DEF SettledInv, Lasting
  <2>2. CASE k # j
    BY <2>1, <2>2 DEF Apart, SettledInv, Settled, Checked
  <2> QED
    BY <2>1, <2>2
<1>2. CASE (\E s \in Subscribers : StreamStep(s)) \/ UNCHANGED vars
  <2>1. /\ UNCHANGED <<pc, loopVars, rowVars, root, chainVars, retryVars>>
        /\ faults = 0
    <3>1. CASE UNCHANGED vars
      BY <3>1 DEF vars
    <3>2. ASSUME NEW s \in Subscribers, StreamStep(s) PROVE faults = 0
      BY <3>2, MaxFaultsIsNat
         DEF StreamStep, Subscribe, Deliver, LoseConnection, Reconnect, NoFault,
             Fault, IndInv, TypeOK, StoreTypeOK
    <3> QED
      BY <1>2, <3>1, <3>2, StreamTypes DEF KeepJobs
  <2> QED
    BY <2>1 DEF SettledInv, Settled, Checked, loopVars, rowVars, chainVars,
                retryVars
<1> QED
  BY <1>1, <1>2 DEF Next

(* With no SQL error, kill or lost connection, each event of a completed   *)
(* job with a root is verified by POST /verify.                            *)
THEOREM CompletedVerifiesHolds == Spec => []CompletedVerifies
<1>1. Init => SettledInv
  BY DEF Init, SettledInv, Settled
<1>2. IndInv /\ SettledInv => CompletedVerifies
  <2> SUFFICES ASSUME IndInv, SettledInv, NEW j \in Jobs, pc[j] = "completed",
                      root[j] # NoRoot, faults = 0, NEW i \in DOMAIN events[j]
               PROVE  verify_hash(ContentHash[events[j][i]])
    BY DEF CompletedVerifies
  <2>1. Checked(j)
    BY DEF SettledInv, Settled
  <2>2. i \in 1 .. stored[j]
    BY DEF IndInv, TypeOK, JobTypeOK, JobInv, Whole
  <2> QED
    BY <2>1, <2>2 DEF Checked, verify_hash
<1> QED
  BY Invariance, SettledStep, <1>1, <1>2, PTL DEF Spec
-----------------------------------------------------------------------------
(* The statuses of jobs. *)

(* The steps of a job and of its retry, as its status sees them. *)
LEMMA StatusSteps ==
  ASSUME IndInv, NEW j \in Jobs, JobStep(j) \/ RetryStep(j)
  PROVE  /\ \A k \in Jobs \ {j} : Status(k)' = Status(k)
         /\ \/ Status(j)' = Status(j)
            \/ Status(j) = "none" /\ Status(j)' = "queued"
            \/ Status(j) = "queued" /\ Status(j)' = "processing"
            \/ Status(j) = "processing"
                 /\ Status(j)' \in {"completed", "failed", "pending_commit"}
            \/ Status(j) = "pending_commit" /\ Status(j)' \in {"completed", "failed"}
<1> USE DEF Goto, Status, Final
<1>1. pc \in [Jobs -> PC]
  BY DEF IndInv, TypeOK, JobTypeOK
<1>2. CASE Create(j) \/ Take(j) \/ Reject(j) \/ GetEvents(j)
  BY <1>1, <1>2 DEF Create, Take, Reject, GetEvents
<1>3. CASE AddContent(j) \/ PinContent(j) \/ InsertEvent(j) \/ RecordContent(j)
           \/ Extract(j)
  BY <1>1, <1>3 DEF AddContent, PinContent, InsertEvent, RecordContent, Extract,
                    AfterEvent
<1>4. CASE Commit(j) \/ StoreCommit(j) \/ Stamp(j) \/ QueueRetry(j)
  BY <1>1, <1>4 DEF Commit, StoreCommit, Stamp, QueueRetry
<1>5. CASE SetStatus(j)
  BY <1>1, <1>5 DEF SetStatus
<1>6. CASE Crash(j)
  BY <1>1, <1>6 DEF Crash, Working
<1>7. CASE RetryCommit(j) \/ RetryStore(j) \/ RetryStamp(j) \/ RetryMark(j)
           \/ RetryCrash(j)
  BY <1>7 DEF RetryCommit, RetryStore, RetryStamp, RetryMark, RetryCrash
<1>8. CASE RetryResolve(j)
  BY <1>1, <1>8 DEF RetryResolve, Resolve
<1> QED
  BY <1>2, <1>3, <1>4, <1>5, <1>6, <1>7, <1>8 DEF JobStep, EventStep, RetryStep

(* Executed event by event, its commit retried by whatever process, a job  *)
(* moves through its statuses as JobLifecycle promises.                    *)
THEOREM LifecycleHolds == Spec => LifecycleSpec
<1> DEFINE now == [j \in Jobs |-> Status(j)]
<1>1. Init => Lifecycle!Init
  BY DEF Init, Lifecycle!Init, Status
<1>2. IndInv /\ [Next]_vars => [Lifecycle!Next]_now
  <2> SUFFICES ASSUME IndInv, [Next]_vars PROVE Lifecycle!Next \/ now' = now
    OBVIOUS
  <2>1. ASSUME NEW j \in Jobs, JobStep(j) \/ RetryStep(j)
        PROVE  Lifecycle!Next \/ now' = now
    <3>1. /\ \A k \in Jobs \ {j} : Status(k)' = Status(k)
          /\ \/ Status(j)' = Status(j)
             \/ Status(j) = "none" /\ Status(j)' = "queued"
             \/ Status(j) = "queued" /\ Status(j)' = "processing"
             \/ Status(j) = "processing"
                  /\ Status(j)' \in {"completed", "failed", "pending_commit"}
             \/ Status(j) = "pending_commit" /\ Status(j)' \in {"completed", "failed"}
      BY <2>1, StatusSteps
    <3>2. now' = [now EXCEPT ![j] = Status(j)']
      BY <3>1
    <3> QED
      BY <3>1, <3>2 DEF Lifecycle!Next, Lifecycle!Create, Lifecycle!Take,
           Lifecycle!Finish, Lifecycle!Park, Lifecycle!Resolve, Lifecycle!Move,
           Lifecycle!Final
  <2>2. CASE (\E s \in Subscribers : StreamStep(s)) \/ UNCHANGED vars
    <3>1. UNCHANGED pc
      BY <2>2, StreamTypes DEF KeepJobs, vars
    <3> QED
      BY <3>1 DEF Status
  <2> QED
    BY <2>1, <2>2 DEF Next
<1> QED
  BY Invariance, <1>1, <1>2, PTL DEF Spec, LifecycleSpec, Lifecycle!Spec
-----------------------------------------------------------------------------
(***************************************************************************)
(* MerkleTree.                                                             *)
(***************************************************************************)

(* The recursive functions of MerkleTree exist, and satisfy their          *)
(* definitions: each is built up level by level.                           *)
IsLevels(f, s, n) ==
  f = [h \in 0 .. n |-> IF h = 0 THEN s ELSE NextLevel(f[h - 1])]

LEMMA LevelsExist ==
  ASSUME NEW s, NEW m \in Nat
  PROVE  \E f : IsLevels(f, s, m)
<1> DEFINE N == {n \in Nat : \E f : IsLevels(f, s, n)}
<1>1. 0 \in N
  <2>1. IsLevels([h \in 0 .. 0 |-> s], s, 0)
    BY DEF IsLevels
  <2> QED
    BY <2>1
<1>2. ASSUME NEW n \in Nat, n \in N PROVE n + 1 \in N
  <2>1. PICK f : IsLevels(f, s, n)
    BY <1>2
  <2> DEFINE g == [h \in 0 .. n + 1 |-> IF h \in 0 .. n THEN f[h] ELSE NextLevel(f[n])]
  <2>2. ASSUME NEW h \in 0 .. n + 1, h # 0
        PROVE  g[h] = NextLevel(g[h - 1]) /\ h - 1 \in 0 .. n
    <3>1. h - 1 \in 0 .. n /\ g[h - 1] = f[h - 1]
      BY <2>2
    <3>2. CASE h = n + 1
      BY <3>1, <3>2
    <3>3. CASE h # n + 1
      <4>1. h \in 0 .. n /\ g[h] = f[h]
        BY <3>3
      <4>2. f[h] = NextLevel(f[h - 1])
        BY <2>1, <2>2, <4>1 DEF IsLevels
      <4> QED
        BY <3>1, <4>1, <4>2
    <3> QED
      BY <3>2, <3>3
  <2>3. g[0] = s
    BY <2>1 DEF IsLevels
  <2>4. g = [h \in 0 .. n + 1 |-> g[h]]
    OBVIOUS
  <2> HIDE DEF g
  <2>5. IsLevels(g, s, n + 1)
    BY <2>2, <2>3, <2>4 DEF IsLevels
  <2> QED
    BY <2>5
<1> HIDE DEF N
<1>3. m \in N
  BY <1>1, <1>2, NumberInduction
<1> QED
  BY <1>3 DEF N

LEMMA LevelsDef ==
  ASSUME NEW s, Len(s) \in Nat
  PROVE  /\ Levels(s)[0] = s
         /\ \A h \in 1 .. Len(s) : Levels(s)[h] = NextLevel(Levels(s)[h - 1])
<1> DEFINE n == Len(s)
<1> DEFINE f == CHOOSE f : IsLevels(f, s, n)
<1>1. IsLevels(f, s, n)
  BY LevelsExist
<1>2. Levels(s) = f
  BY DEF Levels, IsLevels
<1> HIDE DEF f
<1> QED
  BY <1>1, <1>2 DEF IsLevels

IsPositions(f, i, n) ==
  f = [h \in 0 .. n |-> IF h = 0 THEN i ELSE f[h - 1] \div 2]

LEMMA PositionsExist ==
  ASSUME NEW i, NEW m \in Nat
  PROVE  \E f : IsPositions(f, i, m)
<1> DEFINE N == {n \in Nat : \E f : IsPositions(f, i, n)}
<1>1. 0 \in N
  <2>1. IsPositions([h \in 0 .. 0 |-> i], i, 0)
    BY DEF IsPositions
  <2> QED
    BY <2>1
<1>2. ASSUME NEW n \in Nat, n \in N PROVE n + 1 \in N
  <2>1. PICK f : IsPositions(f, i, n)
    BY <1>2
  <2> DEFINE g == [h \in 0 .. n + 1 |-> IF h \in 0 .. n THEN f[h] ELSE f[n] \div 2]
  <2>2. ASSUME NEW h \in 0 .. n + 1, h # 0
        PROVE  g[h] = g[h - 1] \div 2 /\ h - 1 \in 0 .. n
    <3>1. h - 1 \in 0 .. n /\ g[h - 1] = f[h - 1]
      BY <2>2
    <3>2. CASE h = n + 1
      BY <3>1, <3>2
    <3>3. CASE h # n + 1
      <4>1. h \in 0 .. n /\ g[h] = f[h]
        BY <3>3
      <4>2. f[h] = f[h - 1] \div 2
        BY <2>1, <2>2, <4>1 DEF IsPositions
      <4> QED
        BY <3>1, <4>1, <4>2
    <3> QED
      BY <3>2, <3>3
  <2>3. g[0] = i
    BY <2>1 DEF IsPositions
  <2>4. g = [h \in 0 .. n + 1 |-> g[h]]
    OBVIOUS
  <2> HIDE DEF g
  <2>5. IsPositions(g, i, n + 1)
    BY <2>2, <2>3, <2>4 DEF IsPositions
  <2> QED
    BY <2>5
<1> HIDE DEF N
<1>3. m \in N
  BY <1>1, <1>2, NumberInduction
<1> QED
  BY <1>3 DEF N

LEMMA PositionsDef ==
  ASSUME NEW s, Len(s) \in Nat, NEW i
  PROVE  /\ Positions(s, i)[0] = i
         /\ \A h \in 1 .. Len(s) :
              Positions(s, i)[h] = Positions(s, i)[h - 1] \div 2
<1> DEFINE n == Len(s)
<1> DEFINE f == CHOOSE f : IsPositions(f, i, n)
<1>1. IsPositions(f, i, n)
  BY PositionsExist
<1>2. Positions(s, i) = f
  BY DEF Positions, IsPositions
<1> HIDE DEF f
<1> QED
  BY <1>1, <1>2 DEF IsPositions

IsSizes(f, n) ==
  f = [h \in 0 .. n |-> IF h = 0 THEN 1 ELSE 2 * f[h - 1]]

LEMMA SizesExist ==
  ASSUME NEW m \in Nat
  PROVE  \E f : IsSizes(f, m)
<1> DEFINE N == {n \in Nat : \E f : IsSizes(f, n)}
<1>1. 0 \in N
  <2>1. IsSizes([h \in 0 .. 0 |-> 1], 0)
    BY DEF IsSizes
  <2> QED
    BY <2>1
<1>2. ASSUME NEW n \in Nat, n \in N PROVE n + 1 \in N
  <2>1. PICK f : IsSizes(f, n)
    BY <1>2
  <2> DEFINE g == [h \in 0 .. n + 1 |-> IF h \in 0 .. n THEN f[h] ELSE 2 * f[n]]
  <2>2. ASSUME NEW h \in 0 .. n + 1, h # 0
        PROVE  g[h] = 2 * g[h - 1] /\ h - 1 \in 0 .. n
    <3>1. h - 1 \in 0 .. n /\ g[h - 1] = f[h - 1]
      BY <2>2
    <3>2. CASE h = n + 1
      BY <3>1, <3>2
    <3>3. CASE h # n + 1
      <4>1. h \in 0 .. n /\ g[h] = f[h]
        BY <3>3
      <4>2. f[h] = 2 * f[h - 1]
        BY <2>1, <2>2, <4>1 DEF IsSizes
      <4> QED
        BY <3>1, <4>1, <4>2
    <3> QED
      BY <3>2, <3>3
  <2>3. g[0] = 1
    BY <2>1 DEF IsSizes
  <2>4. g = [h \in 0 .. n + 1 |-> g[h]]
    OBVIOUS
  <2> HIDE DEF g
  <2>5. IsSizes(g, n + 1)
    BY <2>2, <2>3, <2>4 DEF IsSizes
  <2> QED
    BY <2>5
<1> HIDE DEF N
<1>3. m \in N
  BY <1>1, <1>2, NumberInduction
<1> QED
  BY <1>3 DEF N

LEMMA SizesDef ==
  ASSUME NEW n \in Nat
  PROVE  /\ Sizes(n)[0] = 1
         /\ \A h \in 1 .. n : Sizes(n)[h] = 2 * Sizes(n)[h - 1]
<1> DEFINE f == CHOOSE f : IsSizes(f, n)
<1>1. IsSizes(f, n)
  BY SizesExist
<1>2. Sizes(n) = f
  BY DEF Sizes, IsSizes
<1> HIDE DEF f
<1> QED
  BY <1>1, <1>2 DEF IsSizes

(* One level of the textbook tree, from the one below it.                  *)
LowestRow(s) == [i \in Nat |-> s[i + 1]]
RowAbove(s, g, row) ==
  [i \in Nat |->
     LET right == IF (2 * i + 1) * Sizes(Len(s))[g - 1] < Len(s)
                    THEN 2 * i + 1 ELSE 2 * i
     IN  Hash(row[2 * i], row[right])]

IsRows(f, s, n) ==
  f = [g \in 0 .. n |-> IF g = 0 THEN LowestRow(s) ELSE RowAbove(s, g, f[g - 1])]

LEMMA RowsExist ==
  ASSUME NEW s, NEW m \in Nat
  PROVE  \E f : IsRows(f, s, m)
<1> DEFINE N == {n \in Nat : \E f : IsRows(f, s, n)}
<1>1. 0 \in N
  <2>1. IsRows([h \in 0 .. 0 |-> LowestRow(s)], s, 0)
    BY DEF IsRows
  <2> QED
    BY <2>1
<1>2. ASSUME NEW n \in Nat, n \in N PROVE n + 1 \in N
  <2>1. PICK f : IsRows(f, s, n)
    BY <1>2
  <2> DEFINE g == [h \in 0 .. n + 1 |->
                     IF h \in 0 .. n THEN f[h] ELSE RowAbove(s, h, f[n])]
  <2>2. ASSUME NEW h \in 0 .. n + 1, h # 0
        PROVE  g[h] = RowAbove(s, h, g[h - 1]) /\ h - 1 \in 0 .. n
    <3>1. h - 1 \in 0 .. n /\ g[h - 1] = f[h - 1]
      BY <2>2
    <3>2. CASE h = n + 1
      BY <3>1, <3>2
    <3>3. CASE h # n + 1
      <4>1. h \in 0 .. n /\ g[h] = f[h]
        BY <3>3
      <4>2. f[h] = RowAbove(s, h, f[h - 1])
        BY <2>1, <2>2, <4>1 DEF IsRows
      <4> QED
        BY <3>1, <4>1, <4>2
    <3> QED
      BY <3>2, <3>3
  <2>3. g[0] = LowestRow(s)
    BY <2>1 DEF IsRows
  <2>4. g = [h \in 0 .. n + 1 |-> g[h]]
    OBVIOUS
  <2> HIDE DEF g
  <2>5. IsRows(g, s, n + 1)
    BY <2>2, <2>3, <2>4 DEF IsRows
  <2> QED
    BY <2>5
<1> HIDE DEF N
<1>3. m \in N
  BY <1>1, <1>2, NumberInduction
<1> QED
  BY <1>3 DEF N

LEMMA NodeDef ==
  ASSUME NEW s, NEW h \in Nat
  PROVE  \E f : IsRows(f, s, h) /\ \A k : Node(s, h, k) = f[h][k]
<1> DEFINE f == CHOOSE f : IsRows(f, s, h)
<1>1. IsRows(f, s, h)
  BY RowsExist
<1>2. \A k : Node(s, h, k) = f[h][k]
  BY DEF Node, IsRows, LowestRow, RowAbove
<1> QED
  BY <1>1, <1>2
-----------------------------------------------------------------------------
(* One level.                                                              *)
Second(t, i) == IF 2 * i <= Len(t) THEN t[2 * i] ELSE t[2 * i - 1]

LEMMA PaddedType ==
  ASSUME NEW S, NEW t \in Seq(S)
  PROVE  /\ Padded(t) \in Seq(S)
         /\ Len(Padded(t)) \div 2 = (Len(t) + 1) \div 2
         /\ Len(Padded(t)) = 2 * ((Len(t) + 1) \div 2)
         /\ \A i \in 1 .. Len(t) : Padded(t)[i] = t[i]
         /\ \A i \in 1 .. (Len(t) + 1) \div 2 : Padded(t)[2 * i] = Second(t, i)
<1> DEFINE n == Len(t)
<1>1. n \in Nat
  BY LenProperties
<1>2. CASE n % 2 = 1
  <2>1. t # <<>> /\ n \in 1 .. n /\ t[n] \in S
    BY <1>1, <1>2, EmptySeq
  <2>2. Padded(t) = Append(t, t[n])
    BY <1>2, <2>1 DEF Padded, Last
  <2>3. /\ Padded(t) \in Seq(S) /\ Len(Padded(t)) = n + 1
        /\ \A i \in 1 .. n : Padded(t)[i] = t[i]
        /\ Padded(t)[n + 1] = t[n]
    BY <2>1, <2>2, AppendProperties
  <2>4. n + 1 = 2 * ((n + 1) \div 2)
    BY <1>1, <1>2
  <2>5. ASSUME NEW i \in 1 .. (n + 1) \div 2 PROVE Padded(t)[2 * i] = Second(t, i)
    <3>1. 2 * i \in 1 .. n \/ (2 * i = n + 1 /\ 2 * i - 1 = n)
      BY <1>1, <2>4
    <3> QED
      BY <1>1, <2>3, <3>1 DEF Second
  <2> HIDE DEF n
  <2> QED
    BY <1>1, <2>3, <2>4, <2>5 DEF n
<1>3. CASE n % 2 # 1
  <2>1. Padded(t) = t
    BY <1>3 DEF Padded
  <2>2. n = 2 * ((n + 1) \div 2) /\ n \div 2 = (n + 1) \div 2
    BY <1>1, <1>3
  <2>3. \A i \in 1 .. (n + 1) \div 2 : 2 * i <= n
    BY <1>1, <2>2
  <2> QED
    BY <2>1, <2>2, <2>3 DEF Second
<1> QED
  BY <1>2, <1>3

LEMMA NextLevelType ==
  ASSUME NEW S, NEW t \in Seq(S)
  PROVE  /\ NextLevel(t) \in Seq(S \X S)
         /\ Len(NextLevel(t)) = (Len(t) + 1) \div 2
         /\ \A i \in 1 .. Len(NextLevel(t)) :
              /\ NextLevel(t)[i] = <<t[2 * i - 1], Second(t, i)>>
              /\ 2 * i - 1 \in 1 .. Len(t)
<1> DEFINE n == (Len(t) + 1) \div 2
<1> DEFINE p == Padded(t)
<1>1. n \in Nat /\ Len(t) \in Nat
  BY LenProperties
<1>2. /\ p \in Seq(S) /\ Len(p) = 2 * n
      /\ \A i \in 1 .. Len(t) : p[i] = t[i]
      /\ \A i \in 1 .. n : p[2 * i] = Second(t, i)
      /\ Len(p) \div 2 = n
  BY PaddedType
<1>3. NextLevel(t) = [i \in 1 .. n |-> <<p[2 * i - 1], p[2 * i]>>]
  BY <1>2 DEF NextLevel, Hash
<1>4. ASSUME NEW i \in 1 .. n
      PROVE  /\ 2 * i - 1 \in 1 .. Len(t)
             /\ p[2 * i - 1] = t[2 * i - 1] /\ p[2 * i] = Second(t, i)
             /\ p[2 * i - 1] \in S /\ p[2 * i] \in S
  <2>1. 2 * i - 1 \in 1 .. Len(t) /\ 2 * i - 1 \in 1 .. 2 * n /\ 2 * i \in 1 .. 2 * n
    BY <1>1
  <2> HIDE DEF p, n
  <2> QED
    BY <1>2, <2>1, ElementOfSeq
<1> HIDE DEF p, n
<1>5. NextLevel(t) \in [1 .. n -> S \X S]
  BY <1>3, <1>4
<1>6. NextLevel(t) \in Seq(S \X S) /\ Len(NextLevel(t)) = n
  BY <1>1, <1>5, SeqDef, LenProperties
<1>7. \A i \in 1 .. n : NextLevel(t)[i] = <<t[2 * i - 1], Second(t, i)>>
  BY <1>3, <1>4
<1> QED
  BY <1>4, <1>6, <1>7 DEF n

-----------------------------------------------------------------------------
(* The tree of a batch: its levels are sequences, each half as long as the *)
(* one before.                                                             *)
LEMMA LevelType ==
  ASSUME NEW S, NEW s \in Seq(S), NEW h \in 0 .. Len(s)
  PROVE  \E U : Levels(s)[h] \in Seq(U)
<1> DEFINE L == Levels(s)
<1> DEFINE N == {g \in Nat : g <= Len(s) => \E U : L[g] \in Seq(U)}
<1>1. Len(s) \in Nat
  BY LenProperties
<1>2. L[0] = s /\ \A g \in 1 .. Len(s) : L[g] = NextLevel(L[g - 1])
  BY <1>1, LevelsDef
<1> HIDE DEF L
<1>3. 0 \in N
  BY <1>2
<1>4. ASSUME NEW g \in Nat, g \in N PROVE g + 1 \in N
  <2> SUFFICES ASSUME g + 1 <= Len(s) PROVE \E U : L[g + 1] \in Seq(U)
    OBVIOUS
  <2>1. PICK U : L[g] \in Seq(U)
    BY <1>1, <1>4
  <2>2. L[g + 1] = NextLevel(L[g])
    BY <1>1, <1>2
  <2>3. L[g + 1] \in Seq(U \X U)
    BY <2>1, <2>2, NextLevelType
  <2> QED
    BY <2>3
<1>5. Nat \subseteq N
  <2> HIDE DEF N
  <2> QED
    BY <1>3, <1>4, NumberInduction
<1> QED
  BY <1>1, <1>5 DEF L

Breadth(s, h) == Len(Levels(s)[h])

LEMMA LevelBelow ==
  ASSUME NEW S, NEW s \in Seq(S), NEW h \in 1 .. Len(s)
  PROVE  /\ Breadth(s, h) \in Nat /\ Breadth(s, h - 1) \in Nat
         /\ Breadth(s, h) = (Breadth(s, h - 1) + 1) \div 2
         /\ DOMAIN Levels(s)[h] = 1 .. Breadth(s, h)
         /\ DOMAIN Levels(s)[h - 1] = 1 .. Breadth(s, h - 1)
         /\ \A i \in 1 .. Breadth(s, h) :
              /\ Levels(s)[h][i]
                   = <<Levels(s)[h - 1][2 * i - 1], Second(Levels(s)[h - 1], i)>>
              /\ 2 * i - 1 \in 1 .. Breadth(s, h - 1)
<1> DEFINE t == Levels(s)[h - 1]
<1>1. Len(s) \in Nat
  BY LenProperties
<1>2. h - 1 \in 0 .. Len(s) /\ h \in 0 .. Len(s)
  BY <1>1
<1>3. Levels(s)[h] = NextLevel(t)
  BY <1>1, LevelsDef
<1>4. PICK U : t \in Seq(U)
  BY <1>2, LevelType
<1>5. PICK V : Levels(s)[h] \in Seq(V)
  BY <1>2, LevelType
<1>6. Len(t) \in Nat /\ DOMAIN t = 1 .. Len(t)
  BY <1>4, LenProperties
<1>7. /\ Len(Levels(s)[h]) \in Nat
      /\ DOMAIN Levels(s)[h] = 1 .. Len(Levels(s)[h])
  BY <1>5, LenProperties
<1>8. /\ Len(NextLevel(t)) = (Len(t) + 1) \div 2
      /\ \A i \in 1 .. Len(NextLevel(t)) :
           /\ NextLevel(t)[i] = <<t[2 * i - 1], Second(t, i)>>
           /\ 2 * i - 1 \in 1 .. Len(t)
  BY <1>4, NextLevelType
<1> QED
  BY <1>3, <1>6, <1>7, <1>8 DEF Breadth

LEMMA LowestLevel ==
  ASSUME NEW S, NEW s \in Seq(S)
  PROVE  Levels(s)[0] = s /\ Breadth(s, 0) = Len(s) /\ Len(s) \in Nat
BY LenProperties, LevelsDef DEF Breadth

LEMMA BreadthShrinks ==
  ASSUME NEW S, NEW s \in Seq(S), NEW h \in 0 .. Len(s)
  PROVE  /\ Breadth(s, h) \in Nat
         /\ Breadth(s, h) <= 1 \/ Breadth(s, h) <= Len(s) - h
         /\ s # <<>> => Breadth(s, h) >= 1
<1> DEFINE Small(g) ==
      /\ Breadth(s, g) \in Nat
      /\ Breadth(s, g) <= 1 \/ Breadth(s, g) <= Len(s) - g
      /\ s # <<>> => Breadth(s, g) >= 1
<1> DEFINE N == {g \in Nat : g <= Len(s) => Small(g)}
<1>1. Len(s) \in Nat /\ Breadth(s, 0) = Len(s)
  BY LowestLevel
<1>2. 0 \in N
  BY <1>1, EmptySeq
<1>3. ASSUME NEW g \in Nat, g \in N PROVE g + 1 \in N
  <2> SUFFICES ASSUME g + 1 <= Len(s) PROVE Small(g + 1)
    OBVIOUS
  <2>1. Small(g)
    BY <1>1, <1>3
  <2>2. g + 1 \in 1 .. Len(s) /\ (g + 1) - 1 = g
    BY <1>1
  <2>3. Breadth(s, g + 1) = (Breadth(s, g) + 1) \div 2
    BY <2>2, LevelBelow
  <2>4. \A a, b \in Nat : b = (a + 1) \div 2 => (a >= 1 => b >= 1) /\ (a <= 1 => b <= 1)
                                       /\ (a >= 2 => b <= a - 1)
    OBVIOUS
  <2>5. Breadth(s, g + 1) \in Nat
    BY <2>1, <2>3
  <2> QED
    BY <1>1, <2>1, <2>3, <2>4, <2>5
<1>4. Nat \subseteq N
  <2> HIDE DEF N
  <2> QED
    BY <1>2, <1>3, NumberInduction
<1>5. h \in Nat /\ h <= Len(s)
  BY <1>1
<1> HIDE DEF Small
<1>6. Small(h)
  BY <1>4, <1>5
<1> QED
  BY <1>6 DEF Small

(* The loops of merkle.rs end, at a level that has one node.               *)
LEMMA HeightType ==
  ASSUME NEW S, NEW s \in Seq(S)
  PROVE  /\ Height(s) \in 0 .. Len(s)
         /\ Breadth(s, Height(s)) <= 1
         /\ \A g \in 0 .. Height(s) - 1 : Breadth(s, g) > 1
         /\ s # <<>> => Breadth(s, Height(s)) = 1
<1> DEFINE n == Len(s)
<1> DEFINE IsHeight(h) ==
      Breadth(s, h) <= 1 /\ \A g \in 0 .. h - 1 : Breadth(s, g) > 1
<1>1. n \in Nat
  BY LenProperties
<1>2. \A h \in 0 .. n : Breadth(s, h) \in Nat /\ (s # <<>> => Breadth(s, h) >= 1)
  BY BreadthShrinks
<1>3. n \in 0 .. n /\ Breadth(s, n) <= 1
  <2>1. n \in 0 .. n
    BY <1>1
  <2>2. Breadth(s, n) <= 1 \/ Breadth(s, n) <= n - n
    BY <2>1, BreadthShrinks
  <2> QED
    BY <1>1, <1>2, <2>1, <2>2
<1>4. \E h \in 0 .. n : IsHeight(h)
  <2> SUFFICES ASSUME \A h \in 0 .. n : ~IsHeight(h) PROVE FALSE
    OBVIOUS
  <2> DEFINE N == {h \in Nat : \A g \in 0 .. h : g <= n => Breadth(s, g) > 1}
  <2>1. 0 \in N
    BY <1>1, <1>2
  <2>2. ASSUME NEW h \in Nat, h \in N PROVE h + 1 \in N
    <3>1. CASE h + 1 > n
      BY <1>1, <2>2, <3>1
    <3>2. CASE h + 1 <= n
      <4>1. h + 1 \in 0 .. n /\ \A g \in 0 .. (h + 1) - 1 : Breadth(s, g) > 1
        BY <1>1, <2>2, <3>2
      <4>2. Breadth(s, h + 1) > 1
        BY <1>2, <4>1
      <4> QED
        BY <1>1, <2>2, <4>2
    <3> QED
      BY <1>1, <3>1, <3>2
  <2>3. Nat \subseteq N
    <3> HIDE DEF N
    <3> QED
      BY <2>1, <2>2, NumberInduction
  <2>4. Breadth(s, n) > 1
    BY <1>1, <2>3
  <2> QED
    BY <1>2, <1>3, <2>4
<1>5. Height(s) = CHOOSE h \in 0 .. n : IsHeight(h)
  BY DEF Height, Breadth
<1>6. Height(s) \in 0 .. n /\ IsHeight(Height(s))
  BY <1>4, <1>5
<1> QED
  BY <1>2, <1>6

(* The root is the one node of the highest level. *)
LEMMA RootIsHighest ==
  ASSUME NEW S, NEW s \in Seq(S), s # <<>>
  PROVE  /\ compute_merkle_root(s) = Levels(s)[Height(s)][1]
         /\ DOMAIN Levels(s)[Height(s)] = {1}
         /\ ToSet(Levels(s)[Height(s)]) = {compute_merkle_root(s)}
<1> DEFINE h == Height(s)
<1>1. h \in 0 .. Len(s) /\ Breadth(s, h) = 1
  BY HeightType
<1>2. PICK U : Levels(s)[h] \in Seq(U)
  BY <1>1, LevelType
<1>3. DOMAIN Levels(s)[h] = {1}
  BY <1>1, <1>2, LenProperties DEF Breadth
<1>4. compute_merkle_root(s) = Levels(s)[h][1]
  BY DEF compute_merkle_root
<1> QED
  BY <1>3, <1>4 DEF ToSet
-----------------------------------------------------------------------------
(* verify_merkle_proof goes through a proof from left to right.            *)
FoldStep(f, start, proof, T) ==
  IF T = {} THEN start ELSE VerifyStep(f[T \ {Max(T)}], proof[Max(T)])

IsFold(f, start, proof, n) ==
  f = [T \in SUBSET (1 .. n) |-> FoldStep(f, start, proof, T)]

LEMMA MaxOfNumbers ==
  ASSUME NEW n \in Nat, NEW T \in SUBSET (1 .. n + 1), n + 1 \in T
  PROVE  Max(T) = n + 1
<1>1. \A y \in T : n + 1 >= y
  OBVIOUS
<1>2. \A x \in T : (\A y \in T : x >= y) => x = n + 1
  OBVIOUS
<1> QED
  BY <1>1, <1>2 DEF Max

LEMMA FoldExists ==
  ASSUME NEW start, NEW proof, NEW m \in Nat
  PROVE  \E f : IsFold(f, start, proof, m)
<1> DEFINE N == {n \in Nat : \E f : IsFold(f, start, proof, n)}
<1>1. 0 \in N
  <2> DEFINE f == [T \in SUBSET (1 .. 0) |-> start]
  <2>1. \A T \in SUBSET (1 .. 0) : T = {}
    OBVIOUS
  <2>2. \A T \in SUBSET (1 .. 0) : start = FoldStep(f, start, proof, T)
    BY <2>1 DEF FoldStep
  <2>3. f = [T \in SUBSET (1 .. 0) |-> FoldStep(f, start, proof, T)]
    BY <2>2
  <2> HIDE DEF f
  <2>4. IsFold(f, start, proof, 0)
    BY <2>3 DEF IsFold
  <2> QED
    BY <2>4
<1>2. ASSUME NEW n \in Nat, n \in N PROVE n + 1 \in N
  <2>1. PICK f : IsFold(f, start, proof, n)
    BY <1>2
  <2> DEFINE g == [T \in SUBSET (1 .. n + 1) |->
                     IF T \subseteq 1 .. n THEN f[T] ELSE FoldStep(f, start, proof, T)]
  <2>2. ASSUME NEW T \in SUBSET (1 .. n + 1)
        PROVE  g[T] = FoldStep(g, start, proof, T)
    <3>1. g[T] = FoldStep(f, start, proof, T)
      BY <2>1 DEF IsFold
    <3>2. T \ {Max(T)} \subseteq 1 .. n
      <4>1. CASE T \subseteq 1 .. n
        BY <4>1
      <4>2. CASE ~(T \subseteq 1 .. n)
        <5>1. n + 1 \in T
          BY <4>2
        <5>2. Max(T) = n + 1
          BY <5>1, MaxOfNumbers
        <5> QED
          BY <5>2
      <4> QED
        BY <4>1, <4>2
    <3>3. g[T \ {Max(T)}] = f[T \ {Max(T)}]
      BY <3>2
    <3> HIDE DEF g
    <3> QED
      BY <3>1, <3>3 DEF FoldStep
  <2>3. g = [T \in SUBSET (1 .. n + 1) |-> g[T]]
    OBVIOUS
  <2> HIDE DEF g
  <2>4. IsFold(g, start, proof, n + 1)
    BY <2>2, <2>3 DEF IsFold
  <2> QED
    BY <2>4
<1> HIDE DEF N
<1>3. m \in N
  BY <1>1, <1>2, NumberInduction
<1> QED
  BY <1>3 DEF N

(* The nodes and indices that it passes.                                   *)
Passes(f, start, proof, n) ==
  /\ f[0] = start
  /\ \A k \in 1 .. n : f[k] = VerifyStep(f[k - 1], proof[k])

LEMMA FoldPasses ==
  ASSUME NEW start, NEW n \in Nat, NEW proof, DOMAIN proof = 1 .. n
  PROVE  \E f : /\ Passes(f, start, proof, n)
                /\ FoldLeft(VerifyStep, start, proof) = f[n]
<1> DEFINE F == CHOOSE f : IsFold(f, start, proof, n)
<1>1. IsFold(F, start, proof, n)
  BY FoldExists
<1>2. FoldLeft(VerifyStep, start, proof) = F[1 .. n]
  BY DEF FoldLeft, MapThenFoldSet, IsFold, FoldStep
<1> HIDE DEF F
<1> DEFINE f == [k \in 0 .. n |-> F[1 .. k]]
<1>3. f[0] = start
  <2>1. 1 .. 0 = {} /\ f[0] = F[1 .. 0] /\ 1 .. 0 \in SUBSET (1 .. n)
    OBVIOUS
  <2> QED
    BY <1>1, <2>1 DEF IsFold, FoldStep
<1>4. ASSUME NEW k \in 1 .. n PROVE f[k] = VerifyStep(f[k - 1], proof[k])
  <2>1. 1 .. k \in SUBSET (1 .. n) /\ k \in 1 .. k
    OBVIOUS
  <2>2. Max(1 .. k) = k
    <3>1. k - 1 \in Nat /\ 1 .. k \in SUBSET (1 .. (k - 1) + 1) /\ k = (k - 1) + 1
          /\ k \in 1 .. k
      OBVIOUS
    <3> QED
      BY <3>1, MaxOfNumbers
  <2>3. (1 .. k) \ {k} = 1 .. k - 1
    OBVIOUS
  <2>4. F[1 .. k] = VerifyStep(F[1 .. k - 1], proof[k])
    BY <1>1, <2>1, <2>2, <2>3 DEF IsFold, FoldStep
  <2>5. f[k] = F[1 .. k] /\ f[k - 1] = F[1 .. k - 1]
    OBVIOUS
  <2> QED
    BY <2>4, <2>5
<1>5. f[n] = F[1 .. n]
  OBVIOUS
<1> HIDE DEF f
<1> QED
  BY <1>2, <1>3, <1>4, <1>5 DEF Passes
-----------------------------------------------------------------------------
(* Proofs.                                                                 *)

(* Where a proof is: at every level, below the event's ancestors.          *)
LEMMA PositionsType ==
  ASSUME NEW S, NEW s \in Seq(S), NEW i \in 0 .. Len(s) - 1, NEW h \in 0 .. Len(s)
  PROVE  Positions(s, i)[h] \in 0 .. Breadth(s, h) - 1
<1> DEFINE P == Positions(s, i)
<1> DEFINE N == {g \in Nat : g <= Len(s) => P[g] \in 0 .. Breadth(s, g) - 1}
<1>1. Len(s) \in Nat /\ Breadth(s, 0) = Len(s)
  BY LowestLevel
<1>2. P[0] = i /\ \A g \in 1 .. Len(s) : P[g] = P[g - 1] \div 2
  BY <1>1, PositionsDef
<1> HIDE DEF P
<1>3. 0 \in N
  BY <1>1, <1>2
<1>4. ASSUME NEW g \in Nat, g \in N PROVE g + 1 \in N
  <2> SUFFICES ASSUME g + 1 <= Len(s) PROVE P[g + 1] \in 0 .. Breadth(s, g + 1) - 1
    OBVIOUS
  <2>1. P[g] \in 0 .. Breadth(s, g) - 1
    BY <1>1, <1>4
  <2>2. g + 1 \in 1 .. Len(s) /\ (g + 1) - 1 = g
    BY <1>1
  <2>3. /\ Breadth(s, g + 1) = (Breadth(s, g) + 1) \div 2
        /\ Breadth(s, g) \in Nat
    BY <2>2, LevelBelow
  <2>4. P[g + 1] = P[g] \div 2
    BY <1>2, <2>2
  <2> QED
    BY <2>1, <2>3, <2>4
<1>5. Nat \subseteq N
  <2> HIDE DEF N
  <2> QED
    BY <1>3, <1>4, NumberInduction
<1> QED
  BY <1>1, <1>5 DEF P

(* A node at position p and its sibling, in the order that the parity of   *)
(* p says, make up the node above.                                         *)
LEMMA ParentOfPair ==
  ASSUME NEW S, NEW t \in Seq(S), NEW p \in 0 .. Len(t) - 1
  PROVE  /\ p \div 2 + 1 \in 1 .. Len(NextLevel(t))
         /\ NextLevel(t)[p \div 2 + 1] =
              IF p % 2 = 0 THEN <<t[p + 1], Sibling(t, p)>>
              ELSE <<Sibling(t, p), t[p + 1]>>
<1> DEFINE n == Len(t)
<1> DEFINE k == p \div 2 + 1
<1>1. n \in Nat /\ p \in Nat /\ p <= n - 1
  BY LenProperties
<1>2. k \in 1 .. (n + 1) \div 2 /\ k \in 1 .. Len(NextLevel(t))
  <2>1. k \in 1 .. (n + 1) \div 2
    BY <1>1
  <2>2. Len(NextLevel(t)) = (n + 1) \div 2
    BY NextLevelType
  <2> QED
    BY <2>1, <2>2
<1>3. NextLevel(t)[k] = <<t[2 * k - 1], Second(t, k)>>
  BY <1>2, NextLevelType
<1>4. /\ Padded(t)[2 * k] = Second(t, k)
      /\ \A j \in 1 .. n : Padded(t)[j] = t[j]
  BY <1>2, PaddedType
<1>5. CASE p % 2 = 0
  <2>1. 2 * k - 1 = p + 1 /\ 2 * k = p + 2
    BY <1>1, <1>5
  <2> QED
    BY <1>2, <1>3, <1>4, <1>5, <2>1 DEF Sibling
<1>6. CASE p % 2 # 0
  <2>1. 2 * k - 1 = p /\ 2 * k = p + 1 /\ p \in 1 .. n
    BY <1>1, <1>6
  <2>2. Second(t, k) = t[p + 1]
    BY <1>1, <2>1 DEF Second
  <2> QED
    BY <1>2, <1>3, <1>4, <1>6, <2>1, <2>2 DEF Sibling
<1> QED
  BY <1>5, <1>6
(* One turn of the loop of verify_merkle_proof. *)
LEMMA VerifyPair ==
  ASSUME NEW node, NEW sibling
  PROVE  /\ VerifyStep(node, sibling).index = node.index \div 2
         /\ VerifyStep(node, sibling).hash =
              IF node.index % 2 = 0 THEN <<node.hash, sibling>>
              ELSE <<sibling, node.hash>>
BY DEF VerifyStep, Hash

(* The positions of a verification are those of the proof, whatever hashes *)
(* it meets.                                                               *)
LEMMA PassesPositions ==
  ASSUME NEW S, NEW s \in Seq(S), NEW i \in 0 .. Len(s) - 1, NEW x,
         NEW d \in 0 .. Len(s), NEW proof, NEW f,
         Passes(f, [hash |-> x, index |-> i], proof, d), NEW k \in 0 .. d
  PROVE  f[k].index = Positions(s, i)[k]
<1> DEFINE P == Positions(s, i)
<1> DEFINE N == {g \in Nat : g <= d => f[g].index = P[g]}
<1>1. Len(s) \in Nat
  BY LenProperties
<1>2. P[0] = i /\ \A g \in 1 .. Len(s) : P[g] = P[g - 1] \div 2
  BY <1>1, PositionsDef
<1> HIDE DEF P
<1>3. 0 \in N
  BY <1>2 DEF Passes
<1>4. ASSUME NEW g \in Nat, g \in N PROVE g + 1 \in N
  <2> SUFFICES ASSUME g + 1 <= d PROVE f[g + 1].index = P[g + 1]
    OBVIOUS
  <2>1. g + 1 \in 1 .. d /\ g + 1 \in 1 .. Len(s) /\ (g + 1) - 1 = g
    BY <1>1
  <2>2. f[g + 1] = VerifyStep(f[g], proof[g + 1])
    BY <2>1 DEF Passes
  <2>3. f[g + 1].index = f[g].index \div 2
    BY <2>2, VerifyPair
  <2>4. f[g].index = P[g]
    BY <1>1, <1>4
  <2> QED
    BY <1>2, <2>1, <2>3, <2>4
<1>5. Nat \subseteq N
  <2> HIDE DEF N
  <2> QED
    BY <1>3, <1>4, NumberInduction
<1> QED
  BY <1>5 DEF P

(* A verification that begins at the event itself and is given the right   *)
(* siblings passes the ancestors of the event, up to the root.             *)
LEMMA GeneratedVerifies ==
  ASSUME NEW S, NEW s \in Seq(S), NEW i \in 0 .. Len(s) - 1
  PROVE  verify_merkle_proof(s[i + 1], generate_merkle_proof(s, i),
                             compute_merkle_root(s), i)
<1> DEFINE H == Height(s)
<1> DEFINE L == Levels(s)
<1> DEFINE P == Positions(s, i)
<1> DEFINE start == [hash |-> s[i + 1], index |-> i]
<1> DEFINE proof == generate_merkle_proof(s, i)
<1>1. Len(s) \in Nat /\ s # <<>> /\ L[0] = s
  BY LowestLevel
<1>2. H \in 0 .. Len(s) /\ H \in Nat /\ Breadth(s, H) = 1
  BY <1>1, HeightType
<1>3. DOMAIN proof = 1 .. H /\ \A h \in 1 .. H : proof[h] = Sibling(L[h - 1], P[h - 1])
  BY DEF generate_merkle_proof
<1>4. PICK f : Passes(f, start, proof, H) /\ FoldLeft(VerifyStep, start, proof) = f[H]
  BY <1>2, <1>3, FoldPasses
<1>5. \A g \in 0 .. H : f[g].index = P[g]
  BY <1>1, <1>2, <1>4, PassesPositions
<1> DEFINE N == {g \in Nat : g <= H => f[g].hash = L[g][P[g] + 1]}
<1>6. 0 \in N
  <2>1. P[0] = i
    BY <1>1, PositionsDef
  <2>2. f[0].hash = s[i + 1]
    BY <1>4 DEF Passes
  <2> HIDE DEF L, P, H
  <2> QED
    BY <1>1, <2>1, <2>2
<1>7. ASSUME NEW g \in Nat, g \in N PROVE g + 1 \in N
  <2> SUFFICES ASSUME g + 1 <= H PROVE f[g + 1].hash = L[g + 1][P[g + 1] + 1]
    OBVIOUS
  <2>1. g + 1 \in 1 .. H /\ g + 1 \in 1 .. Len(s) /\ (g + 1) - 1 = g /\ g \in 0 .. Len(s)
        /\ g \in 0 .. H
    BY <1>1, <1>2
  <2>2. f[g].hash = L[g][P[g] + 1] /\ f[g].index = P[g]
    BY <1>5, <1>7, <2>1
  <2>3. f[g + 1] = VerifyStep(f[g], Sibling(L[g], P[g]))
    BY <1>3, <1>4, <2>1 DEF Passes
  <2>4. L[g + 1] = NextLevel(L[g]) /\ P[g + 1] = P[g] \div 2
    BY <1>1, <2>1, LevelsDef, PositionsDef
  <2>5. PICK U : L[g] \in Seq(U)
    BY <2>1, LevelType
  <2>6. P[g] \in 0 .. Len(L[g]) - 1
    BY <2>1, PositionsType DEF Breadth
  <2> HIDE DEF L, P, H
  <2>7. NextLevel(L[g])[P[g] \div 2 + 1] =
          IF P[g] % 2 = 0 THEN <<L[g][P[g] + 1], Sibling(L[g], P[g])>>
          ELSE <<Sibling(L[g], P[g]), L[g][P[g] + 1]>>
    BY <2>5, <2>6, ParentOfPair
  <2>8. f[g + 1].hash =
          IF f[g].index % 2 = 0 THEN <<f[g].hash, Sibling(L[g], P[g])>>
          ELSE <<Sibling(L[g], P[g]), f[g].hash>>
    BY <2>3, VerifyPair
  <2> QED
    BY <2>2, <2>4, <2>7, <2>8
<1>8. f[H].hash = L[H][P[H] + 1]
  <2>1. Nat \subseteq N
    <3> HIDE DEF N
    <3> QED
      BY <1>6, <1>7, NumberInduction
  <2> HIDE DEF H
  <2> QED
    BY <1>2, <2>1
<1>9. P[H] = 0
  <2>1. P[H] \in 0 .. Breadth(s, H) - 1
    BY <1>2, PositionsType
  <2> HIDE DEF P, H
  <2> QED
    BY <1>2, <2>1
<1>10. compute_merkle_root(s) = L[H][1]
  BY <1>1, RootIsHighest
<1> HIDE DEF H, L, P
<1>11. f[H].hash = L[H][1]
  BY <1>8, <1>9
<1> QED
  BY <1>4, <1>10, <1>11 DEF verify_merkle_proof
-----------------------------------------------------------------------------
(* What a pair that is a node says of the level below.                     *)
LEMMA PairBelow ==
  ASSUME NEW S, NEW t \in Seq(S), NEW a, NEW b, <<a, b>> \in ToSet(NextLevel(t))
  PROVE  a \in ToSet(t) /\ b \in ToSet(t)
<1>1. Len(t) \in Nat /\ DOMAIN t = 1 .. Len(t)
  BY LenProperties
<1>2. PICK i \in DOMAIN NextLevel(t) : NextLevel(t)[i] = <<a, b>>
  BY DEF ToSet
<1>3. DOMAIN NextLevel(t) = 1 .. Len(NextLevel(t)) /\ Len(NextLevel(t)) \in Nat
  BY NextLevelType, LenProperties
<1>4. /\ <<a, b>> = <<t[2 * i - 1], Second(t, i)>> /\ 2 * i - 1 \in 1 .. Len(t)
  BY <1>2, <1>3, NextLevelType
<1>5. a = t[2 * i - 1] /\ b = Second(t, i)
  BY <1>4
<1>6. 2 * i <= Len(t) => 2 * i \in 1 .. Len(t)
  BY <1>1, <1>4, <1>2, <1>3
<1> QED
  BY <1>1, <1>4, <1>5, <1>6 DEF ToSet, Second

LEMMA NodesArePairs ==
  ASSUME NEW S, NEW t \in Seq(S), NEW x \in ToSet(NextLevel(t))
  PROVE  \E a \in ToSet(t), b \in ToSet(t) : x = Hash(a, b)
<1>1. PICK i \in DOMAIN NextLevel(t) : NextLevel(t)[i] = x
  BY DEF ToSet
<1>2. DOMAIN NextLevel(t) = 1 .. Len(NextLevel(t))
  BY NextLevelType, LenProperties
<1>3. x = <<t[2 * i - 1], Second(t, i)>>
  BY <1>1, <1>2, NextLevelType
<1> QED
  BY <1>3, PairBelow DEF Hash
(* Nothing that is a content hash is the hash of two nodes.                *)
NoLeafIsANode == \A l, r : Hash(l, r) \notin ContentHashes

(* A proof of the full length for another event misses the event's         *)
(* ancestors at every level, the root included.                            *)
LEMMA FullLengthMisses ==
  ASSUME NEW S, NEW s \in Seq(S), NEW i \in 0 .. Len(s) - 1, NEW x, x # s[i + 1],
         NEW proof, NEW f,
         Passes(f, [hash |-> x, index |-> i], proof, Height(s))
  PROVE  f[Height(s)].hash # compute_merkle_root(s)
<1> DEFINE H == Height(s)
<1> DEFINE L == Levels(s)
<1> DEFINE P == Positions(s, i)
<1>1. Len(s) \in Nat /\ s # <<>> /\ L[0] = s
  BY LowestLevel
<1>2. H \in 0 .. Len(s) /\ H \in Nat /\ Breadth(s, H) = 1
  BY <1>1, HeightType
<1>3. \A g \in 0 .. H : f[g].index = P[g]
  BY <1>1, <1>2, PassesPositions
<1> DEFINE N == {g \in Nat : g <= H => f[g].hash # L[g][P[g] + 1]}
<1>4. 0 \in N
  <2>1. P[0] = i
    BY <1>1, PositionsDef
  <2>2. f[0].hash = x
    BY DEF Passes
  <2> HIDE DEF L, P, H
  <2> QED
    BY <1>1, <2>1, <2>2
<1>5. ASSUME NEW g \in Nat, g \in N PROVE g + 1 \in N
  <2> SUFFICES ASSUME g + 1 <= H PROVE f[g + 1].hash # L[g + 1][P[g + 1] + 1]
    OBVIOUS
  <2>1. g + 1 \in 1 .. H /\ g + 1 \in 1 .. Len(s) /\ (g + 1) - 1 = g /\ g \in 0 .. Len(s)
        /\ g \in 0 .. H
    BY <1>1, <1>2
  <2>2. f[g].hash # L[g][P[g] + 1] /\ f[g].index = P[g]
    BY <1>3, <1>5, <2>1
  <2>3. f[g + 1] = VerifyStep(f[g], proof[g + 1])
    BY <2>1 DEF Passes
  <2>4. L[g + 1] = NextLevel(L[g]) /\ P[g + 1] = P[g] \div 2
    BY <1>1, <2>1, LevelsDef, PositionsDef
  <2>5. PICK U : L[g] \in Seq(U)
    BY <2>1, LevelType
  <2>6. P[g] \in 0 .. Len(L[g]) - 1
    BY <2>1, PositionsType DEF Breadth
  <2> HIDE DEF L, P, H
  <2>7. NextLevel(L[g])[P[g] \div 2 + 1] =
          IF P[g] % 2 = 0 THEN <<L[g][P[g] + 1], Sibling(L[g], P[g])>>
          ELSE <<Sibling(L[g], P[g]), L[g][P[g] + 1]>>
    BY <2>5, <2>6, ParentOfPair
  <2>8. f[g + 1].hash =
          IF f[g].index % 2 = 0 THEN <<f[g].hash, proof[g + 1]>>
          ELSE <<proof[g + 1], f[g].hash>>
    BY <2>3, VerifyPair
  <2> QED
    BY <2>2, <2>4, <2>7, <2>8
<1>6. f[H].hash # L[H][P[H] + 1]
  <2>1. Nat \subseteq N
    <3> HIDE DEF N
    <3> QED
      BY <1>4, <1>5, NumberInduction
  <2> HIDE DEF H
  <2> QED
    BY <1>2, <2>1
<1>7. P[H] = 0
  <2>1. P[H] \in 0 .. Breadth(s, H) - 1
    BY <1>2, PositionsType
  <2> HIDE DEF P, H
  <2> QED
    BY <1>2, <2>1
<1>8. compute_merkle_root(s) = L[H][1]
  BY <1>1, RootIsHighest
<1> HIDE DEF H, L, P
<1>9. f[H].hash # L[H][1]
  BY <1>6, <1>7
<1> QED
  BY <1>8, <1>9 DEF H

(* A shorter one, for a hash that is not a pair, meets no node at all.     *)
LEMMA ShorterMisses ==
  ASSUME NEW S, NEW s \in Seq(S), s # <<>>, NEW x, \A l, r : x # Hash(l, r),
         NEW d \in 0 .. Height(s) - 1, NEW start, start.hash = x,
         NEW proof, NEW f, Passes(f, start, proof, d)
  PROVE  f[d].hash # compute_merkle_root(s)
<1> DEFINE H == Height(s)
<1> DEFINE L == Levels(s)
<1> DEFINE b == H - d
<1>1. Len(s) \in Nat /\ H \in 0 .. Len(s)
  BY LowestLevel, HeightType
<1>2. b \in 1 .. Len(s) /\ H = b + d /\ d \in Nat
  BY <1>1
<1>3. \A h \in 1 .. Len(s) : L[h] = NextLevel(L[h - 1])
  BY <1>1, LevelsDef
<1> DEFINE N == {g \in Nat : g <= d => f[g].hash \notin ToSet(L[b + g])}
<1>4. 0 \in N
  <2>1. f[0].hash = x
    BY DEF Passes
  <2>2. b - 1 \in 0 .. Len(s) /\ b + 0 = b
    BY <1>1, <1>2
  <2>3. PICK U : L[b - 1] \in Seq(U)
    BY <2>2, LevelType
  <2>4. L[b] = NextLevel(L[b - 1])
    BY <1>2, <1>3
  <2> HIDE DEF L, b
  <2>5. f[0].hash \notin ToSet(L[b])
    BY <2>1, <2>3, <2>4, NodesArePairs
  <2> QED
    BY <2>2, <2>5
<1>5. ASSUME NEW g \in Nat, g \in N PROVE g + 1 \in N
  <2> SUFFICES ASSUME g + 1 <= d PROVE f[g + 1].hash \notin ToSet(L[b + (g + 1)])
    OBVIOUS
  <2>1. /\ g + 1 \in 1 .. d /\ (g + 1) - 1 = g
        /\ b + (g + 1) \in 1 .. Len(s) /\ (b + (g + 1)) - 1 = b + g
        /\ b + g \in 0 .. Len(s)
    BY <1>1, <1>2
  <2>2. f[g].hash \notin ToSet(L[b + g])
    BY <1>5, <2>1
  <2>3. f[g + 1] = VerifyStep(f[g], proof[g + 1])
    BY <2>1 DEF Passes
  <2>4. L[b + (g + 1)] = NextLevel(L[b + g])
    BY <1>3, <2>1
  <2>5. PICK U : L[b + g] \in Seq(U)
    BY <2>1, LevelType
  <2>6. \/ f[g + 1].hash = <<f[g].hash, proof[g + 1]>>
        \/ f[g + 1].hash = <<proof[g + 1], f[g].hash>>
    BY <2>3, VerifyPair
  <2> HIDE DEF L, b
  <2> QED
    BY <2>2, <2>4, <2>5, <2>6, PairBelow
<1>6. f[d].hash \notin ToSet(L[H])
  <2>1. Nat \subseteq N
    <3> HIDE DEF N
    <3> QED
      BY <1>4, <1>5, NumberInduction
  <2> HIDE DEF H, L, b
  <2> QED
    BY <1>2, <2>1
<1> QED
  BY <1>6, RootIsHighest

LEMMA OnlyTheEvent ==
  ASSUME NEW S, NEW s \in Seq(S), NEW i \in 0 .. Len(s) - 1,
         NEW x, \A l, r : x # Hash(l, r), x # s[i + 1],
         NEW d \in 0 .. Height(s), NEW proof, DOMAIN proof = 1 .. d
  PROVE  ~verify_merkle_proof(x, proof, compute_merkle_root(s), i)
<1> DEFINE start == [hash |-> x, index |-> i]
<1>1. s # <<>> /\ Height(s) \in Nat
  BY LowestLevel, HeightType
<1>2. d \in Nat /\ (d = Height(s) \/ d \in 0 .. Height(s) - 1)
  BY <1>1
<1>3. PICK f : Passes(f, start, proof, d) /\ FoldLeft(VerifyStep, start, proof) = f[d]
  BY <1>2, FoldPasses
<1>4. start.hash = x
  OBVIOUS
<1>5. f[d].hash # compute_merkle_root(s)
  BY <1>1, <1>2, <1>3, <1>4, FullLengthMisses, ShorterMisses
<1> QED
  BY <1>3, <1>5 DEF verify_merkle_proof
-----------------------------------------------------------------------------
(* Two batches with one root.                                              *)

(* What two levels have in common that are under equal levels.             *)
Alike(s, t) ==
  /\ ToSet(s) = ToSet(t)
  /\ \A i \in 1 .. Len(s) : i <= Len(t) => s[i] = t[i]

LEMMA LeavesBelow ==
  ASSUME NEW S, NEW s \in Seq(S), NEW T, NEW t \in Seq(T),
         ToSet(NextLevel(s)) \subseteq ToSet(NextLevel(t))
  PROVE  ToSet(s) \subseteq ToSet(t)
<1> SUFFICES ASSUME NEW x \in ToSet(s) PROVE x \in ToSet(t)
  OBVIOUS
<1>1. Len(s) \in Nat /\ DOMAIN s = 1 .. Len(s)
  BY LenProperties
<1>2. PICK i \in 1 .. Len(s) : s[i] = x
  BY <1>1 DEF ToSet
<1> DEFINE k == (i + 1) \div 2
<1>3. k \in 1 .. (Len(s) + 1) \div 2 /\ (i = 2 * k - 1 \/ (i = 2 * k /\ 2 * k <= Len(s)))
  BY <1>1
<1> HIDE DEF k
<1>4. Len(NextLevel(s)) = (Len(s) + 1) \div 2 /\ DOMAIN NextLevel(s) = 1 .. Len(NextLevel(s))
  BY NextLevelType, LenProperties
<1>5. NextLevel(s)[k] = <<s[2 * k - 1], Second(s, k)>>
  BY <1>3, <1>4, NextLevelType
<1>6. NextLevel(s)[k] \in ToSet(NextLevel(t))
  BY <1>3, <1>4 DEF ToSet
<1>7. s[2 * k - 1] \in ToSet(t) /\ Second(s, k) \in ToSet(t)
  BY <1>5, <1>6, PairBelow
<1> QED
  BY <1>2, <1>3, <1>7 DEF Second

LEMMA AlikeBelow ==
  ASSUME NEW S, NEW s \in Seq(S), NEW T, NEW t \in Seq(T),
         Alike(NextLevel(s), NextLevel(t))
  PROVE  Alike(s, t)
<1>1. /\ Len(s) \in Nat /\ DOMAIN s = 1 .. Len(s)
      /\ Len(t) \in Nat /\ DOMAIN t = 1 .. Len(t)
  BY LenProperties
<1>2. ASSUME NEW i \in 1 .. Len(s), i <= Len(t) PROVE s[i] = t[i]
  <2> DEFINE k == (i + 1) \div 2
  <2>1. k \in 1 .. (Len(s) + 1) \div 2 /\ k \in 1 .. (Len(t) + 1) \div 2
    BY <1>1, <1>2
  <2>2. /\ Len(NextLevel(s)) = (Len(s) + 1) \div 2
        /\ Len(NextLevel(t)) = (Len(t) + 1) \div 2
    BY NextLevelType
  <2>3. k \in 1 .. Len(NextLevel(s)) /\ k \in 1 .. Len(NextLevel(t)) /\ k <= Len(NextLevel(t))
    BY <1>1, <2>1, <2>2
  <2>4. i = 2 * k - 1 \/ (i = 2 * k /\ 2 * k <= Len(s) /\ 2 * k <= Len(t))
    BY <1>1, <1>2
  <2> HIDE DEF k
  <2>5. NextLevel(s)[k] = NextLevel(t)[k]
    BY <2>3 DEF Alike
  <2>6. /\ NextLevel(s)[k] = <<s[2 * k - 1], Second(s, k)>>
        /\ NextLevel(t)[k] = <<t[2 * k - 1], Second(t, k)>>
    BY <2>3, NextLevelType
  <2>7. <<s[2 * k - 1], Second(s, k)>> = <<t[2 * k - 1], Second(t, k)>>
    BY <2>5, <2>6
  <2>8. s[2 * k - 1] = t[2 * k - 1] /\ Second(s, k) = Second(t, k)
    BY <2>7
  <2> QED
    BY <2>4, <2>8 DEF Second
<1>3. ToSet(s) = ToSet(t)
  <2>1. ToSet(NextLevel(s)) = ToSet(NextLevel(t))
    BY DEF Alike
  <2>2. ToSet(s) \subseteq ToSet(t)
    BY <2>1, LeavesBelow
  <2>3. ToSet(t) \subseteq ToSet(s)
    BY <2>1, LeavesBelow
  <2> QED
    BY <2>2, <2>3
<1> QED
  BY <1>2, <1>3 DEF Alike
(* Two trees with one root are alike from the root down, as far as the     *)
(* lower of them goes.                                                     *)
LEMMA AlikeFromRoot ==
  ASSUME NEW S, NEW s \in Seq(S), NEW T, NEW t \in Seq(T), s # <<>>, t # <<>>,
         compute_merkle_root(s) = compute_merkle_root(t),
         Height(s) <= Height(t)
  PROVE  Alike(s, Levels(t)[Height(t) - Height(s)])
<1> DEFINE a == Height(s)
<1> DEFINE b == Height(t)
<1> DEFINE L == Levels(s)
<1> DEFINE M == Levels(t)
<1>1. /\ Len(s) \in Nat /\ a \in 0 .. Len(s) /\ L[0] = s
      /\ Len(t) \in Nat /\ b \in 0 .. Len(t)
  BY LowestLevel, HeightType
<1>2. /\ \A h \in 1 .. Len(s) : L[h] = NextLevel(L[h - 1])
      /\ \A h \in 1 .. Len(t) : M[h] = NextLevel(M[h - 1])
  BY <1>1, LevelsDef
<1> DEFINE N == {g \in Nat : g <= a => Alike(L[a - g], M[b - g])}
<1>3. 0 \in N
  <2>1. L[a][1] = M[b][1] /\ ToSet(L[a]) = ToSet(M[b])
    <3>1. compute_merkle_root(s) = L[a][1] /\ ToSet(L[a]) = {compute_merkle_root(s)}
      BY RootIsHighest
    <3>2. compute_merkle_root(t) = M[b][1] /\ ToSet(M[b]) = {compute_merkle_root(t)}
      BY RootIsHighest
    <3> HIDE DEF L, M, a, b
    <3> QED
      BY <3>1, <3>2
  <2>2. Len(L[a]) = 1 /\ a - 0 = a /\ b - 0 = b
    BY <1>1, HeightType DEF Breadth
  <2> HIDE DEF L, M, a, b
  <2>3. Alike(L[a], M[b])
    BY <2>1, <2>2 DEF Alike
  <2> QED
    BY <2>2, <2>3
<1>4. ASSUME NEW g \in Nat, g \in N PROVE g + 1 \in N
  <2> SUFFICES ASSUME g + 1 <= a PROVE Alike(L[a - (g + 1)], M[b - (g + 1)])
    OBVIOUS
  <2>1. /\ a - g \in 1 .. Len(s) /\ (a - g) - 1 = a - (g + 1) /\ a - (g + 1) \in 0 .. Len(s)
        /\ b - g \in 1 .. Len(t) /\ (b - g) - 1 = b - (g + 1) /\ b - (g + 1) \in 0 .. Len(t)
        /\ g <= a
    BY <1>1
  <2>2. /\ L[a - g] = NextLevel(L[a - (g + 1)])
        /\ M[b - g] = NextLevel(M[b - (g + 1)])
    BY <1>2, <2>1
  <2>3. PICK U : L[a - (g + 1)] \in Seq(U)
    BY <2>1, LevelType
  <2>4. PICK V : M[b - (g + 1)] \in Seq(V)
    BY <2>1, LevelType
  <2>5. Alike(L[a - g], M[b - g])
    BY <1>4, <2>1
  <2> HIDE DEF L, M, a, b
  <2> QED
    BY <2>2, <2>3, <2>4, <2>5, AlikeBelow
<1>5. Alike(L[a - a], M[b - a])
  <2>1. Nat \subseteq N
    <3> HIDE DEF N
    <3> QED
      BY <1>3, <1>4, NumberInduction
  <2> HIDE DEF L, M, a, b
  <2> QED
    BY <1>1, <2>1
<1>6. a - a = 0
  BY <1>1
<1> HIDE DEF L, M, a, b
<1>7. Alike(s, M[b - a])
  BY <1>1, <1>5, <1>6
<1> QED
  BY <1>7 DEF M, a, b

(* Leaves are not nodes, so that neither tree is higher.                   *)
LEMMA SameHeight ==
  ASSUME NoLeafIsANode,
         NEW s \in Seq(ContentHashes), NEW t \in Seq(ContentHashes),
         s # <<>>, t # <<>>,
         compute_merkle_root(s) = compute_merkle_root(t),
         Height(s) <= Height(t)
  PROVE  Height(s) = Height(t) /\ Alike(s, t)
<1> DEFINE d == Height(t) - Height(s)
<1>1. /\ Len(s) \in Nat /\ Height(s) \in 0 .. Len(s)
      /\ Len(t) \in Nat /\ Height(t) \in 0 .. Len(t) /\ Levels(t)[0] = t
  BY LowestLevel, HeightType
<1>2. d \in 0 .. Len(t)
  BY <1>1
<1>3. Alike(s, Levels(t)[d])
  BY AlikeFromRoot
<1>4. ASSUME d # 0 PROVE FALSE
  <2>1. d \in 1 .. Len(t) /\ d - 1 \in 0 .. Len(t)
    BY <1>2, <1>4
  <2>2. Levels(t)[d] = NextLevel(Levels(t)[d - 1])
    BY <1>1, <2>1, LevelsDef
  <2>3. PICK U : Levels(t)[d - 1] \in Seq(U)
    BY <2>1, LevelType
  <2>4. 1 \in DOMAIN s /\ s[1] \in ContentHashes
    BY EmptySeq, LenProperties
  <2>5. s[1] \in ToSet(Levels(t)[d])
    BY <1>3, <2>4 DEF Alike, ToSet
  <2> HIDE DEF d
  <2>6. \E l, r : s[1] = Hash(l, r)
    BY <2>2, <2>3, <2>5, NodesArePairs
  <2> QED
    BY <2>4, <2>6 DEF NoLeafIsANode
<1>5. d = 0
  BY <1>4
<1>6. Height(s) = Height(t)
  BY <1>1, <1>5
<1> HIDE DEF d
<1> QED
  BY <1>1, <1>3, <1>5, <1>6

LEMMA RootTells ==
  ASSUME NoLeafIsANode,
         NEW s \in Seq(ContentHashes), NEW t \in Seq(ContentHashes),
         s # <<>>, t # <<>>,
         compute_merkle_root(s) = compute_merkle_root(t),
         Len(s) <= Len(t)
  PROVE  Height(s) = Height(t) /\ IsPrefix(s, t) /\ ToSet(s) = ToSet(t)
<1>1. /\ Len(s) \in Nat /\ Height(s) \in Nat
      /\ Len(t) \in Nat /\ Height(t) \in Nat
  BY LowestLevel, HeightType
<1>2. Height(s) = Height(t) /\ (Alike(s, t) \/ Alike(t, s))
  <2>1. CASE Height(s) <= Height(t)
    BY <2>1, SameHeight
  <2>2. CASE Height(t) <= Height(s)
    <3>1. Height(t) = Height(s) /\ Alike(t, s)
      BY <2>2, SameHeight
    <3> QED
      BY <3>1
  <2> QED
    BY <1>1, <2>1, <2>2
<1>3. ToSet(s) = ToSet(t) /\ \A i \in 1 .. Len(s) : s[i] = t[i]
  BY <1>1, <1>2 DEF Alike
<1>4. SubSeq(s, 1, Len(s)) = SubSeq(t, 1, Len(s))
  BY <1>1, <1>3
<1> QED
  BY <1>2, <1>3, <1>4 DEF IsPrefix
-----------------------------------------------------------------------------
(* The textbook tree.                                                      *)

(* A level has a node k if and only if the first leaf below that node is   *)
(* in the batch.                                                           *)
LEMMA NodesOfLevel ==
  ASSUME NEW S, NEW s \in Seq(S), NEW h \in 0 .. Len(s)
  PROVE  /\ Sizes(Len(s))[h] \in Nat
         /\ \A k \in Nat : k < Breadth(s, h) <=> k * Sizes(Len(s))[h] < Len(s)
<1> DEFINE n == Len(s)
<1> DEFINE Z == Sizes(n)
<1> DEFINE Agree(g) ==
      Z[g] \in Nat /\ \A k \in Nat : k < Breadth(s, g) <=> k * Z[g] < n
<1> DEFINE N == {g \in Nat : g <= n => Agree(g)}
<1>1. n \in Nat /\ Breadth(s, 0) = n
  BY LowestLevel
<1>2. Z[0] = 1 /\ \A g \in 1 .. n : Z[g] = 2 * Z[g - 1]
  BY <1>1, SizesDef
<1> HIDE DEF Z, n
<1>3. 0 \in N
  BY <1>1, <1>2
<1>4. ASSUME NEW g \in Nat, g \in N PROVE g + 1 \in N
  <2> SUFFICES ASSUME g + 1 <= n PROVE Agree(g + 1)
    OBVIOUS
  <2>1. Agree(g)
    BY <1>1, <1>4
  <2>2. g + 1 \in 1 .. n /\ (g + 1) - 1 = g
    BY <1>1
  <2>3. /\ Breadth(s, g + 1) = (Breadth(s, g) + 1) \div 2
        /\ Breadth(s, g) \in Nat
    BY <2>2, LevelBelow DEF n
  <2>4. Z[g + 1] = 2 * Z[g]
    BY <1>2, <2>2
  <2>5. Z[g] \in Nat /\ \A k \in Nat : k < Breadth(s, g) <=> k * Z[g] < n
    BY <2>1
  <2>6. \A a \in Nat : 2 * a \in Nat
    OBVIOUS
  <2>7. Z[g + 1] \in Nat
    BY <2>4, <2>5, <2>6
  <2>8. ASSUME NEW k \in Nat
        PROVE  k < Breadth(s, g + 1) <=> k * Z[g + 1] < n
    <3>1. k < Breadth(s, g + 1) <=> 2 * k < Breadth(s, g)
      BY <2>3
    <3>2. 2 * k < Breadth(s, g) <=> (2 * k) * Z[g] < n
      BY <2>5, <2>6
    <3>3. (2 * k) * Z[g] = k * Z[g + 1]
      <4>1. \A a, b \in Nat : (2 * a) * b = a * (2 * b)
        OBVIOUS
      <4> QED
        BY <2>4, <2>5, <4>1
    <3> QED
      BY <3>1, <3>2, <3>3
  <2> QED
    BY <2>7, <2>8
<1>5. Nat \subseteq N
  <2> HIDE DEF N
  <2> QED
    BY <1>3, <1>4, NumberInduction
<1>6. Agree(h)
  <2>1. h \in Nat /\ h <= n
    BY <1>1 DEF n
  <2> HIDE DEF Agree
  <2> QED
    BY <1>5, <2>1
<1> QED
  BY <1>6 DEF Z, n

(* The node of the textbook tree at a place is the node that the loop of   *)
(* compute_merkle_root has put there.                                      *)
LEMMA NodeOfLevel ==
  ASSUME NEW S, NEW s \in Seq(S), NEW h \in 0 .. Len(s),
         NEW k \in 0 .. Breadth(s, h) - 1
  PROVE  Node(s, h, k) = Levels(s)[h][k + 1]
<1> DEFINE L == Levels(s)
<1> DEFINE n == Len(s)
<1>1. n \in Nat /\ h \in Nat /\ L[0] = s /\ Breadth(s, 0) = n
  BY LowestLevel
<1>2. PICK f : IsRows(f, s, h) /\ \A i : Node(s, h, i) = f[h][i]
  BY <1>1, NodeDef
<1> DEFINE N == {g \in Nat : g <= h =>
                   \A i \in 0 .. Breadth(s, g) - 1 : f[g][i] = L[g][i + 1]}
<1>3. 0 \in N
  <2>1. f[0] = LowestRow(s)
    BY <1>1, <1>2 DEF IsRows
  <2>2. \A i \in 0 .. Breadth(s, 0) - 1 : f[0][i] = s[i + 1]
    BY <1>1, <2>1 DEF LowestRow
  <2> HIDE DEF L
  <2> QED
    BY <1>1, <2>2
<1>4. ASSUME NEW g \in Nat, g \in N PROVE g + 1 \in N
  <2> SUFFICES ASSUME g + 1 <= h, NEW i \in 0 .. Breadth(s, g + 1) - 1
               PROVE  f[g + 1][i] = L[g + 1][i + 1]
    OBVIOUS
  <2>1. /\ g + 1 \in 1 .. n /\ (g + 1) - 1 = g /\ g \in 0 .. n /\ g + 1 \in 0 .. h
        /\ g + 1 # 0
    BY <1>1
  <2>2. /\ Breadth(s, g + 1) = (Breadth(s, g) + 1) \div 2
        /\ Breadth(s, g) \in Nat /\ Breadth(s, g + 1) \in Nat
        /\ \A j \in 1 .. Breadth(s, g + 1) : L[g + 1][j] = <<L[g][2 * j - 1], Second(L[g], j)>>
    BY <2>1, LevelBelow
  <2>3. \A j \in 0 .. Breadth(s, g) - 1 : f[g][j] = L[g][j + 1]
    BY <1>4, <2>1
  <2> DEFINE right == IF (2 * i + 1) * Sizes(n)[g] < n THEN 2 * i + 1 ELSE 2 * i
  <2>4. f[g + 1][i] = <<f[g][2 * i], f[g][right]>>
    <3>1. f[g + 1] = RowAbove(s, g + 1, f[g])
      BY <1>2, <2>1 DEF IsRows
    <3>2. i \in Nat
      BY <2>2
    <3> QED
      BY <2>1, <3>1, <3>2 DEF RowAbove, Hash
  <2>5. right = IF 2 * i + 1 < Breadth(s, g) THEN 2 * i + 1 ELSE 2 * i
    <3>1. 2 * i + 1 \in Nat
      BY <2>2
    <3>2. 2 * i + 1 < Breadth(s, g) <=> (2 * i + 1) * Sizes(n)[g] < n
      BY <2>1, <3>1, NodesOfLevel
    <3> QED
      BY <3>2
  <2>6. f[g][2 * i] = L[g][2 * (i + 1) - 1]
    <3>1. 2 * i \in 0 .. Breadth(s, g) - 1 /\ 2 * i + 1 = 2 * (i + 1) - 1
      BY <2>2
    <3> HIDE DEF L
    <3> QED
      BY <2>3, <3>1
  <2>7. f[g][right] = Second(L[g], i + 1)
    <3> HIDE DEF L, right
    <3>1. CASE 2 * i + 1 < Breadth(s, g)
      <4>1. /\ 2 * i + 1 \in 0 .. Breadth(s, g) - 1
            /\ (2 * i + 1) + 1 = 2 * (i + 1) /\ 2 * (i + 1) <= Breadth(s, g)
        BY <2>2, <3>1
      <4> QED
        BY <2>3, <2>5, <3>1, <4>1 DEF Second, Breadth, L
    <3>2. CASE ~(2 * i + 1 < Breadth(s, g))
      <4>1. ~(2 * (i + 1) <= Breadth(s, g))
        BY <2>2, <3>2
      <4> QED
        BY <2>5, <2>6, <3>2, <4>1 DEF Second, Breadth, L
    <3> QED
      BY <3>1, <3>2
  <2>8. L[g + 1][i + 1] = <<L[g][2 * (i + 1) - 1], Second(L[g], i + 1)>>
    <3>1. i + 1 \in 1 .. Breadth(s, g + 1)
      BY <2>2
    <3> HIDE DEF L
    <3> QED
      BY <2>2, <3>1
  <2> HIDE DEF L, right
  <2> QED
    BY <2>4, <2>6, <2>7, <2>8
<1>5. \A i \in 0 .. Breadth(s, h) - 1 : f[h][i] = L[h][i + 1]
  <2>1. Nat \subseteq N
    <3> HIDE DEF N
    <3> QED
      BY <1>3, <1>4, NumberInduction
  <2> QED
    BY <1>1, <2>1
<1> QED
  BY <1>2, <1>5

(* The textbook tree is as high as the loop takes turns.                   *)
LEMMA DepthIsHeight ==
  ASSUME NEW S, NEW s \in Seq(S)
  PROVE  Depth(Len(s)) = Height(s)
<1> DEFINE n == Len(s)
<1>1. n \in Nat
  BY LenProperties
<1>2. ASSUME NEW h \in 0 .. n
      PROVE  Breadth(s, h) \in Nat /\ (Breadth(s, h) > 1 <=> Sizes(n)[h] < n)
  <2>1. Breadth(s, h) \in Nat
    BY BreadthShrinks
  <2>2. Sizes(n)[h] \in Nat /\ (1 < Breadth(s, h) <=> 1 * Sizes(n)[h] < n)
    BY NodesOfLevel
  <2> QED
    BY <2>1, <2>2
<1>3. \A h \in 0 .. n : Sizes(n)[h] \in Nat
  BY NodesOfLevel
<1>4. \A h \in 0 .. n :
        (Sizes(n)[h] >= n /\ \A e \in 0 .. h - 1 : Sizes(n)[e] < n)
          <=> (Len(Levels(s)[h]) <= 1 /\ \A g \in 0 .. h - 1 : Len(Levels(s)[g]) > 1)
  BY <1>1, <1>2, <1>3 DEF Breadth
<1> QED
  BY <1>4 DEF Depth, Height
-----------------------------------------------------------------------------
(* The batch is a sequence of content hashes.                              *)
LEMMA BatchTyped == BatchSpec => [](leaves \in Seq(ContentHashes))
<1>1. NoEvents => leaves \in Seq(ContentHashes)
  BY DEF NoEvents
<1>2. leaves \in Seq(ContentHashes) /\ [Collect]_leaves
        => (leaves \in Seq(ContentHashes))'
  BY DEF Collect, Push
<1> QED
  BY <1>1, <1>2, PTL DEF BatchSpec

(* compute_merkle_root is the root of the textbook tree over any batch of  *)
(* any length: the loop pads odd levels wherever they are as the textbook  *)
(* does, and takes one turn per level.                                     *)
THEOREM RootOfTreeHolds == BatchSpec => []RootOfTree
<1>1. leaves \in Seq(ContentHashes) => RootOfTree
  <2> SUFFICES ASSUME leaves \in Seq(ContentHashes), leaves # <<>>
               PROVE  Root = Node(leaves, Depth(Len(leaves)), 0)
    BY DEF RootOfTree
  <2>1. Depth(Len(leaves)) = Height(leaves)
    BY DepthIsHeight
  <2>2. Height(leaves) \in 0 .. Len(leaves) /\ Breadth(leaves, Height(leaves)) = 1
    BY HeightType
  <2>3. Node(leaves, Height(leaves), 0) = Levels(leaves)[Height(leaves)][0 + 1]
    <3>1. 0 \in 0 .. Breadth(leaves, Height(leaves)) - 1
      BY <2>2
    <3> QED
      BY <2>2, <3>1, NodeOfLevel
  <2>4. Root = Levels(leaves)[Height(leaves)][1]
    BY RootIsHighest DEF Root
  <2> QED
    BY <2>1, <2>3, <2>4
<1> QED
  BY <1>1, BatchTyped, PTL

(* Every proof that generate_merkle_proof returns is accepted, and no      *)
(* proof of hashes of the tree for another event at its position is, as    *)
(* long as no content hash is the hash of two nodes.                       *)
THEOREM ProofsExactHolds ==
  ASSUME NoLeafIsANode PROVE BatchSpec => []ProofsExact
<1>1. leaves \in Seq(ContentHashes) => ProofsVerify
  BY GeneratedVerifies DEF ProofsVerify, Indices, Root
<1>2. leaves \in Seq(ContentHashes) => OnlyLeavesVerify
  <2> SUFFICES ASSUME leaves \in Seq(ContentHashes), NEW i \in Indices,
                      NEW h \in ContentHashes, NEW d \in 0 .. Height(leaves),
                      h # leaves[i + 1], NEW proof \in [1 .. d -> Nodes]
               PROVE  ~verify_merkle_proof(h, proof, Root, i)
    BY DEF OnlyLeavesVerify
  <2>1. \A l, r : h # Hash(l, r)
    BY DEF NoLeafIsANode
  <2>2. i \in 0 .. Len(leaves) - 1 /\ DOMAIN proof = 1 .. d
    BY DEF Indices
  <2> QED
    BY <2>1, <2>2, OnlyTheEvent DEF Root
<1> QED
  BY <1>1, <1>2, BatchTyped, PTL DEF ProofsExact

(* Batches with one root differ in padding only: the trees are as high,    *)
(* the longer batch begins with the shorter and has the same hashes; so a  *)
(* second commitHash of a root (TimestampRegistry.sol:28) is refused for   *)
(* nothing that is not on the chain already.                               *)
THEOREM RootTellsBatchHolds ==
  ASSUME NoLeafIsANode PROVE BatchSpec => []RootTellsBatch
<1>1. leaves \in Seq(ContentHashes) => RootTellsBatch
  <2> SUFFICES ASSUME leaves \in Seq(ContentHashes), NEW s \in Batches,
                      Len(s) <= Len(leaves), RootOf[s] = Root
               PROVE  /\ Height(s) = Height(leaves)
                      /\ IsPrefix(s, leaves) /\ ToSet(s) = ToSet(leaves)
    BY DEF RootTellsBatch
  <2>1. PICK n \in 1 .. MaxLeaves : s \in [1 .. n -> ContentHashes]
    BY DEF Batches
  <2>2. n \in Nat /\ n # 0
    BY MerkleConstantsOK
  <2>3. s \in Seq(ContentHashes) /\ Len(s) = n
    BY <2>1, <2>2, SeqDef, LenProperties
  <2>4. s # <<>> /\ leaves # <<>>
    BY <2>2, <2>3, LenProperties, EmptySeq
  <2>5. compute_merkle_root(s) = compute_merkle_root(leaves)
    BY DEF RootOf, Root
  <2> QED
    BY <2>3, <2>4, <2>5, RootTells
<1> QED
  BY <1>1, BatchTyped, PTL
=============================================================================
