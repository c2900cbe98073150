----------------------------- MODULE EventIndex -----------------------------
(***************************************************************************)
(* What process_blockchain_index (api/src/main.rs) does for every event of *)
(* a job, and what readers see of it: the event loop with its IPFS calls,  *)
(* its rows and its AI extractions, the stamping of the rows with the root *)
(* that was committed, the retry of that commit by whatever process,       *)
(* POST /verify, and GraphQL subscribers who follow the rows through       *)
(* LISTEN/NOTIFY.  JobPipeline has the same job at the grain of a batch,   *)
(* with the queue, the attempts of a retry and the registry in detail.     *)
(*                                                                         *)
(* One action is one awaited effect.  Every job is a process: it may be    *)
(* executed, and its commit retried, next to any other.  An event stands   *)
(* for its JSON and so for its CID: two logs that differ in nothing the    *)
(* JSON keeps are one event.  The Merkle root of a batch is the sequence   *)
(* of its content hashes; the root of a batch of one is that hash.         *)
(***************************************************************************)
EXTENDS Integers, Sequences

CONSTANTS
  Jobs, Subscribers, Events, Hashes,
  Addresses,   \* texts that name a contract, in whatever letter case
  Logs,        \* Logs[j][s]: what get_events has for signature s of job j
  ContentHash, \* ContentHash[e]: hash of the data, of the data alone
  AddressOf,   \* contract_address of a row: {:?} of an H160, in lower case
  Oversize,    \* events whose payload is too large for pg_notify
  AiJobs,      \* jobs with enable_ai, a schema, and an AIExtractor
  AskedFor,    \* AskedFor[s]: the contract_address that s subscribes to
  Budget,      \* ai_token_budget
  MaxCall,     \* bound: tokens that one call of the AI consumes
  NoRoot, NoRow,
  MaxFaults    \* bound: SQL errors, kills and lost connections together

Roots == Seq(Hashes)
Rows  == Jobs \X (Nat \ {0})   \* <<j, i>>: the row of the i-th event of job j

ASSUME EventIndexOK ==
  /\ Logs \in [Jobs -> Seq(Seq(Events))]
  /\ ContentHash \in [Events -> Hashes] /\ AddressOf \in [Events -> Addresses]
  /\ AskedFor \in [Subscribers -> Addresses]
  /\ Oversize \subseteq Events /\ AiJobs \subseteq Jobs
  /\ Budget \in Nat \ {0} /\ MaxCall \in Nat \ {0} /\ MaxFaults \in Nat
  /\ NoRoot \notin Roots /\ NoRow \notin Rows

VARIABLES
  pc,        \* pc[j]: the next effect of job j, or its status
  events,    \* events[j]: all_events
  cur,       \* cur[j]: the counter of the loop over signatures or stamps
  stored,    \* blockchain_events has rows of the first stored[j] events
  root,      \* merkle_root of the batch, once it was computed for a client
  stamped,   \* the events of j whose rows have merkle_root = root[j]
  pmc,       \* pending_merkle_commits.status of the row of j, or "none"
  retry,     \* the retry of that commit, by the worker of some process
  anchored,  \* the roots in the TimestampRegistry
  commits,   \* timestamp_commits.content_hash
  pinned,    \* CIDs pinned on the IPFS node
  content,   \* ipfs_content: blockchain_event_id for each CID, or NoRow
  counted,   \* tokens that job j has subtracted from its budget, in all
  log,       \* the rows in the order of their INSERTs
  sub,       \* sub[s]: the connection of subscriber s
  inbox,     \* the notifications that wait for s, as positions in log
  got,       \* the events that s was sent, likewise
  faults

loopVars   == <<events, cur>>
rowVars    == <<stored, stamped>>
chainVars  == <<anchored, commits>>
retryVars  == <<pmc, retry>>
ipfsVars   == <<pinned, content>>
streamVars == <<log, sub, inbox, got>>
vars == <<pc, loopVars, rowVars, root, chainVars, retryVars, ipfsVars, counted,
          streamVars, faults>>
-----------------------------------------------------------------------------
Final   == {"completed", "failed"}
Working == {"fetch", "add", "pin", "insert", "record", "extract", "commit",
            "row", "stamp", "queue", "finish", "fail", "park"}
(* dead: the worker was killed or has ended; the row stays processing. *)
PC == {"none", "queued", "pending_commit", "dead"} \cup Final \cup Working

Retrying == {"row", "stamp", "mark", "done", "drop", "lost"}

(* off: not subscribed; away: PgListener is connecting again. *)
Stream == [at : {"off", "on", "away"}, from : Nat, whole : BOOLEAN]

(* What a job has counted exceeds its budget by less than one call. *)
JobTypeOK ==
  /\ pc \in [Jobs -> PC]
  /\ events \in [Jobs -> Seq(Events)]
  /\ cur \in [Jobs -> Nat] /\ stored \in [Jobs -> Nat]
  /\ stamped \in [Jobs -> SUBSET Nat]
  /\ root \in [Jobs -> Roots \cup {NoRoot}]
  /\ pmc \in [Jobs -> {"none", "pending", "committed", "failed"}]
  /\ retry \in [Jobs -> {"idle"} \cup Retrying]
  /\ counted \in [Jobs -> 0 .. Budget + MaxCall - 1]

StoreTypeOK ==
  /\ anchored \subseteq Roots /\ commits \subseteq Roots
  /\ pinned \subseteq Events
  /\ content \in [Events -> Rows \cup {NoRow}]
  /\ log \in Seq(Rows)
  /\ sub \in [Subscribers -> Stream]
  /\ inbox \in [Subscribers -> Seq(Nat)] /\ got \in [Subscribers -> Seq(Nat)]
  /\ faults \in 0 .. MaxFaults

TypeOK == JobTypeOK /\ StoreTypeOK

Init ==
  /\ pc = [j \in Jobs |-> "none"]
  /\ events = [j \in Jobs |-> <<>>]
  /\ cur = [j \in Jobs |-> 0] /\ stored = [j \in Jobs |-> 0]
  /\ stamped = [j \in Jobs |-> {}] /\ root = [j \in Jobs |-> NoRoot]
  /\ pmc = [j \in Jobs |-> "none"] /\ retry = [j \in Jobs |-> "idle"]
  /\ counted = [j \in Jobs |-> 0]
  /\ anchored = {} /\ commits = {} /\ pinned = {}
  /\ content = [e \in Events |-> NoRow]
  /\ log = <<>>
  /\ sub = [s \in Subscribers |-> [at |-> "off", from |-> 0, whole |-> TRUE]]
  /\ inbox = [s \in Subscribers |-> <<>>] /\ got = [s \in Subscribers |-> <<>>]
  /\ faults = 0
-----------------------------------------------------------------------------
Goto(j, from, to) == pc[j] = from /\ pc' = [pc EXCEPT ![j] = to]

Fault   == faults < MaxFaults /\ faults' = faults + 1
NoFault == UNCHANGED faults

(* The event that the loop is at: before, and after, the INSERT of its row. *)
NextEvent(j) == events[j][stored[j] + 1]
LastEvent(j) == events[j][stored[j]]

EventOf(r) == events[r[1]][r[2]]

(* all_content_hashes at the end of the loop. *)
Leaves(j) == [i \in 1 .. stored[j] |-> ContentHash[events[j][i]]]

Create(j) ==
  /\ Goto(j, "none", "queued")
  /\ NoFault
  /\ UNCHANGED <<loopVars, rowVars, root, chainVars, retryVars, ipfsVars,
                 counted, streamVars>>

(* A worker has the job. *)
Take(j) ==
  /\ Goto(j, "queued", "fetch") /\ cur' = [cur EXCEPT ![j] = 1]
  /\ NoFault
  /\ UNCHANGED <<events, rowVars, root, chainVars, retryVars, ipfsVars,
                 counted, streamVars>>

(* params.events is empty, the chain is not configured, the address does   *)
(* not parse, or get_latest_block fails.                                   *)
Reject(j) ==
  /\ cur[j] = 1 /\ Goto(j, "fetch", "fail")
  /\ NoFault
  /\ UNCHANGED <<loopVars, rowVars, root, chainVars, retryVars, ipfsVars,
                 counted, streamVars>>

(* get_events for one signature.  If it fails, a warning is logged and the *)
(* signature is passed over.                                               *)
GetEvents(j) ==
  /\ cur[j] \in DOMAIN Logs[j]
  /\ events' = [events EXCEPT ![j] = @ \o Logs[j][cur[j]]] \/ UNCHANGED events
  /\ cur' = [cur EXCEPT ![j] = @ + 1]
  /\ IF cur[j] < Len(Logs[j]) THEN pc[j] = "fetch" /\ UNCHANGED pc
     ELSE Goto(j, "fetch", IF events'[j] = <<>> THEN "finish" ELSE "add")
  /\ NoFault
  /\ UNCHANGED <<rowVars, root, chainVars, retryVars, ipfsVars, counted,
                 streamVars>>

(* Variant for mutation runs: an event that fails ends the loop, not the   *)
(* job, as a break in place of the ? would.                                *)
AddContent_Breaks(j) ==
  /\ \/ Goto(j, "add", "pin")
     \/ Goto(j, "add", IF stored[j] = 0 THEN "fail" ELSE "commit")
  /\ NoFault
  /\ UNCHANGED <<loopVars, rowVars, root, chainVars, retryVars, ipfsVars,
                 counted, streamVars>>

(* ipfs.store_content, or the node fails. *)
AddContent(j) ==
  /\ Goto(j, "add", "pin") \/ Goto(j, "add", "fail")
  /\ NoFault
  /\ UNCHANGED <<loopVars, rowVars, root, chainVars, retryVars, ipfsVars,
                 counted, streamVars>>

(* ipfs.pin_content, or the node fails. *)
PinContent(j) ==
  /\ \/ Goto(j, "pin", "insert") /\ pinned' = pinned \cup {NextEvent(j)}
     \/ Goto(j, "pin", "fail") /\ UNCHANGED pinned
  /\ NoFault
  /\ UNCHANGED <<loopVars, rowVars, root, chainVars, retryVars, content,
                 counted, streamVars>>

Listening(s) == sub[s].at = "on"

(* The trigger of migration 012: pg_notify reaches every connection that   *)
(* listens when the INSERT commits.                                        *)
Notify(row) ==
  /\ log' = Append(log, row)
  /\ inbox' = [s \in Subscribers |->
                 IF Listening(s) THEN Append(inbox[s], Len(log) + 1)
                 ELSE inbox[s]]
  /\ UNCHANGED <<sub, got>>

(* INSERT INTO blockchain_events.  pg_notify refuses a payload of 8000     *)
(* bytes or more, and the INSERT fails with it.                            *)
InsertEvent(j) ==
  /\ \/ /\ Goto(j, "insert", "record") /\ NextEvent(j) \notin Oversize
        /\ stored' = [stored EXCEPT ![j] = @ + 1]
        /\ Notify(<<j, stored[j] + 1>>)
        /\ NoFault
     \/ /\ Goto(j, "insert", "fail")
        /\ (NextEvent(j) \in Oversize /\ NoFault) \/ Fault
        /\ UNCHANGED <<stored, streamVars>>
  /\ UNCHANGED <<loopVars, stamped, root, chainVars, retryVars, ipfsVars,
                 counted>>

(* The head of the loop: the next event, or on to the commit. *)
AfterEvent(j) == IF stored[j] = Len(events[j]) THEN "commit" ELSE "add"

(* Variant for mutation runs: the number wraps, at 2^16 here.        *)
TokensRemaining_Wraps(j) == (Budget - counted[j]) % 65536

(* tokens_remaining = tokens_remaining.saturating_sub(tokens_used). *)
TokensRemaining(j) == IF counted[j] < Budget THEN Budget - counted[j] ELSE 0

(* INSERT INTO ipfs_content ... ON CONFLICT (cid) DO NOTHING. *)
RecordContent(j) ==
  /\ \/ /\ Goto(j, "record", IF j \in AiJobs /\ TokensRemaining(j) > 0
                             THEN "extract" ELSE AfterEvent(j))
        /\ content' = [content EXCEPT ![LastEvent(j)] =
                         IF @ = NoRow THEN <<j, stored[j]>> ELSE @]
        /\ NoFault
     \/ Goto(j, "record", "fail") /\ Fault /\ UNCHANGED content
  /\ UNCHANGED <<loopVars, rowVars, root, chainVars, retryVars, pinned,
                 counted, streamVars>>

(* extract_structured_data under a timeout.  An answer that parses counts  *)
(* with the usage it states; another one, an error and a timeout count for *)
(* nothing, whatever the call has consumed.  The loop goes on without its  *)
(* row in ai_extractions, which nobody reads here.                         *)
Extract(j) ==
  /\ Goto(j, "extract", AfterEvent(j))
  /\ \E n \in {0, MaxCall} : counted' = [counted EXCEPT ![j] = @ + n]
  /\ NoFault
  /\ UNCHANGED <<loopVars, rowVars, root, chainVars, retryVars, ipfsVars,
                 streamVars>>
-----------------------------------------------------------------------------
(* Variant of CommitOk for mutation runs: the receipt is not awaited. *)
CommitOk_Unawaited(r) == anchored' \in {anchored, anchored \cup {r}}

(* commit_hash: Ok once a transaction for r is in a block, even one that   *)
(* reverted because r was there before; an error may come after the        *)
(* broadcast.                                                              *)
CommitOk(r) == anchored' = anchored \cup {r}
CommitErr(r) == anchored' \in {anchored, anchored \cup {r}}

(* The root is computed and committed; without a TimestampClient it is     *)
(* dropped and the job is complete.                                        *)
Commit(j) ==
  /\ \/ /\ root' = [root EXCEPT ![j] = Leaves(j)]
        /\ \/ Goto(j, "commit", "row") /\ CommitOk(Leaves(j))
           \/ Goto(j, "commit", "queue") /\ CommitErr(Leaves(j))
     \/ Goto(j, "commit", "finish") /\ UNCHANGED <<root, anchored>>
  /\ NoFault
  /\ UNCHANGED <<loopVars, rowVars, commits, retryVars, ipfsVars, counted,
                 streamVars>>

(* INSERT INTO timestamp_commits; an error is logged. *)
StoreCommit(j) ==
  /\ Goto(j, "row", "stamp") /\ cur' = [cur EXCEPT ![j] = 1]
  /\ \/ commits' = commits \cup {root[j]} /\ NoFault
     \/ UNCHANGED commits /\ Fault
  /\ UNCHANGED <<events, rowVars, root, anchored, retryVars, ipfsVars, counted,
                 streamVars>>

(* Variant for mutation runs: the last event is never reached. *)
Stamp_OffByOne(j) ==
  /\ IF cur[j] < stored[j] - 1 THEN pc[j] = "stamp" /\ UNCHANGED pc
     ELSE Goto(j, "stamp", "finish")
  /\ cur' = [cur EXCEPT ![j] = @ + 1]
  /\ stamped' = [stamped EXCEPT ![j] = @ \cup {cur[j]}]
  /\ NoFault
  /\ UNCHANGED <<events, stored, root, chainVars, retryVars, ipfsVars, counted,
                 streamVars>>

(* UPDATE blockchain_events SET merkle_root, one statement for each of     *)
(* indexed_event_ids; an error is logged.                                  *)
Stamp(j) ==
  /\ IF cur[j] < stored[j] THEN pc[j] = "stamp" /\ UNCHANGED pc
     ELSE Goto(j, "stamp", "finish")
  /\ cur' = [cur EXCEPT ![j] = @ + 1]
  /\ \/ stamped' = [stamped EXCEPT ![j] = @ \cup {cur[j]}] /\ NoFault
     \/ UNCHANGED stamped /\ Fault
  /\ UNCHANGED <<events, stored, root, chainVars, retryVars, ipfsVars, counted,
                 streamVars>>

(* INSERT INTO pending_merkle_commits; an error is logged. *)
QueueRetry(j) ==
  /\ Goto(j, "queue", "park")
  /\ \/ pmc' = [pmc EXCEPT ![j] = "pending"] /\ NoFault
     \/ UNCHANGED pmc /\ Fault
  /\ UNCHANGED <<loopVars, rowVars, root, chainVars, retry, ipfsVars, counted,
                 streamVars>>

(* run_worker: the status that goes with the outcome; if the UPDATE fails, *)
(* the worker ends.                                                        *)
SetStatus(j) ==
  /\ \/ /\ \/ Goto(j, "finish", "completed") \/ Goto(j, "fail", "failed")
           \/ Goto(j, "park", "pending_commit")
        /\ NoFault
     \/ \E l \in {"finish", "fail", "park"} : Goto(j, l, "dead") /\ Fault
  /\ UNCHANGED <<loopVars, rowVars, root, chainVars, retryVars, ipfsVars,
                 counted, streamVars>>

(* The process that executes the job is killed. *)
Crash(j) ==
  /\ \E l \in Working : Goto(j, l, "dead")
  /\ Fault
  /\ UNCHANGED <<loopVars, rowVars, root, chainVars, retryVars, ipfsVars,
                 counted, streamVars>>
-----------------------------------------------------------------------------
(* retry_pending_commits for the row of job j, one process at a time:      *)
(* JobPipeline has two that retry the same row, and the count of attempts. *)

RetryAt(j, from, to) ==
  retry[j] = from /\ retry' = [retry EXCEPT ![j] = to]

(* UPDATE jobs ... WHERE status = 'pending_commit'. *)
Resolve(j, status) ==
  pc' = [pc EXCEPT ![j] = IF @ = "pending_commit" THEN status ELSE @]

(* The commit succeeds, fails and is put off, or fails for the last time.  *)
RetryCommit(j) ==
  /\ pmc[j] = "pending"
  /\ \/ RetryAt(j, "idle", "row") /\ CommitOk(root[j])
     \/ RetryAt(j, "idle", "idle") /\ CommitErr(root[j])
     \/ RetryAt(j, "idle", "drop") /\ CommitErr(root[j])
  /\ NoFault
  /\ UNCHANGED <<pc, loopVars, rowVars, root, commits, pmc, ipfsVars, counted,
                 streamVars>>

RetryStore(j) ==
  /\ \/ RetryAt(j, "row", "stamp") /\ commits' = commits \cup {root[j]} /\ NoFault
     \/ RetryAt(j, "row", "idle") /\ UNCHANGED commits /\ Fault
  /\ UNCHANGED <<pc, loopVars, rowVars, root, anchored, pmc, ipfsVars, counted,
                 streamVars>>

(* UPDATE ... WHERE job_id = $2 AND merkle_root IS NULL: all rows at once. *)
RetryStamp(j) ==
  /\ RetryAt(j, "stamp", "mark")
  /\ \/ stamped' = [stamped EXCEPT ![j] = 1 .. stored[j]] /\ NoFault
     \/ UNCHANGED stamped /\ Fault
  /\ UNCHANGED <<pc, loopVars, stored, root, chainVars, pmc, ipfsVars, counted,
                 streamVars>>

(* Variant for mutation runs: to give up takes the stamps back. *)
RetryMark_Cleans(j) ==
  /\ \/ /\ RetryAt(j, "mark", "done") /\ UNCHANGED <<pmc, stamped>> /\ Fault
     \/ /\ RetryAt(j, "drop", "lost") /\ pmc' = [pmc EXCEPT ![j] = "failed"]
        /\ stamped' = [stamped EXCEPT ![j] = {}] /\ NoFault
  /\ UNCHANGED <<pc, loopVars, stored, root, chainVars, ipfsVars, counted,
                 streamVars>>

(* UPDATE pending_merkle_commits; an error is ignored. *)
RetryMark(j) ==
  /\ \/ RetryAt(j, "mark", "done") /\ pmc' = [pmc EXCEPT ![j] = "committed"] /\ NoFault
     \/ RetryAt(j, "drop", "lost") /\ pmc' = [pmc EXCEPT ![j] = "failed"] /\ NoFault
     \/ /\ RetryAt(j, "mark", "done") \/ RetryAt(j, "drop", "lost")
        /\ UNCHANGED pmc /\ Fault
  /\ UNCHANGED <<pc, loopVars, rowVars, root, chainVars, ipfsVars, counted,
                 streamVars>>

(* UPDATE jobs; an error is ignored. *)
RetryResolve(j) ==
  /\ \/ RetryAt(j, "done", "idle") /\ Resolve(j, "completed") /\ NoFault
     \/ RetryAt(j, "lost", "idle") /\ Resolve(j, "failed") /\ NoFault
     \/ /\ RetryAt(j, "done", "idle") \/ RetryAt(j, "lost", "idle")
        /\ UNCHANGED pc /\ Fault
  /\ UNCHANGED <<loopVars, rowVars, root, chainVars, pmc, ipfsVars, counted,
                 streamVars>>

RetryCrash(j) ==
  /\ \E l \in Retrying : RetryAt(j, l, "idle")
  /\ Fault
  /\ UNCHANGED <<pc, loopVars, rowVars, root, chainVars, pmc, ipfsVars,
                 counted, streamVars>>
-----------------------------------------------------------------------------
(* Subscription.blockchain_events. *)

KeepJobs == UNCHANGED <<pc, loopVars, rowVars, root, chainVars, retryVars,
                        ipfsVars, counted, log>>

(* PgListener::connect_with and LISTEN. *)
Subscribe(s) ==
  /\ sub[s].at = "off"
  /\ sub' = [sub EXCEPT ![s].at = "on", ![s].from = Len(log)]
  /\ NoFault /\ UNCHANGED <<inbox, got>> /\ KeepJobs

(* The text of the address is compared, as a text. *)
Matches(s, p) == AddressOf[EventOf(log[p])] = AskedFor[s]

(* Variant for mutation runs: take_while in place of filter_map. *)
Deliver_TakesWhile(s) ==
  /\ inbox[s] # <<>>
  /\ IF Matches(s, Head(inbox[s]))
     THEN /\ inbox' = [inbox EXCEPT ![s] = Tail(@)]
          /\ got' = [got EXCEPT ![s] = Append(@, Head(inbox[s]))]
     ELSE inbox' = [inbox EXCEPT ![s] = <<>>] /\ UNCHANGED got
  /\ NoFault /\ UNCHANGED sub /\ KeepJobs

Deliver(s) ==
  /\ inbox[s] # <<>>
  /\ inbox' = [inbox EXCEPT ![s] = Tail(@)]
  /\ got' = [got EXCEPT ![s] =
               IF Matches(s, Head(inbox[s])) THEN Append(@, Head(inbox[s]))
               ELSE @]
  /\ NoFault /\ UNCHANGED sub /\ KeepJobs

(* The connection is lost with what it still carries; the stream goes on   *)
(* and PgListener connects again, without a word to the subscriber.        *)
LoseConnection(s) ==
  /\ sub[s].at = "on"
  /\ sub' = [sub EXCEPT ![s].at = "away", ![s].whole = FALSE]
  /\ \E n \in 0 .. Len(inbox[s]) :
       inbox' = [inbox EXCEPT ![s] = SubSeq(@, 1, n)]
  /\ Fault /\ UNCHANGED got /\ KeepJobs

Reconnect(s) ==
  /\ sub[s].at = "away"
  /\ sub' = [sub EXCEPT ![s].at = "on"]
  /\ NoFault /\ UNCHANGED <<inbox, got>> /\ KeepJobs
-----------------------------------------------------------------------------
EventStep(j) ==
  \/ AddContent(j) \/ PinContent(j) \/ InsertEvent(j) \/ RecordContent(j)
  \/ Extract(j)

JobStep(j) ==
  \/ Create(j) \/ Take(j) \/ Reject(j) \/ GetEvents(j) \/ EventStep(j)
  \/ Commit(j) \/ StoreCommit(j) \/ Stamp(j) \/ QueueRetry(j) \/ SetStatus(j)
  \/ Crash(j)

RetryStep(j) ==
  \/ RetryCommit(j) \/ RetryStore(j) \/ RetryStamp(j) \/ RetryMark(j)
  \/ RetryResolve(j) \/ RetryCrash(j)

StreamStep(s) ==
  Subscribe(s) \/ Deliver(s) \/ LoseConnection(s) \/ Reconnect(s)

Next ==
  \/ \E j \in Jobs : JobStep(j) \/ RetryStep(j)
  \/ \E s \in Subscribers : StreamStep(s)

Spec == Init /\ [][Next]_vars
-----------------------------------------------------------------------------
(* Properties. *)

(* POST /verify: the hash is a committed root, or that of an event whose   *)
(* merkle_root is committed.                                               *)
verify_hash(h) ==
  \/ <<h>> \in commits
  \/ \E j \in Jobs : /\ root[j] \in commits
                     /\ \E i \in stamped[j] : ContentHash[events[j][i]] = h

(* POST /verify answers for a hash only if a root in the registry has it   *)
(* among its leaves, whichever jobs share the hash, whatever of their      *)
(* commits, rows and stamps got lost, and whoever retried them.            *)
VerifiedIsAnchored ==
  \A h \in Hashes : verify_hash(h) =>
    \E r \in anchored : \E i \in DOMAIN r : r[i] = h

(* What POST /verify has once confirmed it confirms for ever: no job,      *)
(* retry or failure after that takes a stamp or a commit back.             *)
VerifiedForever ==
  [][\A h \in Hashes : verify_hash(h) => verify_hash(h)']_vars

(* No prefix of a batch is ever committed: the root that a job commits,    *)
(* at once or by a retry, is over all events that it has read, and each of *)
(* them has a row, a pinned content and a row for its CID, which may be    *)
(* that of another job; a job that failed in the middle of its loop has no *)
(* root and no stamp.                                                      *)
Whole(j) ==
  IF root[j] = NoRoot THEN stamped[j] = {} /\ pmc[j] = "none"
  ELSE /\ stored[j] = Len(events[j])
       /\ root[j] = [i \in DOMAIN events[j] |-> ContentHash[events[j][i]]]
       /\ \A i \in DOMAIN events[j] :
            events[j][i] \in pinned /\ content[events[j][i]] # NoRow

WholeBatch == \A j \in Jobs : Whole(j)

(* With no SQL error, kill or lost connection, a completed job that had a  *)
(* TimestampClient is verified event by event, although the stamps are     *)
(* statements of their own and the commit may have been retried by others. *)
CompletedVerifies ==
  \A j \in Jobs :
    pc[j] = "completed" /\ root[j] # NoRoot /\ faults = 0 =>
      \A i \in DOMAIN events[j] : verify_hash(ContentHash[events[j][i]])

(* A subscriber is sent rows of the address it asked for, in the order of  *)
(* their INSERTs, each once and none from before it subscribed; if its     *)
(* connection was never lost, all of them.                                 *)
NoneElse(s) ==
  \A k \in DOMAIN got[s] :
    got[s][k] \in sub[s].from + 1 .. Len(log) /\ Matches(s, got[s][k])

Ascending(q) == \A k \in DOMAIN q : \A l \in 1 .. k - 1 : q[l] < q[k]

NoneMissing(s) ==
  sub[s].at = "on" /\ sub[s].whole =>
    \A p \in sub[s].from + 1 .. Len(log) :
      Matches(s, p) =>
        \/ \E k \in DOMAIN got[s] : got[s][k] = p
        \/ \E k \in DOMAIN inbox[s] : inbox[s][k] = p

StreamFaithful ==
  \A s \in Subscribers : NoneElse(s) /\ Ascending(got[s]) /\ NoneMissing(s)

(* The status column of a job: a worker that is killed leaves its row as   *)
(* it was.                                                                 *)
Status(j) ==
  IF pc[j] \in {"none", "queued", "pending_commit"} \cup Final THEN pc[j]
  ELSE "processing"

(* Executed event by event, its commit retried next to it, by whatever     *)
(* process, a job moves through its statuses as JobLifecycle promises.     *)
Lifecycle == INSTANCE JobLifecycle
               WITH Jobs <- Jobs, jobs <- [j \in Jobs |-> Status(j)]
LifecycleSpec == Lifecycle!Spec
-----------------------------------------------------------------------------
(* The inductive invariants of EventIndexProofs. *)

Looping == {"add", "pin", "insert", "record", "extract", "commit"}

(* How far a job is in its loops, from where it is in the code. *)
Position(j) ==
  /\ stored[j] <= Len(events[j]) /\ stamped[j] \subseteq 1 .. stored[j]
  /\ pc[j] \in {"none", "queued", "fetch"} => stored[j] = 0
  /\ pc[j] \in {"add", "pin", "insert"} => stored[j] < Len(events[j])
  /\ pc[j] \in {"record", "extract"} => stored[j] > 0
  /\ pc[j] = "commit" => stored[j] = Len(events[j]) /\ stored[j] > 0
  /\ pc[j] = "extract" => counted[j] < Budget
  /\ pc[j] = "stamp" => cur[j] \in 1 .. stored[j]

(* The events that a running loop has left behind are pinned and have a    *)
(* row for their CID, but for the one whose row is the next statement.     *)
Saved(j) ==
  /\ pc[j] = "insert" => NextEvent(j) \in pinned
  /\ pc[j] \in Looping =>
       \A i \in 1 .. stored[j] :
         /\ events[j][i] \in pinned
         /\ content[events[j][i]] # NoRow \/ (pc[j] = "record" /\ i = stored[j])

(* A root exists from the commit on, and whoever has seen a commit succeed *)
(* has it in the registry.                                                 *)
Rooted(j) ==
  /\ pc[j] \in Looping \cup {"none", "queued", "fetch"} => root[j] = NoRoot
  /\ pc[j] \in {"row", "stamp", "queue", "park", "pending_commit"} =>
       root[j] # NoRoot
  /\ root[j] = NoRoot => retry[j] = "idle"
  /\ root[j] # NoRoot => stored[j] > 0
  /\ pc[j] = "row" \/ retry[j] = "row" => root[j] \in anchored

JobInv(j) == Position(j) /\ Saved(j) /\ Rooted(j) /\ Whole(j)

IndInv == TypeOK /\ commits \subseteq anchored /\ \A j \in Jobs : JobInv(j)

(* The log has rows that were inserted; what waits for a subscriber comes  *)
(* after what it was sent, in order; and its first lost connection is      *)
(* remembered when it is back.                                             *)
LogInv ==
  \A p \in DOMAIN log : log[p][2] \in 1 .. stored[log[p][1]]

StreamInv(s) ==
  /\ NoneElse(s) /\ Ascending(got[s]) /\ NoneMissing(s)
  /\ sub[s].from <= Len(log) /\ Ascending(inbox[s])
  /\ \A l \in DOMAIN inbox[s] :
       /\ inbox[s][l] \in sub[s].from + 1 .. Len(log)
       /\ \A k \in DOMAIN got[s] : got[s][k] < inbox[s][l]
  /\ sub[s].at = "off" => got[s] = <<>> /\ inbox[s] = <<>>
  /\ sub[s].at = "away" => ~sub[s].whole

SendInv == LogInv /\ \A s \in Subscribers : StreamInv(s)
=============================================================================
