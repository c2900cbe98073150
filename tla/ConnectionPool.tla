--------------------------- MODULE ConnectionPool ---------------------------
(***************************************************************************)
(* The one PgPool of a server process (api/src/main.rs) and everybody who  *)
(* acquires from it: requests, the worker loop, the metrics task and the   *)
(* GraphQL subscriptions.  Who needs a connection waits in line; who has   *)
(* one keeps it for a statement, for a transaction or, a subscription, for *)
(* as long as its client listens.                                          *)
(*                                                                         *)
(* Time is left out: a statement or transaction is taken to end before the *)
(* acquire_timeout of whoever waits for its connection, so that a waiting  *)
(* client is refused only when no holder is about to give one back.        *)
(* Statements do not fail here; they do in JobPipeline and EventIndex.     *)
(***************************************************************************)
EXTENDS Integers, Sequences, FiniteSets, SequencesExt

CONSTANTS
  Requests,        \* requests under way, one after another in each slot
  Subscriptions,   \* likewise
  Worker, Metrics,
  MaxConnections   \* max_connections: 5

Tasks   == {Worker, Metrics}
Clients == Requests \cup Subscriptions \cup Tasks

ASSUME PoolOK ==
  /\ Requests \cap Subscriptions = {} /\ Tasks \cap (Requests \cup Subscriptions) = {}
  /\ Worker # Metrics /\ MaxConnections \in Nat \ {0}

VARIABLES
  at,     \* at[c]: what client c does, or is about to do
  queue,  \* those who wait in acquire(), in the order in which they came
  held    \* those who have a connection

vars == <<at, queue, held>>
-----------------------------------------------------------------------------
(* What comes after a stage that has had its connection.  A request runs a *)
(* statement, for all that its handler has, perhaps a transaction, and     *)
(* then writes its audit log; the worker scans pending commits, dequeues,  *)
(* executes the job and sets its status; a subscription listens.           *)
After ==
  [ query     |-> {"tx", "audit", "answered"},
    tx        |-> {"audit", "answered"},
    audit     |-> {"answered"},
    scan      |-> {"scan", "dequeue"},
    dequeue   |-> {"job", "asleep"},
    job       |-> {"job", "status"},
    status    |-> {"status", "hooks", "scan"},
    hooks     |-> {"scan"},
    workers   |-> {"depth"},
    depth     |-> {"pause"},
    listen    |-> {"streaming"} ]

(* What comes after a stage whose acquire() has timed out: an error is     *)
(* answered, logged or ignored, except that run_worker passes on that of   *)
(* update_status, and of the result_summary after it, and ends.            *)
Otherwise ==
  [ query     |-> {"refused"},
    tx        |-> {"refused"},
    audit     |-> {"answered"},
    scan      |-> {"scan", "dequeue"},
    dequeue   |-> {"asleep"},
    job       |-> {"job", "status"},
    status    |-> {"ended"},
    hooks     |-> {"scan"},
    workers   |-> {"depth"},
    depth     |-> {"pause"},
    listen    |-> {"off"} ]

(* Where a client needs no connection, and what it does next. *)
Resume ==
  [ idle |-> {"query"}, answered |-> {"idle"}, refused |-> {"idle"},
    asleep |-> {"scan"}, pause |-> {"workers"}, off |-> {"listen"} ]

Needing == DOMAIN After
Stages  == Needing \cup DOMAIN Resume \cup {"streaming", "ended"}

TypeOK ==
  /\ at \in [Clients -> Stages]
  /\ queue \in Seq(Clients) /\ IsInjective(queue)
  /\ held \subseteq Clients \ ToSet(queue)
  /\ Cardinality(held) <= MaxConnections
  /\ \A c \in Clients : c \in held \cup ToSet(queue) <=>
                          at[c] \in Needing \cup {"streaming"}

Init ==
  /\ at = [c \in Clients |-> IF c = Worker THEN "asleep"
                             ELSE IF c = Metrics THEN "pause"
                             ELSE IF c \in Requests THEN "idle" ELSE "off"]
  /\ queue = <<>> /\ held = {}
-----------------------------------------------------------------------------
(* Client c goes on to stage s, and in line for a connection if it needs   *)
(* one.                                                                    *)
GoOn(c, s, line) ==
  /\ at' = [at EXCEPT ![c] = s]
  /\ queue' = IF s \in Needing THEN Append(line, c) ELSE line

Begin(c) ==
  /\ at[c] \in DOMAIN Resume
  /\ \E s \in Resume[at[c]] : GoOn(c, s, queue)
  /\ UNCHANGED held

(* Variants for mutation runs: one connection too many; the last that came *)
(* is served first.                                                        *)
Acquire_OffByOne(c) ==
  /\ queue # <<>> /\ c = Head(queue)
  /\ Cardinality(held) <= MaxConnections
  /\ queue' = Tail(queue) /\ held' = held \cup {c}
  /\ UNCHANGED at

Acquire_LastFirst(c) ==
  /\ queue # <<>> /\ c = Last(queue)
  /\ Cardinality(held) < MaxConnections
  /\ queue' = Front(queue) /\ held' = held \cup {c}
  /\ UNCHANGED at

(* sqlx serves acquire() in the order of the calls. *)
Acquire(c) ==
  /\ queue # <<>> /\ c = Head(queue)
  /\ Cardinality(held) < MaxConnections
  /\ queue' = Tail(queue) /\ held' = held \cup {c}
  /\ UNCHANGED at

(* Variant for mutation runs: the audit log is written within the          *)
(* transaction, by a connection of its own.                                *)
Finish_NestedAudit(c) ==
  /\ c \in held /\ at[c] \in Needing
  /\ \E s \in After[at[c]] :
       /\ GoOn(c, s, queue)
       /\ held' = IF s = "streaming" \/ at[c] = "tx" THEN held ELSE held \ {c}

(* The statement, or the transaction, is over. *)
Finish(c) ==
  /\ c \in held /\ at[c] \in Needing
  /\ \E s \in After[at[c]] :
       /\ GoOn(c, s, queue)
       /\ held' = IF s = "streaming" THEN held ELSE held \ {c}

(* Nobody who has a connection is about to give it back. *)
Blocked(c) == at[c] = "streaming" \/ c \in ToSet(queue)
Stuck == /\ Cardinality(held) = MaxConnections
         /\ \A c \in held : Blocked(c)

(* acquire_timeout: 3 s. *)
TimeOut(c) ==
  /\ Stuck
  /\ \E i \in DOMAIN queue :
       /\ queue[i] = c
       /\ \E s \in Otherwise[at[c]] : GoOn(c, s, RemoveAt(queue, i))
  /\ held' = held \ {c}

(* The client of a subscription goes. *)
Leave(c) ==
  /\ at[c] = "streaming"
  /\ GoOn(c, "off", queue) /\ held' = held \ {c}

(* Its connection to the database is lost: PgListener acquires another.    *)
Reconnect(c) ==
  /\ at[c] = "streaming"
  /\ GoOn(c, "listen", queue) /\ held' = held \ {c}

Next ==
  \E c \in Clients :
    Begin(c) \/ Acquire(c) \/ Finish(c) \/ TimeOut(c) \/ Leave(c) \/ Reconnect(c)

Spec == Init /\ [][Next]_vars

(* Statements end, timers run, a connection that is free is handed out.    *)
(* No one has to send requests or to stop listening.                       *)
FairSpec ==
  /\ Spec
  /\ \A c \in Clients : WF_vars(Acquire(c)) /\ WF_vars(Finish(c))
                        /\ WF_vars(TimeOut(c))
-----------------------------------------------------------------------------
(* Properties. *)

(* Requests and the worker are never refused a connection because they     *)
(* wait for each other: nobody waits for a connection while it has one     *)
(* (an audit log is written after the transaction), so that a request is   *)
(* answered 500, and the worker ends for good, only at a moment when       *)
(* subscriptions have all connections.                                     *)
Starved == Cardinality({c \in held : at[c] = "streaming"}) = MaxConnections
RefusedOnlyIfStarved ==
  [][\A c \in Clients :
       at[c] # at'[c] /\ at'[c] \in {"refused", "ended"} => Starved]_vars

(* Every request is answered, if with 500, whatever holds the connections: *)
(* each statement gets one in its turn, or times out.                      *)
EveryRequestAnswered ==
  \A r \in Requests : at[r] = "query" ~> at[r] \in {"answered", "refused"}
=============================================================================
