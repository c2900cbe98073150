------------------------ MODULE ConnectionPoolProofs ------------------------
(***************************************************************************)
(* Theorems about ConnectionPool, for any number of requests and           *)
(* subscriptions and any size of the pool.                                 *)
(***************************************************************************)
EXTENDS ConnectionPool, FiniteSetTheorems, TLAPS

(* Those who have a connection can be counted; who stands in line needs    *)
(* one, so that a subscription that listens has its own.                   *)
Waiting == \A c \in ToSet(queue) : at[c] \in Needing

IndInv == TypeOK /\ Waiting /\ IsFiniteSet(held)

-----------------------------------------------------------------------------
(* Where a stage leads: only "listen" to a stream, and to an error only    *)
(* when acquire() has timed out.                                           *)
LEMMA AfterStage ==
  ASSUME NEW x \in Needing PROVE After[x] \subseteq Stages \ {"refused", "ended"}
  BY DEF Needing, After, Stages, Resume

LEMMA OtherwiseStage ==
  ASSUME NEW x \in Needing PROVE Otherwise[x] \subseteq Stages \ {"streaming"}
  BY DEF Needing, After, Otherwise, Stages, Resume

LEMMA ResumeStage ==
  ASSUME NEW x \in DOMAIN Resume
  PROVE  Resume[x] \subseteq Stages \ {"streaming", "refused", "ended"}
  BY DEF Needing, After, Stages, Resume

LEMMA Apart == /\ "streaming" \notin Needing
               /\ DOMAIN Resume \cap (Needing \cup {"streaming"}) = {}
  BY DEF Needing, After, Resume

-----------------------------------------------------------------------------
(* The line: who joins it at its end and who leaves it from any place.     *)
LEMMA InLine == ASSUME NEW q \in Seq(Clients) PROVE ToSet(q) \subseteq Clients
  BY DEF ToSet

(* Two lines put together. *)
LEMMA Joined ==
  ASSUME NEW p \in Seq(Clients), NEW q \in Seq(Clients)
  PROVE  /\ p \o q \in Seq(Clients) /\ Len(p \o q) = Len(p) + Len(q)
         /\ \A k \in 1 .. Len(p) + Len(q) :
              (p \o q)[k] = IF k <= Len(p) THEN p[k] ELSE q[k - Len(p)]
  OBVIOUS

LEMMA JoinLine ==
  ASSUME NEW q \in Seq(Clients), IsInjective(q), NEW c \in Clients \ ToSet(q)
  PROVE  /\ Append(q, c) \in Seq(Clients) /\ IsInjective(Append(q, c))
         /\ ToSet(Append(q, c)) = ToSet(q) \cup {c}
  <1> DEFINE r == Append(q, c)
  <1>1. /\ Len(q) \in Nat /\ DOMAIN q = 1 .. Len(q) /\ \A k \in DOMAIN q : q[k] # c
        /\ r \in Seq(Clients) /\ DOMAIN r = 1 .. Len(q) + 1
        /\ r[Len(q) + 1] = c /\ \A k \in 1 .. Len(q) : r[k] = q[k]
    BY DEF ToSet
  <1> HIDE DEF r
  <1>2. IsInjective(r)
    BY <1>1 DEF IsInjective
  <1>3. ToSet(q) \cup {c} \subseteq ToSet(r)
    BY <1>1 DEF ToSet
  <1>4. ToSet(r) \subseteq ToSet(q) \cup {c}
    BY <1>1 DEF ToSet
  <1>5. QED
    BY <1>1, <1>2, <1>3, <1>4 DEF r

LEMMA LeaveLine ==
  ASSUME NEW q \in Seq(Clients), IsInjective(q), NEW i \in DOMAIN q
  PROVE  /\ RemoveAt(q, i) \in Seq(Clients) /\ IsInjective(RemoveAt(q, i))
         /\ ToSet(RemoveAt(q, i)) = ToSet(q) \ {q[i]}
  <1> DEFINE n == Len(q)
             a == SubSeq(q, 1, i - 1)
             b == SubSeq(q, i + 1, n)
             r == RemoveAt(q, i)
  <1>1. n \in Nat /\ DOMAIN q = 1 .. n /\ i \in 1 .. n
    OBVIOUS
  <1>2. a \in Seq(Clients) /\ Len(a) = i - 1 /\ \A k \in 1 .. i - 1 : a[k] = q[k]
    BY <1>1
  <1>3. b \in Seq(Clients) /\ Len(b) = n - i /\ \A k \in 1 .. n - i : b[k] = q[i + k]
    BY <1>1
  <1>4. /\ r \in Seq(Clients) /\ DOMAIN r = 1 .. n - 1
        /\ \A k \in 1 .. n - 1 : r[k] = IF k < i THEN q[k] ELSE q[k + 1]
    <2>1. r = a \o b
      BY DEF RemoveAt
    <2> HIDE DEF a, b, r
    <2>2. r \in Seq(Clients) /\ DOMAIN r = 1 .. n - 1
      <3>1. r \in Seq(Clients) /\ Len(r) = Len(a) + Len(b)
        BY <1>2, <1>3, <2>1, Joined
      <3>2. Len(r) = n - 1
        BY <1>1, <1>2, <1>3, <3>1
      <3>3. QED
        BY <3>1, <3>2
    <2>3. ASSUME NEW k \in 1 .. n - 1
          PROVE  r[k] = IF k < i THEN q[k] ELSE q[k + 1]
      <3>1. r[k] = IF k <= Len(a) THEN a[k] ELSE b[k - Len(a)]
        BY <1>1, <1>2, <1>3, <2>1, Joined
      <3>2. CASE k < i
        BY <1>1, <1>2, <3>1, <3>2
      <3>3. CASE k >= i
        <4>1. k - Len(a) \in 1 .. n - i /\ i + (k - Len(a)) = k + 1
          BY <1>1, <1>2, <3>3
        <4>2. b[k - Len(a)] = q[k + 1]
          BY <1>3, <4>1
        <4>3. QED
          BY <1>1, <1>2, <3>1, <3>3, <4>2
      <3>4. QED
        BY <1>1, <3>2, <3>3
    <2>4. QED
      BY <2>2, <2>3
  <1> HIDE DEF a, b, r
  <1>5. IsInjective(r)
    <2>1. ASSUME NEW k \in 1 .. n - 1, NEW l \in 1 .. n - 1, r[k] = r[l]
          PROVE  k = l
      <3>1. PICK k1 \in 1 .. n : /\ r[k] = q[k1]
                                /\ k1 = IF k < i THEN k ELSE k + 1
        BY <1>1, <1>4
      <3>2. PICK l1 \in 1 .. n : /\ r[l] = q[l1]
                                /\ l1 = IF l < i THEN l ELSE l + 1
        BY <1>1, <1>4
      <3>3. k1 = l1
        BY <1>1, <2>1, <3>1, <3>2 DEF IsInjective
      <3>4. QED
        BY <1>1, <3>1, <3>2, <3>3
    <2>2. QED
      BY <1>4, <2>1 DEF IsInjective
  <1>6. ASSUME NEW x \in ToSet(q) \ {q[i]} PROVE x \in ToSet(r)
    <2>1. PICK k \in 1 .. n : x = q[k] /\ k # i
      BY <1>6 DEF ToSet
    <2>2. CASE k < i
      BY <1>1, <1>4, <2>1, <2>2 DEF ToSet
    <2>3. CASE k > i
      <3>1. k - 1 \in 1 .. n - 1 /\ r[k - 1] = q[k]
        BY <1>1, <1>4, <2>3
      <3>2. QED
        BY <1>4, <2>1, <3>1 DEF ToSet
    <2>4. QED
      BY <1>1, <2>1, <2>2, <2>3
  <1>7. ASSUME NEW x \in ToSet(r) PROVE x \in ToSet(q) \ {q[i]}
    <2>1. PICK k \in 1 .. n - 1 : x = r[k]
      BY <1>4, <1>7 DEF ToSet
    <2>2. PICK l \in 1 .. n : x = q[l] /\ l # i
      BY <1>1, <1>4, <2>1
    <2>3. QED
      BY <1>1, <2>2 DEF ToSet, IsInjective
  <1>8. QED
    BY <1>4, <1>5, <1>6, <1>7 DEF r

LEMMA HeadLeaves ==
  ASSUME NEW q \in Seq(Clients), IsInjective(q), q # <<>>
  PROVE  /\ Head(q) \in Clients
         /\ Tail(q) \in Seq(Clients) /\ IsInjective(Tail(q))
         /\ ToSet(Tail(q)) = ToSet(q) \ {Head(q)} /\ Head(q) \in ToSet(q)
  <1>1. /\ Len(q) \in Nat \ {0} /\ Head(q) = q[1] /\ Head(q) \in Clients
        /\ DOMAIN q = 1 .. Len(q)
        /\ Tail(q) \in Seq(Clients) /\ DOMAIN Tail(q) = 1 .. Len(q) - 1
        /\ \A k \in 1 .. Len(q) - 1 : Tail(q)[k] = q[k + 1]
    OBVIOUS
  <1>2. IsInjective(Tail(q))
    BY <1>1 DEF IsInjective
  <1>3. Head(q) \in ToSet(q)
    BY <1>1 DEF ToSet
  <1>4. ASSUME NEW x \in ToSet(q) \ {Head(q)} PROVE x \in ToSet(Tail(q))
    <2>1. PICK k \in 2 .. Len(q) : x = q[k]
      BY <1>1, <1>4 DEF ToSet
    <2>2. k - 1 \in 1 .. Len(q) - 1 /\ Tail(q)[k - 1] = q[k]
      BY <1>1, <2>1
    <2>3. QED
      BY <1>1, <2>1, <2>2 DEF ToSet
  <1>5. ASSUME NEW x \in ToSet(Tail(q)) PROVE x \in ToSet(q) \ {Head(q)}
    <2>1. PICK k \in 1 .. Len(q) - 1 : x = q[k + 1]
      BY <1>1, <1>5 DEF ToSet
    <2>2. k + 1 \in DOMAIN q /\ 1 \in DOMAIN q /\ k + 1 # 1
      BY <1>1
    <2>3. QED
      BY <1>1, <2>1, <2>2 DEF ToSet, IsInjective
  <1>6. QED
    BY <1>1, <1>2, <1>3, <1>4, <1>5

-----------------------------------------------------------------------------
(* A client that goes on from where it is, with a line in which it does    *)
(* not stand and no connection, or one that it goes on to listen with.     *)
LEMMA GoesOn ==
  ASSUME TypeOK, Waiting, NEW c \in Clients, NEW s \in Stages,
         NEW line \in Seq(Clients), IsInjective(line), GoOn(c, s, line),
         ToSet(line) = ToSet(queue) \ {c},
         \/ held' = held \ {c} /\ s # "streaming"
         \/ held' = held \cup {c} /\ c \in held /\ s = "streaming"
  PROVE  /\ at' \in [Clients -> Stages]
         /\ queue' \in Seq(Clients) /\ IsInjective(queue')
         /\ held' \subseteq Clients \ ToSet(queue') /\ Waiting'
         /\ \A d \in Clients : d \in held' \cup ToSet(queue') <=>
                                 at'[d] \in Needing \cup {"streaming"}
  <1>1. at' \in [Clients -> Stages] /\ at'[c] = s
        /\ \A d \in Clients \ {c} : at'[d] = at[d]
    BY DEF GoOn, TypeOK
  <1>0. ToSet(queue) \subseteq Clients
    BY InLine DEF TypeOK
  <1>2. CASE s \in Needing
    <2>1. /\ queue' \in Seq(Clients) /\ IsInjective(queue')
          /\ ToSet(queue') = ToSet(line) \cup {c}
      BY <1>2, JoinLine DEF GoOn
    <2>2. ToSet(queue') = ToSet(queue) \cup {c} /\ held' = held \ {c}
      BY <1>2, <2>1, Apart
    <2>3. held' \subseteq Clients \ ToSet(queue')
      BY <2>2 DEF TypeOK
    <2>4. Waiting'
      BY <1>0, <1>1, <1>2, <2>2 DEF Waiting
    <2>5. ASSUME NEW d \in Clients
          PROVE  d \in held' \cup ToSet(queue') <=>
                   at'[d] \in Needing \cup {"streaming"}
      <3>1. CASE d = c
        BY <1>1, <1>2, <2>2, <3>1
      <3>2. CASE d # c
        BY <1>1, <2>2, <3>2 DEF TypeOK
      <3>3. QED
        BY <3>1, <3>2
    <2>6. QED
      BY <1>1, <2>1, <2>3, <2>4, <2>5
  <1>3. CASE s \notin Needing
    <2>1. queue' = line
      BY <1>3 DEF GoOn
    <2>2. /\ ToSet(queue') = ToSet(queue) \ {c}
          /\ held' = IF s = "streaming" THEN held ELSE held \ {c}
          /\ s = "streaming" => c \in held
      BY <2>1
    <2>3. held' \subseteq Clients \ ToSet(queue')
      BY <2>2 DEF TypeOK
    <2>4. Waiting'
      BY <1>0, <1>1, <2>2 DEF Waiting
    <2>5. ASSUME NEW d \in Clients
          PROVE  d \in held' \cup ToSet(queue') <=>
                   at'[d] \in Needing \cup {"streaming"}
      <3>1. CASE d = c
        BY <1>1, <1>3, <2>2, <3>1
      <3>2. CASE d # c
        BY <1>1, <2>2, <3>2 DEF TypeOK
      <3>3. QED
        BY <3>1, <3>2
    <2>6. QED
      BY <1>1, <2>1, <2>3, <2>4, <2>5
  <1>4. QED
    BY <1>2, <1>3

LEMMA Released ==
  ASSUME IndInv, NEW c, held' = held \ {c} \/ UNCHANGED held
  PROVE  IsFiniteSet(held') /\ Cardinality(held') <= MaxConnections
  <1>1. /\ IsFiniteSet(held) /\ Cardinality(held) \in Nat
        /\ Cardinality(held) <= MaxConnections
    BY FS_CardinalityType DEF IndInv, TypeOK
  <1>2. /\ IsFiniteSet(held \ {c})
        /\ Cardinality(held \ {c}) = IF c \in held THEN Cardinality(held) - 1
                                     ELSE Cardinality(held)
    BY <1>1, FS_RemoveElement
  <1>3. CASE UNCHANGED held
    BY <1>1, <1>3
  <1>4. CASE held' = held \ {c}
    BY <1>1, <1>2, <1>4, PoolOK
  <1>5. QED
    BY <1>3, <1>4

LEMMA IndInvStep == IndInv /\ [Next]_vars => IndInv'
  <1> SUFFICES ASSUME IndInv, [Next]_vars PROVE IndInv'
    OBVIOUS
  <1>0. TypeOK /\ Waiting
    BY DEF IndInv
  <1>1. ASSUME NEW c \in Clients, Begin(c) PROVE IndInv'
    <2>1. PICK s \in Resume[at[c]] : GoOn(c, s, queue)
      BY <1>1 DEF Begin
    <2>2. s \in Stages \ {"streaming"} /\ c \notin held \cup ToSet(queue)
      BY <1>0, <1>1, ResumeStage, Apart DEF Begin, TypeOK
    <2>3. held' = held \ {c} /\ UNCHANGED held
      BY <1>1, <2>2 DEF Begin
    <2>4. QED
      BY <1>0, <2>1, <2>2, <2>3, GoesOn, Released DEF IndInv, TypeOK
  <1>2. ASSUME NEW c \in Clients, Acquire(c) PROVE IndInv'
    <2>1. /\ queue' \in Seq(Clients) /\ IsInjective(queue')
          /\ ToSet(queue') = ToSet(queue) \ {c} /\ c \in ToSet(queue)
      BY <1>0, <1>2, HeadLeaves DEF Acquire, TypeOK
    <2>2. IsFiniteSet(held') /\ Cardinality(held') <= MaxConnections
      <3>1. /\ Cardinality(held) \in Nat /\ Cardinality(held) < MaxConnections
            /\ IsFiniteSet(held) /\ held' = held \cup {c}
        BY <1>2, FS_CardinalityType DEF Acquire, IndInv
      <3>2. QED
        BY <3>1, FS_AddElement, PoolOK
    <2>3. QED
      BY <1>0, <1>2, <2>1, <2>2 DEF Acquire, IndInv, TypeOK, Waiting
  <1>3. ASSUME NEW c \in Clients, Finish(c) PROVE IndInv'
    <2>1. PICK s \in After[at[c]] :
            /\ GoOn(c, s, queue)
            /\ held' = IF s = "streaming" THEN held ELSE held \ {c}
      BY <1>3 DEF Finish
    <2>2. s \in Stages /\ c \in held /\ c \notin ToSet(queue)
      BY <1>0, <1>3, AfterStage DEF Finish, TypeOK
    <2>3. \/ held' = held \ {c} /\ s # "streaming"
          \/ held' = held \cup {c} /\ c \in held /\ s = "streaming"
      BY <2>1, <2>2
    <2>4. QED
      BY <1>0, <2>1, <2>2, <2>3, GoesOn, Released DEF IndInv, TypeOK
  <1>4. ASSUME NEW c \in Clients, TimeOut(c) PROVE IndInv'
    <2>1. PICK i \in DOMAIN queue, s \in Otherwise[at[c]] :
            /\ queue[i] = c /\ GoOn(c, s, RemoveAt(queue, i))
            /\ held' = held \ {c}
      BY <1>4 DEF TimeOut
    <2>2. at[c] \in Needing
      BY <1>0, <2>1 DEF Waiting, ToSet
    <2>3. QED
      BY <1>0, <2>1, <2>2, LeaveLine, OtherwiseStage, GoesOn, Released
         DEF IndInv, TypeOK
  <1>5. ASSUME NEW c \in Clients, Leave(c) \/ Reconnect(c) PROVE IndInv'
    <2>1. PICK s \in {"off", "listen"} : GoOn(c, s, queue) /\ held' = held \ {c}
      BY <1>5 DEF Leave, Reconnect
    <2>2. s \in Stages \ {"streaming"}
      BY DEF Stages, Needing, After, Resume
    <2>3. c \notin ToSet(queue)
      BY <1>0, <1>5, Apart DEF Leave, Reconnect, Waiting
    <2>4. QED
      BY <1>0, <2>1, <2>2, <2>3, GoesOn, Released DEF IndInv, TypeOK
  <1>6. CASE UNCHANGED vars
    BY <1>6 DEF IndInv, TypeOK, Waiting, vars
  <1>7. QED
    BY <1>1, <1>2, <1>3, <1>4, <1>5, <1>6 DEF Next

-----------------------------------------------------------------------------
(* What a client is told, or does, when it has got no connection.          *)
Errors == {"refused", "ended"}

(* Who has a connection and is not about to give it back listens: nobody   *)
(* that has one stands in line.                                            *)
LEMMA StuckIsStarved == ASSUME IndInv, Stuck PROVE Starved
  <1>1. \A c \in held : at[c] = "streaming"
    BY DEF Stuck, Blocked, IndInv, TypeOK
  <1>2. {c \in held : at[c] = "streaming"} = held
    BY <1>1
  <1>3. QED
    BY <1>2 DEF Stuck, Starved

LEMMA RefusedStep ==
  ASSUME IndInv, [Next]_vars, NEW d \in Clients,
         at[d] # at'[d], at'[d] \in Errors
  PROVE  Starved
  <1>1. ASSUME NEW c \in Clients, NEW s, NEW line, GoOn(c, s, line),
               s \notin Errors
        PROVE  FALSE
    <2>1. at' = [at EXCEPT ![c] = s]
      BY <1>1 DEF GoOn
    <2>2. QED
      BY <1>1, <2>1 DEF IndInv, TypeOK
  <1>2. ASSUME NEW c \in Clients, Begin(c) PROVE FALSE
    BY <1>1, <1>2, ResumeStage DEF Begin, Errors
  <1>3. ASSUME NEW c \in Clients, Finish(c) PROVE FALSE
    BY <1>1, <1>3, AfterStage DEF Finish, Errors
  <1>4. ASSUME NEW c \in Clients, Leave(c) \/ Reconnect(c) PROVE FALSE
    BY <1>1, <1>4 DEF Leave, Reconnect, Errors
  <1>5. ASSUME NEW c \in Clients, TimeOut(c) PROVE Starved
    BY <1>5, StuckIsStarved DEF TimeOut
  <1>6. QED
    BY <1>2, <1>3, <1>4, <1>5 DEF Next, Acquire, vars

-----------------------------------------------------------------------------
(* The theorems, from PoolOK alone. *)

(* At no time are there more connections than max_connections, or a client *)
(* that waits for one while it has one.                                    *)
THEOREM Invariance == Spec => []IndInv
  <1>1. Init => IndInv
    <2> SUFFICES ASSUME Init PROVE IndInv
      OBVIOUS
    <2>1. at \in [Clients -> {"asleep", "pause", "idle", "off"}]
      BY DEF Init
    <2>2. {"asleep", "pause", "idle", "off"} \subseteq DOMAIN Resume
      BY DEF Resume
    <2>3. /\ queue = <<>> /\ ToSet(queue) = {} /\ IsInjective(queue)
          /\ queue \in Seq(Clients)
      BY DEF Init, ToSet, IsInjective
    <2>4. held = {} /\ IsFiniteSet(held) /\ Cardinality(held) <= MaxConnections
      BY FS_EmptySet, PoolOK DEF Init
    <2>5. at \in [Clients -> Stages]
      BY <2>1, <2>2 DEF Stages
    <2>6. QED
      BY <2>1, <2>2, <2>3, <2>4, <2>5, Apart DEF IndInv, TypeOK, Waiting
  <1>2. QED
    BY <1>1, IndInvStep, PTL DEF Spec

(* The pool keeps its bounds, and a client has or awaits a connection      *)
(* exactly when it is at a statement or listens.                           *)
THEOREM TypeCorrect == Spec => []TypeOK
  <1>1. IndInv => TypeOK
    BY DEF IndInv
  <1>2. QED
    BY <1>1, Invariance, PTL

(* A request is answered 500, and the worker ends, for want of a           *)
(* connection only while subscriptions have them all, however many         *)
(* requests, subscriptions and connections there are.                      *)
THEOREM RefusedOnlyIfStarvedHolds == Spec => RefusedOnlyIfStarved
  <1>1. IndInv /\ [Next]_vars =>
          [\A c \in Clients :
             at[c] # at'[c] /\ at'[c] \in {"refused", "ended"} => Starved]_vars
    BY RefusedStep DEF Errors
  <1>2. QED
    BY <1>1, Invariance, PTL DEF Spec, RefusedOnlyIfStarved
=============================================================================
