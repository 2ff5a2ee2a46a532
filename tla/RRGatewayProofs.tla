--------------------------- MODULE RRGatewayProofs --------------------------
(***************************************************************************)
(* Theorems about the endpoint pool, for any set of endpoints, and that    *)
(* the gateway implements it, for any number of endpoints, requests, pod   *)
(* changes and chunks.                                                     *)
(***************************************************************************)
EXTENDS RRGateway, FiniteSetTheorems, SequenceTheorems, TLAPS

(***************************************************************************)
(* The pool                                                                  *)
(***************************************************************************)
USE UidsAssumption

\* The increment wraps at the length of the pool.
LEMMA WrapLemma ==
  ASSUME NEW n \in Nat \ {0}, NEW k \in 0..(n - 1)
  PROVE  /\ k % n = k
         /\ (k + 1) % n = IF k + 1 < n THEN k + 1 ELSE 0
<1>1. k % n = k
  OBVIOUS
<1>2. CASE k + 1 < n
  BY <1>2
<1>3. CASE k + 1 = n
  <2>1. n % n = 0
    OBVIOUS
  <2>. QED
    BY <1>3, <2>1
<1>. QED
  BY <1>1, <1>2, <1>3

\* A sorted pool is a sequence of uids.
LEMMA SortedLemma ==
  ASSUME NEW ready \in SUBSET Uids, NEW q \in Sorted(ready)
  PROVE  q \in Seq(Uids) /\ DOMAIN q = 1..Len(q)
<1>1. Cardinality(ready) \in Nat
  BY FS_Subset, FS_CardinalityType
<1>2. q \in [1..Cardinality(ready) -> Uids]
  BY DEF Sorted
<1>. QED
  BY <1>1, <1>2

\* The inductive invariant: the positions before the index are one pick ahead of
\* the last position, the others are level with it.
Turns ==
  \A i \in DOMAIN endpoints :
    picks[i] = picks[Len(endpoints)] + (IF i <= index THEN 1 ELSE 0)

LEMMA RRInitHolds == RRInit => RRTypeOK /\ Turns
<1>. SUFFICES ASSUME RRInit PROVE RRTypeOK /\ Turns
  OBVIOUS
<1>1. endpoints = <<>> /\ endpoints \in Seq(Uids) /\ DOMAIN endpoints = {}
  BY EmptySeq DEF RRInit
<1>2. picks \in [DOMAIN endpoints -> Nat]
  BY <1>1 DEF RRInit
<1>. QED
  BY <1>1, <1>2 DEF RRInit, RRTypeOK, Turns

LEMMA UpdateKeeps ==
  ASSUME RRTypeOK, Turns, NEW ready \in SUBSET Uids, update(ready)
  PROVE  (RRTypeOK /\ Turns)'
<1>1. PICK q \in Sorted(ready) :
        /\ endpoints' = q
        /\ IF q # endpoints
           THEN /\ index' = 0
                /\ epoch' = epoch + 1
                /\ picks' = [i \in DOMAIN q |-> 0]
           ELSE UNCHANGED <<index, epoch, picks>>
        /\ UNCHANGED sequence
  BY DEF update
<1>2. q \in Seq(Uids) /\ DOMAIN q = 1..Len(q) /\ Len(q) \in Nat
  BY SortedLemma, LenProperties
<1>3. CASE q = endpoints
  BY <1>1, <1>3 DEF RRTypeOK, Turns
<1>4. CASE q # endpoints
  <2>1. q # <<>> => Len(q) > 0
    BY <1>2, EmptySeq
  <2>2. RRTypeOK'
    BY <1>1, <1>2, <1>4, <2>1 DEF RRTypeOK
  <2>3. Turns'
    <3>1. ASSUME NEW i \in DOMAIN q
          PROVE  picks'[i] = picks'[Len(q)] + (IF i <= index' THEN 1 ELSE 0)
      BY <1>1, <1>2, <1>4, <3>1
    <3>. QED
      BY <1>1, <3>1 DEF Turns
  <2>. QED
    BY <2>2, <2>3
<1>. QED
  BY <1>3, <1>4

LEMMA SelectKeeps ==
  ASSUME RRTypeOK, Turns, select
  PROVE  (RRTypeOK /\ Turns)'
<1>. DEFINE n == Len(endpoints)
            k == index + 1
<1>1. /\ endpoints' = endpoints /\ endpoints \in Seq(Uids) /\ endpoints # <<>>
      /\ n \in Nat \ {0} /\ DOMAIN endpoints = 1..n /\ index \in 0..(n - 1)
  <2>1. endpoints' = endpoints /\ endpoints \in Seq(Uids) /\ endpoints # <<>>
    BY DEF select, RRTypeOK
  <2>2. n \in Nat \ {0} /\ DOMAIN endpoints = 1..n
    BY <2>1, EmptySeq, LenProperties
  <2>3. index \in Nat /\ index < n
    BY <2>1 DEF RRTypeOK
  <2>. QED
    BY <2>1, <2>2, <2>3
<1>2. /\ index % n = index
      /\ index' = IF k < n THEN k ELSE 0
  BY <1>1, WrapLemma DEF select
<1>3. k \in 1..n
  BY <1>1
<1>4. picks' = [picks EXCEPT ![k] = @ + 1] /\ picks \in [1..n -> Nat]
  BY <1>1, <1>2 DEF select, RRTypeOK
<1>. HIDE DEF n
<1>5. RRTypeOK'
  <2>1. picks' \in [1..n -> Nat]
    BY <1>3, <1>4
  <2>2. index' \in Nat /\ index' < n
    BY <1>1, <1>2
  <2>. QED
    BY <1>1, <2>1, <2>2 DEF select, RRTypeOK
<1>6. Turns'
  <2>. SUFFICES ASSUME NEW i \in 1..n
                PROVE  picks'[i] = picks'[n] + (IF i <= index' THEN 1 ELSE 0)
    BY <1>1 DEF Turns
  <2>1. picks[i] = picks[n] + (IF i <= index THEN 1 ELSE 0)
    BY <1>1 DEF Turns
  <2>2. /\ picks'[i] = IF i = k THEN picks[i] + 1 ELSE picks[i]
        /\ picks'[n] = IF n = k THEN picks[n] + 1 ELSE picks[n]
        /\ picks[i] \in Nat /\ picks[n] \in Nat
    BY <1>1, <1>3, <1>4
  <2>3. CASE k < n
    <3>1. index' = k /\ picks'[n] = picks[n]
      BY <1>1, <1>2, <2>2, <2>3
    <3>2. CASE i < k
      BY <1>1, <2>1, <2>2, <3>1, <3>2
    <3>3. CASE i = k
      BY <1>1, <2>1, <2>2, <3>1, <3>3
    <3>4. CASE i > k
      BY <1>1, <2>1, <2>2, <3>1, <3>4
    <3>. QED
      BY <1>1, <3>2, <3>3, <3>4
  <2>4. CASE k = n
    <3>1. index' = 0 /\ picks'[n] = picks[n] + 1
      BY <1>1, <1>2, <2>2, <2>4
    <3>2. CASE i < n
      BY <1>1, <2>1, <2>2, <2>4, <3>1, <3>2
    <3>3. CASE i = n
      BY <1>1, <2>1, <2>2, <2>4, <3>1, <3>3
    <3>. QED
      BY <1>1, <3>2, <3>3
  <2>. QED
    BY <1>1, <1>3, <2>3, <2>4
<1>. QED
  BY <1>5, <1>6

LEMMA RRInvariant == RRSpec => [](RRTypeOK /\ Turns)
<1>1. RRTypeOK /\ Turns /\ [RRNext]_pool => (RRTypeOK /\ Turns)'
  <2>. SUFFICES ASSUME RRTypeOK, Turns, [RRNext]_pool PROVE (RRTypeOK /\ Turns)'
    OBVIOUS
  <2>1. ASSUME NEW ready \in SUBSET Uids, update(ready) PROVE (RRTypeOK /\ Turns)'
    BY <2>1, UpdateKeeps
  <2>2. CASE select
    BY <2>2, SelectKeeps
  <2>3. CASE UNCHANGED pool
    BY <2>3 DEF pool, RRTypeOK, Turns
  <2>. QED
    BY <2>1, <2>2, <2>3 DEF RRNext
<1>. QED
  BY <1>1, RRInitHolds, PTL DEF RRSpec

\* The pool keeps its types, and its index stays inside it.
THEOREM RRTypeCorrect == RRSpec => []RRTypeOK
  BY RRInvariant, PTL

\* Within an epoch the picks of any two endpoints differ by at most one, for any
\* number of endpoints, updates and picks.
THEOREM RRBalanced == RRSpec => []Balanced
<1>1. RRTypeOK /\ Turns => Balanced
  <2>. SUFFICES ASSUME RRTypeOK, Turns,
                       NEW i \in DOMAIN endpoints, NEW j \in DOMAIN endpoints
                PROVE  picks[i] - picks[j] \in -1..1
    BY DEF Balanced
  <2>1. /\ picks[i] = picks[Len(endpoints)] + (IF i <= index THEN 1 ELSE 0)
        /\ picks[j] = picks[Len(endpoints)] + (IF j <= index THEN 1 ELSE 0)
    BY DEF Turns
  <2>2. picks[Len(endpoints)] \in Nat
    BY LenProperties DEF RRTypeOK
  <2>. QED
    BY <2>1, <2>2
<1>. QED
  BY <1>1, RRInvariant, PTL

(***************************************************************************)
(* The gateway                                                               *)
(***************************************************************************)
USE GatewayAssumption

\* What discovery may hand to update(): pods of the cluster.
ClusterType == up \subseteq Uids /\ candidates \subseteq Uids

\* A handler touches the pool in select() only.
LEMMA HandlerKeepsPool ==
  ASSUME NEW r \in Requests, HandlerStep(r)
  PROVE  select \/ UNCHANGED pool
<1>1. CASE Select(r)
  BY <1>1 DEF Select
<1>2. CASE RejectRequest(r) \/ ResponsePrepared(r) \/ Interrupted(r)
  BY <1>2 DEF RejectRequest, ResponsePrepared, Interrupted
<1>3. ASSUME NEW ok \in BOOLEAN, UpstreamHeaders(r, ok) PROVE UNCHANGED pool
  BY <1>3 DEF UpstreamHeaders
<1>4. ASSUME NEW isDone \in BOOLEAN, Chunk(r, isDone) PROVE UNCHANGED pool
  BY <1>4 DEF Chunk
<1>5. CASE ChunkOverBound(r) \/ ChunkWritten(r)
  BY <1>5 DEF ChunkOverBound, ChunkWritten
<1>6. CASE UpstreamEnds(r) \/ UpstreamEndsWithoutDone(r) \/ EofWritten(r)
  BY <1>6 DEF UpstreamEnds, UpstreamEndsWithoutDone, EofWritten
<1>. QED
  BY <1>1, <1>2, <1>3, <1>4, <1>5, <1>6 DEF HandlerStep

\* ... and never what discovery works on.
LEMMA HandlerKeepsCluster ==
  ASSUME NEW r \in Requests, HandlerStep(r)
  PROVE  UNCHANGED <<up, candidates>>
<1>1. CASE Select(r) \/ RejectRequest(r) \/ ResponsePrepared(r) \/ Interrupted(r)
  BY <1>1 DEF Select, RejectRequest, ResponsePrepared, Interrupted, Others, env, task
<1>2. ASSUME NEW ok \in BOOLEAN, UpstreamHeaders(r, ok)
      PROVE  UNCHANGED <<up, candidates>>
  BY <1>2 DEF UpstreamHeaders, Others, env, task
<1>3. ASSUME NEW isDone \in BOOLEAN, Chunk(r, isDone)
      PROVE  UNCHANGED <<up, candidates>>
  BY <1>3 DEF Chunk, Others, env, task
<1>4. CASE ChunkOverBound(r) \/ ChunkWritten(r)
  BY <1>4 DEF ChunkOverBound, ChunkWritten, Others, env, task
<1>5. CASE UpstreamEnds(r) \/ UpstreamEndsWithoutDone(r) \/ EofWritten(r)
  BY <1>5 DEF UpstreamEnds, UpstreamEndsWithoutDone, EofWritten, Others, env, task
<1>. QED
  BY <1>1, <1>2, <1>3, <1>4, <1>5 DEF HandlerStep

\* Every step of the gateway keeps discovery's sets within the cluster and is, to
\* the pool, an update, a select or nothing.
LEMMA GatewayStep ==
  ASSUME ClusterType, [GatewayNext]_gwVars
  PROVE  ClusterType' /\ [RRNext]_pool
<1>1. CASE ReadEndpoints
  BY <1>1 DEF ReadEndpoints, ClusterType, env
<1>2. CASE DiscoveryError
  <2>1. update({}) /\ UNCHANGED <<up, candidates>>
    BY <1>2 DEF DiscoveryError, env, task
  <2>. QED
    BY <2>1 DEF RRNext, ClusterType
<1>3. CASE UpdatePool
  <2>1. update(candidates \cap up) /\ candidates' = {} /\ up' = up
    BY <1>3 DEF UpdatePool, env
  <2>2. candidates \cap up \in SUBSET Uids
    BY DEF ClusterType
  <2>. QED
    BY <2>1, <2>2 DEF RRNext, ClusterType
<1>4. ASSUME NEW p \in Uids, UpdateWithSlowProbe(p)
      PROVE  ClusterType' /\ [RRNext]_pool
  <2>1. update((candidates \cap up) \ {p}) /\ candidates' = {} /\ up' = up
    BY <1>4 DEF UpdateWithSlowProbe
  <2>2. (candidates \cap up) \ {p} \in SUBSET Uids
    BY DEF ClusterType
  <2>. QED
    BY <2>1, <2>2 DEF RRNext, ClusterType
<1>5. ASSUME NEW p \in Uids, PodChanges(p)
      PROVE  ClusterType' /\ [RRNext]_pool
  BY <1>5 DEF PodChanges, ClusterType, task
<1>6. CASE ApiChanges \/ StartDraining \/ Cleanup
  BY <1>6 DEF ApiChanges, StartDraining, Cleanup, ClusterType, env, task
<1>7. ASSUME NEW r \in Requests, HandlerStep(r)
      PROVE  ClusterType' /\ [RRNext]_pool
  BY <1>7, HandlerKeepsPool, HandlerKeepsCluster DEF RRNext, ClusterType
<1>8. ASSUME NEW r \in Requests, NEW stream \in Streams, Arrive(r, stream)
      PROVE  ClusterType' /\ [RRNext]_pool
  BY <1>8 DEF Arrive, Others, env, task, ClusterType
<1>9. ASSUME NEW r \in Requests, RefuseWhileDraining(r) \/ Cancelled(r)
      PROVE  ClusterType' /\ [RRNext]_pool
  BY <1>9 DEF RefuseWhileDraining, Cancelled, Others, env, task, ClusterType
<1>10. CASE UNCHANGED gwVars
  BY <1>10 DEF gwVars, env, task, ClusterType
<1>. QED
  BY <1>1, <1>2, <1>3, <1>4, <1>5, <1>6, <1>7, <1>8, <1>9, <1>10
     DEF GatewayNext, Discovery

\* The gateway moves the pool by update and select alone, so what holds of the pool
\* with any callers holds in the gateway.
LEMMA GatewayImplementsPool == GatewaySpec => RRSpec
<1>1. GatewayInit => ClusterType /\ RRInit
  BY DEF GatewayInit, ClusterType
<1>2. ClusterType /\ [GatewayNext]_gwVars => ClusterType' /\ [RRNext]_pool
  BY GatewayStep
<1>. QED
  BY <1>1, <1>2, PTL DEF GatewaySpec, RRSpec

\* So the picks of an epoch stay balanced in the gateway too.
THEOREM GatewayBalanced == GatewaySpec => []Balanced
  BY GatewayImplementsPool, RRBalanced, PTL

(***************************************************************************)
(* The log                                                                   *)
(***************************************************************************)
\* What holds of one handler: got follows done except while a chunk is being written, a
\* record is emitted by the handlers that return after select() and by no other, and the two
\* halves of CompletedStreamsEndWithDone.
HandlerOK(x) ==
  /\ x \in HandlerType
  /\ x.pc \notin {"writing", "over"} => x.got = x.done
  /\ x.pc = "eof" => ~(x.stream /\ x.ok /\ ~x.done)
  /\ x.pc # "over" => x.status = "none" /\ x.reply = "none"
  /\ (x.route.sequence # 0) <=> (x.pc \in Selected \/ x.status # "none")
  /\ x.status = "completed" /\ x.stream => x.got
  /\ x.reply = "clean" /\ x.stream /\ x.ok => x.status = "completed"

HandlersOK == h \in [Requests -> HandlerType] /\ \A r \in Requests : HandlerOK(h[r])

\* The handler of r goes on to x and keeps its route.
Goes(r, x) == h' = [h EXCEPT ![r] = x] /\ HandlerOK(x) /\ x.route = h[r].route

\* A handler's step touches its own record alone.
LEMMA GoesKeeps ==
  ASSUME HandlersOK, NEW r \in Requests, NEW x, Goes(r, x)
  PROVE  HandlersOK' /\ \A q \in Requests : h'[q].route = h[q].route
<1>1. DOMAIN h' = Requests /\ \A q \in Requests : h'[q] = IF q = r THEN x ELSE h[q]
  BY DEF Goes, HandlersOK
<1>2. \A q \in Requests : HandlerOK(h'[q])
  BY <1>1 DEF Goes, HandlersOK
<1>3. h' \in [Requests -> HandlerType]
  BY DEF Goes, HandlersOK, HandlerOK
<1>. QED
  BY <1>1, <1>2, <1>3 DEF HandlersOK, Goes

\* The steps before the first chunk keep what holds of a handler, and its route.
LEMMA EarlyMoves ==
  ASSUME HandlersOK, NEW r \in Requests
  PROVE  /\ \A stream \in BOOLEAN : Arrive(r, stream) => \E x : Goes(r, x)
         /\ RefuseWhileDraining(r) => \E x : Goes(r, x)
         /\ RejectRequest(r) => \E x : Goes(r, x)
         /\ \A ok \in BOOLEAN : UpstreamHeaders(r, ok) => \E x : Goes(r, x)
         /\ ResponsePrepared(r) => \E x : Goes(r, x)
<1>. HandlerOK(h[r]) /\ h[r] \in HandlerType /\ 0 \in 0..MaxBody
  BY GatewayAssumption DEF HandlersOK, HandlerOK
<1>1. ASSUME NEW stream \in BOOLEAN, Arrive(r, stream) PROVE \E x : Goes(r, x)
  <2>. DEFINE x == [h[r] EXCEPT !.pc = "body", !.stream = stream]
  <2>1. h' = [h EXCEPT ![r] = x]
    BY <1>1 DEF Arrive, HandlersOK
  <2>2. HandlerOK(x)
    BY <1>1 DEF Arrive, HandlerOK, HandlerType, Selected, Unselected, Unprepared, Prepared
  <2>3. x.route = h[r].route
    BY DEF HandlerType
  <2>. HIDE DEF x
  <2>. QED
    BY <2>1, <2>2, <2>3 DEF Goes
<1>2. CASE RefuseWhileDraining(r)
  <2>. DEFINE x == [h[r] EXCEPT !.pc = "over",
                       !.status = "none",
                       !.reply = "error", !.chunks = 0, !.done = FALSE]
  <2>1. h' = [h EXCEPT ![r] = x]
    BY <1>2 DEF RefuseWhileDraining, Ends, HandlersOK
  <2>2. HandlerOK(x)
    BY <1>2 DEF RefuseWhileDraining, HandlerOK, HandlerType, Selected, Unselected, Unprepared, Prepared
  <2>3. x.route = h[r].route
    BY DEF HandlerType
  <2>. HIDE DEF x
  <2>. QED
    BY <2>1, <2>2, <2>3 DEF Goes
<1>3. CASE RejectRequest(r)
  <2>. DEFINE x == [h[r] EXCEPT !.pc = "over",
                       !.status = "none",
                       !.reply = "error", !.chunks = 0, !.done = FALSE]
  <2>1. h' = [h EXCEPT ![r] = x]
    BY <1>3 DEF RejectRequest, Ends, HandlersOK
  <2>2. HandlerOK(x)
    BY <1>3 DEF RejectRequest, HandlerOK, HandlerType, Selected, Unselected, Unprepared, Prepared
  <2>3. x.route = h[r].route
    BY DEF HandlerType
  <2>. HIDE DEF x
  <2>. QED
    BY <2>1, <2>2, <2>3 DEF Goes
<1>4. ASSUME NEW ok \in BOOLEAN, UpstreamHeaders(r, ok) PROVE \E x : Goes(r, x)
  <2>. DEFINE x == [h[r] EXCEPT !.pc = "preparing", !.ok = ok]
  <2>1. h' = [h EXCEPT ![r] = x]
    BY <1>4 DEF UpstreamHeaders, HandlersOK
  <2>2. HandlerOK(x)
    BY <1>4 DEF UpstreamHeaders, HandlerOK, HandlerType, Selected, Unselected, Unprepared, Prepared
  <2>3. x.route = h[r].route
    BY DEF HandlerType
  <2>. HIDE DEF x
  <2>. QED
    BY <2>1, <2>2, <2>3 DEF Goes
<1>5. CASE ResponsePrepared(r)
  <2>. DEFINE x == [h[r] EXCEPT !.pc = "streaming"]
  <2>1. h' = [h EXCEPT ![r] = x]
    BY <1>5 DEF ResponsePrepared, HandlersOK
  <2>2. HandlerOK(x)
    BY <1>5 DEF ResponsePrepared, HandlerOK, HandlerType, Selected, Unselected, Unprepared, Prepared
  <2>3. x.route = h[r].route
    BY DEF HandlerType
  <2>. HIDE DEF x
  <2>. QED
    BY <2>1, <2>2, <2>3 DEF Goes
<1>. QED
  BY <1>1, <1>2, <1>3, <1>4, <1>5

\* ... and so do those after it, and the ways out.
LEMMA LateMoves ==
  ASSUME HandlersOK, NEW r \in Requests
  PROVE  /\ \A isDone \in BOOLEAN : Chunk(r, isDone) => \E x : Goes(r, x)
         /\ ChunkOverBound(r) => \E x : Goes(r, x)
         /\ ChunkWritten(r) => \E x : Goes(r, x)
         /\ UpstreamEnds(r) => \E x : Goes(r, x)
         /\ UpstreamEndsWithoutDone(r) => \E x : Goes(r, x)
         /\ EofWritten(r) => \E x : Goes(r, x)
         /\ Interrupted(r) => \E x : Goes(r, x)
         /\ Cancelled(r) => \E x : Goes(r, x)
<1>. HandlerOK(h[r]) /\ h[r] \in HandlerType /\ 0 \in 0..MaxBody
  BY GatewayAssumption DEF HandlersOK, HandlerOK
<1>1. ASSUME NEW isDone \in BOOLEAN, Chunk(r, isDone) PROVE \E x : Goes(r, x)
  <2>. DEFINE x == [h[r] EXCEPT !.pc = "writing", !.chunks = @ + 1, !.done = @ \/ isDone]
  <2>1. h' = [h EXCEPT ![r] = x]
    BY <1>1 DEF Chunk, HandlersOK
  <2>2. HandlerOK(x)
    <3>1. x \in HandlerType
      <4>1. x.chunks \in 0..MaxBody /\ h[r].chunks \in 0..MaxBody
        BY <1>1 DEF Chunk, HandlerType
      <4>. QED
        BY <4>1 DEF HandlerType, Selected, Prepared
    <3>. QED
      BY <1>1, <3>1 DEF Chunk, HandlerOK, HandlerType, Selected, Unprepared, Prepared
  <2>3. x.route = h[r].route
    BY DEF HandlerType
  <2>. HIDE DEF x
  <2>. QED
    BY <2>1, <2>2, <2>3 DEF Goes
<1>2. CASE ChunkOverBound(r) \/ UpstreamEndsWithoutDone(r)
  <2>. DEFINE x == [h[r] EXCEPT !.pc = "over",
                       !.status = "interrupted",
                       !.reply = "cut", !.chunks = 0, !.done = FALSE]
  <2>1. h' = [h EXCEPT ![r] = x]
    BY <1>2 DEF ChunkOverBound, UpstreamEndsWithoutDone, Ends, HandlersOK
  <2>2. HandlerOK(x)
    BY <1>2
       DEF ChunkOverBound, UpstreamEndsWithoutDone, HandlerOK, HandlerType, Selected, Unselected,
           Unprepared, Prepared
  <2>3. x.route = h[r].route
    BY DEF HandlerType
  <2>. HIDE DEF x
  <2>. QED
    BY <2>1, <2>2, <2>3 DEF Goes
<1>3. CASE ChunkWritten(r)
  <2>. DEFINE x == [h[r] EXCEPT !.pc = "streaming", !.got = h[r].done]
  <2>1. h' = [h EXCEPT ![r] = x]
    BY <1>3 DEF ChunkWritten, HandlersOK
  <2>2. HandlerOK(x)
    BY <1>3 DEF ChunkWritten, HandlerOK, HandlerType, Selected, Unselected, Unprepared, Prepared
  <2>3. x.route = h[r].route
    BY DEF HandlerType
  <2>. HIDE DEF x
  <2>. QED
    BY <2>1, <2>2, <2>3 DEF Goes
<1>4. CASE UpstreamEnds(r)
  <2>. DEFINE x == [h[r] EXCEPT !.pc = "eof"]
  <2>1. h' = [h EXCEPT ![r] = x]
    BY <1>4 DEF UpstreamEnds, HandlersOK
  <2>2. HandlerOK(x)
    BY <1>4
       DEF UpstreamEnds, MissesDone, HandlerOK, HandlerType, Selected, Unselected, Unprepared, Prepared
  <2>3. x.route = h[r].route
    BY DEF HandlerType
  <2>. HIDE DEF x
  <2>. QED
    BY <2>1, <2>2, <2>3 DEF Goes
<1>5. CASE EofWritten(r)
  <2>. DEFINE x == [h[r] EXCEPT !.pc = "over",
                       !.status = IF h[r].ok THEN "completed" ELSE "upstream_error",
                       !.reply = "clean", !.chunks = 0, !.done = FALSE]
  <2>1. h' = [h EXCEPT ![r] = x]
    BY <1>5 DEF EofWritten, Ends, HandlersOK
  <2>2. HandlerOK(x)
    BY <1>5 DEF EofWritten, HandlerOK, HandlerType, Selected, Unselected, Unprepared, Prepared
  <2>3. x.route = h[r].route
    BY DEF HandlerType
  <2>. HIDE DEF x
  <2>. QED
    BY <2>1, <2>2, <2>3 DEF Goes
<1>6. CASE Interrupted(r)
  <2>. DEFINE x == [h[r] EXCEPT !.pc = "over",
                       !.status = "interrupted",
                       !.reply = IF h[r].pc \in Prepared THEN "cut" ELSE "error", !.chunks = 0, !.done = FALSE]
  <2>1. h' = [h EXCEPT ![r] = x]
    BY <1>6 DEF Interrupted, Ends, HandlersOK
  <2>2. HandlerOK(x)
    BY <1>6 DEF Interrupted, HandlerOK, HandlerType, Selected, Unselected, Unprepared, Prepared
  <2>3. x.route = h[r].route
    BY DEF HandlerType
  <2>. HIDE DEF x
  <2>. QED
    BY <2>1, <2>2, <2>3 DEF Goes
<1>7. CASE Cancelled(r)
  <2>. DEFINE x == [h[r] EXCEPT !.pc = "over",
                       !.status = IF h[r].pc = "body" THEN "none" ELSE "client_cancelled",
                       !.reply = "gone", !.chunks = 0, !.done = FALSE]
  <2>1. h' = [h EXCEPT ![r] = x]
    BY <1>7 DEF Cancelled, Ends, HandlersOK
  <2>2. HandlerOK(x)
    BY <1>7 DEF Cancelled, HandlerOK, HandlerType, Selected, Unselected, Unprepared, Prepared
  <2>3. x.route = h[r].route
    BY DEF HandlerType
  <2>. HIDE DEF x
  <2>. QED
    BY <2>1, <2>2, <2>3 DEF Goes
<1>. QED
  BY <1>1, <1>2, <1>3, <1>4, <1>5, <1>6, <1>7

\* The handlers that have picked, their routes, and the routes of an endpoint in an epoch.
Chosen == {r \in Requests : h[r].route.sequence # 0}
Routed == {h[r].route : r \in Chosen}
PicksOf(e, uid) == {x \in Routed : x.epoch = e /\ x.uid = uid}
PicksUpTo(x, uid) == {y \in Routed : y.epoch = x.epoch /\ y.sequence <= x.sequence /\ y.uid = uid}

\* Every pick is the route of one handler.
Numbered ==
  /\ IsFiniteSet(Chosen) /\ Cardinality(Chosen) = sequence
  /\ IsFiniteSet(Routed) /\ {x.sequence : x \in Routed} = 1..sequence

\* The epochs of the routes never go back, and an epoch has one pool without repetitions.
OnePool ==
  /\ \A i, j \in DOMAIN endpoints : endpoints[i] = endpoints[j] => i = j
  /\ \A x \in Routed :
       /\ x \in Routes /\ x.epoch <= epoch /\ x.uid \in {x.ready[k] : k \in DOMAIN x.ready}
       /\ x.epoch = epoch => x.ready = endpoints
  /\ \A x, y \in Routed :
       /\ x.epoch = y.epoch => x.ready = y.ready
       /\ x.sequence <= y.sequence => x.epoch <= y.epoch

\* The last route of the epoch is the one before the index, and the others follow one another.
Successive ==
  /\ \A x \in Routed : x.epoch = epoch /\ x.sequence = sequence =>
       \E k \in DOMAIN endpoints : endpoints[k] = x.uid /\ k % Len(endpoints) = index
  /\ \A x, y \in Routed : y.epoch = x.epoch /\ y.sequence = x.sequence + 1 =>
       \E k \in DOMAIN x.ready :
         x.ready[k] = x.uid /\ x.ready[(k % Len(x.ready)) + 1] = y.uid

\* The pool's history counts the routes of the epoch, and every prefix of an epoch is balanced.
Tallied ==
  /\ \A i \in DOMAIN endpoints : Cardinality(PicksOf(epoch, endpoints[i])) = picks[i]
  /\ \A x \in Routed : \A k, l \in DOMAIN x.ready :
       Cardinality(PicksUpTo(x, x.ready[k])) - Cardinality(PicksUpTo(x, x.ready[l])) \in -1..1

PoolOK == RRTypeOK /\ Turns
RoutesOK == Numbered /\ OnePool /\ Successive /\ Tallied

SameRoutes == \A q \in Requests : h'[q].route = h[q].route

\* What is made of the routes follows them.
LEMMA SameRoutesLemma ==
  ASSUME SameRoutes
  PROVE  /\ Chosen' = Chosen /\ Routed' = Routed
         /\ \A e, uid : PicksOf(e, uid)' = PicksOf(e, uid)
         /\ \A x, uid : PicksUpTo(x, uid)' = PicksUpTo(x, uid)
<1>1. Chosen' = Chosen
  BY DEF Chosen, SameRoutes
<1>2. Routed' = Routed
  BY <1>1 DEF Routed, Chosen, SameRoutes
<1>. QED
  BY <1>1, <1>2 DEF PicksOf, PicksUpTo

\* A step that leaves the pool and the routes.
LEMMA SameKeeps ==
  ASSUME RoutesOK, SameRoutes, UNCHANGED pool
  PROVE  RoutesOK'
<1>1. UNCHANGED <<endpoints, index, epoch, sequence, picks>>
  BY DEF pool
<1>. QED
  BY <1>1, SameRoutesLemma DEF RoutesOK, Numbered, OnePool, Successive, Tallied

\* A sorted pool has no repetitions.
LEMMA SortedDistinct ==
  ASSUME NEW ready \in SUBSET Uids, NEW q \in Sorted(ready)
  PROVE  \A i, j \in DOMAIN q : q[i] = q[j] => i = j
<1>1. Cardinality(ready) \in Nat
  BY FS_Subset, FS_CardinalityType
<1>2. q \in [1..Cardinality(ready) -> Uids]
  BY DEF Sorted
<1>. SUFFICES ASSUME NEW i \in DOMAIN q, NEW j \in DOMAIN q, q[i] = q[j] PROVE i = j
  OBVIOUS
<1>3. i \in Int /\ j \in Int /\ q[i] \in Int /\ q[j] \in Int
  <2>1. \A u \in Uids : u \in Int
    BY UidsAssumption
  <2>2. DOMAIN q = 1..Cardinality(ready) /\ q[i] \in Uids /\ q[j] \in Uids
    BY <1>2
  <2>3. i \in Int /\ j \in Int
    BY <1>1, <2>2
  <2>4. q[i] \in Int /\ q[j] \in Int
    BY <2>1, <2>2
  <2>. QED
    BY <2>3, <2>4
<1>4. \A m, n \in DOMAIN q : m < n => q[m] < q[n]
  BY DEF Sorted
<1>5. ~(i < j) /\ ~(j < i)
  BY <1>3, <1>4
<1>. QED
  BY <1>3, <1>5

\* An update either changes nothing or begins an epoch that has no route yet.
LEMMA UpdateRoutes ==
  ASSUME PoolOK, RoutesOK, SameRoutes, NEW ready \in SUBSET Uids, update(ready)
  PROVE  RoutesOK'
<1>1. PICK q \in Sorted(ready) :
        /\ endpoints' = q
        /\ IF q # endpoints
           THEN /\ index' = 0
                /\ epoch' = epoch + 1
                /\ picks' = [i \in DOMAIN q |-> 0]
           ELSE UNCHANGED <<index, epoch, picks>>
        /\ UNCHANGED sequence
  BY DEF update
<1>2. CASE q = endpoints
  BY <1>1, <1>2, SameKeeps DEF pool
<1>3. CASE q # endpoints
  <2>1. /\ Chosen' = Chosen /\ Routed' = Routed
        /\ \A e, uid : PicksOf(e, uid)' = PicksOf(e, uid)
        /\ \A x, uid : PicksUpTo(x, uid)' = PicksUpTo(x, uid)
    BY SameRoutesLemma
  <2>2. epoch \in Nat /\ epoch' = epoch + 1 /\ \A x \in Routed : x.epoch \in Nat /\ x.epoch <= epoch
    BY <1>1, <1>3 DEF PoolOK, RRTypeOK, RoutesOK, OnePool, Routes
  <2>3. \A x \in Routed : x.epoch <= epoch' /\ x.epoch # epoch'
    BY <2>2
  <2>4. Numbered'
    BY <1>1, <2>1 DEF RoutesOK, Numbered
  <2>5. OnePool'
    BY <1>1, <2>1, <2>3, SortedDistinct DEF RoutesOK, OnePool
  <2>6. Successive'
    BY <1>1, <2>1, <2>3 DEF RoutesOK, Successive
  <2>7. ASSUME NEW i \in DOMAIN endpoints'
        PROVE  Cardinality(PicksOf(epoch, endpoints[i])') = picks'[i]
    <3>1. PicksOf(epoch, endpoints[i])' = {}
      BY <2>1, <2>3 DEF PicksOf
    <3>2. picks'[i] = 0
      BY <1>1, <1>3, <2>7
    <3>. QED
      BY <3>1, <3>2, FS_EmptySet
  <2>8. Tallied'
    <3>1. \A x \in Routed : \A k, l \in DOMAIN x.ready :
            Cardinality(PicksUpTo(x, x.ready[k])') - Cardinality(PicksUpTo(x, x.ready[l])') \in -1..1
      BY <2>1 DEF RoutesOK, Tallied
    <3>. QED
      BY <2>1, <2>7, <3>1 DEF Tallied
  <2>. QED
    BY <2>4, <2>5, <2>6, <2>8 DEF RoutesOK
<1>. QED
  BY <1>2, <1>3

\* The pick that a handler makes, and where it stands in the pool.
LEMMA PickLemma ==
  ASSUME PoolOK, select
  PROVE  /\ Len(endpoints) \in Nat \ {0} /\ DOMAIN endpoints = 1..Len(endpoints)
         /\ index \in 0..(Len(endpoints) - 1) /\ index + 1 \in DOMAIN endpoints
         /\ Picked = endpoints[index + 1] /\ Picked \in Uids
         /\ endpoints' = endpoints /\ epoch' = epoch /\ sequence' = sequence + 1
         /\ index' = (index + 1) % Len(endpoints)
         /\ picks' = [picks EXCEPT ![index + 1] = @ + 1]
         /\ picks \in [DOMAIN endpoints -> Nat]
<1>1. endpoints' = endpoints /\ endpoints \in Seq(Uids) /\ endpoints # <<>>
  BY DEF select, PoolOK, RRTypeOK
<1>2. Len(endpoints) \in Nat \ {0} /\ DOMAIN endpoints = 1..Len(endpoints)
  BY <1>1, EmptySeq, LenProperties
<1>3. index \in 0..(Len(endpoints) - 1)
  BY <1>1, <1>2 DEF PoolOK, RRTypeOK
<1>4. index % Len(endpoints) = index
  BY <1>2, <1>3, WrapLemma
<1>5. index + 1 \in DOMAIN endpoints
  BY <1>2, <1>3
<1>6. Picked = endpoints[index + 1] /\ Picked \in Uids
  BY <1>1, <1>2, <1>4, <1>5, ElementOfSeq DEF Picked
<1>. QED
  BY <1>1, <1>2, <1>3, <1>4, <1>5, <1>6 DEF select, PoolOK, RRTypeOK

\* What a select() adds: one handler and one route, later than every other.
Adds(r, x) ==
  /\ r \in Requests /\ r \notin Chosen /\ x \notin Routed
  /\ Chosen' = Chosen \cup {r} /\ Routed' = Routed \cup {x}
  /\ x = [epoch |-> epoch, sequence |-> sequence + 1, uid |-> endpoints[index + 1], ready |-> endpoints]
  /\ \A y \in Routed : y.sequence \in 1..sequence

\* Select() gives its handler the next sequence number.
LEMMA SelectAdds ==
  ASSUME PoolOK, RoutesOK, HandlersOK, NEW r \in Requests, Select(r)
  PROVE  HandlersOK' /\ \E x : Adds(r, x)
<1>. DEFINE x == [epoch |-> epoch, sequence |-> sequence', uid |-> Picked, ready |-> endpoints]
            y == [h[r] EXCEPT !.pc = "posting", !.route = x]
<1>1. select /\ h[r].pc = "body" /\ HandlerOK(h[r]) /\ h[r] \in HandlerType /\ sequence \in Nat /\ epoch \in Nat
      /\ endpoints \in Seq(Uids)
  BY DEF Select, HandlersOK, HandlerOK, PoolOK, RRTypeOK
<1>2. sequence' = sequence + 1 /\ Picked \in Uids /\ Picked = endpoints[index + 1]
  BY <1>1, PickLemma
<1>3. x \in Routes
  BY <1>1, <1>2 DEF Routes
<1>4. h' = [h EXCEPT ![r] = y]
  BY DEF Select, HandlersOK
<1>5. HandlerOK(y)
  <2>1. y \in HandlerType
    BY <1>1, <1>3 DEF HandlerType, Selected, Unprepared
  <2>2. y.route.sequence # 0 /\ y.pc = "posting" /\ y.status = "none" /\ y.reply = "none" /\ y.got = h[r].got
        /\ y.done = h[r].done /\ h[r].got = h[r].done
    BY <1>1, <1>2 DEF HandlerOK, HandlerType
  <2>. HIDE DEF y
  <2>. QED
    BY <2>1, <2>2 DEF HandlerOK, Selected, Unprepared
<1>6. y.route = x /\ x.sequence = sequence + 1
  BY <1>1, <1>2 DEF HandlerType
<1>. HIDE DEF x, y
<1>7. DOMAIN h' = Requests /\ \A q \in Requests : h'[q] = IF q = r THEN y ELSE h[q]
  BY <1>4 DEF HandlersOK
<1>8. HandlersOK'
  <2>1. h' \in [Requests -> HandlerType]
    BY <1>4, <1>5 DEF HandlersOK, HandlerOK
  <2>. QED
    BY <1>5, <1>7, <2>1 DEF HandlersOK
<1>9. \A z \in Routed : z.sequence \in 1..sequence
  BY DEF RoutesOK, Numbered
<1>10. r \notin Chosen /\ x \notin Routed
  BY <1>1, <1>6, <1>9 DEF Chosen, HandlerOK, Selected, Unprepared, Prepared
<1>11. Chosen' = Chosen \cup {r}
  BY <1>1, <1>6, <1>7 DEF Chosen
<1>12. Routed' = Routed \cup {x}
  <2>1. Routed' = {h'[q].route : q \in Chosen \cup {r}}
    BY <1>11 DEF Routed
  <2>2. \A q \in Chosen : h'[q].route = h[q].route
    BY <1>7, <1>10 DEF Chosen
  <2>. QED
    BY <1>6, <1>7, <2>1, <2>2 DEF Routed
<1>. QED
  BY <1>2, <1>8, <1>9, <1>10, <1>11, <1>12 DEF Adds, x

\* One handler and one number more.
LEMMA AddsNumbered ==
  ASSUME PoolOK, RoutesOK, select, NEW r, NEW x, Adds(r, x)
  PROVE  Numbered'
<1>1. sequence' = sequence + 1 /\ sequence \in Nat /\ x.sequence = sequence + 1
  BY PickLemma DEF PoolOK, RRTypeOK, Adds
<1>2. IsFiniteSet(Chosen') /\ Cardinality(Chosen') = sequence'
  BY <1>1, FS_AddElement DEF Adds, RoutesOK, Numbered
<1>3. IsFiniteSet(Routed')
  BY FS_AddElement DEF Adds, RoutesOK, Numbered
<1>4. {y.sequence : y \in Routed'} = {y.sequence : y \in Routed} \cup {x.sequence}
  BY DEF Adds
<1>5. 1..sequence' = 1..sequence \cup {sequence + 1}
  BY <1>1
<1>. QED
  BY <1>1, <1>2, <1>3, <1>4, <1>5 DEF Numbered, RoutesOK

\* The new route is of the current epoch, and no route is later.
LEMMA AddsOnePool ==
  ASSUME PoolOK, RoutesOK, select, NEW r, NEW x, Adds(r, x)
  PROVE  OnePool'
<1>1. /\ endpoints' = endpoints /\ epoch' = epoch /\ sequence' = sequence + 1 /\ index + 1 \in DOMAIN endpoints
      /\ endpoints[index + 1] \in Uids /\ endpoints \in Seq(Uids) /\ epoch \in Nat /\ sequence \in Nat
  BY PickLemma DEF PoolOK, RRTypeOK
<1>2. x \in Routes /\ x.epoch = epoch /\ x.ready = endpoints /\ x.uid = endpoints[index + 1] /\ x.sequence = sequence + 1
  BY <1>1 DEF Adds, Routes
<1>3. Routed' = Routed \cup {x} /\ \A y \in Routed : y.sequence \in 1..sequence /\ y.epoch \in Nat /\ y.epoch <= epoch
  BY DEF Adds, RoutesOK, OnePool, Routes
<1>4. \A i, j \in DOMAIN endpoints : endpoints[i] = endpoints[j] => i = j
  BY DEF RoutesOK, OnePool
<1>5. ASSUME NEW y \in Routed'
      PROVE  /\ y \in Routes /\ y.epoch <= epoch /\ y.uid \in {y.ready[k] : k \in DOMAIN y.ready}
             /\ y.epoch = epoch => y.ready = endpoints
  BY <1>1, <1>2, <1>3, <1>5 DEF RoutesOK, OnePool
<1>6. ASSUME NEW y \in Routed', NEW z \in Routed'
      PROVE  /\ y.epoch = z.epoch => y.ready = z.ready
             /\ y.sequence <= z.sequence => y.epoch <= z.epoch
  <2>1. CASE y \in Routed /\ z \in Routed
    BY <2>1 DEF RoutesOK, OnePool
  <2>2. CASE y = x /\ z = x
    BY <1>1, <1>2, <2>2
  <2>3. CASE y \in Routed /\ z = x
    BY <1>1, <1>2, <1>3, <1>5, <2>3
  <2>4. CASE y = x /\ z \in Routed
    <3>1. ~(y.sequence <= z.sequence)
      BY <1>1, <1>2, <1>3, <2>4
    <3>. QED
      BY <1>2, <1>5, <2>4, <3>1
  <2>. QED
    BY <1>3, <2>1, <2>2, <2>3, <2>4
<1>. QED
  BY <1>1, <1>4, <1>5, <1>6 DEF OnePool

\* The new route is one position after the last one of its epoch, if there is one.
LEMMA AddsSuccessive ==
  ASSUME PoolOK, RoutesOK, select, NEW r, NEW x, Adds(r, x)
  PROVE  Successive'
<1>1. /\ endpoints' = endpoints /\ epoch' = epoch /\ sequence' = sequence + 1 /\ index + 1 \in DOMAIN endpoints
      /\ index' = (index + 1) % Len(endpoints) /\ sequence \in Nat
  BY PickLemma DEF PoolOK, RRTypeOK
<1>2. x.epoch = epoch /\ x.ready = endpoints /\ x.uid = endpoints[index + 1] /\ x.sequence = sequence + 1
  BY DEF Adds
<1>3. Routed' = Routed \cup {x} /\ \A y \in Routed : y.sequence \in 1..sequence
  BY DEF Adds
<1>4. ASSUME NEW y \in Routed', y.epoch = epoch, y.sequence = sequence + 1
      PROVE  \E k \in DOMAIN endpoints : endpoints[k] = y.uid /\ k % Len(endpoints) = index'
  <2>1. y = x
    BY <1>1, <1>3, <1>4
  <2>. QED
    BY <1>1, <1>2, <2>1
<1>5. ASSUME NEW y \in Routed', NEW z \in Routed', z.epoch = y.epoch, z.sequence = y.sequence + 1
      PROVE  \E k \in DOMAIN y.ready :
               y.ready[k] = y.uid /\ y.ready[(k % Len(y.ready)) + 1] = z.uid
  <2>1. CASE y \in Routed /\ z \in Routed
    BY <1>5, <2>1 DEF RoutesOK, Successive
  <2>2. CASE y = x
    BY <1>1, <1>2, <1>3, <1>5, <2>2
  <2>3. CASE y \in Routed /\ z = x
    <3>1. y.epoch = epoch /\ y.sequence = sequence /\ y.ready = endpoints
      BY <1>1, <1>2, <1>3, <1>5, <2>3 DEF RoutesOK, OnePool
    <3>2. PICK k \in DOMAIN endpoints : endpoints[k] = y.uid /\ k % Len(endpoints) = index
      BY <2>3, <3>1 DEF RoutesOK, Successive
    <3>. QED
      BY <1>2, <2>3, <3>1, <3>2
  <2>. QED
    BY <1>3, <2>1, <2>2, <2>3
<1>. QED
  BY <1>1, <1>4, <1>5 DEF Successive

\* The new route is one more for its endpoint, and the others keep their counts: after it the
\* epoch is as balanced as the pool.
LEMMA AddsTallied ==
  ASSUME PoolOK, PoolOK', RoutesOK, select, NEW r, NEW x, Adds(r, x)
  PROVE  Tallied'
<1>1. /\ endpoints' = endpoints /\ epoch' = epoch /\ sequence' = sequence + 1 /\ index + 1 \in DOMAIN endpoints
      /\ sequence \in Nat /\ picks \in [DOMAIN endpoints -> Nat]
      /\ picks' = [picks EXCEPT ![index + 1] = @ + 1]
  BY PickLemma DEF PoolOK, RRTypeOK
<1>2. x.epoch = epoch /\ x.ready = endpoints /\ x.uid = endpoints[index + 1] /\ x.sequence = sequence + 1
  BY DEF Adds
<1>3. /\ x \notin Routed /\ Routed' = Routed \cup {x} /\ \A y \in Routed : y.sequence \in 1..sequence
      /\ IsFiniteSet(Routed)
  BY DEF Adds, RoutesOK, Numbered
<1>4. \A i, j \in DOMAIN endpoints : endpoints[i] = endpoints[j] => i = j
  BY DEF RoutesOK, OnePool
<1>5. ASSUME NEW i \in DOMAIN endpoints
      PROVE  Cardinality(PicksOf(epoch, endpoints[i])') = picks'[i]
  <2>. DEFINE S == PicksOf(epoch, endpoints[i])
              T == PicksOf(epoch, endpoints[i])'
  <2>1. IsFiniteSet(S) /\ Cardinality(S) = picks[i] /\ x \notin S
    <3>1. S \subseteq Routed
      BY DEF PicksOf
    <3>2. Cardinality(S) = picks[i]
      BY DEF RoutesOK, Tallied
    <3>. HIDE DEF S
    <3>. QED
      BY <1>3, <3>1, <3>2, FS_Subset
  <2>2. CASE i = index + 1
    <3>1. T = S \cup {x}
      BY <1>1, <1>2, <1>3, <2>2 DEF PicksOf
    <3>2. picks'[i] = picks[i] + 1
      BY <1>1, <2>2
    <3>. HIDE DEF S, T
    <3>3. Cardinality(T) = picks'[i]
      BY <2>1, <3>1, <3>2, FS_AddElement
    <3>. QED
      BY <3>3 DEF T
  <2>3. CASE i # index + 1
    <3>1. x.uid # endpoints[i]
      BY <1>1, <1>2, <1>4, <2>3
    <3>2. T = S
      BY <1>1, <1>3, <3>1 DEF PicksOf
    <3>3. picks'[i] = picks[i]
      BY <1>1, <2>3
    <3>. QED
      BY <2>1, <3>2, <3>3
  <2>. QED
    BY <2>2, <2>3
<1>6. ASSUME NEW y \in Routed, NEW uid
      PROVE  PicksUpTo(y, uid)' = PicksUpTo(y, uid)
  <2>1. ~(x.sequence <= y.sequence)
    BY <1>1, <1>2, <1>3
  <2>. QED
    BY <1>3, <2>1 DEF PicksUpTo
<1>7. ASSUME NEW uid
      PROVE  PicksUpTo(x, uid)' = PicksOf(epoch, uid)'
  <2>1. \A y \in Routed' : y.sequence <= x.sequence
    BY <1>1, <1>2, <1>3
  <2>. QED
    BY <1>1, <1>2, <2>1 DEF PicksUpTo, PicksOf
<1>8. ASSUME NEW k \in DOMAIN endpoints, NEW l \in DOMAIN endpoints
      PROVE  picks'[k] - picks'[l] \in -1..1
  <2>1. /\ picks'[k] = picks'[Len(endpoints')] + (IF k <= index' THEN 1 ELSE 0)
        /\ picks'[l] = picks'[Len(endpoints')] + (IF l <= index' THEN 1 ELSE 0)
    BY <1>1, <1>8 DEF PoolOK, Turns
  <2>2. picks'[Len(endpoints')] \in Nat
    <3>1. Len(endpoints) \in DOMAIN endpoints
      BY PickLemma
    <3>. QED
      BY <1>1, <3>1
  <2>. QED
    BY <2>1, <2>2
<1>9. ASSUME NEW y \in Routed', NEW k \in DOMAIN y.ready, NEW l \in DOMAIN y.ready
      PROVE  Cardinality(PicksUpTo(y, y.ready[k])') - Cardinality(PicksUpTo(y, y.ready[l])') \in -1..1
  <2>1. CASE y \in Routed
    BY <1>6, <1>9, <2>1 DEF RoutesOK, Tallied
  <2>2. CASE y = x
    <3>1. k \in DOMAIN endpoints /\ l \in DOMAIN endpoints
      BY <1>2, <1>9, <2>2
    <3>2. /\ PicksUpTo(x, endpoints[k])' = PicksOf(epoch, endpoints[k])'
          /\ PicksUpTo(x, endpoints[l])' = PicksOf(epoch, endpoints[l])'
      <4>1. \A u : PicksUpTo(x, u)' = PicksOf(epoch, u)'
        BY <1>7
      <4>. QED
        BY <1>1, <4>1
    <3>3. /\ Cardinality(PicksUpTo(x, endpoints[k])') = picks'[k]
          /\ Cardinality(PicksUpTo(x, endpoints[l])') = picks'[l]
      BY <1>1, <1>5, <3>1, <3>2
    <3>4. y.ready = endpoints
      BY <1>2, <2>2
    <3>. QED
      BY <1>1, <1>8, <2>2, <3>1, <3>3, <3>4
  <2>. QED
    BY <1>3, <2>1, <2>2
<1>10. \A i \in DOMAIN endpoints' : Cardinality(PicksOf(epoch, endpoints[i])') = picks'[i]
  BY <1>1, <1>5
<1>. QED
  BY <1>9, <1>10 DEF Tallied

\* The rest of the gateway's types.
KnobsOK ==
  /\ apiUp \in BOOLEAN /\ trouble \in 0..MaxTrouble /\ discovering \in {"read", "probe"}
  /\ draining \in BOOLEAN /\ stopped \in BOOLEAN

\* The inductive invariant of the gateway.
GatewayIInv == PoolOK /\ ClusterType /\ KnobsOK /\ HandlersOK /\ RoutesOK

\* At the start nothing is routed.
LEMMA GatewayInitHolds == GatewayInit => GatewayIInv
<1>. SUFFICES ASSUME GatewayInit PROVE GatewayIInv
  OBVIOUS
<1>1. PoolOK /\ ClusterType /\ KnobsOK
  <2>1. PoolOK /\ ClusterType
    BY RRInitHolds DEF GatewayInit, PoolOK, ClusterType
  <2>2. trouble = 0 /\ 0 \in 0..MaxTrouble
    BY DEF GatewayInit
  <2>. QED
    BY <2>1, <2>2 DEF GatewayInit, KnobsOK
<1>2. HandlersOK
  <2>1. NoRoute \in Routes
    BY EmptySeq DEF NoRoute, Routes
  <2>2. Fresh \in HandlerType
    BY <2>1 DEF Fresh, HandlerType, Unselected
  <2>3. HandlerOK(Fresh)
    BY <2>2 DEF HandlerOK, Fresh, NoRoute, Selected, Unprepared, Prepared
  <2>. QED
    BY <2>2, <2>3 DEF GatewayInit, HandlersOK
<1>3. Chosen = {} /\ Routed = {} /\ sequence = 0 /\ endpoints = <<>> /\ DOMAIN endpoints = {}
  <2>1. Chosen = {}
    BY DEF GatewayInit, Chosen, Fresh, NoRoute
  <2>. QED
    BY <2>1, EmptySeq DEF Routed, GatewayInit, RRInit
<1>4. RoutesOK
  BY <1>3, FS_EmptySet DEF RoutesOK, Numbered, OnePool, Successive, Tallied
<1>. QED
  BY <1>1, <1>2, <1>4 DEF GatewayIInv

\* The steps that are not a handler's leave the handlers.
LEMMA OthersKeep ==
  ASSUME HandlersOK, UNCHANGED h
  PROVE  HandlersOK' /\ SameRoutes
BY DEF HandlersOK, SameRoutes

\* Every step of the gateway either leaves the routes, and is an update or nothing to the pool,
\* or is the select() of one handler.
LEMMA StepKinds ==
  ASSUME ClusterType, HandlersOK, [GatewayNext]_gwVars
  PROVE  \/ \E r \in Requests : Select(r)
         \/ /\ HandlersOK' /\ SameRoutes
            /\ UNCHANGED pool \/ \E ready \in SUBSET Uids : update(ready)
<1>. DEFINE Kind == /\ HandlersOK' /\ SameRoutes
                    /\ UNCHANGED pool \/ \E ready \in SUBSET Uids : update(ready)
<1>1. CASE ReadEndpoints \/ ApiChanges \/ StartDraining \/ Cleanup
  <2>1. UNCHANGED h /\ UNCHANGED pool
    BY <1>1 DEF ReadEndpoints, ApiChanges, StartDraining, Cleanup
  <2>. QED
    BY <2>1, OthersKeep
<1>2. CASE DiscoveryError
  <2>1. UNCHANGED h /\ update({})
    BY <1>2 DEF DiscoveryError
  <2>. QED
    BY <2>1, OthersKeep
<1>3. CASE UpdatePool
  <2>1. UNCHANGED h /\ update(candidates \cap up) /\ candidates \cap up \in SUBSET Uids
    BY <1>3 DEF UpdatePool, ClusterType
  <2>. QED
    BY <2>1, OthersKeep
<1>4. ASSUME NEW p \in Uids, UpdateWithSlowProbe(p) \/ PodChanges(p)
      PROVE  Kind
  <2>1. CASE UpdateWithSlowProbe(p)
    <3>1. /\ UNCHANGED h /\ update((candidates \cap up) \ {p})
          /\ (candidates \cap up) \ {p} \in SUBSET Uids
      BY <2>1 DEF UpdateWithSlowProbe, ClusterType
    <3>. QED
      BY <3>1, OthersKeep
  <2>2. CASE PodChanges(p)
    <3>1. UNCHANGED h /\ UNCHANGED pool
      BY <2>2 DEF PodChanges
    <3>. QED
      BY <3>1, OthersKeep
  <2>. QED
    BY <1>4, <2>1, <2>2
<1>5. ASSUME NEW r \in Requests, NEW x, Goes(r, x), UNCHANGED pool PROVE Kind
  BY <1>5, GoesKeeps DEF SameRoutes
<1>6. ASSUME NEW r \in Requests, NEW stream \in Streams, Arrive(r, stream) PROVE Kind
  <2>1. stream \in BOOLEAN /\ UNCHANGED pool
    BY <1>6 DEF Arrive
  <2>. QED
    BY <1>5, <1>6, <2>1, EarlyMoves
<1>7. ASSUME NEW r \in Requests, RefuseWhileDraining(r) \/ Cancelled(r) PROVE Kind
  <2>1. UNCHANGED pool
    BY <1>7 DEF RefuseWhileDraining, Cancelled
  <2>. QED
    BY <1>5, <1>7, <2>1, EarlyMoves, LateMoves
<1>8. ASSUME NEW r \in Requests, HandlerStep(r) PROVE Kind \/ Select(r)
  <2>1. CASE RejectRequest(r) \/ ResponsePrepared(r)
    <3>1. UNCHANGED pool
      BY <2>1 DEF RejectRequest, ResponsePrepared
    <3>. QED
      BY <1>5, <2>1, <3>1, EarlyMoves
  <2>2. ASSUME NEW ok \in BOOLEAN, UpstreamHeaders(r, ok) PROVE Kind
    <3>1. UNCHANGED pool
      BY <2>2 DEF UpstreamHeaders
    <3>. QED
      BY <1>5, <2>2, <3>1, EarlyMoves
  <2>3. ASSUME NEW isDone \in BOOLEAN, Chunk(r, isDone) PROVE Kind
    <3>1. UNCHANGED pool
      BY <2>3 DEF Chunk
    <3>. QED
      BY <1>5, <2>3, <3>1, LateMoves
  <2>4. CASE ChunkOverBound(r) \/ ChunkWritten(r) \/ UpstreamEnds(r) \/ UpstreamEndsWithoutDone(r)
             \/ EofWritten(r) \/ Interrupted(r)
    <3>1. UNCHANGED pool
      BY <2>4
         DEF ChunkOverBound, ChunkWritten, UpstreamEnds, UpstreamEndsWithoutDone, EofWritten,
             Interrupted
    <3>. QED
      BY <1>5, <2>4, <3>1, LateMoves
  <2>. QED
    BY <1>8, <2>1, <2>2, <2>3, <2>4 DEF HandlerStep
<1>9. CASE UNCHANGED gwVars
  BY <1>9, OthersKeep DEF gwVars
<1>. QED
  BY <1>1, <1>2, <1>3, <1>4, <1>6, <1>7, <1>8, <1>9 DEF GatewayNext, Discovery

\* The types of what is neither the pool nor a handler.
LEMMA KnobsKept ==
  ASSUME KnobsOK, [GatewayNext]_gwVars
  PROVE  KnobsOK'
<1>1. CASE ReadEndpoints \/ DiscoveryError \/ UpdatePool \/ StartDraining \/ Cleanup
  BY <1>1
     DEF ReadEndpoints, DiscoveryError, UpdatePool, StartDraining, Cleanup, KnobsOK, env, task, runner
<1>6. CASE ApiChanges
  <2>1. trouble' \in 0..MaxTrouble
    BY <1>6 DEF ApiChanges, KnobsOK
  <2>. QED
    BY <1>6, <2>1 DEF ApiChanges, KnobsOK, task, runner
<1>2. ASSUME NEW p \in Uids, UpdateWithSlowProbe(p) \/ PodChanges(p) PROVE KnobsOK'
  BY <1>2 DEF UpdateWithSlowProbe, PodChanges, KnobsOK, env, task, runner
<1>3. ASSUME NEW r \in Requests, NEW stream \in Streams, Arrive(r, stream) PROVE KnobsOK'
  BY <1>3 DEF Arrive, Others, KnobsOK, env, task, runner
<1>4. ASSUME NEW r \in Requests, RefuseWhileDraining(r) \/ Cancelled(r) \/ HandlerStep(r) PROVE KnobsOK'
  <2>1. UNCHANGED Others
    BY <1>4
       DEF RefuseWhileDraining, Cancelled, HandlerStep, Select, RejectRequest, ResponsePrepared,
           Interrupted,
                UpstreamHeaders, Chunk, ChunkOverBound, ChunkWritten, UpstreamEnds, UpstreamEndsWithoutDone, EofWritten
  <2>. QED
    BY <2>1 DEF Others, KnobsOK, env, task, runner
<1>5. CASE UNCHANGED gwVars
  BY <1>5 DEF gwVars, KnobsOK
<1>. QED
  BY <1>1, <1>2, <1>3, <1>4, <1>5, <1>6 DEF GatewayNext, Discovery

\* Every step keeps the inductive invariant.
LEMMA GatewayKeeps ==
  ASSUME GatewayIInv, [GatewayNext]_gwVars
  PROVE  GatewayIInv'
<1>1. /\ PoolOK /\ ClusterType /\ KnobsOK /\ HandlersOK /\ RoutesOK /\ KnobsOK' /\ ClusterType' /\ [RRNext]_pool
  BY KnobsKept, GatewayStep DEF GatewayIInv
<1>2. PoolOK'
  <2>1. ASSUME NEW ready \in SUBSET Uids, update(ready) PROVE PoolOK'
    BY <1>1, <2>1, UpdateKeeps DEF PoolOK
  <2>2. CASE select
    BY <1>1, <2>2, SelectKeeps DEF PoolOK
  <2>3. CASE UNCHANGED pool
    BY <1>1, <2>3 DEF pool, PoolOK, RRTypeOK, Turns
  <2>. QED
    BY <1>1, <2>1, <2>2, <2>3 DEF RRNext
<1>3. ASSUME NEW r \in Requests, Select(r) PROVE HandlersOK' /\ RoutesOK'
  <2>1. select
    BY <1>3 DEF Select
  <2>2. HandlersOK'
    BY <1>1, <1>3, SelectAdds
  <2>3. PICK x : Adds(r, x)
    BY <1>1, <1>3, SelectAdds
  <2>. QED
    BY <1>1, <1>2, <2>1, <2>2, <2>3, AddsNumbered, AddsOnePool, AddsSuccessive, AddsTallied DEF RoutesOK
<1>4. ASSUME SameRoutes, UNCHANGED pool PROVE RoutesOK'
  BY <1>1, <1>4, SameKeeps
<1>5. ASSUME HandlersOK', SameRoutes, NEW ready \in SUBSET Uids, update(ready) PROVE RoutesOK'
  BY <1>1, <1>5, UpdateRoutes
<1>6. HandlersOK' /\ RoutesOK'
  BY <1>1, <1>3, <1>4, <1>5, StepKinds
<1>. QED
  BY <1>1, <1>2, <1>6 DEF GatewayIInv

\* So it holds in every state.
LEMMA GatewayInvariant == GatewaySpec => []GatewayIInv
<1>1. GatewayIInv /\ [GatewayNext]_gwVars => GatewayIInv'
  BY GatewayKeeps
<1>. QED
  BY <1>1, GatewayInitHolds, PTL DEF GatewaySpec

\* At rest a log holds the routes, one record for every handler that has picked.
LEMMA LogAtRest ==
  ASSUME HandlersOK, AtRest
  PROVE  Log = Routed /\ {r \in Requests : h[r].status # "none"} = Chosen
<1>1. \A r \in Requests : h[r].status # "none" <=> h[r].route.sequence # 0
  BY DEF HandlersOK, HandlerOK, AtRest
<1>. QED
  BY <1>1 DEF Log, Routed, Chosen

\* A record of every pick, whatever handlers were cancelled, interrupted or overtaken: the
\* log of a gateway at rest is complete and passes rr_verdict.
THEOREM GatewayLogHonest == GatewaySpec => []RoutingLogHonest
<1>1. ASSUME GatewayIInv PROVE GatewayTypeOK
  <2>1. h \in [Requests -> HandlerType]
    BY <1>1 DEF GatewayIInv, HandlersOK
  <2>. QED
    BY <1>1, <2>1 DEF GatewayIInv, PoolOK, ClusterType, KnobsOK, GatewayTypeOK
<1>2. ASSUME GatewayIInv, AtRest PROVE RoundRobinVerdict /\ EveryPickLogged
  <2>1. Log = Routed /\ {r \in Requests : h[r].status # "none"} = Chosen
    BY <1>2, LogAtRest DEF GatewayIInv
  <2>2. Numbered /\ OnePool /\ Successive /\ Tallied /\ sequence \in Nat
    BY <1>2 DEF GatewayIInv, RoutesOK, PoolOK, RRTypeOK
  <2>3. EveryPickLogged
    BY <2>1, <2>2 DEF EveryPickLogged, Numbered
  <2>4. \A x, uid : Picks(x, uid) = Cardinality(PicksUpTo(x, uid))
    BY <2>1 DEF Picks, PicksUpTo
  <2>5. ASSUME NEW x \in Routed, NEW y \in Routed, y.epoch = x.epoch, y.sequence > x.sequence
        PROVE  y.ready = x.ready /\ \E z \in Routed : z.epoch = x.epoch /\ z.sequence = x.sequence + 1
    <3>1. x.sequence \in 1..sequence /\ y.sequence \in 1..sequence
      BY <2>2, <2>5 DEF Numbered
    <3>2. x.sequence + 1 \in 1..sequence
      BY <2>2, <2>5, <3>1
    <3>3. PICK z \in Routed : z.sequence = x.sequence + 1
      BY <2>2, <3>2 DEF Numbered
    <3>4. x.sequence <= z.sequence /\ z.sequence <= y.sequence
      BY <2>5, <3>1, <3>3
    <3>5. x.epoch <= z.epoch /\ z.epoch <= y.epoch /\ x.epoch \in Nat /\ z.epoch \in Nat
      BY <2>2, <2>5, <3>4 DEF OnePool, Routes
    <3>. QED
      BY <2>2, <2>5, <3>3, <3>5 DEF OnePool
  <2>6. RoundRobinVerdict
    <3>1. ASSUME NEW x \in Routed
          PROVE  /\ x.uid \in {x.ready[k] : k \in DOMAIN x.ready}
                 /\ \A k, l \in DOMAIN x.ready :
                      Picks(x, x.ready[k]) - Picks(x, x.ready[l]) \in -1..1
      BY <2>2, <2>4 DEF OnePool, Tallied
    <3>2. ASSUME NEW x \in Routed, NEW y \in Routed, y.epoch = x.epoch, y.sequence = x.sequence + 1
          PROVE  \E k \in DOMAIN x.ready : x.ready[k] = x.uid /\ x.ready[(k % Len(x.ready)) + 1] = y.uid
      BY <2>2, <3>2 DEF Successive
    <3>. QED
      BY <2>1, <2>5, <3>1, <3>2 DEF RoundRobinVerdict
  <2>. QED
    BY <2>3, <2>6
<1>3. GatewayIInv => RoutingLogHonest
  BY <1>1, <1>2 DEF RoutingLogHonest, RoundRobinVerdict, EveryPickLogged
<1>. QED
  BY <1>3, GatewayInvariant, PTL

\* A stream that is recorded as completed, or that its client sees end cleanly, has had its
\* [DONE] written to that client.
THEOREM GatewayStreamsEnd == GatewaySpec => []CompletedStreamsEndWithDone
<1>1. GatewayIInv => CompletedStreamsEndWithDone
  BY DEF GatewayIInv, HandlersOK, HandlerOK, CompletedStreamsEndWithDone
<1>. QED
  BY <1>1, GatewayInvariant, PTL
=============================================================================
