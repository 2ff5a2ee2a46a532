------------------------------ MODULE RRGateway -----------------------------
(***************************************************************************)
(* The request-level round-robin gateway of src/src/rr_gateway.py: the     *)
(* discovery task, one proxy handler per request, and shutdown, all tasks  *)
(* of one event loop.  A step is what a task does between two awaits.      *)
(*                                                                         *)
(* Around it: the pods, which become ready and unready as they like, the   *)
(* Kubernetes API, which may fail, upstreams that answer, break or stall,  *)
(* and clients that leave at any moment.                                   *)
(***************************************************************************)
EXTENDS RoundRobin

CONSTANTS
  Requests,    (* HTTP requests, one handler each.                         *)
  Service,     (* DISCOVERY_SERVICE is set; otherwise endpoints are static.*)
  Streams,     (* The values of "stream" the clients send.                 *)
  MaxBody,     (* max_response_bytes, in chunks.                           *)
  MaxTrouble   (* Bound: pod and API changes in one behaviour.             *)

ASSUME GatewayAssumption ==
  /\ Service \in BOOLEAN
  /\ Streams \subseteq BOOLEAN
  /\ MaxBody \in Nat
  /\ MaxTrouble \in Nat

VARIABLES
  up,          (* Pods that are Ready in the cluster and answer /health.   *)
  apiUp,       (* The Kubernetes API answers.                              *)
  trouble,     (* Changes of up and apiUp so far, and slow probes.         *)
  discovering, (* "read" or "probe": what the discovery task does next.    *)
  candidates,  (* Its local variable: the endpoints it read.               *)
  draining,    (* app["state"]["draining"]                                 *)
  stopped,     (* The runner has cleaned up.                               *)
  h            (* The handlers.                                            *)

gwVars == <<pool, up, apiUp, trouble, discovering, candidates, draining, stopped, h>>

env == <<up, apiUp, trouble>>
task == <<discovering, candidates>>
runner == <<draining, stopped>>

NoRoute == [epoch |-> 0, sequence |-> 0, uid |-> -1, ready |-> <<>>]

\* Where a handler stands: before its request, awaiting the body, the upstream's
\* headers, prepare(), the next chunk, write(), write_eof(), or returned.
Unselected == {"new", "body"}
Unprepared == {"posting", "preparing"}
Prepared   == {"streaming", "writing", "eof"}
Selected   == Unprepared \cup Prepared

Fresh ==
  [pc |-> "new", stream |-> FALSE, ok |-> TRUE, chunks |-> 0,
   done |-> FALSE,     (* A chunk with [DONE] came from upstream.  *)
   got |-> FALSE,      (* ... and was written to the client.       *)
   route |-> NoRoute,  (* The record's routing fields.             *)
   status |-> "none",  (* The status of the emitted record.        *)
   reply |-> "none"]   (* How the response ended for the client.   *)

GatewayInit ==
  /\ RRInit
  /\ up \in SUBSET Uids
  /\ apiUp \in BOOLEAN
  /\ trouble = 0
  /\ discovering = "read"
  /\ candidates = {}
  /\ draining = FALSE
  /\ stopped = FALSE
  /\ h = [r \in Requests |-> Fresh]

(***************************************************************************)
(* discovery                                                               *)
(***************************************************************************)
\* Mutant: endpoints are discovered only while there are none.
ReadEndpoints_Once ==
  /\ ~stopped /\ discovering = "read" /\ (Service => apiUp)
  /\ candidates' = IF endpoints # <<>> THEN {endpoints[k] : k \in DOMAIN endpoints}
                   ELSE IF Service THEN up ELSE Uids
  /\ discovering' = "probe"
  /\ UNCHANGED <<pool, env, runner, h>>

ReadEndpoints ==
  /\ ~stopped /\ discovering = "read" /\ (Service => apiUp)
  /\ candidates' = IF Service THEN up ELSE Uids
  /\ discovering' = "probe"
  /\ UNCHANGED <<pool, env, runner, h>>

\* Any exception: the pool is emptied until the next successful round.
DiscoveryError ==
  /\ ~stopped /\ discovering = "read" /\ Service /\ ~apiUp
  /\ update({})
  /\ UNCHANGED <<env, task, runner, h>>

\* gather() of the health probes, then update() with those that passed.
UpdatePool ==
  /\ ~stopped /\ discovering = "probe"
  /\ update(candidates \cap up)
  /\ discovering' = "read"
  /\ candidates' = {}
  /\ UNCHANGED <<env, runner, h>>

\* A probe of a living pod ran into its timeout.
UpdateWithSlowProbe(p) ==
  /\ ~stopped /\ discovering = "probe"
  /\ p \in candidates \cap up /\ trouble < MaxTrouble
  /\ update((candidates \cap up) \ {p})
  /\ trouble' = trouble + 1
  /\ discovering' = "read"
  /\ candidates' = {}
  /\ UNCHANGED <<up, apiUp, runner, h>>

Discovery == ReadEndpoints \/ DiscoveryError \/ UpdatePool

(***************************************************************************)
(* proxy                                                                   *)
(***************************************************************************)
Others == <<env, task, runner>>

\* The handler returns or raises; its local variables are gone.
Ends(r, status, reply) ==
  h' = [h EXCEPT ![r].pc = "over", ![r].status = status, ![r].reply = reply,
                 ![r].chunks = 0, ![r].done = FALSE]

Arrive(r, stream) ==
  /\ h[r].pc = "new" /\ ~stopped /\ ~draining
  /\ h' = [h EXCEPT ![r].pc = "body", ![r].stream = stream]
  /\ UNCHANGED <<pool, Others>>

RefuseWhileDraining(r) ==
  /\ h[r].pc = "new" /\ ~stopped /\ draining
  /\ Ends(r, "none", "error")
  /\ UNCHANGED <<pool, Others>>

\* Wrong content type, JSON or request id; or no endpoint to pick.
RejectRequest(r) ==
  /\ h[r].pc = "body"
  /\ Ends(r, "none", "error")
  /\ UNCHANGED <<pool, Others>>

\* The body has arrived: select() and the record, in one step.
Select(r) ==
  /\ h[r].pc = "body"
  /\ select
  /\ h' = [h EXCEPT
       ![r].pc = "posting",
       ![r].route = [epoch |-> epoch, sequence |-> sequence', uid |-> Picked,
                     ready |-> endpoints]]
  /\ UNCHANGED Others

UpstreamHeaders(r, ok) ==
  /\ h[r].pc = "posting"
  /\ h' = [h EXCEPT ![r].pc = "preparing", ![r].ok = ok]
  /\ UNCHANGED <<pool, Others>>

ResponsePrepared(r) ==
  /\ h[r].pc = "preparing"
  /\ h' = [h EXCEPT ![r].pc = "streaming"]
  /\ UNCHANGED <<pool, Others>>

\* Mutant: the chunks are not counted.
Chunk_Uncounted(r, isDone) ==
  /\ h[r].pc = "streaming" /\ h[r].chunks < MaxBody
  /\ h' = [h EXCEPT ![r].pc = "writing", ![r].done = @ \/ isDone]
  /\ UNCHANGED <<pool, Others>>

\* A chunk within the bound goes to the client; isDone: it holds "data: [DONE]".
Chunk(r, isDone) ==
  /\ h[r].pc = "streaming" /\ h[r].chunks < MaxBody
  /\ h' = [h EXCEPT ![r].pc = "writing", ![r].chunks = @ + 1, ![r].done = @ \/ isDone]
  /\ UNCHANGED <<pool, Others>>

ChunkOverBound(r) ==
  /\ h[r].pc = "streaming" /\ h[r].chunks = MaxBody
  /\ Ends(r, "interrupted", "cut")
  /\ UNCHANGED <<pool, Others>>

ChunkWritten(r) ==
  /\ h[r].pc = "writing"
  /\ h' = [h EXCEPT ![r].pc = "streaming", ![r].got = h[r].done]
  /\ UNCHANGED <<pool, Others>>

\* Mutant: the end of the upstream is enough.
MissesDone_Never(r) == FALSE

MissesDone(r) == h[r].stream /\ h[r].ok /\ ~h[r].done

UpstreamEnds(r) ==
  /\ h[r].pc = "streaming" /\ ~MissesDone(r)
  /\ h' = [h EXCEPT ![r].pc = "eof"]
  /\ UNCHANGED <<pool, Others>>

UpstreamEndsWithoutDone(r) ==
  /\ h[r].pc = "streaming" /\ MissesDone(r)
  /\ Ends(r, "interrupted", "cut")
  /\ UNCHANGED <<pool, Others>>

EofWritten(r) ==
  /\ h[r].pc = "eof"
  /\ Ends(r, IF h[r].ok THEN "completed" ELSE "upstream_error", "clean")
  /\ UNCHANGED <<pool, Others>>

\* An exception at any await after select(), the session timeout included: 502
\* before the response is prepared, a closed connection after.  No retry.
Interrupted(r) ==
  /\ h[r].pc \in Selected
  /\ Ends(r, "interrupted", IF h[r].pc \in Prepared THEN "cut" ELSE "error")
  /\ UNCHANGED <<pool, Others>>

\* The client disconnects, or the runner's shutdown timeout expires.
Cancelled(r) ==
  /\ h[r].pc \in Selected \cup {"body"}
  /\ Ends(r, IF h[r].pc = "body" THEN "none" ELSE "client_cancelled", "gone")
  /\ UNCHANGED <<pool, Others>>

HandlerStep(r) ==
  \/ RejectRequest(r) \/ Select(r)
  \/ \E ok \in BOOLEAN : UpstreamHeaders(r, ok)
  \/ ResponsePrepared(r)
  \/ \E isDone \in BOOLEAN : Chunk(r, isDone)
  \/ ChunkOverBound(r) \/ ChunkWritten(r)
  \/ UpstreamEnds(r) \/ UpstreamEndsWithoutDone(r) \/ EofWritten(r)
  \/ Interrupted(r)

(***************************************************************************)
(* shutdown                                                                *)
(***************************************************************************)
StartDraining ==
  /\ ~draining
  /\ draining' = TRUE
  /\ UNCHANGED <<pool, env, task, stopped, h>>

\* The server has waited for its handlers (or cancelled them); the cleanup
\* context cancels discovery.
Cleanup ==
  /\ draining /\ ~stopped
  /\ \A r \in Requests : h[r].pc \in {"new", "over"}
  /\ stopped' = TRUE
  /\ UNCHANGED <<pool, env, task, draining, h>>

(***************************************************************************)
(* The cluster                                                             *)
(***************************************************************************)
\* While the API is down discovery does not see the pods: their changes are free.
PodChanges(p) ==
  /\ apiUp => trouble < MaxTrouble
  /\ up' = (up \ {p}) \cup ({p} \ up)
  /\ trouble' = IF apiUp THEN trouble + 1 ELSE trouble
  /\ UNCHANGED <<pool, apiUp, task, runner, h>>

ApiChanges ==
  /\ Service /\ trouble < MaxTrouble
  /\ apiUp' = ~apiUp
  /\ trouble' = trouble + 1
  /\ UNCHANGED <<pool, up, task, runner, h>>

GatewayNext ==
  \/ Discovery
  \/ \E p \in Uids : UpdateWithSlowProbe(p) \/ PodChanges(p)
  \/ ApiChanges
  \/ \E r \in Requests :
       \/ \E stream \in Streams : Arrive(r, stream)
       \/ RefuseWhileDraining(r)
       \/ HandlerStep(r)
       \/ Cancelled(r)
  \/ StartDraining \/ Cleanup

\* The discovery loop never stops by itself, and every await of a handler ends:
\* the session timeout bounds the upstream, and a client reads or disconnects.
GatewayFairness ==
  /\ WF_gwVars(Discovery)
  /\ \A r \in Requests : WF_gwVars(HandlerStep(r))

GatewaySpec == GatewayInit /\ [][GatewayNext]_gwVars /\ GatewayFairness

-----------------------------------------------------------------------------
(***************************************************************************)
(* Properties                                                              *)
(***************************************************************************)
Routes == [epoch : Nat, sequence : Nat, uid : Uids \cup {-1}, ready : Seq(Uids)]

HandlerType ==
  [pc : Unselected \cup Selected \cup {"over"}, stream : BOOLEAN, ok : BOOLEAN,
   chunks : 0..MaxBody, done : BOOLEAN, got : BOOLEAN, route : Routes,
   status : {"none", "completed", "upstream_error", "interrupted", "client_cancelled"},
   reply : {"none", "error", "clean", "cut", "gone"}]

GatewayTypeOK ==
  /\ RRTypeOK
  /\ up \subseteq Uids
  /\ apiUp \in BOOLEAN
  /\ trouble \in 0..MaxTrouble
  /\ discovering \in {"read", "probe"}
  /\ candidates \subseteq Uids
  /\ draining \in BOOLEAN
  /\ stopped \in BOOLEAN
  /\ h \in [Requests -> HandlerType]

\* The records a log holds once every handler has returned.
Log == {h[r].route : r \in {x \in Requests : h[x].status # "none"}}

AtRest == \A r \in Requests : h[r].pc \notin Selected

Picks(route, uid) ==
  Cardinality({x \in Log : x.epoch = route.epoch /\ x.sequence <= route.sequence
                           /\ x.uid = uid})

\* rr_verdict of analyze_routing.py passes on the log of a gateway at rest,
\* whatever handlers were cancelled, interrupted or overtaken and however often
\* discovery replaced the pool: the records of an epoch agree on the pool, their
\* sequence numbers have no gap, each names the successor of its predecessor,
\* and in every prefix the picks of two endpoints differ by at most one.
RoundRobinVerdict ==
  AtRest =>
    \A x \in Log :
      /\ x.uid \in {x.ready[k] : k \in DOMAIN x.ready}
      /\ \A k, l \in DOMAIN x.ready :
           Picks(x, x.ready[k]) - Picks(x, x.ready[l]) \in -1..1
      /\ \A y \in Log : y.epoch = x.epoch /\ y.sequence > x.sequence =>
           /\ y.ready = x.ready
           /\ \E z \in Log : z.epoch = x.epoch /\ z.sequence = x.sequence + 1
      /\ \A y \in Log : y.epoch = x.epoch /\ y.sequence = x.sequence + 1 =>
           \E k \in DOMAIN x.ready :
             /\ x.ready[k] = x.uid
             /\ x.ready[(k % Len(x.ready)) + 1] = y.uid

\* Exactly the picks are logged: at rest the sequence numbers of the records are
\* 1..sequence, so no path out of proxy() loses a record or logs one twice.
EveryPickLogged ==
  AtRest => /\ {x.sequence : x \in Log} = 1..sequence
            /\ Cardinality({r \in Requests : h[r].status # "none"}) = sequence

\* The log of a gateway at rest: complete, and accepted by the analysis.
RoutingLogHonest == GatewayTypeOK /\ RoundRobinVerdict /\ EveryPickLogged

\* A stream recorded as completed reached the client with its [DONE], and a
\* client that sees a stream end cleanly with status < 400 was sent one.
CompletedStreamsEndWithDone ==
  \A r \in Requests :
    /\ h[r].status = "completed" /\ h[r].stream => h[r].got
    /\ h[r].reply = "clean" /\ h[r].stream /\ h[r].ok => h[r].status = "completed"

\* No request stays selected, even if its upstream never answers: it ends, and
\* with it comes the record that RoutingLogHonest asks for.
EveryPickEnds == \A r \in Requests : []<>(h[r].pc \notin Selected)

InPool(p) == \E k \in DOMAIN endpoints : endpoints[k] = p

\* "stale discovery fails closed": a pod that is gone for good leaves the pool,
\* even if the Kubernetes API never answers again.
DeadPodLeaves ==
  \A p \in Uids : <>[](p \notin up) => <>[](~InPool(p) \/ stopped)

\* A pod that stays ready is in the pool as long as the API answers.
ReadyPodServes ==
  \A p \in Uids : <>[](p \in up /\ apiUp) => <>[](InPool(p) \/ stopped)

\* The pool follows the cluster, in both directions.
PoolFollowsCluster == DeadPodLeaves /\ ReadyPodServes
=============================================================================
