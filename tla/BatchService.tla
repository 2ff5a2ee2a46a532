---------------------------- MODULE BatchService ----------------------------
(***************************************************************************)
(* What a single-worker batching service promises its requests, whatever   *)
(* its clock, its policy and its threads do: they pass the bounded queue   *)
(* in arrival order, leave it in batches of bounded size, and are executed *)
(* one batch at a time, each exactly once.                                 *)
(*                                                                         *)
(* OnlineServing (run_online_case) and SimulateCase (simulate_case) are    *)
(* two implementations of it.                                              *)
(***************************************************************************)
EXTENDS Integers, Sequences, FiniteSets

CONSTANTS
  Clients,     (* The requests, numbered in arrival order.                 *)
  BatchLimit,  (* The most requests in one batch.                          *)
  QueueLimit   (* The most admitted requests not yet in a batch.           *)

\* What the theorems about the service assume of its parameters.
ServiceAssumption ==
  /\ Clients \subseteq Nat
  /\ BatchLimit \in Nat \ {0}
  /\ QueueLimit \in Nat \ {0}

VARIABLES
  stage,  (* Where each request is.                                        *)
  ready   (* The batches that wait for the worker, oldest first.           *)

serviceVars == <<stage, ready>>

Stages == {"scheduled", "queued", "formed", "running",
           "completed", "failed", "rejected"}
Outcomes == {"completed", "failed"}

At(s) == {r \in Clients : stage[r] = s}

Move(requests, to) ==
  stage' = [r \in Clients |-> IF r \in requests THEN to ELSE stage[r]]

ServiceInit ==
  /\ stage = [r \in Clients |-> "scheduled"]
  /\ ready = <<>>

\* r is the oldest request that nothing is decided about.
Oldest(r) == r \in At("scheduled") /\ \A s \in At("scheduled") : r <= s

Enqueue(r) ==
  /\ Oldest(r)
  /\ Cardinality(At("queued")) < QueueLimit
  /\ Move({r}, "queued")
  /\ UNCHANGED ready

Reject(r) ==
  /\ Oldest(r)
  /\ Move({r}, "rejected")
  /\ UNCHANGED ready

Form(batch) ==
  /\ batch # {} /\ batch \subseteq At("queued")
  /\ Cardinality(batch) <= BatchLimit
  /\ \A r \in batch, s \in At("queued") \ batch : r < s
  /\ Move(batch, "formed")
  /\ ready' = Append(ready, batch)

Start ==
  /\ ready # <<>> /\ At("running") = {}
  /\ Move(Head(ready), "running")
  /\ ready' = Tail(ready)

Finish(outcome) ==
  /\ At("running") # {}
  /\ Move(At("running"), outcome)
  /\ UNCHANGED ready

ServiceNext ==
  \/ \E r \in Clients : Enqueue(r) \/ Reject(r)
  \/ \E batch \in SUBSET Clients : Form(batch)
  \/ Start
  \/ \E outcome \in Outcomes : Finish(outcome)

ServiceSpec == ServiceInit /\ [][ServiceNext]_serviceVars

-----------------------------------------------------------------------------
\* The progress of a request that was not rejected.
Rank(s) == IF s = "scheduled" THEN 0
           ELSE IF s = "queued" THEN 1
           ELSE IF s = "formed" THEN 2
           ELSE IF s = "running" THEN 3
           ELSE 4

\* Nobody overtakes: of two requests, the earlier one is always at least as far as
\* the later one (a rejected request is at the end of its way).
InArrivalOrder ==
  \A r, s \in Clients : r < s => Rank(stage[r]) >= Rank(stage[s]) \/ stage[s] = "rejected"

\* The batches that wait for the worker partition the requests that were formed
\* into batches, and are in arrival order.
ReadyHoldsFormed ==
  /\ UNION {ready[k] : k \in DOMAIN ready} = At("formed")
  /\ \A k, l \in DOMAIN ready : k < l => \A r \in ready[k], s \in ready[l] : r < s
=============================================================================
