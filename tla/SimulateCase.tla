---------------------------- MODULE SimulateCase ----------------------------
(***************************************************************************)
(* simulate_case of src/src/serve_week03.py: the deterministic event       *)
(* simulation of one case.  It jumps from event to event; at each instant  *)
(* it finishes and starts the one worker, admits waiters, takes arrivals,  *)
(* forms batches, and rejects the waiters whose deadline has come.         *)
(*                                                                         *)
(* A step is one turn of one of its loops.  The trace is any one, and a    *)
(* batch runs for any of the service times.                                *)
(***************************************************************************)
EXTENDS Week03Contract

CONSTANTS
  Count,       (* Requests in the trace.                                   *)
  LastArrival, (* Bound: the latest scheduled arrival.                     *)
  Timeout,     (* admission_timeout_ns                                     *)
  Executions   (* What backend.execute may do: its service time, failure.  *)

ASSUME SimulationAssumption ==
  /\ Count \in Nat \ {0}
  /\ LastArrival \in Nat
  /\ Timeout \in Nat
  /\ Executions \subseteq
       {e \in [service : Nat, first : Nat, failed : BOOLEAN] : e.first <= e.service}

VARIABLES
  trace,       (* scheduled_arrival_ns of each request                     *)
  now,         (* now_ns                                                   *)
  index,       (* arrival_index                                            *)
  sched,       (* scheduler                                                *)
  waiters,     (* pending_admissions, with their deadlines                 *)
  batches,     (* pending_batches                                          *)
  active,      (* The active batch, as a set of at most one.               *)
  completed,   (* completed_batches                                        *)
  life,        (* The RequestState of each request.                        *)
  pc           (* The part of the loop's body that comes next.             *)

simVars == <<trace, now, index, sched, waiters, batches, active, completed, life, pc>>

Requests == 1..Count

SimInit ==
  /\ trace \in {t \in [Requests -> 0..LastArrival] :
                  \A r, s \in Requests : r <= s => t[r] <= t[s]}
  /\ now = 0
  /\ index = 1
  /\ \E policy \in Policies : sched = NewScheduler(policy)
  /\ waiters = <<>>
  /\ batches = <<>>
  /\ active = {}
  /\ completed = <<>>
  /\ life = [r \in Requests |-> FreshState(trace[r])]
  /\ pc = "loop"

\* _waiting_count: admitted requests the worker has not started.
WaitingIn(k) == IdsOf(batches[k].requests)
Waiting == IdsOf(sched.queue) \cup UNION {WaitingIn(k) : k \in DOMAIN batches}

MayWait == Cardinality(Waiting) < Capacity

Arriving == index <= Count

next_values ==
  {trace[r] : r \in {index} \cap Requests}
    \cup {a.finish : a \in active}
    \cup ({next_wakeup_ns(sched)} \ {NoTime})
    \cup {waiters[k].deadline : k \in {1} \cap DOMAIN waiters}

NextEvent ==
  /\ pc = "loop"
  /\ \E next \in next_values :
       /\ next >= now
       /\ \A v \in next_values : v >= now => next <= v
       /\ now' = next
  /\ pc' = "finish"
  /\ UNCHANGED <<trace, index, sched, waiters, batches, active, completed, life>>

\* The new states of some requests.
record(new) ==
  life' = [r \in Requests |-> IF r \in DOMAIN new THEN new[r] ELSE life[r]]

\* finish_worker
FinishWorker ==
  /\ pc \in {"finish", "drain"}
  /\ \E a \in active :
       /\ pc = "drain" \/ a.finish = now
       /\ now' = a.finish
       /\ completed' = Append(completed, a)
       /\ record([r \in IdsOf(a.requests) |-> Recorded(life[r], a)])
  /\ active' = {}
  /\ pc' = IF pc = "drain" THEN "drain" ELSE "start"
  /\ UNCHANGED <<trace, index, sched, waiters, batches>>

NothingFinishes ==
  /\ pc = "finish"
  /\ \A a \in active : a.finish # now
  /\ pc' = "start"
  /\ UNCHANGED <<trace, now, index, sched, waiters, batches, active, completed, life>>

\* start_worker.  Only a start after a dispatch is followed by more of both.
CanStart == active = {} /\ batches # <<>>

StartWorker ==
  /\ pc \in {"start", "restart", "drain"} /\ CanStart
  /\ \E e \in Executions :
       active' = {[id |-> Head(batches).id, requests |-> Head(batches).requests,
                   dispatch |-> Head(batches).dispatch, start |-> now,
                   first |-> now + e.first, finish |-> now + e.service,
                   failed |-> e.failed]}
  /\ record([r \in WaitingIn(1) |->
                 [life[r] EXCEPT !.start = now]])
  /\ batches' = Tail(batches)
  /\ pc' = CASE pc = "start" -> "admit" [] pc = "restart" -> "readmit" [] OTHER -> "drain"
  /\ UNCHANGED <<trace, now, index, sched, waiters, completed>>

NothingStarts ==
  /\ pc \in {"start", "restart"} /\ ~CanStart
  /\ pc' = IF pc = "start" THEN "admit" ELSE "reject"
  /\ UNCHANGED <<trace, now, index, sched, waiters, batches, active, completed, life>>

\* admit_waiters
CanAdmit == waiters # <<>> /\ MayWait /\ waiters[1].deadline >= now

admit(r) ==
  /\ sched' = Admit(sched, r, now)
  /\ life' = [life EXCEPT ![r].admitted = now]

\* Mutant: pop() instead of popleft().
AdmitWaiter_Newest ==
  /\ pc \in {"admit", "readmit"} /\ CanAdmit
  /\ admit(waiters[Len(waiters)].id)
  /\ waiters' = SubSeq(waiters, 1, Len(waiters) - 1)
  /\ UNCHANGED <<trace, now, index, batches, active, completed, pc>>

AdmitWaiter ==
  /\ pc \in {"admit", "readmit"} /\ CanAdmit
  /\ admit(waiters[1].id)
  /\ waiters' = Tail(waiters)
  /\ UNCHANGED <<trace, now, index, batches, active, completed, pc>>

WaitersAdmitted ==
  /\ pc \in {"admit", "readmit"} /\ ~CanAdmit
  /\ pc' = IF pc = "admit" THEN "arrive" ELSE "redispatch"
  /\ UNCHANGED <<trace, now, index, sched, waiters, batches, active, completed, life>>

\* The arrivals of this instant.
Arrive ==
  /\ pc = "arrive" /\ Arriving /\ trace[index] = now
  /\ \/ MayWait /\ admit(index) /\ UNCHANGED waiters
     \/ ~MayWait /\ waiters' = Append(waiters, [id |-> index, deadline |-> now + Timeout])
                 /\ UNCHANGED <<sched, life>>
  /\ index' = index + 1
  /\ UNCHANGED <<trace, now, batches, active, completed, pc>>

NoMoreArrive ==
  /\ pc = "arrive" /\ (Arriving => trace[index] # now)
  /\ pc' = "dispatch"
  /\ UNCHANGED <<trace, now, index, sched, waiters, batches, active, completed, life>>

\* dispatch_ready: advance_to pops every batch that is due.
Formed(batch) == [id |-> batch.ordinal, requests |-> batch.requests, dispatch |-> batch.dispatch]

DispatchReady ==
  /\ pc \in {"dispatch", "redispatch"}
  /\ \E d \in eligible_dispatch(sched, now) :
       LET batch == Formed(PoppedBatch(sched, d)) IN
       /\ sched' = AfterPop(MoveTo(sched, now), d)
       /\ batches' = Append(batches, batch)
       /\ record([r \in IdsOf(batch.requests) |->
                 [life[r] EXCEPT !.dispatch = batch.dispatch, !.batch = batch.id]])
  /\ UNCHANGED <<trace, now, index, waiters, active, completed, pc>>

\* Mutant: the worker is not started after a dispatch.
Dispatched_NoRestart ==
  /\ pc \in {"dispatch", "redispatch"}
  /\ eligible_dispatch(sched, now) = {}
  /\ sched' = MoveTo(sched, now)
  /\ pc' = "reject"
  /\ UNCHANGED <<trace, now, index, waiters, batches, active, completed, life>>

Dispatched ==
  /\ pc \in {"dispatch", "redispatch"}
  /\ eligible_dispatch(sched, now) = {}
  /\ sched' = MoveTo(sched, now)
  /\ pc' = IF pc = "dispatch" THEN "restart" ELSE "reject"
  /\ UNCHANGED <<trace, now, index, waiters, batches, active, completed, life>>

\* The waiters whose deadline has come.
DeadlineCame == waiters # <<>> /\ waiters[1].deadline <= now

\* Mutant: waiters are rejected before the worker takes its next batch already.
RejectWaiter_Early ==
  /\ pc \in {"start", "reject"} /\ DeadlineCame
  /\ life' = [life EXCEPT ![waiters[1].id].status = "rejected",
                          ![waiters[1].id].reason = TRUE,
                          ![waiters[1].id].terminal = now]
  /\ waiters' = Tail(waiters)
  /\ UNCHANGED <<trace, now, index, sched, batches, active, completed, pc>>

RejectWaiter ==
  /\ pc = "reject" /\ DeadlineCame
  /\ life' = [life EXCEPT ![waiters[1].id].status = "rejected",
                          ![waiters[1].id].reason = TRUE,
                          ![waiters[1].id].terminal = now]
  /\ waiters' = Tail(waiters)
  /\ UNCHANGED <<trace, now, index, sched, batches, active, completed, pc>>

WaitersRejected ==
  /\ pc = "reject" /\ ~DeadlineCame
  /\ pc' = "loop"
  /\ UNCHANGED <<trace, now, index, sched, waiters, batches, active, completed, life>>

\* scheduler.close(now_ns), and the drain.  The loop body of this close() is
\* unreachable, its queue being empty; were it not, the program would stop here
\* and SimEnds would fail.
Close ==
  /\ pc = "loop" /\ next_values = {} /\ sched.queue = <<>>
  /\ sched' = AfterClose(MoveTo(sched, now))
  /\ pc' = "drain"
  /\ UNCHANGED <<trace, now, index, waiters, batches, active, completed, life>>

Drained ==
  /\ pc = "drain" /\ active = {} /\ batches = <<>>
  /\ pc' = "done"
  /\ UNCHANGED <<trace, now, index, sched, waiters, batches, active, completed, life>>

SimNext ==
  \/ NextEvent \/ FinishWorker \/ NothingFinishes \/ StartWorker \/ NothingStarts
  \/ AdmitWaiter \/ WaitersAdmitted \/ Arrive \/ NoMoreArrive
  \/ DispatchReady \/ Dispatched \/ RejectWaiter \/ WaitersRejected
  \/ Close \/ Drained

\* A sequential program: it goes on while it can.
SimSpec == SimInit /\ [][SimNext]_simVars /\ WF_simVars(SimNext)

-----------------------------------------------------------------------------
(***************************************************************************)
(* Properties                                                              *)
(***************************************************************************)
\* The capacity bounds what waits for the worker, in the scheduler's queue and in
\* formed batches together, and a request waits in one of them only once.
CapacityHeld ==
  /\ Cardinality(Waiting) <= Capacity
  /\ \A k, l \in DOMAIN batches : k # l => WaitingIn(k) \cap WaitingIn(l) = {}
  /\ \A k \in DOMAIN batches : WaitingIn(k) \cap IdsOf(sched.queue) = {}

\* When time moves on, the worker idles only if no batch waits, and a waiter waits
\* only if the capacity is used up; so the final close() and drain find nothing.
WorkConserving ==
  /\ pc = "loop" => /\ active = {} => batches = <<>>
                    /\ waiters # <<>> => ~MayWait \/ \E a \in active : a.finish = now
  /\ pc = "drain" => batches = <<>> /\ active = {}

\* Each waiter has its own deadline: it is admitted by then, or rejected exactly then.
SimOwnDeadline ==
  \A r \in Requests :
    /\ life[r].admitted # NoTime => life[r].admitted \in trace[r]..(trace[r] + Timeout)
    /\ life[r].status = "rejected" => life[r].terminal = trace[r] + Timeout

\* The loop ends with every request terminal and with rows that
\* validate_case_artifacts accepts; the batches do not overlap in time.
SimRowsConsistent ==
  pc = "done" =>
    /\ \A r \in Requests : life[r].status # "pending"
    /\ validate_case_artifacts(
         {EventRow(r, trace[r], life[r]) : r \in Requests},
         {BatchRow(completed[k]) : k \in DOMAIN completed})
    /\ \A k, l \in DOMAIN completed : k < l => completed[k].finish <= completed[l].start

\* What the artifacts of a simulated case say: the capacity and every deadline were
\* kept, the worker was never idle beside work, and the rows agree.
SimHonest == CapacityHeld /\ WorkConserving /\ SimOwnDeadline /\ SimRowsConsistent

\* "A capacity slot becoming free exactly at a deadline wins": once a waiter was
\* rejected at an instant, the worker starts no batch at that instant, which would
\* have freed a slot - unless it follows one that took no time at all, which the
\* next turn of the loop finishes, after the rejection.
DeadlineSlotWins ==
  [][ /\ \E r \in Requests : life[r].status = "rejected" /\ life[r].terminal = now
      /\ active = {} /\ active' # {}
      => \E k \in DOMAIN completed :
           completed[k].start = now /\ completed[k].finish = now ]_simVars

\* The simulation ends: no instant repeats for ever.
SimEnds == <>(pc = "done")

\* The stage each request of the simulation has reached.
Stage(r) ==
  IF life[r].status # "pending" THEN life[r].status
  ELSE IF r \in UNION {IdsOf(a.requests) : a \in active} THEN "running"
  ELSE IF r \in UNION {WaitingIn(k) : k \in DOMAIN batches} THEN "formed"
  ELSE IF r \in IdsOf(sched.queue) THEN "queued"
  ELSE "scheduled"

Service == INSTANCE BatchService WITH
  Clients <- Requests, BatchLimit <- MaxBatch, QueueLimit <- Capacity,
  stage <- [r \in Requests |-> Stage(r)],
  ready <- [k \in DOMAIN batches |-> WaitingIn(k)]

\* The simulation implements the service.
Serves == Service!ServiceSpec
=============================================================================
