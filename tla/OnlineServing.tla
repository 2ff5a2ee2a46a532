---------------------------- MODULE OnlineServing ---------------------------
(***************************************************************************)
(* run_online_case of src/src/serve_week03.py: a producer thread that      *)
(* publishes arrivals, a coordinator that owns the scheduler, and a worker *)
(* thread that executes one batch at a time, on one monotonic clock.       *)
(*                                                                         *)
(* The threads share three queues (arrivals, work, completions); the other *)
(* state belongs to one thread.  A step is what a thread does between two  *)
(* interactions with a queue or two readings of the clock.                 *)
(***************************************************************************)
EXTENDS Week03Contract

CONSTANTS
  trace,           (* Scheduled arrival of each request, nondecreasing.    *)
  Timeout,         (* admission_timeout_ns                                 *)
  ProducerMayFail, (* The producer may hit an exception.                   *)
  MaxTime,         (* Bound: the last tick of the clock.                   *)
  MaxLag           (* Bound: how late an arrival may be published.         *)

Requests == DOMAIN trace

ASSUME OnlineAssumption ==
  /\ trace \in Seq(Nat)
  /\ \A r, s \in DOMAIN trace : r <= s => trace[r] <= trace[s]
  /\ Timeout \in Nat
  /\ ProducerMayFail \in BOOLEAN
  /\ MaxTime \in Nat
  /\ MaxLag \in Nat

VARIABLES
  now,         (* relative_now()                                           *)
  arrivals,    (* Queue to the coordinator: groups, "done", "wakeup".      *)
  work,        (* Queue to the worker, maxsize 1.                          *)
  completions, (* Queue of executed batches.                               *)
  producer,    (* Producer: where it is, its index, the group it builds.   *)
  worker,      (* Worker: where it is, its batch, start_ns.                *)
  pc,          (* Coordinator: where it is.                                *)
  sched,       (* Coordinator: the scheduler.                              *)
  pending,     (* Coordinator: pending_admissions.                         *)
  processed,   (* Coordinator: processed_arrivals.                         *)
  finished,    (* Coordinator: producer_finished.                          *)
  inFlight,    (* Coordinator: in_flight.                                  *)
  formed,      (* Coordinator: the batch it is handing off, as a set.      *)
  completed,   (* Coordinator: completed_batches.                          *)
  life,        (* Coordinator: the RequestState of each request.           *)
  checked      (* History: the clock at the last recheck before a dispatch. *)

queues == <<arrivals, work, completions>>
coordinator ==
  <<pc, sched, pending, processed, finished, inFlight, formed, completed, life, checked>>
onlineVars == <<now, queues, producer, worker, coordinator>>

Message(kind, group) == [kind |-> kind, group |-> group]
Done == Message("done", <<>>)
Wakeup == Message("wakeup", <<>>)

NoBatch == [id |-> NoBatchId, requests |-> <<>>, dispatch |-> NoTime, start |-> NoTime,
            first |-> NoTime, finish |-> NoTime, failed |-> FALSE]

OnlineInit ==
  /\ now = 0
  /\ arrivals = <<>>
  /\ work = <<>>
  /\ completions = <<>>
  /\ producer = [at |-> "observing", next |-> 1, group |-> <<>>]
  /\ worker = [at |-> "idle", batch |-> NoBatch]
  /\ pc = "top"
  /\ \E policy \in Policies : sched = NewScheduler(policy)
  /\ pending = <<>>
  /\ processed = 0
  /\ finished = FALSE
  /\ inFlight = FALSE
  /\ formed = {}
  /\ completed = <<>>
  /\ life = [r \in Requests |-> FreshState(trace[r])]
  /\ checked = 0

(***************************************************************************)
(* The clock                                                               *)
(***************************************************************************)
Overdue == {r \in Requests : r >= producer.next /\ trace[r] + MaxLag <= now}

Tick ==
  /\ now < MaxTime
  /\ producer.at = "observing" => Overdue = {}
  /\ now' = now + 1
  /\ UNCHANGED <<queues, producer, worker, coordinator>>

(***************************************************************************)
(* produce                                                                 *)
(***************************************************************************)
GroupGoesOn ==
  /\ producer.group # <<>> /\ producer.next <= Len(trace)
  /\ trace[producer.next] = trace[producer.next - 1]

\* The sleep is over, or the group goes on: read the clock for one request.
Observe ==
  /\ producer.at = "observing" /\ producer.next <= Len(trace)
  /\ trace[producer.next] <= now
  /\ producer.group = <<>> \/ GroupGoesOn
  /\ producer' = [producer EXCEPT
       !.next = @ + 1,
       !.group = Append(@, [id |-> producer.next, observed |-> now])]
  /\ UNCHANGED <<now, queues, worker, coordinator>>

Publish ==
  /\ producer.at = "observing"
  /\ producer.group # <<>> /\ ~GroupGoesOn
  /\ arrivals' = Append(arrivals, Message("group", producer.group))
  /\ producer' = [producer EXCEPT !.group = <<>>]
  /\ UNCHANGED <<now, work, completions, worker, coordinator>>

ProducerReturns ==
  /\ producer.at = "observing"
  /\ producer.group = <<>> /\ producer.next > Len(trace)
  /\ arrivals' = Append(arrivals, Done)
  /\ producer' = [producer EXCEPT !.at = "returned"]
  /\ UNCHANGED <<now, work, completions, worker, coordinator>>

\* producer_errors.append, and the finally clause.
ProducerFails ==
  /\ ProducerMayFail
  /\ producer.at = "observing" /\ producer.next <= Len(trace)
  /\ arrivals' = Append(arrivals, Done)
  /\ producer' = [producer EXCEPT !.at = "failed", !.group = <<>>]
  /\ UNCHANGED <<now, work, completions, worker, coordinator>>

Producer == Observe \/ Publish \/ ProducerReturns

(***************************************************************************)
(* serve                                                                   *)
(***************************************************************************)
TakeWork ==
  /\ worker.at = "idle" /\ work # <<>>
  /\ worker' = [at |-> "running", batch |-> [Head(work) EXCEPT !.start = now]]
  /\ work' = Tail(work)
  /\ UNCHANGED <<now, arrivals, completions, producer, coordinator>>

\* backend.execute returns or raises.
Execute(failed) ==
  /\ worker.at = "running"
  /\ completions' = Append(completions,
       [worker.batch EXCEPT !.first = now, !.finish = now, !.failed = failed])
  /\ worker' = [at |-> "notifying", batch |-> NoBatch]
  /\ UNCHANGED <<now, arrivals, work, producer, coordinator>>

\* arrivals.put(worker_wakeup); task_done
Notify ==
  /\ worker.at = "notifying"
  /\ arrivals' = Append(arrivals, Wakeup)
  /\ worker' = [worker EXCEPT !.at = "idle"]
  /\ UNCHANGED <<now, work, completions, producer, coordinator>>

Worker == TakeWork \/ (\E failed \in BOOLEAN : Execute(failed)) \/ Notify

(***************************************************************************)
(* The coordinator's procedures                                            *)
(***************************************************************************)
\* The new states of some requests.
record(new) ==
  life' = [r \in Requests |-> IF r \in DOMAIN new THEN new[r] ELSE life[r]]

Busy(s, t) == IF s.closed THEN MoveTo(s, t) ELSE SkipWindows(MoveTo(s, t), t)

\* Mutant: the ownership token is not given back.
collect_completions_KeepsToken ==
  IF completions = <<>>
  THEN UNCHANGED <<sched, completions, completed, inFlight, life>>
  ELSE LET batch == Head(completions) IN
       /\ completions' = Tail(completions)
       /\ completed' = Append(completed, batch)
       /\ record([r \in IdsOf(batch.requests) |-> Recorded(life[r], batch)])
       /\ UNCHANGED <<sched, inFlight>>

\* collect_completions.  At most one batch is out, so at most one comes back.
collect_completions ==
  IF completions = <<>>
  THEN UNCHANGED <<sched, completions, completed, inFlight, life>>
  ELSE LET batch == Head(completions) IN
       /\ completions' = Tail(completions)
       /\ sched' = IF inFlight THEN Busy(sched, now) ELSE sched
       /\ completed' = Append(completed, batch)
       /\ inFlight' = FALSE
       /\ record([r \in IdsOf(batch.requests) |-> Recorded(life[r], batch)])

\* handle_notification, with record_arrival_group.
handle_notification(message) ==
  CASE message.kind = "done" ->
         /\ finished' = TRUE
         /\ UNCHANGED <<sched, completions, completed, inFlight, life, pending, processed>>
    [] message.kind = "wakeup" ->
         /\ collect_completions
         /\ UNCHANGED <<finished, pending, processed>>
    [] message.kind = "group" ->
         /\ pending' = pending \o message.group
         /\ processed' = processed + Len(message.group)
         /\ life' = [r \in Requests |->
              IF \E k \in DOMAIN message.group : message.group[k].id = r
              THEN [life[r] EXCEPT !.observed =
                      (CHOOSE m \in {message.group[k] : k \in DOMAIN message.group} :
                         m.id = r).observed]
              ELSE life[r]]
         /\ UNCHANGED <<sched, completions, completed, inFlight, finished>>

Deadline(message) == message.observed + Timeout

\* Mutant: the deadline of a waiter is checked only to reject it.
AdmitsHead_Late == pending # <<>> /\ MayAdmit(sched)

\* One turn of the loop in settle_admissions; False when it returns.
AdmitsHead ==
  pending # <<>> /\ MayAdmit(sched) /\ now <= Deadline(pending[1])
ExpiresHead(expire_full_queue) ==
  /\ pending # <<>> /\ ~AdmitsHead
  /\ \/ now > Deadline(pending[1])
     \/ expire_full_queue /\ now >= Deadline(pending[1])

\* Mutant: pop() instead of popleft().
admit_head_Newest ==
  LET newest == Len(pending) IN
  /\ sched' = Admit(sched, pending[newest].id, now)
  /\ life' = [life EXCEPT ![pending[newest].id].admitted = now]
  /\ pending' = SubSeq(pending, 1, newest - 1)

admit_head ==
  /\ sched' = Admit(sched, pending[1].id, now)
  /\ life' = [life EXCEPT ![pending[1].id].admitted = now]
  /\ pending' = Tail(pending)

expire_head ==
  /\ life' = [life EXCEPT ![pending[1].id].status = "rejected",
                          ![pending[1].id].reason = TRUE,
                          ![pending[1].id].terminal = now]
  /\ pending' = Tail(pending)
  /\ UNCHANGED sched

unpublished_arrival_is_due ==
  processed < Len(trace) /\ trace[processed + 1] <= now

(***************************************************************************)
(* The coordinator's main loop                                             *)
(***************************************************************************)
\* What a step of the coordinator leaves alone; only Recheck moves the history.
Threads == <<producer, worker, checked>>

\* while not producer_finished or pending_admissions: collect_completions()
Top ==
  /\ pc = "top"
  /\ ~finished \/ pending # <<>>
  /\ collect_completions
  /\ pc' = "drain"
  /\ UNCHANGED <<now, arrivals, work, Threads, pending, processed, finished, formed>>

LeaveLoop ==
  /\ pc \in {"top", "wait"}
  /\ finished /\ pending = <<>>
  /\ pc' = "join"
  /\ UNCHANGED <<now, queues, Threads, sched, pending, processed, finished, inFlight,
                 formed, completed, life>>

\* arrivals.get_nowait(), until it is empty.
DrainOne ==
  /\ pc = "drain" /\ arrivals # <<>>
  /\ handle_notification(Head(arrivals))
  /\ arrivals' = Tail(arrivals)
  /\ UNCHANGED <<now, work, Threads, pc, formed>>

\* The first of the two checks for an arrival that is due but not published.
DrainedOut ==
  /\ pc = "drain" /\ arrivals = <<>>
  /\ pc' = IF unpublished_arrival_is_due THEN "wait" ELSE "settle"
  /\ UNCHANGED <<now, queues, Threads, sched, pending, processed, finished, inFlight,
                 formed, completed, life>>

SettleOne ==
  /\ pc \in {"settle", "expire"}
  /\ \/ AdmitsHead /\ admit_head
     \/ ExpiresHead(pc = "expire") /\ expire_head
  /\ UNCHANGED <<now, queues, Threads, pc, processed, finished, inFlight, formed, completed>>

Settled == ~AdmitsHead /\ ~ExpiresHead(pc = "expire")

\* Mutant: the check before the admissions is enough.
Recheck_Skipped ==
  /\ pc = "settle" /\ Settled
  /\ pc' = "dispatch"
  /\ checked' = now
  /\ UNCHANGED <<now, queues, producer, worker, sched, pending, processed, finished,
                 inFlight, formed, completed, life>>

\* Recheck before advancing the scheduler.
Recheck ==
  /\ pc = "settle" /\ Settled
  /\ pc' = IF unpublished_arrival_is_due THEN "wait" ELSE "dispatch"
  /\ checked' = now
  /\ UNCHANGED <<now, queues, producer, worker, sched, pending, processed, finished,
                 inFlight, formed, completed, life>>

\* dispatch(relative_now()): the scheduler may form one batch if none is out.
DispatchBusy ==
  /\ pc = "dispatch" /\ inFlight
  /\ sched' = Busy(sched, now)
  /\ pc' = "expire"
  /\ UNCHANGED <<now, queues, Threads, pending, processed, finished, inFlight, formed,
                 completed, life>>

DispatchNone ==
  /\ pc = "dispatch" /\ ~inFlight
  /\ eligible_dispatch(sched, now) = {}
  /\ sched' = MoveTo(sched, now)
  /\ pc' = "expire"
  /\ UNCHANGED <<now, queues, Threads, pending, processed, finished, inFlight, formed,
                 completed, life>>

DispatchBatch ==
  /\ pc = "dispatch" /\ ~inFlight
  /\ \E d \in eligible_dispatch(sched, now) :
       /\ sched' = AfterPop(MoveTo(sched, now), d)
       /\ formed' = {PoppedBatch(sched, d)}
  /\ pc' = "handoff"
  /\ UNCHANGED <<now, queues, Threads, pending, processed, finished, inFlight, completed, life>>

\* The rest of dispatch: a historical dispatch time becomes the handoff time, and
\* the batch goes to the worker.
Handoff ==
  /\ pc \in {"handoff", "handoffClosing"}
  /\ \E batch \in formed :
       LET dispatch == Later(batch.dispatch, now) IN
       /\ work' = Append(work, [NoBatch EXCEPT !.id = batch.ordinal, !.dispatch = dispatch,
                                               !.requests = batch.requests])
       /\ record([r \in IdsOf(batch.requests) |->
                 [life[r] EXCEPT !.dispatch = dispatch, !.batch = batch.ordinal]])
  /\ inFlight' = TRUE
  /\ formed' = {}
  /\ pc' = IF pc = "handoff" THEN "expire" ELSE "close"
  /\ UNCHANGED <<now, arrivals, completions, Threads, sched, pending, processed, finished,
                 completed>>

SettledAgain ==
  /\ pc = "expire" /\ Settled
  /\ pc' = "wait"
  /\ UNCHANGED <<now, queues, Threads, sched, pending, processed, finished, inFlight,
                 formed, completed, life>>

\* arrivals.get(timeout=...), after the exit test in the middle of the loop.
WaitNotified ==
  /\ pc = "wait" /\ (~finished \/ pending # <<>>) /\ arrivals # <<>>
  /\ handle_notification(Head(arrivals))
  /\ arrivals' = Tail(arrivals)
  /\ pc' = "top"
  /\ UNCHANGED <<now, work, Threads, formed>>

WaitTimedOut ==
  /\ pc = "wait" /\ (~finished \/ pending # <<>>) /\ arrivals = <<>>
  /\ pc' = "top"
  /\ UNCHANGED <<now, queues, Threads, sched, pending, processed, finished, inFlight,
                 formed, completed, life>>

(***************************************************************************)
(* The coordinator's final loop                                            *)
(***************************************************************************)
JoinProducer ==
  /\ pc = "join" /\ producer.at # "observing"
  /\ pc' = IF producer.at = "failed" THEN "raised" ELSE "close"
  /\ UNCHANGED <<now, queues, Threads, sched, pending, processed, finished, inFlight,
                 formed, completed, life>>

\* while in_flight or not scheduler.closed: collect_completions()
CloseLoop ==
  /\ pc = "close" /\ (inFlight \/ ~sched.closed)
  /\ collect_completions
  /\ pc' = "closeDispatch"
  /\ UNCHANGED <<now, arrivals, work, Threads, pending, processed, finished, formed>>

\* dispatch(relative_now(), closing=True), and the wait for the completion, which
\* puts it back for collect_completions.
CloseBusy ==
  /\ pc = "closeDispatch" /\ inFlight
  /\ sched' = Busy(sched, now)
  /\ pc' = "close"
  /\ UNCHANGED <<now, queues, Threads, pending, processed, finished, inFlight, formed,
                 completed, life>>

CloseBatch ==
  /\ pc = "closeDispatch" /\ ~inFlight /\ ~sched.closed /\ sched.queue # <<>>
  /\ LET d == Shutdown(now)
     IN  /\ sched' = AfterClose(AfterPop(MoveTo(sched, now), d))
         /\ formed' = {PoppedBatch(sched, d)}
  /\ pc' = "handoffClosing"
  /\ UNCHANGED <<now, queues, Threads, pending, processed, finished, inFlight, completed, life>>

CloseEmpty ==
  /\ pc = "closeDispatch" /\ ~inFlight /\ (sched.closed \/ sched.queue = <<>>)
  /\ sched' = AfterClose(MoveTo(sched, now))
  /\ pc' = "close"
  /\ UNCHANGED <<now, queues, Threads, pending, processed, finished, inFlight, formed,
                 completed, life>>

\* work.join(); collect_completions()
Finish ==
  /\ pc = "close" /\ ~inFlight /\ sched.closed
  /\ work = <<>> /\ worker.at = "idle"
  /\ collect_completions
  /\ pc' = "done"
  /\ UNCHANGED <<now, arrivals, work, Threads, pending, processed, finished, formed>>

Coordinator ==
  \/ Top \/ LeaveLoop \/ DrainOne \/ DrainedOut \/ SettleOne \/ Recheck
  \/ DispatchBusy \/ DispatchNone \/ DispatchBatch \/ Handoff \/ SettledAgain
  \/ WaitNotified \/ WaitTimedOut
  \/ JoinProducer \/ CloseLoop \/ CloseBusy \/ CloseBatch \/ CloseEmpty \/ Finish

OnlineNext == Tick \/ Producer \/ ProducerFails \/ Worker \/ Coordinator

\* Time passes, the threads are scheduled, and the model call returns.
OnlineFairness ==
  /\ WF_onlineVars(Tick)
  /\ WF_onlineVars(Producer)
  /\ WF_onlineVars(Worker)
  /\ WF_onlineVars(Coordinator)

OnlineSpec == OnlineInit /\ [][OnlineNext]_onlineVars /\ OnlineFairness

-----------------------------------------------------------------------------
(***************************************************************************)
(* Properties                                                              *)
(***************************************************************************)
Count(condition) == IF condition THEN 1 ELSE 0

\* in_flight is the ownership token of the one worker: exactly when the
\* coordinator holds it, one batch is formed, handed over, running or executed
\* but not collected.
OneBatchOut ==
  Cardinality(formed) + Len(work) + Count(worker.at = "running") + Len(completions)
    = Count(inFlight \/ formed # {})

\* The batch rows of the case: admitted, dispatched, started, finished in this
\* order, and a batch is dispatched only after the one before it finished - a
\* policy time that passed while the worker was busy is not reported.
BatchLifecycle ==
  \A k \in DOMAIN completed :
    /\ completed[k].dispatch <= completed[k].start
    /\ completed[k].start <= completed[k].finish
    /\ \A m \in DOMAIN completed[k].requests :
         life[completed[k].requests[m].id].admitted <= completed[k].dispatch
    /\ \A l \in 1..(k - 1) : completed[l].finish <= completed[k].dispatch

\* Each waiter has its own deadline, observed_arrival_ns + admission_timeout_ns:
\* it is not rejected before it, and not admitted after it.
OwnDeadline ==
  \A r \in Requests :
    /\ life[r].admitted # NoTime =>
         life[r].admitted \in life[r].observed..(life[r].observed + Timeout)
    /\ life[r].status = "rejected" =>
         /\ life[r].admitted = NoTime
         /\ life[r].terminal >= life[r].observed + Timeout

Members(k) == IdsOf(completed[k].requests)

\* The case ends with every request terminal and with rows that
\* validate_case_artifacts accepts.
RowsConsistent ==
  pc = "done" =>
    /\ \A r \in Requests : life[r].status # "pending"
    /\ validate_case_artifacts(
         {EventRow(r, trace[r], life[r]) : r \in Requests},
         {BatchRow(completed[k]) : k \in DOMAIN completed})

\* What the artifacts of a case say is what happened to its requests: one batch at a
\* time, no batch dispatched while another ran, deadlines kept, rows that agree.
CaseHonest == OneBatchOut /\ BatchLifecycle /\ OwnDeadline /\ RowsConsistent

\* "all equal-offset arrivals retain arrival-before-flush precedence": a flush that
\* leaves room in its batch, and in the queue, takes along every request that was due
\* when the coordinator last looked, however late the producer published it, unless it
\* was dispatched before or rejected.  The clock moves on between that look and the
\* flush: who becomes due in between may miss the batch.
ArrivalsPrecedeFlush ==
  pc = "handoff" =>
    \A batch \in formed :
      Len(batch.requests) < MaxBatch /\ Len(batch.requests) < Capacity =>
      \A r \in Requests :
        trace[r] <= checked => \/ r \in IdsOf(batch.requests)
                               \/ life[r].dispatch # NoTime
                               \/ life[r].status = "rejected"

\* The case ends, with rows or with the producer's exception.
CaseEnds == <>(pc \in {"done", "raised"})

\* However the threads interleave, the case ends unless its producer dies.
CaseEndsUnlessProducerDies == <>(pc \in {"done", "raised"} \/ producer.at = "failed")

\* The service that the three threads implement: a batch is running until the
\* coordinator has collected its completion.
BatchesIn(queue) == UNION {IdsOf(queue[k].requests) : k \in DOMAIN queue}

Stage(r) ==
  IF life[r].status # "pending" THEN life[r].status
  ELSE IF r \in IdsOf(worker.batch.requests) \cup BatchesIn(completions) THEN "running"
  ELSE IF r \in BatchesIn(work) \cup UNION {IdsOf(b.requests) : b \in formed} THEN "formed"
  ELSE IF r \in IdsOf(sched.queue) THEN "queued"
  ELSE "scheduled"

Ready ==
  [k \in 1..(Len(work) + Cardinality(formed)) |->
     IF k <= Len(work) THEN IdsOf(work[k].requests)
     ELSE UNION {IdsOf(b.requests) : b \in formed}]

Service == INSTANCE BatchService WITH
  Clients <- Requests, BatchLimit <- MaxBatch, QueueLimit <- Capacity,
  stage <- [r \in Requests |-> Stage(r)],
  ready <- Ready

\* The case, with its races and its clock, implements the service.
Serves == Service!ServiceSpec
=============================================================================
