---------------------------- MODULE Week03Contract ---------------------------
(***************************************************************************)
(* validate_case_artifacts of src/src/week03_contract.py: which event rows *)
(* and batch rows of a case are accepted.  Both serving loops end with it, *)
(* and a case read back from disk has to pass it again.                    *)
(*                                                                         *)
(* A row is a record; a blank cell is NoTime, NoBatchId or FALSE (reason). *)
(* The identity columns are the same for all rows of a case and are left   *)
(* out, and so are the derived durations, which the loops compute from the *)
(* columns that are kept, by the validator's own formulas.                 *)
(***************************************************************************)
EXTENDS Scheduler, FiniteSets

NoBatchId == -1

\* RequestState: what the loops record about a request, before anything happened.
FreshState(scheduled) ==
  [observed |-> scheduled, status |-> "pending", reason |-> FALSE, batch |-> NoBatchId,
   admitted |-> NoTime, dispatch |-> NoTime, start |-> NoTime, first |-> NoTime,
   finished |-> NoTime, terminal |-> NoTime]

StateType ==
  LET Time == Nat \cup {NoTime} IN
  [observed : Nat, status : {"pending", "completed", "failed", "rejected"},
   reason : BOOLEAN, batch : Nat \cup {NoBatchId}, admitted : Time, dispatch : Time, start : Time,
   first : Time, finished : Time, terminal : Time]

\* The ids of a batch's requests.
IdsOf(queued) == {queued[k].id : k \in DOMAIN queued}

\* What the loops record when a batch has been executed, and its row.
Recorded(state, b) ==
  IF b.failed
  THEN [state EXCEPT !.status = "failed", !.reason = TRUE, !.start = b.start,
                     !.terminal = b.finish]
  ELSE [state EXCEPT !.status = "completed", !.start = b.start, !.terminal = b.finish,
                     !.first = b.first, !.finished = b.finish]

EventRow(r, scheduled, state) ==
  [id |-> r, scheduled |-> scheduled, observed |-> state.observed,
   status |-> state.status, reason |-> state.reason, batch |-> state.batch, admitted |-> state.admitted,
   dispatch |-> state.dispatch, start |-> state.start, first |-> state.first,
   finished |-> state.finished, terminal |-> state.terminal]

BatchRow(b) ==
  [id |-> b.id, members |-> IdsOf(b.requests), dispatch |-> b.dispatch,
   start |-> b.start, first |-> IF b.failed THEN NoTime ELSE b.first,
   finished |-> b.finish, status |-> IF b.failed THEN "failed" ELSE "completed",
   reason |-> b.failed]

\* admitted_ns to finished_ns, in the order in which they are filled in.
LifecycleOf(event) ==
  <<event.admitted, event.dispatch, event.start, event.first, event.finished>>

\* validate_event_rows
EventAccepted(event) ==
  LET chain == LifecycleOf(event)
      present == {k \in 1..5 : chain[k] # NoTime}
  IN  /\ event.scheduled <= event.observed /\ event.observed <= event.terminal
      /\ \A k \in present : 1..k \subseteq present
      /\ \A k, l \in present : k <= l => chain[k] <= chain[l]
      /\ 1 \in present => event.observed <= event.admitted
      /\ \/ /\ event.status = "completed"
            /\ present = 1..5 /\ event.finished = event.terminal
            /\ event.batch # NoBatchId /\ ~event.reason
         \/ /\ event.status = "rejected"
            /\ present = {} /\ event.batch = NoBatchId /\ event.reason
         \/ event.status = "failed" /\ event.reason

\* validate_batch_rows
BatchAccepted(batch) ==
  /\ Cardinality(batch.members) \in 1..MaxBatch
  /\ batch.dispatch <= batch.start /\ batch.start <= batch.finished
  /\ batch.first # NoTime => batch.first \in batch.start..batch.finished
  /\ \/ batch.status = "completed" /\ ~batch.reason /\ batch.first # NoTime
     \/ batch.status = "failed" /\ batch.reason

BatchesAccepted(batches) ==
  /\ \A batch \in batches : BatchAccepted(batch)
  /\ \A a, b \in batches :
       a # b => a.id # b.id /\ a.members \cap b.members = {}

\* The member of a batch, against the batch.
Agree(event, batch) ==
  /\ event.batch = batch.id
  /\ event.dispatch = batch.dispatch /\ event.start = batch.start
  /\ event.status = batch.status /\ event.reason = batch.reason
  /\ batch.status = "completed" =>
       event.first = batch.first /\ event.finished = batch.finished

validate_case_artifacts(events, batches) ==
  LET batched == UNION {batch.members : batch \in batches}
  IN  /\ \A event \in events : EventAccepted(event)
      /\ BatchesAccepted(batches)
      /\ batched = {event.id : event \in {e \in events : e.status # "rejected"}}
      /\ \A batch \in batches :
           LET members == {e \in events : e.id \in batch.members}
           IN  /\ \A event \in members : Agree(event, batch)
               /\ batch.finished \in {e.terminal : e \in members}
               /\ \A event \in members : event.terminal <= batch.finished
=============================================================================
