--------------------------- MODULE DynamicBatcher ---------------------------
(***************************************************************************)
(* VirtualTimeScheduler of src/src/dynamic_batcher.py, driven by any       *)
(* caller: submit, advance_to and close in any order, at any nondecreasing *)
(* times, with any number of dispatch slots.                               *)
(*                                                                         *)
(* advance_to and close loop over _pop_batch.  A call is a sequence of     *)
(* steps here: the one that enters it, one per batch formed, and the one   *)
(* that returns.  The class owns no thread, so nothing interleaves with a  *)
(* call: every entry step requires call.op = "idle".                       *)
(***************************************************************************)
EXTENDS Scheduler, FiniteSets

CONSTANTS
  Requests,   (* Request identities, each submitted at most once.         *)
  MaxTime,    (* Bound: the latest time a caller passes.                  *)
  MaxSlots    (* Bound: the largest finite dispatch_slots of a caller.    *)

ASSUME BoundsAssumption == MaxTime \in Nat /\ MaxSlots \in Nat

VARIABLES
  sched,      (* The scheduler object.                                    *)
  call,       (* The call in progress: op, dispatch_slots, batches formed.*)
  offered,    (* History: requests submit() has seen.                     *)
  admitted,   (* History: queue entries in admission order.               *)
  dispatched, (* History: queue entries in the order they left in batches.*)
  formed,     (* History: the batches returned, in order.                 *)
  busyAt,     (* History: last time a caller reported zero slots.         *)
  partClosed  (* History: a close() left requests behind.                 *)

vars == <<sched, call, offered, admitted, dispatched, formed, busyAt, partClosed>>

history == <<offered, admitted, dispatched, formed, busyAt, partClosed>>

Idle == [op |-> "idle", slots |-> 0, count |-> 0]

Entering(op, slots) == [op |-> op, slots |-> slots, count |-> 0]

SlotChoices == {Unlimited} \cup 0..MaxSlots

SlotLeft == call.slots = Unlimited \/ call.count < call.slots

Init ==
  /\ \E policy \in Policies : sched = NewScheduler(policy)
  /\ call = Idle
  /\ offered = {}
  /\ admitted = <<>>
  /\ dispatched = <<>>
  /\ formed = <<>>
  /\ busyAt = NoTime
  /\ partClosed = FALSE

(***************************************************************************)
(* submit                                                                  *)
(***************************************************************************)
SubmitAccepted(r, t) ==
  /\ call.op = "idle" /\ ~sched.closed /\ r \notin offered
  /\ MayMoveTo(sched, t) /\ MayAdmit(sched)
  /\ sched' = Admit(sched, r, t)
  /\ offered' = offered \cup {r}
  /\ admitted' = Append(admitted, [id |-> r, admitted |-> t])
  /\ UNCHANGED <<call, dispatched, formed, busyAt, partClosed>>

\* The queue is full: the decision names a terminal time, nothing is queued.
SubmitRefused(r, t) ==
  /\ call.op = "idle" /\ ~sched.closed /\ r \notin offered
  /\ MayMoveTo(sched, t) /\ ~MayAdmit(sched)
  /\ sched' = MoveTo(sched, t)
  /\ offered' = offered \cup {r}
  /\ UNCHANGED <<call, admitted, dispatched, formed, busyAt, partClosed>>

\* submit with observed_arrival_ns out of range, advance_to or close with
\* negative dispatch_slots: the ValueError comes after _move_time.
RaiseAfterMove(t) ==
  /\ call.op = "idle"
  /\ MayMoveTo(sched, t)
  /\ sched' = MoveTo(sched, t)
  /\ UNCHANGED <<call, history>>

(***************************************************************************)
(* advance_to                                                              *)
(***************************************************************************)
AdvanceClosed(t) ==
  /\ call.op = "idle" /\ sched.closed
  /\ MayMoveTo(sched, t)
  /\ sched' = MoveTo(sched, t)
  /\ UNCHANGED <<call, history>>

AdvanceBusy(t) ==
  /\ call.op = "idle" /\ ~sched.closed
  /\ MayMoveTo(sched, t)
  /\ sched' = SkipWindows(MoveTo(sched, t), t)
  /\ busyAt' = t
  /\ UNCHANGED <<call, offered, admitted, dispatched, formed, partClosed>>

AdvanceEnter(t, slots) ==
  /\ call.op = "idle" /\ ~sched.closed /\ slots # 0
  /\ MayMoveTo(sched, t)
  /\ sched' = MoveTo(sched, t)
  /\ call' = Entering("advance", slots)
  /\ UNCHANGED history

Pop(d) ==
  /\ sched' = AfterPop(sched, d)
  /\ formed' = Append(formed, PoppedBatch(sched, d))
  /\ dispatched' = dispatched \o PoppedBatch(sched, d).requests
  /\ call' = [op |-> call.op, slots |-> call.slots, count |-> call.count + 1]
  /\ UNCHANGED <<offered, admitted, busyAt, partClosed>>

AdvancePop ==
  /\ call.op = "advance" /\ SlotLeft
  /\ \E d \in eligible_dispatch(sched, sched.now) : Pop(d)

AdvanceReturn ==
  /\ call.op = "advance"
  /\ ~SlotLeft \/ eligible_dispatch(sched, sched.now) = {}
  /\ call' = Idle
  /\ UNCHANGED <<sched, history>>

(***************************************************************************)
(* close                                                                   *)
(***************************************************************************)
CloseAgain(t) ==
  /\ call.op = "idle" /\ sched.closed
  /\ MayMoveTo(sched, t)
  /\ sched' = MoveTo(sched, t)
  /\ UNCHANGED <<call, history>>

CloseEnter(t, slots) ==
  /\ call.op = "idle" /\ ~sched.closed
  /\ MayMoveTo(sched, t)
  /\ sched' = MoveTo(sched, t)
  /\ call' = Entering("close", slots)
  /\ UNCHANGED history

ClosePop ==
  /\ call.op = "close" /\ SlotLeft /\ sched.queue # <<>>
  /\ Pop(Shutdown(sched.now))

CloseReturn ==
  /\ call.op = "close"
  /\ ~SlotLeft \/ sched.queue = <<>>
  /\ sched' = AfterClose(sched)
  /\ call' = Idle
  /\ partClosed' = (partClosed \/ sched.queue # <<>>)
  /\ UNCHANGED <<offered, admitted, dispatched, formed, busyAt>>

Next ==
  \/ \E r \in Requests, t \in 0..MaxTime :
       SubmitAccepted(r, t) \/ SubmitRefused(r, t)
  \/ \E t \in 0..MaxTime :
       RaiseAfterMove(t) \/ AdvanceClosed(t) \/ AdvanceBusy(t) \/ CloseAgain(t)
  \/ \E t \in 0..MaxTime, slots \in SlotChoices :
       AdvanceEnter(t, slots) \/ CloseEnter(t, slots)
  \/ AdvancePop \/ AdvanceReturn \/ ClosePop \/ CloseReturn

Spec == Init /\ [][Next]_vars

-----------------------------------------------------------------------------
(***************************************************************************)
(* Properties                                                              *)
(***************************************************************************)
CallType == [op : {"idle", "advance", "close"}, slots : Int, count : Nat]

Entry == [id : Requests, admitted : Nat]

BatchType == [ordinal : Nat, dispatch : Int, trigger : Triggers, requests : Seq(Entry)]

\* Types of the state; the bounded queue never holds more than queue_capacity.
TypeOK ==
  /\ sched \in SchedulerType(Requests)
  /\ Len(sched.queue) <= Capacity
  /\ call \in CallType
  /\ offered \subseteq Requests
  /\ admitted \in Seq(Entry)
  /\ dispatched \in Seq(Entry)
  /\ formed \in Seq(BatchType)
  /\ busyAt \in Nat \cup {NoTime}
  /\ partClosed \in BOOLEAN

\* Every admitted request is in the queue or in exactly one batch, and batches
\* drain the queue in admission order whatever mix of calls formed them.
FifoExactlyOnce == dispatched \o sched.queue = admitted

LastBatch == formed[Len(formed)]

\* A batch is never empty nor larger than max_batch_size, and only a full one
\* carries the trigger "size".
BatchShape ==
  \A i \in DOMAIN formed :
    /\ Len(formed[i].requests) \in 1..MaxBatch
    /\ formed[i].trigger = "size" => Len(formed[i].requests) = MaxBatch

\* "A partial oldest-timeout batch drains the whole queue": the oldest deadline
\* never fires while a full batch is waiting, so nobody is left behind it.
TimeoutDrainsQueue ==
  [][ formed' # formed /\ LastBatch'.trigger = "timeout"
      => sched'.queue = <<>> ]_vars

\* next_wakeup_ns() and the dispatch decision agree: at every later time t, and
\* no earlier, advance_to(t) would form a batch.  A wakeup that is too late
\* strands requests; one that is too early makes the event loop spin.
WakeupAgreesWithDispatch ==
  call.op = "idle" /\ next_wakeup_ns(sched) # NoTime =>
    \A t \in sched.now..MaxTime :
      eligible_dispatch(sched, t) # {} <=> next_wakeup_ns(sched) <= t

\* advance_to with unlimited slots returns with nothing left to dispatch at the
\* time it was given: simulate_case's event loop needs it to make progress.
AdvanceDrainsTheInstant ==
  [][ call.op = "advance" /\ call'.op = "idle" /\ call.slots = Unlimited
      => \/ next_wakeup_ns(sched') = NoTime
         \/ next_wakeup_ns(sched') > sched'.now ]_vars

\* Windows a busy worker slept through are skipped, not dispatched afterwards
\* with the historical timestamp: a window batch is dated after the last time
\* the scheduler was told that there was no slot.
NoForgedWindow ==
  [][ formed' # formed /\ LastBatch'.trigger = "window"
      => LastBatch'.dispatch > busyAt ]_vars

\* Windows are anchored to time zero.  Only a close() that ran out of slots,
\* which dates its batch at the time of the call, moves the grid.
WindowsOnTheGrid ==
  \A i \in DOMAIN formed :
    formed[i].trigger = "window" /\ ~partClosed => formed[i].dispatch % Window = 0

\* Shutdown is final: a closed scheduler holds no request and never forms
\* another batch or reopens.
ShutdownIsFinal ==
  [][ sched.closed => /\ sched'.closed
                      /\ sched'.queue = <<>>
                      /\ formed' = formed ]_vars
=============================================================================
