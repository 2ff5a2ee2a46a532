----------------------------- MODULE Scheduler ------------------------------
(***************************************************************************)
(* The request-level batching state of VirtualTimeScheduler as operators   *)
(* on a record, so that the state machine of the class itself              *)
(* (DynamicBatcher) and the programs that own a scheduler object           *)
(* (ScheduleTrace, SimulateCase, OnlineServing) share one translation.     *)
(* Time is in ticks of the caller's clock.  Nothing here is recursive: the *)
(* loops of advance_to and close are steps of the modules that use this.   *)
(***************************************************************************)
EXTENDS Integers, Sequences

CONSTANTS
  Policies,   (* The policies a scheduler may be configured with.         *)
  MaxBatch,   (* max_batch_size: requests in one batch.                   *)
  Window,     (* window_ns: grid of fixed_window.                         *)
  MaxWait,    (* max_wait_ns: oldest wait of size_or_time.                *)
  Capacity    (* queue_capacity: admitted requests not yet batched.       *)

PolicyName == {"no_batching", "fixed_window", "size_or_time"}

ASSUME ConfigAssumption ==
  /\ Policies \subseteq PolicyName
  /\ MaxBatch \in Nat \ {0}
  /\ Capacity \in Nat \ {0}
  /\ Window \in Nat
  /\ MaxWait \in Nat
  /\ "no_batching" \in Policies => MaxBatch = 1
  /\ "fixed_window" \in Policies => Window > 0

\* Absent timestamps (None) are -1: every real timestamp is a natural number.
NoTime == -1

\* dispatch_slots=None.
Unlimited == -1

Triggers == {"immediate", "window", "size", "timeout", "shutdown"}

Later(a, b) == IF a >= b THEN a ELSE b
Fewer(a, b) == IF a <= b THEN a ELSE b

NewScheduler(policy) ==
  [policy     |-> policy,
   queue      |-> <<>>,
   now        |-> 0,
   ordinal    |-> 0,
   closed     |-> FALSE,
   nextWindow |-> IF Window > 0 THEN Window ELSE NoTime]

\* _move_time raises on a smaller timestamp.
MayMoveTo(s, t) == t >= s.now
MoveTo(s, t) ==
  [policy     |-> s.policy,
   queue      |-> s.queue,
   now        |-> t,
   ordinal    |-> s.ordinal,
   closed     |-> s.closed,
   nextWindow |-> s.nextWindow]

\* submit, accepting branch; the caller checks MayAdmit for the other one.
MayAdmit(s) == Len(s.queue) < Capacity
Admit(s, r, t) ==
  [policy     |-> s.policy,
   queue      |-> Append(s.queue, [id |-> r, admitted |-> t]),
   now        |-> t,
   ordinal    |-> s.ordinal,
   closed     |-> s.closed,
   nextWindow |-> s.nextWindow]

\* The first grid point not before t, and the first one after t.
GridAtOrAfter(t) == ((t + Window - 1) \div Window) * Window
GridAfter(t)     == ((t \div Window) + 1) * Window

Full(s)           == Len(s.queue) >= MaxBatch
OldestDeadline(s) == s.queue[1].admitted + MaxWait
WindowOf(s)       == Later(s.nextWindow, GridAtOrAfter(s.queue[1].admitted))

\* Mutant: a partial batch is worth a wakeup now.
next_wakeup_ns_Now(s) ==
  IF s.queue = <<>> \/ s.closed THEN NoTime
  ELSE IF s.policy = "fixed_window" THEN WindowOf(s)
  ELSE s.now

next_wakeup_ns(s) ==
  IF s.queue = <<>> \/ s.closed THEN NoTime
  ELSE IF s.policy = "fixed_window" THEN WindowOf(s)
  ELSE IF s.policy = "size_or_time" /\ ~Full(s) THEN OldestDeadline(s)
  ELSE s.now

\* The dispatch times and triggers allowed at t: at most one of each.
Fire(at, trigger) == [at |-> at, trigger |-> trigger]

\* Mutant: nothing fires at the very instant it becomes due.
eligible_dispatch_Strict(s, t) ==
  IF s.queue = <<>> THEN {}
  ELSE IF s.policy = "no_batching" THEN
    IF s.queue[1].admitted < t THEN {Fire(t, "immediate")} ELSE {}
  ELSE IF s.policy = "fixed_window" THEN
    IF next_wakeup_ns(s) < t THEN {Fire(next_wakeup_ns(s), "window")} ELSE {}
  ELSE IF Full(s) THEN {Fire(t, "size")}
  ELSE IF OldestDeadline(s) < t THEN {Fire(OldestDeadline(s), "timeout")}
  ELSE {}

eligible_dispatch(s, t) ==
  IF s.queue = <<>> THEN {}
  ELSE IF s.policy = "no_batching" THEN {Fire(t, "immediate")}
  ELSE IF s.policy = "fixed_window" THEN
    IF next_wakeup_ns(s) \in 0..t THEN {Fire(next_wakeup_ns(s), "window")} ELSE {}
  ELSE IF Full(s) THEN {Fire(t, "size")}
  ELSE IF OldestDeadline(s) <= t THEN {Fire(OldestDeadline(s), "timeout")}
  ELSE {}

BatchCount(s) == Fewer(MaxBatch, Len(s.queue))

\* _pop_batch: the batch it returns, and the scheduler it leaves behind.
PoppedBatch(s, d) ==
  [ordinal  |-> s.ordinal,
   dispatch |-> d.at,
   trigger  |-> d.trigger,
   requests |-> SubSeq(s.queue, 1, BatchCount(s))]

\* Mutant: the last request of the batch stays in the queue.
AfterPop_LeavesLast(s, d) ==
  [s EXCEPT !.queue = SubSeq(s.queue, BatchCount(s), Len(s.queue)),
            !.ordinal = @ + 1]

AfterPop(s, d) ==
  [policy     |-> s.policy,
   queue      |-> SubSeq(s.queue, BatchCount(s) + 1, Len(s.queue)),
   now        |-> s.now,
   ordinal    |-> s.ordinal + 1,
   closed     |-> s.closed,
   nextWindow |-> IF s.policy = "fixed_window" THEN d.at + Window ELSE s.nextWindow]

\* Mutant: a busy worker does not skip windows.
SkipWindows_None(s, t) == s

\* advance_to(t, dispatch_slots=0) after _move_time: the worker is busy, and the
\* windows it sleeps through are skipped.
SkipWindows(s, t) ==
  [policy     |-> s.policy,
   queue      |-> s.queue,
   now        |-> s.now,
   ordinal    |-> s.ordinal,
   closed     |-> s.closed,
   nextWindow |-> IF s.policy = "fixed_window" /\ s.nextWindow <= t
                  THEN GridAfter(t) ELSE s.nextWindow]

\* The batch close() pops at time t, and the state a close() returns in: closed
\* only when its slots were enough to empty the queue.
Shutdown(t) == Fire(t, "shutdown")

AfterClose(s) ==
  [policy     |-> s.policy,
   queue      |-> s.queue,
   now        |-> s.now,
   ordinal    |-> s.ordinal,
   closed     |-> s.queue = <<>>,
   nextWindow |-> s.nextWindow]

SchedulerType(R) ==
  [policy : Policies, queue : Seq([id : R, admitted : Nat]), now : Nat, ordinal : Nat,
   closed : BOOLEAN, nextWindow : Nat \cup {NoTime}]
=============================================================================
