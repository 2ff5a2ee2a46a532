---------------------------- MODULE ScheduleTrace ---------------------------
(***************************************************************************)
(* schedule_trace of src/src/dynamic_batcher.py: the deterministic driver  *)
(* that owns one scheduler and replays an arrival trace through it.  The   *)
(* scheduler is DynamicBatcher; every call the driver makes on it is one   *)
(* of its actions, conjoined with the driver's own control.  A scheduler   *)
(* that the driver does not own has a caller who makes any calls at all.   *)
(***************************************************************************)
EXTENDS DynamicBatcher

CONSTANT LastArrival   (* Bound: the latest scheduled arrival of a trace.   *)

VARIABLES
  trace,   (* Scheduled arrival of each request, nondecreasing.             *)
  i,       (* The request the for loop is at.                               *)
  at       (* Where the driver stands: see Places.                          *)

traceVars == <<vars, trace, i, at>>

Places == {"arrival", "submitted", "advancing", "tail", "closing", "done", "raised", "free"}

N == Cardinality(Requests)

ASSUME TraceAssumption ==
  LastArrival \in Nat /\ IsFiniteSet(Requests) /\ Requests = 1..N

\* validate_trace refuses a trace that is not in arrival order.
Traces ==
  {a \in [Requests -> 0..LastArrival] : \A r \in 1..(N - 1) : a[r] <= a[r + 1]}

TraceInit ==
  /\ Init
  /\ i = 1
  /\ \/ at = "arrival" /\ trace \in Traces
     \/ at = "free" /\ trace = [r \in Requests |-> 0]

NextWakeup == next_wakeup_ns(sched)

\* Mutant: the wakeup at the arrival itself comes before the arrival.
WakeBeforeArrival_Inclusive ==
  /\ at = "arrival" /\ i <= N
  /\ NextWakeup # NoTime /\ NextWakeup <= trace[i]
  /\ AdvanceEnter(NextWakeup, Unlimited)
  /\ at' = "advancing"
  /\ UNCHANGED <<trace, i>>

\* while wakeup is not None and wakeup < arrival: advance_to(wakeup)
WakeBeforeArrival ==
  /\ at = "arrival" /\ i <= N
  /\ NextWakeup # NoTime /\ NextWakeup < trace[i]
  /\ AdvanceEnter(NextWakeup, Unlimited)
  /\ at' = "advancing"
  /\ UNCHANGED <<trace, i>>

NoEarlierWakeup == NextWakeup = NoTime \/ NextWakeup >= trace[i]

SubmitArrival ==
  /\ at = "arrival" /\ i <= N /\ NoEarlierWakeup
  /\ SubmitAccepted(i, trace[i])
  /\ at' = "submitted"
  /\ UNCHANGED <<trace, i>>

\* The queue overflowed: schedule_trace gives up.
OverflowRaises ==
  /\ at = "arrival" /\ i <= N /\ NoEarlierWakeup
  /\ SubmitRefused(i, trace[i])
  /\ at' = "raised"
  /\ UNCHANGED <<trace, i>>

\* advance_to(arrival) after this one request, whatever arrives with it.
AdvanceToArrival ==
  /\ at = "submitted"
  /\ AdvanceEnter(trace[i], Unlimited)
  /\ i' = i + 1
  /\ at' = "advancing"
  /\ UNCHANGED trace

FormBatch ==
  /\ at = "advancing"
  /\ AdvancePop
  /\ UNCHANGED <<trace, i, at>>

Advanced ==
  /\ at = "advancing"
  /\ AdvanceReturn
  /\ at' = IF i <= N THEN "arrival" ELSE "tail"
  /\ UNCHANGED <<trace, i>>

WakeAfterArrivals ==
  /\ at = "tail" /\ NextWakeup # NoTime
  /\ AdvanceEnter(NextWakeup, Unlimited)
  /\ at' = "advancing"
  /\ UNCHANGED <<trace, i>>

CloseTrace ==
  /\ at = "tail" /\ NextWakeup = NoTime
  /\ CloseEnter(sched.now, Unlimited)
  /\ at' = "closing"
  /\ UNCHANGED <<trace, i>>

\* The loop body of this close() is unreachable, its queue being empty; were it
\* not, the driver would stop here and DriverTerminates would fail.
Closed ==
  /\ at = "closing"
  /\ CloseReturn
  /\ at' = "done"
  /\ UNCHANGED <<trace, i>>

\* Requests are offered by number: which one is which makes no difference to a scheduler.
AnyCall ==
  /\ at = "free"
  /\ Next
  /\ offered' = 1..Cardinality(offered')
  /\ UNCHANGED <<trace, i, at>>

DriverNext ==
  \/ WakeBeforeArrival \/ SubmitArrival \/ OverflowRaises \/ AdvanceToArrival
  \/ FormBatch \/ Advanced
  \/ WakeAfterArrivals \/ CloseTrace \/ Closed

TraceNext == DriverNext \/ AnyCall

\* One thread, which nothing can block.
TraceSpec == TraceInit /\ [][TraceNext]_traceVars /\ WF_traceVars(DriverNext)

-----------------------------------------------------------------------------
(***************************************************************************)
(* Properties                                                              *)
(***************************************************************************)
\* The loop over wakeups makes progress: the driver returns or raises.
DriverTerminates == (at = "arrival") ~> (at \in {"done", "raised"})

(* The batches of size_or_time told without a queue or a clock, by the rule   *)
(* of the scheduler's documentation: a batch opens with its first request, and *)
(* the next one joins while there is room and it arrives by the opener's       *)
(* deadline, the deadline itself included.                                     *)
JoinsBatch(a, first, r) ==
  /\ r - first < MaxBatch
  /\ a[r] <= a[first] + MaxWait

\* The request that opens the batch of each.
Opener(a) ==
  LET opener[r \in 1..N] ==
        IF r = 1 THEN 1
        ELSE IF JoinsBatch(a, opener[r - 1], r) THEN opener[r - 1] ELSE r
  IN  opener

Openers(a) == {Opener(a)[r] : r \in 1..N}

ReferenceSizes(a) ==
  [first \in Openers(a) |-> Cardinality({r \in 1..N : Opener(a)[r] = first})]

\* No two requests arrive together at the deadline of an earlier one.
Untied(a) ==
  \A first, r \in 1..(N - 1) :
    first <= r /\ a[r] = a[r + 1] => a[r] # a[first] + MaxWait

(* The driver forms exactly the batches of the reference, unless requests      *)
(* that arrive together meet a deadline: see ArrivalsEnterFirst.               *)
MatchesReference ==
  at = "done" /\ sched.policy = "size_or_time" /\ Untied(trace) =>
    /\ Len(formed) = Cardinality(Openers(trace))
    /\ \A b \in DOMAIN formed :
         LET first == formed[b].requests[1].id
         IN  /\ first \in Openers(trace)
             /\ Len(formed[b].requests) = ReferenceSizes(trace)[first]

(* Every policy forms its own batches: those of the reference, on its grid.  *)
PolicyKept == MatchesReference /\ WindowsOnTheGrid

(* The order that VirtualTimeScheduler asks of its caller: all that arrives at *)
(* an instant is submitted before the batches of that instant are taken.  So a *)
(* batch with room leaves nobody behind who has arrived by its dispatch time.  *)
ArrivalsEnterFirst ==
  [][ at = "advancing" /\ formed' # formed /\ Len(LastBatch'.requests) < MaxBatch
      => \A r \in Requests \ offered : trace[r] > LastBatch'.dispatch ]_traceVars
=============================================================================
