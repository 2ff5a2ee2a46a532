----------------------------- MODULE Week03Proofs ---------------------------
(***************************************************************************)
(* Theorems about what serve_week03.py is built on: the scheduler that     *)
(* forms the batches of a case, under any caller (DynamicBatcher), its     *)
(* driver schedule_trace, which forms the batches of a reference           *)
(* (ScheduleTrace), and the store that commits the cases of a matrix, for  *)
(* every number of cases, traces and limits, however many kills and        *)
(* damaged files (CaseStore).                                              *)
(***************************************************************************)
EXTENDS ScheduleTrace, CaseStore, FiniteSetTheorems, SequenceTheorems, TLAPS

USE ConfigAssumption, BoundsAssumption

(***************************************************************************)
(* What the operators on one scheduler record return.                      *)
(***************************************************************************)

\* A grid point computed by the integer divisions of the code is a natural
\* number, and GridAfter really is later than its argument.
LEMMA GridLemma ==
  ASSUME NEW t \in Nat, Window > 0
  PROVE  /\ GridAtOrAfter(t) \in Nat
         /\ GridAfter(t) \in Nat
         /\ GridAfter(t) > t
  BY DEF GridAtOrAfter, GridAfter

LEMMA FieldTypes ==
  ASSUME NEW s \in SchedulerType(Requests)
  PROVE  /\ s.queue \in Seq(Entry)
         /\ s.policy \in Policies
         /\ s.policy \in PolicyName
         /\ s.policy = "fixed_window" => Window > 0
         /\ s.now \in Nat
         /\ s.ordinal \in Nat
         /\ s.closed \in BOOLEAN
         /\ s.nextWindow \in Nat \cup {NoTime}
         /\ Len(s.queue) \in Nat
         /\ s.queue # <<>> => /\ Len(s.queue) >= 1
                              /\ s.queue[1] \in Entry
                              /\ s.queue[1].admitted \in Nat
<1>1. s.queue \in Seq(Entry)
  BY DEF SchedulerType, Entry
<1>2. Len(s.queue) \in Nat /\ (s.queue # <<>> => Len(s.queue) >= 1)
  BY <1>1, EmptySeq, LenProperties
<1>3. s.queue # <<>> => s.queue[1] \in Entry
  BY <1>1, <1>2, ElementOfSeq
<1>. QED
  BY <1>1, <1>2, <1>3 DEF SchedulerType, Entry

\* Submitting appends exactly the new entry.
LEMMA AdmitLemma ==
  ASSUME NEW s \in SchedulerType(Requests), NEW r \in Requests, NEW t \in Nat
  PROVE  /\ Admit(s, r, t) \in SchedulerType(Requests)
         /\ Admit(s, r, t).policy = s.policy
         /\ Admit(s, r, t).queue = Append(s.queue, [id |-> r, admitted |-> t])
         /\ Len(Admit(s, r, t).queue) = Len(s.queue) + 1
<1>. DEFINE e == [id |-> r, admitted |-> t]
<1>1. s.queue \in Seq(Entry) /\ e \in Entry
  BY FieldTypes DEF Entry
<1>2. Append(s.queue, e) \in Seq(Entry) /\ Len(Append(s.queue, e)) = Len(s.queue) + 1
  BY <1>1, AppendProperties
<1>. QED
  BY <1>2, FieldTypes DEF Admit, SchedulerType, Entry

\* A dispatch decision is dated by a natural number not after the call, and is
\* only taken with a request in the queue.
LEMMA EligibleLemma ==
  ASSUME NEW s \in SchedulerType(Requests), NEW t \in Nat,
         NEW d \in eligible_dispatch(s, t)
  PROVE  /\ s.queue # <<>>
         /\ d.at \in Nat
         /\ d.at <= t
         /\ d.trigger \in Triggers \ {"shutdown"}
         /\ d.trigger = "size" => s.policy = "size_or_time" /\ Full(s)
         /\ d.trigger = "timeout" => s.policy = "size_or_time" /\ ~Full(s)
         /\ d.trigger = "window" => /\ s.policy = "fixed_window"
                                    /\ d.at >= s.nextWindow
<1>1. s.queue # <<>>
  BY DEF eligible_dispatch
<1>2. s.queue[1].admitted \in Nat
  BY <1>1, FieldTypes
<1>3. CASE s.policy = "no_batching"
  BY <1>1, <1>3 DEF eligible_dispatch, Triggers, Fire
<1>4. CASE s.policy = "size_or_time"
  BY <1>1, <1>2, <1>4 DEF eligible_dispatch, Triggers, OldestDeadline, Fire
<1>5. CASE s.policy = "fixed_window"
  <2>1. d = Fire(next_wakeup_ns(s), "window") /\ next_wakeup_ns(s) \in 0..t
    BY <1>1, <1>5 DEF eligible_dispatch
  <2>2. d.at = WindowOf(s)
    BY <2>1, <1>1, <1>5 DEF next_wakeup_ns, NoTime, Fire
  <2>3. GridAtOrAfter(s.queue[1].admitted) \in Nat
    BY <1>2, <1>5, FieldTypes, GridLemma
  <2>4. d.at \in Nat /\ d.at >= s.nextWindow
    BY <2>2, <2>3 DEF WindowOf, Later, SchedulerType, NoTime
  <2>. QED
    BY <1>1, <1>5, <2>1, <2>4 DEF Triggers, Fire
<1>. QED
  BY <1>3, <1>4, <1>5, FieldTypes DEF PolicyName

\* What _pop_batch takes from the queue and what it leaves: a nonempty prefix of
\* at most max_batch_size requests, and the rest of the queue behind it.
LEMMA PopLemma ==
  ASSUME NEW s \in SchedulerType(Requests), s.queue # <<>>,
         NEW d, d.at \in Nat, d.trigger \in Triggers
  PROVE  /\ AfterPop(s, d) \in SchedulerType(Requests)
         /\ AfterPop(s, d).policy = s.policy
         /\ PoppedBatch(s, d) \in BatchType
         /\ PoppedBatch(s, d).requests \in Seq(Entry)
         /\ PoppedBatch(s, d).requests \o AfterPop(s, d).queue = s.queue
         /\ Len(PoppedBatch(s, d).requests) = BatchCount(s)
         /\ BatchCount(s) \in 1..MaxBatch
         /\ Len(AfterPop(s, d).queue) = Len(s.queue) - BatchCount(s)
<1>. DEFINE q == s.queue
            n == BatchCount(s)
<1>1. q \in Seq(Entry) /\ Len(q) \in Nat \ {0}
  BY FieldTypes
<1>2. n \in 1..Len(q) /\ n <= MaxBatch /\ n \in Nat
  BY <1>1 DEF BatchCount, Fewer
<1>3. SubSeq(q, 1, n) \in Seq(Entry) /\ Len(SubSeq(q, 1, n)) = n
  BY <1>1, <1>2
<1>4. SubSeq(q, n + 1, Len(q)) \in Seq(Entry) /\ Len(SubSeq(q, n + 1, Len(q))) = Len(q) - n
  BY <1>1, <1>2
<1>5. SubSeq(q, 1, n) \o SubSeq(q, n + 1, Len(q)) = q
  <2>1. 1 \in 1..Len(q) + 1 /\ n \in 1 - 1..Len(q) /\ Len(q) \in n..Len(q)
    BY <1>1, <1>2
  <2>2. SubSeq(q, 1, n) \o SubSeq(q, n + 1, Len(q)) = SubSeq(q, 1, Len(q))
    BY <1>1, <2>1, ConcatAdjacentSubSeq
  <2>. QED
    BY <1>1, <2>2, SubSeqFull
<1>6. /\ AfterPop(s, d).queue = SubSeq(q, n + 1, Len(q))
      /\ AfterPop(s, d).policy = s.policy
  BY DEF AfterPop, SchedulerType
<1>7. AfterPop(s, d) \in SchedulerType(Requests)
  BY <1>4 DEF AfterPop, SchedulerType, Entry
<1>8. PoppedBatch(s, d) \in BatchType /\ PoppedBatch(s, d).requests = SubSeq(q, 1, n)
  BY <1>3 DEF PoppedBatch, BatchType, SchedulerType
<1>9. PoppedBatch(s, d).requests \o AfterPop(s, d).queue = s.queue
  BY <1>5, <1>6, <1>8
<1>10. /\ Len(PoppedBatch(s, d).requests) = n
       /\ Len(AfterPop(s, d).queue) = Len(q) - n
       /\ PoppedBatch(s, d).requests \in Seq(Entry)
  BY <1>3, <1>4, <1>6, <1>8
<1>11. n \in 1..MaxBatch
  BY <1>1, <1>2
<1>. HIDE DEF n
<1>. QED
  BY <1>6, <1>7, <1>8, <1>9, <1>10, <1>11 DEF n

\* A busy worker's call leaves the next window after the time it was given.
LEMMA SkipLemma ==
  ASSUME NEW s \in SchedulerType(Requests), NEW t \in Nat
  PROVE  /\ SkipWindows(s, t) \in SchedulerType(Requests)
         /\ SkipWindows(s, t).policy = s.policy
         /\ SkipWindows(s, t).queue = s.queue
         /\ SkipWindows(s, t).now = s.now
         /\ SkipWindows(s, t).closed = s.closed
         /\ s.policy = "fixed_window" /\ s.nextWindow \in Nat
              => SkipWindows(s, t).nextWindow \in Nat /\ SkipWindows(s, t).nextWindow > t
<1>. DEFINE w == SkipWindows(s, t).nextWindow
<1>1. s.policy = "fixed_window" => GridAfter(t) \in Nat /\ GridAfter(t) > t
  BY FieldTypes, GridLemma
<1>2. w = IF s.policy = "fixed_window" /\ s.nextWindow <= t
          THEN GridAfter(t) ELSE s.nextWindow
  BY DEF SkipWindows
<1>3. w \in Nat \cup {NoTime}
  BY <1>1, <1>2, FieldTypes
<1>4. s.policy = "fixed_window" /\ s.nextWindow \in Nat => w \in Nat /\ w > t
  BY <1>1, <1>2
<1>5. SkipWindows(s, t) \in SchedulerType(Requests)
  BY <1>2, <1>3 DEF SkipWindows, SchedulerType
<1>. QED
  BY <1>4, <1>5 DEF SkipWindows

\* Moving time changes nothing else.
LEMMA MoveLemma ==
  ASSUME NEW s \in SchedulerType(Requests), NEW t \in Nat
  PROVE  /\ MoveTo(s, t) \in SchedulerType(Requests)
         /\ MoveTo(s, t).policy = s.policy
         /\ MoveTo(s, t).queue = s.queue
         /\ MoveTo(s, t).now = t
         /\ MoveTo(s, t).closed = s.closed
         /\ MoveTo(s, t).nextWindow = s.nextWindow
  BY DEF MoveTo, SchedulerType

\* next_wakeup_ns and _eligible_dispatch are two computations of one instant.
LEMMA WakeupLemma ==
  ASSUME NEW s \in SchedulerType(Requests), NEW t \in Nat, t >= s.now,
         next_wakeup_ns(s) # NoTime
  PROVE  /\ next_wakeup_ns(s) \in Nat
         /\ eligible_dispatch(s, t) # {} <=> next_wakeup_ns(s) <= t
<1>1. s.queue # <<>> /\ ~s.closed
  BY DEF next_wakeup_ns
<1>2. s.now \in Nat /\ s.queue[1].admitted \in Nat
  BY <1>1, FieldTypes
<1>3. CASE s.policy = "no_batching"
  BY <1>1, <1>2, <1>3 DEF next_wakeup_ns, eligible_dispatch
<1>4. CASE s.policy = "fixed_window"
  <2>1. GridAtOrAfter(s.queue[1].admitted) \in Nat
    BY <1>2, <1>4, FieldTypes, GridLemma
  <2>2. WindowOf(s) \in Nat
    BY <2>1, FieldTypes DEF WindowOf, Later, NoTime
  <2>3. next_wakeup_ns(s) = WindowOf(s)
    BY <1>1, <1>4 DEF next_wakeup_ns
  <2>. QED
    BY <1>1, <1>4, <2>2, <2>3 DEF eligible_dispatch
<1>5. CASE s.policy = "size_or_time"
  <2>1. CASE Full(s)
    BY <1>1, <1>2, <1>5, <2>1 DEF next_wakeup_ns, eligible_dispatch
  <2>2. CASE ~Full(s)
    <3>1. OldestDeadline(s) \in Nat
      BY <1>2 DEF OldestDeadline
    <3>2. next_wakeup_ns(s) = OldestDeadline(s)
      BY <1>1, <1>5, <2>2 DEF next_wakeup_ns
    <3>3. eligible_dispatch(s, t) # {} <=> OldestDeadline(s) <= t
      BY <1>1, <1>5, <2>2 DEF eligible_dispatch
    <3>. QED
      BY <3>1, <3>2, <3>3
  <2>. QED
    BY <2>1, <2>2
<1>. QED
  BY <1>3, <1>4, <1>5, FieldTypes DEF PolicyName

(***************************************************************************)
(* Type correctness.                                                       *)
(***************************************************************************)

\* One _pop_batch, whichever loop runs it, keeps the types and the capacity.
LEMMA PopTypes ==
  ASSUME TypeOK, NEW d, Pop(d), sched.queue # <<>>, d.at \in Nat, d.trigger \in Triggers
  PROVE  TypeOK'
<1>1. sched \in SchedulerType(Requests)
  BY DEF TypeOK
<1>2. /\ sched' \in SchedulerType(Requests)
      /\ Len(sched'.queue) = Len(sched.queue) - BatchCount(sched)
      /\ BatchCount(sched) \in 1..MaxBatch
  BY <1>1, PopLemma DEF Pop
<1>3. Len(sched'.queue) <= Capacity
  BY <1>1, <1>2, FieldTypes DEF TypeOK
<1>4. formed' \in Seq(BatchType) /\ dispatched' \in Seq(Entry)
  BY <1>1, PopLemma, AppendProperties, ConcatProperties DEF Pop, TypeOK
<1>5. call' \in CallType
  <2>1. call \in CallType
    BY DEF TypeOK
  <2>2. call' = [op |-> call.op, slots |-> call.slots, count |-> call.count + 1]
    BY DEF Pop
  <2>3. /\ call.op \in {"idle", "advance", "close"}
        /\ call.slots \in Int
        /\ call.count + 1 \in Nat
    BY <2>1 DEF CallType
  <2>. QED
    BY <2>2, <2>3 DEF CallType
<1>. QED
  BY <1>2, <1>3, <1>4, <1>5 DEF TypeOK, Pop

\* Moving the clock of the scheduler keeps its type and its queue.
LEMMA MoveTypes ==
  ASSUME TypeOK, NEW t \in Nat, sched' = MoveTo(sched, t)
  PROVE  sched' \in SchedulerType(Requests) /\ Len(sched'.queue) <= Capacity
<1>1. t \in Nat /\ sched \in SchedulerType(Requests)
  BY DEF TypeOK
<1>. QED
  BY <1>1, MoveLemma DEF TypeOK

\* The calls of a caller whose times are not bounded by MaxTime.
AnyNext ==
  \/ \E r \in Requests, t \in Nat : SubmitAccepted(r, t) \/ SubmitRefused(r, t)
  \/ \E t \in Nat :
       RaiseAfterMove(t) \/ AdvanceClosed(t) \/ AdvanceBusy(t) \/ CloseAgain(t)
  \/ \E t \in Nat, slots \in SlotChoices : AdvanceEnter(t, slots) \/ CloseEnter(t, slots)
  \/ AdvancePop \/ AdvanceReturn \/ ClosePop \/ CloseReturn

AnySpec == Init /\ [][AnyNext]_vars

\* A scheduler is made with the types,
LEMMA InitTypes == Init => TypeOK
<1>. SUFFICES ASSUME Init PROVE TypeOK
  OBVIOUS
<1>1. ASSUME NEW policy \in Policies
      PROVE  /\ NewScheduler(policy) \in SchedulerType(Requests)
             /\ NewScheduler(policy).queue = <<>>
  BY EmptySeq DEF NewScheduler, SchedulerType
<1>2. sched \in SchedulerType(Requests) /\ Len(sched.queue) <= Capacity
  BY <1>1, EmptySeq DEF Init
<1>3. call \in CallType
  BY DEF Init, Idle, CallType
<1>. QED
  BY <1>2, <1>3, EmptySeq DEF Init, TypeOK

\* ... and every call keeps them.
LEMMA StepTypes == TypeOK /\ [AnyNext]_vars => TypeOK'
<1>. SUFFICES ASSUME TypeOK, [AnyNext]_vars PROVE TypeOK'
  OBVIOUS
<1>0. sched \in SchedulerType(Requests)
  BY DEF TypeOK
<1>1. ASSUME NEW r \in Requests, NEW t \in Nat, SubmitAccepted(r, t)
      PROVE  TypeOK'
  <2>1. /\ sched' \in SchedulerType(Requests)
        /\ Len(sched'.queue) <= Capacity
    BY <1>0, <1>1, AdmitLemma, FieldTypes DEF SubmitAccepted, MayAdmit
  <2>2. admitted' \in Seq(Entry)
    BY <1>1, AppendProperties DEF SubmitAccepted, TypeOK, Entry
  <2>. QED
    BY <1>1, <2>1, <2>2 DEF SubmitAccepted, TypeOK
<1>2. ASSUME NEW r \in Requests, NEW t \in Nat, SubmitRefused(r, t)
      PROVE  TypeOK'
  <2>1. sched' \in SchedulerType(Requests) /\ Len(sched'.queue) <= Capacity
    BY <1>2, MoveTypes DEF SubmitRefused
  <2>. QED
    BY <1>2, <2>1 DEF SubmitRefused, TypeOK
<1>3. ASSUME NEW t \in Nat,
             RaiseAfterMove(t) \/ AdvanceClosed(t) \/ CloseAgain(t)
      PROVE  TypeOK'
  <2>1. sched' \in SchedulerType(Requests) /\ Len(sched'.queue) <= Capacity
    BY <1>3, MoveTypes DEF RaiseAfterMove, AdvanceClosed, CloseAgain
  <2>2. UNCHANGED <<call, history>>
    BY <1>3 DEF RaiseAfterMove, AdvanceClosed, CloseAgain
  <2>. QED
    BY <2>1, <2>2 DEF TypeOK, history
<1>4. ASSUME NEW t \in Nat, AdvanceBusy(t)
      PROVE  TypeOK'
  <2>1. t \in Nat /\ MoveTo(sched, t) \in SchedulerType(Requests)
    BY <1>0, MoveLemma
  <2>2. /\ sched' \in SchedulerType(Requests)
        /\ sched'.queue = sched.queue
    BY <1>0, <1>4, <2>1, MoveLemma, SkipLemma DEF AdvanceBusy
  <2>. QED
    BY <1>4, <2>1, <2>2 DEF AdvanceBusy, TypeOK
<1>5. ASSUME NEW t \in Nat, NEW slots \in SlotChoices,
             AdvanceEnter(t, slots) \/ CloseEnter(t, slots)
      PROVE  TypeOK'
  <2>1. sched' \in SchedulerType(Requests) /\ Len(sched'.queue) <= Capacity
    BY <1>5, MoveTypes DEF AdvanceEnter, CloseEnter
  <2>2. call' \in CallType
    BY <1>5 DEF AdvanceEnter, CloseEnter, Entering, CallType, SlotChoices, Unlimited
  <2>3. UNCHANGED history
    BY <1>5 DEF AdvanceEnter, CloseEnter
  <2>. QED
    BY <2>1, <2>2, <2>3 DEF TypeOK, history
<1>6. CASE AdvancePop
  <2>1. PICK d \in eligible_dispatch(sched, sched.now) : Pop(d)
    BY <1>6 DEF AdvancePop
  <2>. QED
    BY <1>0, <2>1, EligibleLemma, FieldTypes, PopTypes
<1>7. CASE AdvanceReturn
  BY <1>7 DEF AdvanceReturn, TypeOK, Idle, CallType, history
<1>8. CASE ClosePop
  BY <1>0, <1>8, FieldTypes, PopTypes DEF ClosePop, Shutdown, Fire, Triggers
<1>9. CASE CloseReturn
  <2>1. sched' \in SchedulerType(Requests) /\ sched'.queue = sched.queue
    BY <1>0, <1>9, FieldTypes DEF CloseReturn, AfterClose, SchedulerType, Entry
  <2>2. call' \in CallType
    BY <1>9 DEF CloseReturn, Idle, CallType
  <2>3. partClosed' \in BOOLEAN
    BY <1>9 DEF CloseReturn, TypeOK
  <2>. QED
    BY <1>9, <2>1, <2>2, <2>3 DEF CloseReturn, TypeOK
<1>10. CASE UNCHANGED vars
  BY <1>10 DEF vars, TypeOK
<1>. QED
  BY <1>1, <1>2, <1>3, <1>4, <1>5, <1>6, <1>7, <1>8, <1>9, <1>10 DEF AnyNext

(***************************************************************************)
(* The driver's calls are calls of any caller: its times are arrivals and  *)
(* wakeups.                                                                *)
(***************************************************************************)

\* Where the driver may stand.
DriverTypes ==
  /\ i \in 1..(N + 1)
  /\ at \in Places
  /\ trace \in [Requests -> Nat]
  /\ at = "submitted" => i <= N
  /\ \A r \in 1..(N - 1) : trace[r] <= trace[r + 1]

\* A trace has a finite number of requests, numbered from 1.
LEMMA RequestNumbers == N \in Nat /\ Requests = 1..N /\ LastArrival \in Nat
  BY TraceAssumption, FS_CardinalityType DEF N

\* The driver starts before its first arrival.
LEMMA DriverInit == TraceInit => DriverTypes
<1>. SUFFICES ASSUME TraceInit PROVE DriverTypes
  OBVIOUS
<1>1. trace \in [Requests -> Nat]
  BY RequestNumbers DEF TraceInit, Traces
<1>2. \A r \in 1..(N - 1) : trace[r] <= trace[r + 1]
  <2>1. CASE trace \in Traces
    BY <2>1 DEF Traces
  <2>2. CASE trace = [r \in Requests |-> 0]
    <3>1. ASSUME NEW r \in 1..(N - 1) PROVE r \in Requests /\ r + 1 \in Requests
      BY RequestNumbers
    <3>. QED
      BY <2>2, <3>1
  <2>. QED
    BY <2>1, <2>2 DEF TraceInit
<1>. QED
  BY <1>1, <1>2, RequestNumbers DEF TraceInit, DriverTypes, Places

\* Its steps are steps of a caller.
LEMMA DriverStep ==
  ASSUME TypeOK, DriverTypes, [TraceNext]_traceVars
  PROVE  DriverTypes' /\ [AnyNext]_vars
<1>0. /\ sched \in SchedulerType(Requests) /\ sched.now \in Nat
      /\ i \in 1..(N + 1) /\ trace \in [Requests -> Nat] /\ N \in Nat /\ Requests = 1..N
      /\ at = "submitted" => i <= N
      /\ Unlimited \in SlotChoices
  BY FieldTypes, RequestNumbers DEF TypeOK, DriverTypes, SlotChoices
<1>1. i <= N => i \in Requests /\ trace[i] \in Nat
  BY <1>0
<1>2. NextWakeup # NoTime => NextWakeup \in Nat
  BY <1>0, WakeupLemma DEF NextWakeup
<1>3. CASE WakeBeforeArrival \/ WakeAfterArrivals
  <2>1. NextWakeup \in Nat /\ AdvanceEnter(NextWakeup, Unlimited)
    BY <1>2, <1>3 DEF WakeBeforeArrival, WakeAfterArrivals
  <2>2. DriverTypes'
    BY <1>0, <1>3 DEF WakeBeforeArrival, WakeAfterArrivals, DriverTypes, Places
  <2>. QED
    BY <1>0, <2>1, <2>2 DEF AnyNext
<1>4. CASE SubmitArrival
  <2>1. DriverTypes'
    BY <1>0, <1>4 DEF SubmitArrival, DriverTypes, Places
  <2>2. i <= N /\ SubmitAccepted(i, trace[i])
    BY <1>4 DEF SubmitArrival
  <2>. QED
    BY <1>1, <2>1, <2>2 DEF AnyNext
<1>5. CASE OverflowRaises
  <2>1. DriverTypes'
    BY <1>0, <1>5 DEF OverflowRaises, DriverTypes, Places
  <2>2. i <= N /\ SubmitRefused(i, trace[i])
    BY <1>5 DEF OverflowRaises
  <2>. QED
    BY <1>1, <2>1, <2>2 DEF AnyNext
<1>6. CASE AdvanceToArrival
  <2>1. DriverTypes'
    BY <1>0, <1>6 DEF AdvanceToArrival, DriverTypes, Places
  <2>2. i <= N /\ AdvanceEnter(trace[i], Unlimited)
    BY <1>0, <1>6 DEF AdvanceToArrival
  <2>. QED
    BY <1>0, <1>1, <2>1, <2>2 DEF AnyNext
<1>7. CASE FormBatch \/ Advanced \/ Closed
  <2>1. DriverTypes'
    BY <1>0, <1>7 DEF FormBatch, Advanced, Closed, DriverTypes, Places
  <2>2. AdvancePop \/ AdvanceReturn \/ CloseReturn
    BY <1>7 DEF FormBatch, Advanced, Closed
  <2>. QED
    BY <2>1, <2>2 DEF AnyNext
<1>8. CASE CloseTrace
  <2>1. DriverTypes'
    BY <1>0, <1>8 DEF CloseTrace, DriverTypes, Places
  <2>2. CloseEnter(sched.now, Unlimited)
    BY <1>8 DEF CloseTrace
  <2>. QED
    BY <1>0, <2>1, <2>2 DEF AnyNext
<1>9. CASE AnyCall
  <2>1. DriverTypes'
    BY <1>9 DEF AnyCall, DriverTypes
  <2>2. Next
    BY <1>9 DEF AnyCall
  <2>3. Next => AnyNext
    BY DEF Next, AnyNext
  <2>. QED
    BY <2>1, <2>2, <2>3
<1>10. CASE UNCHANGED traceVars
  BY <1>10 DEF traceVars, vars, DriverTypes
<1>. QED
  BY <1>3, <1>4, <1>5, <1>6, <1>7, <1>8, <1>9, <1>10 DEF TraceNext, DriverNext

\* The driver keeps its place and the scheduler its types.
LEMMA DriverInvariant == TraceSpec => [](TypeOK /\ DriverTypes)
<1>1. TraceInit => TypeOK /\ DriverTypes
  BY InitTypes, DriverInit DEF TraceInit
<1>2. TypeOK /\ DriverTypes /\ [TraceNext]_traceVars => TypeOK' /\ DriverTypes'
  BY StepTypes, DriverStep
<1>. QED
  BY <1>1, <1>2, PTL DEF TraceSpec

\* The callers of the class and the driver are among its callers at any times.
LEMMA EveryCaller == Spec \/ TraceSpec => AnySpec
<1>1. TypeOK /\ DriverTypes /\ [TraceNext]_traceVars => [AnyNext]_vars
  BY DriverStep
<1>2. TraceInit => Init
  BY DEF TraceInit
<1>3. [Next]_vars => [AnyNext]_vars
  BY DEF Next, AnyNext
<1>4. TraceSpec => AnySpec
  BY <1>1, <1>2, DriverInvariant, PTL DEF TraceSpec, AnySpec
<1>5. Spec => AnySpec
  BY <1>3, PTL DEF Spec, AnySpec
<1>. QED
  BY <1>4, <1>5

\* The state keeps its types, and the queue never exceeds queue_capacity.
THEOREM TypeCorrect == Spec \/ TraceSpec => []TypeOK
  BY InitTypes, StepTypes, EveryCaller, PTL DEF AnySpec

(***************************************************************************)
(* The steps of the specification, by what they do to the queue.           *)
(***************************************************************************)

\* Entry steps that only move the clock, and the two that return.
MovesOnly ==
  \/ \E r \in Requests, t \in Nat : SubmitRefused(r, t)
  \/ \E t \in Nat : RaiseAfterMove(t) \/ AdvanceClosed(t) \/ CloseAgain(t)
  \/ \E t \in Nat, slots \in SlotChoices :
       AdvanceEnter(t, slots) \/ CloseEnter(t, slots)

\* They leave every field but the clock alone, and the clock does not go back.
LEMMA MovesOnlyLemma ==
  ASSUME TypeOK, MovesOnly
  PROVE  /\ UNCHANGED <<admitted, dispatched, formed, busyAt, partClosed>>
         /\ sched'.queue = sched.queue
         /\ sched'.closed = sched.closed
         /\ sched'.nextWindow = sched.nextWindow
         /\ sched'.now \in Nat /\ sched'.now >= sched.now
         /\ call.op = "idle"
         /\ sched.closed => call' = call
<1>1. sched \in SchedulerType(Requests)
  BY DEF TypeOK
<1>2. ASSUME NEW r \in Requests, NEW t \in Nat, SubmitRefused(r, t)
      PROVE  /\ sched' = MoveTo(sched, t) /\ t >= sched.now /\ t \in Nat
             /\ UNCHANGED <<admitted, dispatched, formed, busyAt, partClosed>>
             /\ call.op = "idle" /\ call' = call
  BY <1>2 DEF SubmitRefused, MayMoveTo
<1>3. ASSUME NEW t \in Nat, RaiseAfterMove(t) \/ AdvanceClosed(t) \/ CloseAgain(t)
      PROVE  /\ sched' = MoveTo(sched, t) /\ t >= sched.now /\ t \in Nat
             /\ UNCHANGED <<admitted, dispatched, formed, busyAt, partClosed>>
             /\ call.op = "idle" /\ call' = call
  BY <1>3 DEF RaiseAfterMove, AdvanceClosed, CloseAgain, MayMoveTo, history
<1>4. ASSUME NEW t \in Nat, NEW slots \in SlotChoices,
             AdvanceEnter(t, slots) \/ CloseEnter(t, slots)
      PROVE  /\ sched' = MoveTo(sched, t) /\ t >= sched.now /\ t \in Nat
             /\ UNCHANGED <<admitted, dispatched, formed, busyAt, partClosed>>
             /\ call.op = "idle" /\ ~sched.closed
  BY <1>4 DEF AdvanceEnter, CloseEnter, MayMoveTo, history
<1>5. PICK t \in Nat :
        /\ sched' = MoveTo(sched, t) /\ t >= sched.now
        /\ UNCHANGED <<admitted, dispatched, formed, busyAt, partClosed>>
        /\ call.op = "idle"
        /\ sched.closed => call' = call
  BY <1>2, <1>3, <1>4 DEF MovesOnly
<1>. QED
  BY <1>1, <1>5, MoveLemma

\* advance_to with no slot touches the clock and the next window only.
LEMMA BusyLemma ==
  ASSUME TypeOK, NEW t \in Nat, AdvanceBusy(t)
  PROVE  /\ UNCHANGED <<call, admitted, dispatched, formed, partClosed>>
         /\ sched'.queue = sched.queue
         /\ sched'.closed = sched.closed /\ ~sched.closed
         /\ sched'.now = t /\ busyAt' = t /\ t \in Nat
         /\ sched.policy = "fixed_window" /\ sched.nextWindow \in Nat
              => sched'.nextWindow \in Nat /\ sched'.nextWindow > t
<1>1. sched \in SchedulerType(Requests) /\ t \in Nat
  BY DEF TypeOK
<1>2. MoveTo(sched, t) \in SchedulerType(Requests)
  BY <1>1, MoveLemma
<1>. DEFINE m == MoveTo(sched, t)
<1>3. sched' = SkipWindows(m, t)
  BY DEF AdvanceBusy
<1>4. /\ m.queue = sched.queue /\ m.closed = sched.closed
      /\ m.policy = sched.policy /\ m.now = t /\ m.nextWindow = sched.nextWindow
  BY <1>1, MoveLemma
<1>5. /\ sched'.queue = m.queue /\ sched'.closed = m.closed /\ sched'.now = m.now
      /\ m.policy = "fixed_window" /\ m.nextWindow \in Nat
           => sched'.nextWindow \in Nat /\ sched'.nextWindow > t
  BY <1>1, <1>2, <1>3, SkipLemma
<1>. QED
  BY <1>1, <1>4, <1>5 DEF AdvanceBusy

\* Both loops form batches through _pop_batch, with a dispatch time that is not
\* in the future and, for a window, not before the next window.
LEMMA PopOrigin ==
  ASSUME TypeOK, AdvancePop \/ ClosePop
  PROVE  \E d :
           /\ Pop(d)
           /\ sched.queue # <<>>
           /\ d.at \in Nat /\ d.trigger \in Triggers
           /\ d.trigger = "size" => Full(sched)
           /\ d.trigger = "timeout" => ~Full(sched)
           /\ d.trigger = "window" => d.at >= sched.nextWindow
           /\ d.trigger = "shutdown" => d.at = sched.now
           /\ d.trigger \notin {"window", "shutdown"} => sched.policy # "fixed_window"
           /\ d.trigger = "window" => sched.policy = "fixed_window"
           /\ call.op # "idle"
<1>1. sched \in SchedulerType(Requests) /\ sched.now \in Nat
  BY FieldTypes DEF TypeOK
<1>2. CASE AdvancePop
  <2>1. PICK d \in eligible_dispatch(sched, sched.now) : Pop(d)
    BY <1>2 DEF AdvancePop
  <2>2. d.trigger \notin {"window", "shutdown"} => sched.policy # "fixed_window"
    <3>1. CASE sched.policy = "fixed_window"
      <4>1. d = Fire(next_wakeup_ns(sched), "window")
        BY <3>1, <2>1 DEF eligible_dispatch
      <4>. QED
        BY <4>1 DEF Fire
    <3>. QED
      BY <3>1
  <2>3. call.op # "idle"
    BY <1>2 DEF AdvancePop
  <2>. QED
    BY <1>1, <2>1, <2>2, <2>3, EligibleLemma
<1>3. CASE ClosePop
  <2>. DEFINE d == Shutdown(sched.now)
  <2>1. Pop(d) /\ sched.queue # <<>> /\ call.op # "idle"
    BY <1>3 DEF ClosePop
  <2>2. d.at = sched.now /\ d.trigger = "shutdown"
    BY DEF Shutdown, Fire
  <2>3. d.trigger \in Triggers
    BY <2>2 DEF Triggers
  <2>. QED
    BY <1>1, <2>1, <2>2, <2>3
<1>. QED
  BY <1>2, <1>3

\* Next in these terms.
LEMMA StepKinds ==
  ASSUME [AnyNext]_vars
  PROVE  \/ \E r \in Requests, t \in Nat : SubmitAccepted(r, t)
         \/ MovesOnly
         \/ \E t \in Nat : AdvanceBusy(t)
         \/ AdvancePop \/ ClosePop
         \/ AdvanceReturn
         \/ CloseReturn
         \/ UNCHANGED vars
  BY DEF AnyNext, MovesOnly

\* No step changes the policy the scheduler was made with.
LEMMA PolicyFixed ==
  ASSUME TypeOK, [AnyNext]_vars
  PROVE  sched'.policy = sched.policy
<1>1. sched \in SchedulerType(Requests)
  BY DEF TypeOK
<1>2. ASSUME NEW t \in Nat, sched' = MoveTo(sched, t)
      PROVE  sched'.policy = sched.policy
  BY <1>2 DEF MoveTo
<1>3. ASSUME NEW r \in Requests, NEW t \in Nat,
             SubmitAccepted(r, t) \/ SubmitRefused(r, t)
      PROVE  sched'.policy = sched.policy
  BY <1>3, <1>2 DEF SubmitAccepted, SubmitRefused, Admit
<1>4. ASSUME NEW t \in Nat,
             RaiseAfterMove(t) \/ AdvanceClosed(t) \/ AdvanceBusy(t) \/ CloseAgain(t)
      PROVE  sched'.policy = sched.policy
  BY <1>4, <1>2 DEF RaiseAfterMove, AdvanceClosed, AdvanceBusy, CloseAgain, SkipWindows, MoveTo
<1>5. ASSUME NEW t \in Nat, NEW slots \in SlotChoices,
             AdvanceEnter(t, slots) \/ CloseEnter(t, slots)
      PROVE  sched'.policy = sched.policy
  BY <1>5, <1>2 DEF AdvanceEnter, CloseEnter
<1>6. CASE AdvancePop \/ ClosePop
  BY <1>6 DEF AdvancePop, ClosePop, Pop, AfterPop
<1>7. CASE AdvanceReturn \/ CloseReturn \/ UNCHANGED vars
  BY <1>7 DEF AdvanceReturn, CloseReturn, AfterClose, vars
<1>. QED
  BY <1>3, <1>4, <1>5, <1>6, <1>7 DEF AnyNext

(***************************************************************************)
(* The safety invariants.                                                  *)
(***************************************************************************)

\* Every admitted request is queued or in exactly one batch, in order: each
\* loop pops the prefix that the history appends.
THEOREM ExactlyOnce == Spec \/ TraceSpec => []FifoExactlyOnce
<1>1. Init => FifoExactlyOnce
  BY EmptySeq, ConcatEmptySeq DEF Init, FifoExactlyOnce, NewScheduler
<1>2. TypeOK /\ FifoExactlyOnce /\ [AnyNext]_vars => FifoExactlyOnce'
  <2>. SUFFICES ASSUME TypeOK, FifoExactlyOnce, [AnyNext]_vars
                PROVE  FifoExactlyOnce'
    OBVIOUS
  <2>0. /\ sched \in SchedulerType(Requests)
        /\ sched.queue \in Seq(Entry)
        /\ dispatched \in Seq(Entry)
    BY FieldTypes DEF TypeOK
  <2>1. ASSUME NEW r \in Requests, NEW t \in Nat, SubmitAccepted(r, t)
        PROVE  FifoExactlyOnce'
    <3>. DEFINE e == [id |-> r, admitted |-> t]
    <3>1. /\ sched'.queue = Append(sched.queue, e)
          /\ dispatched' = dispatched
          /\ admitted' = Append(dispatched \o sched.queue, e)
      BY <2>1 DEF SubmitAccepted, Admit, FifoExactlyOnce
    <3>2. e \in Entry
      BY DEF Entry
    <3>3. dispatched \o Append(sched.queue, e) = Append(dispatched \o sched.queue, e)
      <4>0. Append(sched.queue, e) = sched.queue \o <<e>>
        BY <2>0, <3>2, AppendIsConcat
      <4>1. /\ Append(sched.queue, e) = sched.queue \o <<e>>
            /\ <<e>> \in Seq(Entry)
            /\ dispatched \o sched.queue \in Seq(Entry)
        BY <2>0, <3>2, <4>0, ConcatProperties
      <4>2. Append(dispatched \o sched.queue, e) = (dispatched \o sched.queue) \o <<e>>
        BY <3>2, <4>1, AppendIsConcat
      <4>. QED
        BY <2>0, <4>1, <4>2, ConcatAssociative
    <3>. QED
      BY <3>1, <3>3 DEF FifoExactlyOnce
  <2>2. CASE MovesOnly
    BY <2>2, MovesOnlyLemma DEF FifoExactlyOnce
  <2>3. ASSUME NEW t \in Nat, AdvanceBusy(t) PROVE FifoExactlyOnce'
    BY <2>3, BusyLemma DEF FifoExactlyOnce
  <2>4. CASE AdvancePop \/ ClosePop
    <3>1. PICK d : /\ Pop(d) /\ sched.queue # <<>>
                   /\ d.at \in Nat /\ d.trigger \in Triggers
      BY <2>4, PopOrigin
    <3>. DEFINE b == PoppedBatch(sched, d).requests
                rest == AfterPop(sched, d).queue
    <3>2. /\ b \in Seq(Entry) /\ b \o rest = sched.queue
          /\ AfterPop(sched, d) \in SchedulerType(Requests)
      BY <2>0, <3>1, PopLemma
    <3>3. rest \in Seq(Entry)
      BY <3>2, FieldTypes
    <3>4. dispatched' = dispatched \o b /\ sched'.queue = rest /\ admitted' = admitted
      BY <3>1 DEF Pop
    <3>5. (dispatched \o b) \o rest = dispatched \o (b \o rest)
      <4>. HIDE DEF b, rest
      <4>1. dispatched \in Seq(Entry) /\ b \in Seq(Entry) /\ rest \in Seq(Entry)
        BY <2>0, <3>2, <3>3
      <4>. QED
        BY ONLY <4>1, ConcatAssociative
    <3>. QED
      BY <3>2, <3>4, <3>5 DEF FifoExactlyOnce
  <2>5. CASE AdvanceReturn
    BY <2>5 DEF AdvanceReturn, FifoExactlyOnce, history
  <2>6. CASE CloseReturn
    BY <2>6 DEF CloseReturn, AfterClose, FifoExactlyOnce
  <2>7. CASE UNCHANGED vars
    BY <2>7 DEF vars, FifoExactlyOnce
  <2>. QED
    BY <2>1, <2>2, <2>3, <2>4, <2>5, <2>6, <2>7, StepKinds
<1>. QED
  BY <1>1, <1>2, TypeCorrect, EveryCaller, PTL DEF AnySpec

\* A batch holds between one request and max_batch_size, and exactly
\* max_batch_size when its trigger is "size".
THEOREM BatchesWellShaped == Spec \/ TraceSpec => []BatchShape
<1>1. Init => BatchShape
  BY DEF Init, BatchShape
<1>2. TypeOK /\ BatchShape /\ [AnyNext]_vars => BatchShape'
  <2>. SUFFICES ASSUME TypeOK, BatchShape, [AnyNext]_vars PROVE BatchShape'
    OBVIOUS
  <2>1. ASSUME NEW r \in Requests, NEW t \in Nat, SubmitAccepted(r, t)
        PROVE  BatchShape'
    BY <2>1 DEF SubmitAccepted, BatchShape
  <2>2. CASE MovesOnly
    BY <2>2, MovesOnlyLemma DEF BatchShape
  <2>3. ASSUME NEW t \in Nat, AdvanceBusy(t) PROVE BatchShape'
    BY <2>3, BusyLemma DEF BatchShape
  <2>4. CASE AdvancePop \/ ClosePop
    <3>1. PICK d : /\ Pop(d) /\ sched.queue # <<>>
                   /\ d.at \in Nat /\ d.trigger \in Triggers
                   /\ d.trigger = "size" => Full(sched)
      BY <2>4, PopOrigin
    <3>. DEFINE b == PoppedBatch(sched, d)
    <3>2. /\ formed' = Append(formed, b) /\ formed \in Seq(BatchType)
          /\ sched \in SchedulerType(Requests)
      BY <3>1 DEF Pop, TypeOK
    <3>3. /\ b \in BatchType
          /\ Len(b.requests) = BatchCount(sched)
          /\ BatchCount(sched) \in 1..MaxBatch
      BY <3>1, <3>2, PopLemma
    <3>8. b.trigger = d.trigger
      BY DEF PoppedBatch
    <3>4. Full(sched) => BatchCount(sched) = MaxBatch
      BY <3>2, FieldTypes DEF Full, BatchCount, Fewer
    <3>5. /\ Len(b.requests) \in 1..MaxBatch
          /\ b.trigger = "size" => Len(b.requests) = MaxBatch
      BY <3>1, <3>3, <3>4, <3>8
    <3>6. ASSUME NEW n \in DOMAIN formed'
          PROVE  /\ Len(formed'[n].requests) \in 1..MaxBatch
                 /\ formed'[n].trigger = "size" => Len(formed'[n].requests) = MaxBatch
      <4>1. CASE n \in DOMAIN formed
        <5>1. formed'[n] = formed[n]
          BY <3>2, <4>1, AppendProperties, LenProperties
        <5>. QED
          BY <4>1, <5>1 DEF BatchShape
      <4>2. CASE n \notin DOMAIN formed
        <5>1. formed'[n] = b
          BY <3>2, <3>3, <3>6, <4>2, AppendProperties, LenProperties
        <5>. QED
          BY <3>5, <5>1
      <4>. QED
        BY <4>1, <4>2
    <3>. QED
      BY <3>6 DEF BatchShape
  <2>5. CASE AdvanceReturn \/ CloseReturn
    BY <2>5 DEF AdvanceReturn, CloseReturn, BatchShape, history
  <2>6. CASE UNCHANGED vars
    BY <2>6 DEF vars, BatchShape
  <2>. QED
    BY <2>1, <2>2, <2>3, <2>4, <2>5, <2>6, StepKinds
<1>. QED
  BY <1>1, <1>2, TypeCorrect, EveryCaller, PTL DEF AnySpec

\* The event loops may sleep until next_wakeup_ns(): nothing is eligible before
\* it, and something is from then on.
THEOREM WakeupIsExact == Spec \/ TraceSpec => []WakeupAgreesWithDispatch
<1>1. TypeOK => WakeupAgreesWithDispatch
  <2>. SUFFICES ASSUME TypeOK, next_wakeup_ns(sched) # NoTime,
                       NEW t \in sched.now..MaxTime
                PROVE  eligible_dispatch(sched, t) # {} <=> next_wakeup_ns(sched) <= t
    BY DEF WakeupAgreesWithDispatch
  <2>1. sched \in SchedulerType(Requests) /\ sched.now \in Nat
    BY FieldTypes DEF TypeOK
  <2>2. t \in Nat /\ t >= sched.now
    BY <2>1
  <2>. QED
    BY <2>1, <2>2, WakeupLemma
<1>. QED
  BY <1>1, TypeCorrect, PTL

(***************************************************************************)
(* The action properties.                                                  *)
(***************************************************************************)

\* The batch a pop appends is the last one formed.
LEMMA PopLast ==
  ASSUME TypeOK, NEW d, Pop(d), sched.queue # <<>>, d.at \in Nat, d.trigger \in Triggers
  PROVE  LastBatch' = PoppedBatch(sched, d)
<1>. DEFINE b == PoppedBatch(sched, d)
<1>1. b \in BatchType
  BY PopLemma DEF TypeOK
<1>2. formed' = Append(formed, b) /\ formed \in Seq(BatchType)
  BY DEF Pop, TypeOK
<1>3. formed'[Len(formed')] = b
  BY <1>1, <1>2, AppendProperties
<1>. QED
  BY <1>3 DEF LastBatch

\* Only the two loops form batches.
LEMMA FormedByPop ==
  ASSUME TypeOK, [AnyNext]_vars, formed' # formed
  PROVE  AdvancePop \/ ClosePop
<1>1. ASSUME NEW r \in Requests, NEW t \in Nat, SubmitAccepted(r, t)
      PROVE  FALSE
  BY <1>1 DEF SubmitAccepted
<1>2. CASE MovesOnly
  BY <1>2, MovesOnlyLemma
<1>3. ASSUME NEW t \in Nat, AdvanceBusy(t) PROVE FALSE
  BY <1>3, BusyLemma
<1>4. CASE AdvanceReturn \/ CloseReturn
  BY <1>4 DEF AdvanceReturn, CloseReturn, history
<1>5. CASE UNCHANGED vars
  BY <1>5 DEF vars
<1>. QED
  BY <1>1, <1>2, <1>3, <1>4, <1>5, StepKinds

\* A timeout batch takes the whole queue, because a full batch would have fired
\* first: fewer than max_batch_size requests were waiting.
THEOREM TimeoutLeavesNobody == Spec \/ TraceSpec => TimeoutDrainsQueue
<1>1. TypeOK /\ [AnyNext]_vars
        => (formed' # formed /\ LastBatch'.trigger = "timeout" => sched'.queue = <<>>)
  <2>. SUFFICES ASSUME TypeOK, [AnyNext]_vars,
                       formed' # formed, LastBatch'.trigger = "timeout"
                PROVE  sched'.queue = <<>>
    OBVIOUS
  <2>1. PICK d : /\ Pop(d) /\ sched.queue # <<>>
                 /\ d.at \in Nat /\ d.trigger \in Triggers
                 /\ d.trigger = "timeout" => ~Full(sched)
    BY FormedByPop, PopOrigin
  <2>2. ~Full(sched)
    BY <2>1, PopLast DEF PoppedBatch
  <2>3. sched \in SchedulerType(Requests) /\ sched.queue \in Seq(Entry)
    BY FieldTypes DEF TypeOK
  <2>4. BatchCount(sched) = Len(sched.queue)
    BY <2>2, <2>3, FieldTypes DEF Full, BatchCount, Fewer
  <2>5. /\ AfterPop(sched, d) \in SchedulerType(Requests)
        /\ Len(AfterPop(sched, d).queue) = 0
    <3>1. /\ AfterPop(sched, d) \in SchedulerType(Requests)
          /\ Len(AfterPop(sched, d).queue) = Len(sched.queue) - BatchCount(sched)
      BY <2>1, <2>3, PopLemma
    <3>2. Len(sched.queue) \in Nat
      BY <2>3, FieldTypes
    <3>. QED
      BY <2>4, <3>1, <3>2
  <2>6. AfterPop(sched, d).queue = <<>>
    BY <2>5, FieldTypes
  <2>. QED
    BY <2>1, <2>6 DEF Pop
<1>. QED
  BY <1>1, TypeCorrect, EveryCaller, PTL DEF AnySpec, TimeoutDrainsQueue

\* The strengthening NoForgedWindow needs: under fixed_window there always is a
\* next window, and it lies after the last busy report, which is in the past.
WindowAhead ==
  sched.policy = "fixed_window" =>
    /\ sched.nextWindow \in Nat
    /\ sched.nextWindow > busyAt
    /\ busyAt <= sched.now

LEMMA WindowAheadInv == Spec \/ TraceSpec => []WindowAhead
<1>1. Init => WindowAhead
  BY DEF Init, WindowAhead, NewScheduler, NoTime
<1>2. TypeOK /\ WindowAhead /\ [AnyNext]_vars => WindowAhead'
  <2>. SUFFICES ASSUME TypeOK, WindowAhead, [AnyNext]_vars, sched.policy = "fixed_window"
                PROVE  WindowAhead'
    BY PolicyFixed DEF WindowAhead
  <2>0. /\ sched \in SchedulerType(Requests) /\ sched.now \in Nat
        /\ busyAt \in Nat \cup {NoTime} /\ busyAt \in Int
        /\ Window \in Nat /\ Window > 0
    BY FieldTypes DEF TypeOK, NoTime
  <2>a. sched.nextWindow \in Nat /\ sched.nextWindow > busyAt /\ busyAt <= sched.now
    BY DEF WindowAhead
  <2>1. ASSUME NEW r \in Requests, NEW t \in Nat, SubmitAccepted(r, t)
        PROVE  WindowAhead'
    <3>1. /\ sched'.nextWindow = sched.nextWindow /\ sched'.now = t
          /\ busyAt' = busyAt /\ t >= sched.now
      BY <2>1 DEF SubmitAccepted, Admit, MayMoveTo
    <3>. QED
      BY <2>0, <2>a, <3>1 DEF WindowAhead
  <2>2. CASE MovesOnly
    <3>1. /\ sched'.nextWindow = sched.nextWindow /\ busyAt' = busyAt
          /\ sched'.now \in Nat /\ sched'.now >= sched.now
      BY <2>2, MovesOnlyLemma
    <3>. QED
      BY <2>0, <2>a, <3>1 DEF WindowAhead
  <2>3. ASSUME NEW t \in Nat, AdvanceBusy(t) PROVE WindowAhead'
    BY <2>3, <2>a, BusyLemma DEF WindowAhead
  <2>4. CASE AdvancePop \/ ClosePop
    <3>1. PICK d : /\ Pop(d) /\ d.at \in Nat
                   /\ d.trigger = "window" => d.at >= sched.nextWindow
                   /\ d.trigger = "shutdown" => d.at = sched.now
                   /\ d.trigger \notin {"window", "shutdown"} => sched.policy # "fixed_window"
      BY <2>4, PopOrigin
    <3>2. /\ sched'.nextWindow = d.at + Window
          /\ sched'.now = sched.now /\ busyAt' = busyAt
      BY <3>1 DEF Pop, AfterPop
    <3>3. d.at >= sched.nextWindow \/ d.at = sched.now
      BY <3>1
    <3>4. d.at + Window \in Nat /\ d.at + Window > busyAt
      BY <2>0, <2>a, <3>1, <3>3
    <3>. QED
      BY <2>a, <3>2, <3>4 DEF WindowAhead
  <2>5. CASE AdvanceReturn
    BY <2>5, <2>a DEF AdvanceReturn, WindowAhead, history
  <2>6. CASE CloseReturn
    BY <2>6, <2>a DEF CloseReturn, AfterClose, WindowAhead
  <2>7. CASE UNCHANGED vars
    BY <2>7, <2>a DEF vars, WindowAhead
  <2>. QED
    BY <2>1, <2>2, <2>3, <2>4, <2>5, <2>6, <2>7, StepKinds
<1>. QED
  BY <1>1, <1>2, TypeCorrect, EveryCaller, PTL DEF AnySpec

\* No window that elapsed while the worker was busy is dispatched afterwards.
THEOREM WindowsNotForged == Spec \/ TraceSpec => NoForgedWindow
<1>1. TypeOK /\ WindowAhead /\ [AnyNext]_vars
        => (formed' # formed /\ LastBatch'.trigger = "window" => LastBatch'.dispatch > busyAt)
  <2>. SUFFICES ASSUME TypeOK, WindowAhead, [AnyNext]_vars,
                       formed' # formed, LastBatch'.trigger = "window"
                PROVE  LastBatch'.dispatch > busyAt
    OBVIOUS
  <2>1. PICK d : /\ Pop(d) /\ sched.queue # <<>>
                 /\ d.at \in Nat /\ d.trigger \in Triggers
                 /\ d.trigger = "window" => d.at >= sched.nextWindow
                 /\ d.trigger = "window" => sched.policy = "fixed_window"
    BY FormedByPop, PopOrigin
  <2>2. LastBatch'.dispatch = d.at /\ d.trigger = "window"
    BY <2>1, PopLast DEF PoppedBatch
  <2>3. busyAt \in Int
    BY DEF TypeOK, NoTime
  <2>. QED
    BY <2>1, <2>2, <2>3 DEF WindowAhead
<1>. QED
  BY <1>1, TypeCorrect, WindowAheadInv, EveryCaller, PTL DEF AnySpec, NoForgedWindow

\* The strengthening ShutdownIsFinal needs: a closed scheduler is empty, and no
\* loop is running on it.
ClosedIsEmpty == sched.closed => sched.queue = <<>> /\ call.op = "idle"

LEMMA ClosedIsEmptyInv == Spec \/ TraceSpec => []ClosedIsEmpty
<1>1. Init => ClosedIsEmpty
  BY DEF Init, ClosedIsEmpty, NewScheduler
<1>2. TypeOK /\ ClosedIsEmpty /\ [AnyNext]_vars => ClosedIsEmpty'
  <2>. SUFFICES ASSUME TypeOK, ClosedIsEmpty, [AnyNext]_vars PROVE ClosedIsEmpty'
    OBVIOUS
  <2>1. ASSUME NEW r \in Requests, NEW t \in Nat, SubmitAccepted(r, t)
        PROVE  ClosedIsEmpty'
    BY <2>1 DEF SubmitAccepted, Admit, ClosedIsEmpty
  <2>2. CASE MovesOnly
    BY <2>2, MovesOnlyLemma DEF ClosedIsEmpty
  <2>3. ASSUME NEW t \in Nat, AdvanceBusy(t) PROVE ClosedIsEmpty'
    BY <2>3, BusyLemma DEF ClosedIsEmpty
  <2>4. CASE AdvancePop \/ ClosePop
    <3>1. PICK d : Pop(d) /\ sched.queue # <<>>
      BY <2>4, PopOrigin
    <3>2. ~sched.closed /\ sched'.closed = sched.closed
      BY <3>1 DEF Pop, AfterPop, ClosedIsEmpty
    <3>. QED
      BY <3>2 DEF ClosedIsEmpty
  <2>5. CASE AdvanceReturn
    BY <2>5 DEF AdvanceReturn, Idle, ClosedIsEmpty, history
  <2>6. CASE CloseReturn
    BY <2>6 DEF CloseReturn, AfterClose, Idle, ClosedIsEmpty
  <2>7. CASE UNCHANGED vars
    BY <2>7 DEF vars, ClosedIsEmpty
  <2>. QED
    BY <2>1, <2>2, <2>3, <2>4, <2>5, <2>6, <2>7, StepKinds
<1>. QED
  BY <1>1, <1>2, TypeCorrect, EveryCaller, PTL DEF AnySpec

\* After the close() that empties the queue nothing is queued or dispatched.
THEOREM ClosedForGood == Spec \/ TraceSpec => ShutdownIsFinal
<1>1. TypeOK /\ ClosedIsEmpty /\ ClosedIsEmpty' /\ [AnyNext]_vars
        => (sched.closed => sched'.closed /\ sched'.queue = <<>> /\ formed' = formed)
  <2>. SUFFICES ASSUME TypeOK, ClosedIsEmpty, ClosedIsEmpty', [AnyNext]_vars, sched.closed
                PROVE  sched'.closed /\ formed' = formed
    BY DEF ClosedIsEmpty
  <2>0. call.op = "idle" /\ sched.queue = <<>>
    BY DEF ClosedIsEmpty
  <2>1. ASSUME NEW r \in Requests, NEW t \in Nat, SubmitAccepted(r, t)
        PROVE  FALSE
    BY <2>1 DEF SubmitAccepted
  <2>2. CASE MovesOnly
    BY <2>2, MovesOnlyLemma
  <2>3. ASSUME NEW t \in Nat, AdvanceBusy(t) PROVE FALSE
    BY <2>3, BusyLemma
  <2>4. CASE AdvancePop \/ ClosePop
    BY <2>4, <2>0 DEF AdvancePop, ClosePop
  <2>5. CASE AdvanceReturn \/ CloseReturn
    BY <2>5, <2>0 DEF AdvanceReturn, CloseReturn
  <2>6. CASE UNCHANGED vars
    BY <2>6 DEF vars
  <2>. QED
    BY <2>1, <2>2, <2>3, <2>4, <2>5, <2>6, StepKinds
<1>. QED
  BY <1>1, TypeCorrect, ClosedIsEmptyInv, EveryCaller, PTL DEF AnySpec, ShutdownIsFinal

\* An unlimited advance_to() returns only when nothing is eligible now, which by
\* WakeupLemma is when the next wakeup is in the future.
THEOREM InstantDrained == Spec \/ TraceSpec => AdvanceDrainsTheInstant
<1>1. TypeOK /\ [AnyNext]_vars
        => (call.op = "advance" /\ call'.op = "idle" /\ call.slots = Unlimited
              => \/ next_wakeup_ns(sched') = NoTime
                 \/ next_wakeup_ns(sched') > sched'.now)
  <2>. SUFFICES ASSUME TypeOK, [AnyNext]_vars, call.op = "advance", call'.op = "idle",
                       call.slots = Unlimited, next_wakeup_ns(sched') # NoTime
                PROVE  next_wakeup_ns(sched') > sched'.now
    OBVIOUS
  <2>0. sched \in SchedulerType(Requests) /\ sched.now \in Nat
    BY FieldTypes DEF TypeOK
  <2>1. ASSUME NEW r \in Requests, NEW t \in Nat, SubmitAccepted(r, t)
        PROVE  FALSE
    BY <2>1 DEF SubmitAccepted
  <2>2. CASE MovesOnly
    BY <2>2, MovesOnlyLemma
  <2>3. ASSUME NEW t \in Nat, AdvanceBusy(t) PROVE FALSE
    BY <2>3 DEF AdvanceBusy
  <2>4. CASE AdvancePop \/ ClosePop
    <3>1. PICK d : Pop(d)
      BY <2>4, PopOrigin
    <3>. QED
      BY <3>1 DEF Pop
  <2>5. CASE AdvanceReturn
    <3>1. sched' = sched /\ eligible_dispatch(sched, sched.now) = {}
      BY <2>5 DEF AdvanceReturn, SlotLeft
    <3>2. /\ next_wakeup_ns(sched) \in Nat
          /\ ~(next_wakeup_ns(sched) <= sched.now)
      BY <2>0, <3>1, WakeupLemma
    <3>. QED
      BY <2>0, <3>1, <3>2
  <2>6. CASE ClosePop \/ CloseReturn
    BY <2>6 DEF ClosePop, CloseReturn
  <2>7. CASE UNCHANGED vars
    BY <2>7 DEF vars
  <2>. QED
    BY <2>1, <2>2, <2>3, <2>4, <2>5, <2>6, <2>7, StepKinds
<1>. QED
  BY <1>1, TypeCorrect, EveryCaller, PTL DEF AnySpec, AdvanceDrainsTheInstant

(***************************************************************************)
(* The grid of fixed_window.                                               *)
(***************************************************************************)

\* A point of the grid that starts at time zero.
OnGrid(x) == Window > 0 /\ \E k \in Nat : x = k * Window

\* The points the code computes are on the grid, and the next one is a window later.
LEMMA GridPoints ==
  ASSUME NEW t \in Nat, Window > 0
  PROVE  /\ OnGrid(GridAtOrAfter(t)) /\ OnGrid(GridAfter(t)) /\ OnGrid(Window)
         /\ OnGrid(t) => OnGrid(t + Window) /\ t % Window = 0
<1>1. Window \in Nat \ {0}
  OBVIOUS
<1>2. (t + Window - 1) \div Window \in Nat /\ (t \div Window) + 1 \in Nat
  BY <1>1
<1>3. OnGrid(GridAtOrAfter(t)) /\ OnGrid(GridAfter(t))
  BY <1>1, <1>2 DEF OnGrid, GridAtOrAfter, GridAfter
<1>4. OnGrid(Window)
  <2>1. Window = 1 * Window /\ 1 \in Nat
    OBVIOUS
  <2>. QED
    BY <1>1, <2>1 DEF OnGrid
<1>5. ASSUME OnGrid(t) PROVE OnGrid(t + Window) /\ t % Window = 0
  <2>1. PICK k \in Nat : t = k * Window
    BY <1>5 DEF OnGrid
  <2>2. t + Window = (k + 1) * Window /\ k + 1 \in Nat
    BY <2>1
  <2>3. (k * Window) % Window = 0
    BY <1>1
  <2>. QED
    BY <1>1, <2>1, <2>2, <2>3 DEF OnGrid
<1>. QED
  BY <1>3, <1>4, <1>5

\* The strengthening that WindowsOnTheGrid needs: the window to come is on the grid until a
\* close() pops a batch, which either empties the queue for good or is remembered.
GridInv ==
  ~partClosed =>
    /\ \A n \in DOMAIN formed : formed[n].trigger = "window" => OnGrid(formed[n].dispatch)
    /\ sched.policy = "fixed_window" /\ call.op # "close" /\ ~sched.closed => OnGrid(sched.nextWindow)

\* A window batch is dated on the grid.
LEMMA WindowOnGrid ==
  ASSUME NEW s \in SchedulerType(Requests), NEW t \in Nat, NEW d \in eligible_dispatch(s, t),
         s.policy = "fixed_window", OnGrid(s.nextWindow)
  PROVE  d.at \in Nat /\ OnGrid(d.at)
<1>1. s.queue # <<>> /\ s.queue[1].admitted \in Nat /\ Window > 0
  BY FieldTypes DEF eligible_dispatch
<1>2. d = Fire(next_wakeup_ns(s), "window") /\ next_wakeup_ns(s) \in 0..t
  BY <1>1 DEF eligible_dispatch
<1>3. d.at = WindowOf(s) /\ d.at \in Nat
  BY <1>1, <1>2 DEF next_wakeup_ns, NoTime, Fire
<1>4. OnGrid(GridAtOrAfter(s.queue[1].admitted))
  BY <1>1, GridPoints
<1>. QED
  BY <1>3, <1>4 DEF WindowOf, Later

\* Every call keeps it, since a window is dated on the grid and the next one is a window later.
LEMMA GridInvariant == Spec \/ TraceSpec => []GridInv
<1>1. Init => GridInv
  <2>. SUFFICES ASSUME Init PROVE GridInv
    OBVIOUS
  <2>1. PICK policy \in Policies : sched = NewScheduler(policy)
    BY DEF Init
  <2>2. DOMAIN formed = {}
    BY DEF Init
  <2>3. sched.policy = "fixed_window" => Window > 0 /\ sched.nextWindow = Window
    BY <2>1 DEF NewScheduler
  <2>4. Window > 0 => OnGrid(Window)
    BY GridPoints
  <2>. QED
    BY <2>2, <2>3, <2>4 DEF GridInv
<1>2. TypeOK /\ ClosedIsEmpty /\ GridInv /\ [AnyNext]_vars => GridInv'
  <2>. SUFFICES ASSUME TypeOK, ClosedIsEmpty, GridInv, [AnyNext]_vars, ~partClosed'
                PROVE  GridInv'
    BY DEF GridInv
  <2>0. sched \in SchedulerType(Requests) /\ sched.now \in Nat /\ sched'.policy = sched.policy
    BY PolicyFixed, FieldTypes DEF TypeOK
  <2>1. ASSUME NEW r \in Requests, NEW t \in Nat, SubmitAccepted(r, t) PROVE GridInv'
    <3>1. /\ sched'.nextWindow = sched.nextWindow /\ sched'.closed = sched.closed
          /\ UNCHANGED <<call, formed, partClosed>>
      BY <2>1 DEF SubmitAccepted, Admit
    <3>. QED
      BY <2>0, <3>1 DEF GridInv
  <2>2. CASE MovesOnly
    BY <2>0, <2>2, MovesOnlyLemma DEF GridInv
  <2>3. ASSUME NEW t \in Nat, AdvanceBusy(t) PROVE GridInv'
    <3>1. /\ UNCHANGED <<call, formed, partClosed>> /\ sched'.closed = sched.closed /\ t \in Nat
      BY <2>3, BusyLemma
    <3>2. sched.policy = "fixed_window" =>
            Window > 0 /\ (sched'.nextWindow = sched.nextWindow \/ sched'.nextWindow = GridAfter(t))
      <4>1. sched' = SkipWindows(MoveTo(sched, t), t)
        BY <2>3 DEF AdvanceBusy
      <4>2. MoveTo(sched, t).nextWindow = sched.nextWindow
        BY <2>0, <3>1, MoveLemma
      <4>3. sched'.nextWindow = sched.nextWindow \/ sched'.nextWindow = GridAfter(t)
        BY <4>1, <4>2 DEF SkipWindows
      <4>. QED
        BY <2>0, <4>3, FieldTypes
    <3>3. sched.policy = "fixed_window" => OnGrid(GridAfter(t))
      BY <3>1, <3>2, GridPoints
    <3>. QED
      BY <2>0, <3>1, <3>2, <3>3 DEF GridInv
  <2>4. CASE AdvancePop \/ ClosePop
    <3>1. PICK d : /\ Pop(d) /\ sched.queue # <<>> /\ d.at \in Nat /\ d.trigger \in Triggers
                   /\ d.trigger = "window" => sched.policy = "fixed_window"
                   /\ ClosePop => d.trigger = "shutdown"
                   /\ AdvancePop => d \in eligible_dispatch(sched, sched.now)
      <4>1. CASE AdvancePop
        <5>1. PICK d \in eligible_dispatch(sched, sched.now) : Pop(d)
          BY <4>1 DEF AdvancePop
        <5>2. ~ClosePop
          BY <4>1 DEF AdvancePop, ClosePop
        <5>. QED
          BY <2>0, <5>1, <5>2, EligibleLemma
      <4>2. CASE ClosePop
        <5>1. Pop(Shutdown(sched.now)) /\ sched.queue # <<>> /\ ~AdvancePop
          BY <4>2 DEF ClosePop, AdvancePop
        <5>2. Shutdown(sched.now).at = sched.now /\ Shutdown(sched.now).trigger = "shutdown"
              /\ "shutdown" \in Triggers
          BY DEF Shutdown, Fire, Triggers
        <5>. QED
          BY <2>0, <5>1, <5>2
      <4>. QED
        BY <2>4, <4>1, <4>2
    <3>2. formed' = Append(formed, PoppedBatch(sched, d)) /\ formed \in Seq(BatchType)
          /\ PoppedBatch(sched, d) \in BatchType
      BY <2>0, <3>1, PopLemma DEF Pop, TypeOK
    <3>3. ~partClosed /\ call'.op = call.op /\ sched'.closed = sched.closed
      BY <3>1 DEF Pop, AfterPop
    <3>4. CASE ClosePop
      <4>1. call.op = "close"
        BY <3>4 DEF ClosePop
      <4>2. PoppedBatch(sched, d).trigger = "shutdown"
        BY <3>1, <3>4 DEF PoppedBatch
      <4>. QED
        BY <3>2, <3>3, <4>1, <4>2 DEF GridInv
    <3>5. CASE AdvancePop
      <4>1. call.op = "advance" /\ ~sched.closed /\ sched'.nextWindow =
              IF sched.policy = "fixed_window" THEN d.at + Window ELSE sched.nextWindow
        BY <3>1, <3>5 DEF AdvancePop, ClosedIsEmpty, Pop, AfterPop
      <4>2. sched.policy = "fixed_window" => OnGrid(d.at) /\ OnGrid(d.at + Window)
        <5>1. SUFFICES ASSUME sched.policy = "fixed_window"
                       PROVE  OnGrid(d.at) /\ OnGrid(d.at + Window)
          OBVIOUS
        <5>2. OnGrid(sched.nextWindow)
          BY <3>3, <4>1, <5>1 DEF GridInv
        <5>3. OnGrid(d.at)
          BY <2>0, <3>1, <3>5, <5>1, <5>2, WindowOnGrid
        <5>. QED
          BY <2>0, <3>1, <5>1, <5>3, FieldTypes, GridPoints
      <4>3. PoppedBatch(sched, d).trigger = d.trigger /\ PoppedBatch(sched, d).dispatch = d.at
        BY DEF PoppedBatch
      <4>4. ASSUME NEW n \in DOMAIN formed', formed'[n].trigger = "window"
            PROVE  OnGrid(formed'[n].dispatch)
        <5>1. CASE n \in DOMAIN formed
          <6>1. formed'[n] = formed[n]
            BY <3>2, <5>1, AppendProperties, LenProperties
          <6>. QED
            BY <3>3, <4>4, <5>1, <6>1 DEF GridInv
        <5>2. CASE n \notin DOMAIN formed
          <6>1. formed'[n] = PoppedBatch(sched, d)
            BY <3>2, <4>4, <5>2, AppendProperties, LenProperties
          <6>. QED
            BY <3>1, <4>2, <4>3, <4>4, <6>1
        <5>. QED
          BY <5>1, <5>2
      <4>. QED
        BY <2>0, <4>1, <4>2, <4>4 DEF GridInv
    <3>. QED
      BY <2>4, <3>4, <3>5
  <2>5. CASE AdvanceReturn
    <3>1. UNCHANGED <<sched, formed, partClosed>> /\ call.op = "advance"
      BY <2>5 DEF AdvanceReturn, history
    <3>. QED
      BY <3>1 DEF GridInv
  <2>6. CASE CloseReturn
    <3>1. UNCHANGED formed /\ ~partClosed /\ sched.queue = <<>> /\ sched'.closed = (sched.queue = <<>>)
      BY <2>6 DEF CloseReturn, AfterClose
    <3>. QED
      BY <3>1 DEF GridInv
  <2>7. CASE UNCHANGED vars
    BY <2>7 DEF vars, GridInv
  <2>. QED
    BY <2>1, <2>2, <2>3, <2>4, <2>5, <2>6, <2>7, StepKinds
<1>. QED
  BY <1>1, <1>2, TypeCorrect, ClosedIsEmptyInv, EveryCaller, PTL DEF AnySpec

\* Window batches are dated on the grid of time zero, until a close() runs out of slots.
LEMMA OnTheGrid == Spec \/ TraceSpec => []WindowsOnTheGrid
<1>1. TypeOK /\ GridInv => WindowsOnTheGrid
  <2>. SUFFICES ASSUME TypeOK, GridInv, ~partClosed, NEW n \in DOMAIN formed,
                       formed[n].trigger = "window"
                PROVE  formed[n].dispatch % Window = 0
    BY DEF WindowsOnTheGrid
  <2>1. OnGrid(formed[n].dispatch)
    BY DEF GridInv
  <2>2. Window > 0 /\ formed[n].dispatch \in Nat
    BY <2>1 DEF OnGrid
  <2>. QED
    BY <2>1, <2>2, GridPoints
<1>. QED
  BY <1>1, TypeCorrect, GridInvariant, PTL

(***************************************************************************)
(* The batches of the driver.                                              *)
(***************************************************************************)

\* The driver runs size_or_time, and has submitted the requests up to here.
Timed     == at # "free" /\ sched.policy = "size_or_time" /\ Untied(trace)
Submitted == IF at = "submitted" THEN i ELSE i - 1

\* The first request that waits, and the first and the last of a batch.
Waiting   == Len(sched.queue)
Oldest    == Submitted - Waiting + 1
First(b)  == formed[b].requests[1].id
Size(b)   == Len(formed[b].requests)
LastOf(b) == First(b) + Size(b) - 1

\* The queue holds the last requests submitted, and is empty after each batch.
QueueInLine ==
  /\ Waiting <= Submitted /\ Waiting <= MaxBatch
  /\ \A k \in DOMAIN sched.queue :
       sched.queue[k] = [id |-> Oldest + k - 1, admitted |-> trace[Oldest + k - 1]]

\* The batches follow one another, up to the queue.
BatchesInLine ==
  /\ \A b \in DOMAIN formed :
       /\ First(b) >= 1 /\ Size(b) >= 1 /\ LastOf(b) < Oldest
       /\ b = 1 => First(b) = 1
       /\ b > 1 => First(b) = LastOf(b - 1) + 1
       /\ b = Len(formed) => Oldest = LastOf(b) + 1
       /\ \A c \in DOMAIN formed : b < c => LastOf(b) < First(c)
  /\ \A r \in 1..(Oldest - 1) : \E b \in DOMAIN formed : r \in First(b)..LastOf(b)
  /\ formed = <<>> => Oldest = 1

\* What is waiting joined the batch of the oldest; what is in a batch joined its first, and
\* the next one did not.
QueueJoins   == \A r \in (Oldest + 1)..Submitted : JoinsBatch(trace, Oldest, r)
BatchJoins(b) ==
  /\ \A r \in (First(b) + 1)..LastOf(b) : JoinsBatch(trace, First(b), r)
  /\ LastOf(b) < N => ~JoinsBatch(trace, First(b), LastOf(b) + 1)

\* A function is the reading of the trace that Opener computes.
Reads(f) ==
  f = [r \in 1..N |-> IF r = 1 THEN 1
                      ELSE IF JoinsBatch(trace, f[r - 1], r) THEN f[r - 1] ELSE r]

\* The reading agrees with what is formed and what waits.
Agrees ==
  Reads(Opener(trace)) =>
    /\ \A b \in DOMAIN formed : \A r \in First(b)..LastOf(b) : Opener(trace)[r] = First(b)
    /\ \A r \in Oldest..Submitted : Opener(trace)[r] = Oldest

\* Where the driver stands, and what it knows there: nothing is due when an advance_to
\* returned, and an advance_to is to an arrival, to a time before the next one, or after all.
Turn ==
  /\ \A r \in 1..Submitted : trace[r] <= sched.now
  /\ at \in {"arrival", "submitted", "advancing", "tail"} => ~sched.closed
  /\ at \in {"arrival", "tail"} /\ Waiting > 0 =>
       Waiting < MaxBatch /\ trace[Oldest] + MaxWait > sched.now
  /\ at = "submitted" => sched.now = trace[i]
  /\ at = "advancing" =>
       /\ call.op = "advance" /\ call.slots = Unlimited
       /\ i = N + 1 \/ sched.now < trace[i] \/ (i > 1 /\ sched.now = trace[i - 1])
  /\ at \in {"tail", "closing", "done"} => i = N + 1
  /\ at \in {"closing", "done"} => Waiting = 0

Line ==
  /\ QueueInLine /\ BatchesInLine /\ QueueJoins
  /\ \A b \in DOMAIN formed : BatchJoins(b)
  /\ Agrees

DriverInv == Timed => Line /\ Turn

\* The types of what is counted.
LEMMA CountTypes ==
  ASSUME TypeOK, DriverTypes
  PROVE  /\ sched \in SchedulerType(Requests) /\ sched.now \in Nat
         /\ sched.queue \in Seq(Entry) /\ Waiting \in Nat /\ Waiting = Len(sched.queue)
         /\ Waiting = 0 <=> sched.queue = <<>>
         /\ i \in 1..(N + 1) /\ N \in Nat /\ Requests = 1..N
         /\ Submitted \in 0..N /\ Oldest = Submitted - Waiting + 1 /\ Oldest \in Int
         /\ trace \in [1..N -> Nat] /\ formed \in Seq(BatchType) /\ Len(formed) \in Nat
         /\ DOMAIN formed = 1..Len(formed)
<1>1. /\ sched \in SchedulerType(Requests) /\ sched.now \in Nat
      /\ sched.queue \in Seq(Entry) /\ Waiting \in Nat /\ Waiting = Len(sched.queue)
  BY FieldTypes DEF TypeOK, Waiting
<1>2. Waiting = 0 <=> sched.queue = <<>>
  BY <1>1, EmptySeq
<1>3. i \in 1..(N + 1) /\ N \in Nat /\ Requests = 1..N /\ trace \in [1..N -> Nat]
  BY RequestNumbers DEF DriverTypes
<1>4. Submitted \in 0..N
  BY <1>3 DEF Submitted, DriverTypes
<1>5. formed \in Seq(BatchType) /\ Len(formed) \in Nat /\ DOMAIN formed = 1..Len(formed)
  BY LenProperties DEF TypeOK
<1>. QED
  BY <1>1, <1>2, <1>3, <1>4, <1>5 DEF Oldest

\* Steps that submit nothing and form no batch keep the line.
LEMMA LineStays ==
  ASSUME Line, sched'.queue = sched.queue, UNCHANGED <<formed, trace>>, Submitted' = Submitted
  PROVE  Line'
<1>1. Waiting' = Waiting /\ Oldest' = Oldest
  BY DEF Waiting, Oldest
<1>2. \A b : First(b)' = First(b) /\ Size(b)' = Size(b) /\ LastOf(b)' = LastOf(b)
  BY DEF First, Size, LastOf
<1>3. QueueInLine'
  BY <1>1 DEF Line, QueueInLine
<1>4. BatchesInLine'
  BY <1>1, <1>2 DEF Line, BatchesInLine
<1>5. QueueJoins' /\ \A b \in DOMAIN formed' : BatchJoins(b)'
  BY <1>1, <1>2 DEF Line, QueueJoins, BatchJoins
<1>6. Agrees'
  BY <1>1, <1>2 DEF Line, Agrees, Reads
<1>. QED
  BY <1>3, <1>4, <1>5, <1>6 DEF Line

\* When nothing is due earlier, the arrival joins the batch of the oldest, if there is one.
LEMMA ArrivalJoins ==
  ASSUME TypeOK, DriverTypes, Timed, Line, Turn, at = "arrival", i <= N, NoEarlierWakeup,
         Waiting > 0
  PROVE  JoinsBatch(trace, Oldest, i)
<1>a. Submitted = i - 1 /\ Waiting <= Submitted
  BY DEF Submitted, Line, QueueInLine
<1>b. ~sched.closed /\ Waiting < MaxBatch /\ trace[Oldest] + MaxWait > sched.now
  BY DEF Turn
<1>c. /\ i \in 1..(N + 1) /\ N \in Nat /\ Oldest = Submitted - Waiting + 1
      /\ Waiting \in Nat
  BY CountTypes
<1>d. trace \in [1..N -> Nat] /\ sched.now \in Nat
  BY CountTypes
<1>1. i \in Nat /\ i \in 1..N /\ Oldest = i - Waiting /\ Oldest \in Nat /\ 1 <= Oldest /\ Oldest <= i - 1
  BY <1>a, <1>c
<1>2. trace[i] \in Nat /\ trace[Oldest] \in Nat
  <2>1. Oldest \in 1..N
    BY <1>1, <1>c
  <2>. QED
    BY <1>1, <1>d, <2>1
<1>3. sched.queue[1].admitted = trace[Oldest]
  <2>1. 1 \in DOMAIN sched.queue
    BY <1>a, <1>c, CountTypes, LenProperties
  <2>2. sched.queue[1] = [id |-> Oldest + 1 - 1, admitted |-> trace[Oldest + 1 - 1]]
    BY <2>1 DEF Line, QueueInLine
  <2>3. Oldest + 1 - 1 = Oldest
    BY <1>1
  <2>. QED
    BY <2>2, <2>3
<1>4. ~Full(sched)
  BY <1>b, CountTypes DEF Full
<1>5. NextWakeup = trace[Oldest] + MaxWait
  <2>1. sched.queue # <<>>
    BY CountTypes
  <2>. QED
    BY <1>b, <1>3, <1>4, <2>1 DEF NextWakeup, next_wakeup_ns, OldestDeadline, Timed
<1>6. trace[i] <= trace[Oldest] + MaxWait
  BY <1>2, <1>5 DEF NoEarlierWakeup, NoTime
<1>8. i - Oldest < MaxBatch
  BY <1>1, <1>b, <1>c
<1>. QED
  BY <1>6, <1>8 DEF JoinsBatch

\* What is counted of a batch.
LEMMA BatchNumbers ==
  ASSUME TypeOK, DriverTypes, Line, NEW b \in DOMAIN formed
  PROVE  /\ First(b) \in Nat /\ Size(b) \in Nat /\ LastOf(b) \in Nat
         /\ First(b) >= 1 /\ Size(b) >= 1 /\ First(b) <= LastOf(b) /\ LastOf(b) < Oldest
         /\ LastOf(b) = First(b) + Size(b) - 1 /\ b \in Nat /\ b >= 1 /\ b <= Len(formed)
<1>1. First(b) >= 1 /\ Size(b) >= 1 /\ LastOf(b) < Oldest
  BY DEF Line, BatchesInLine
<1>2. formed[b] \in BatchType /\ b \in 1..Len(formed) /\ Len(formed) \in Nat
  BY CountTypes, ElementOfSeq
<1>3. formed[b].requests \in Seq(Entry)
  BY <1>2 DEF BatchType
<1>4. Size(b) \in Nat /\ 1 \in 1..Len(formed[b].requests)
  BY <1>1, <1>3, LenProperties DEF Size
<1>5. formed[b].requests[1] \in Entry
  BY <1>3, <1>4, ElementOfSeq
<1>6. First(b) \in Nat
  BY <1>5, RequestNumbers DEF Entry, First
<1>. QED
  BY <1>1, <1>2, <1>4, <1>6 DEF LastOf

\* Submitting an arrival puts it at the end of the line.
LEMMA SubmitKeeps ==
  ASSUME TypeOK, DriverTypes, Timed, Line, Turn, SubmitArrival
  PROVE  Line' /\ Turn'
<1>. DEFINE e == [id |-> i, admitted |-> trace[i]]
<1>1. /\ at = "arrival" /\ i <= N /\ NoEarlierWakeup /\ at' = "submitted"
      /\ i' = i /\ trace' = trace /\ formed' = formed
      /\ sched' = Admit(sched, i, trace[i]) /\ trace[i] >= sched.now
  BY DEF SubmitArrival, SubmitAccepted, MayMoveTo
<1>2. /\ i \in Nat /\ i \in 1..N /\ i >= 1 /\ N \in Nat /\ i \in Requests /\ Waiting \in Nat
      /\ trace \in [1..N -> Nat] /\ trace[i] \in Nat /\ sched.now \in Nat
  BY <1>1, CountTypes
<1>3. /\ sched.queue \in Seq(Entry) /\ Waiting = Len(sched.queue)
      /\ sched'.queue = Append(sched.queue, e) /\ e \in Entry
      /\ sched'.now = trace[i] /\ sched'.closed = sched.closed
  <2>1. sched.queue \in Seq(Entry) /\ Waiting = Len(sched.queue)
    BY CountTypes
  <2>2. e \in Entry
    BY <1>2 DEF Entry
  <2>. QED
    BY <1>1, <2>1, <2>2 DEF Admit
<1>4. Submitted = i - 1 /\ Submitted' = i
  BY <1>1 DEF Submitted
<1>5. Waiting' = Waiting + 1
  BY <1>3, AppendProperties DEF Waiting
<1>6. Oldest = i - Waiting /\ Oldest' = i - Waiting /\ Oldest \in Nat /\ 1 <= Oldest /\ Oldest <= i
  <2>1. Waiting <= i - 1
    BY <1>4 DEF Line, QueueInLine
  <2>. QED
    BY <1>2, <1>4, <1>5, <2>1 DEF Oldest
<1>7. QueueInLine'
  <2>1. Waiting' <= Submitted' /\ Waiting' <= MaxBatch
    <3>1. Waiting > 0 => Waiting < MaxBatch
      BY <1>1 DEF Turn
    <3>. QED
      BY <1>2, <1>4, <1>5, <1>6, <3>1
  <2>2. ASSUME NEW k \in DOMAIN sched'.queue
        PROVE  sched'.queue[k] = [id |-> Oldest + k - 1, admitted |-> trace[Oldest + k - 1]]
    <3>1. k \in 1..(Waiting + 1) /\ k \in Nat
      BY <1>3, <2>2, AppendProperties, LenProperties
    <3>2. CASE k <= Waiting
      <4>1. sched'.queue[k] = sched.queue[k] /\ k \in DOMAIN sched.queue
        BY <1>2, <1>3, <3>1, <3>2, AppendProperties, LenProperties
      <4>. QED
        BY <4>1 DEF Line, QueueInLine
    <3>3. CASE k = Waiting + 1
      <4>1. sched'.queue[k] = e
        BY <1>3, <3>3, AppendProperties
      <4>2. Oldest + k - 1 = i
        BY <1>2, <1>6, <3>3
      <4>. QED
        BY <4>1, <4>2
    <3>. QED
      BY <1>2, <3>1, <3>2, <3>3
  <2>. QED
    BY <1>1, <1>6, <2>1, <2>2 DEF QueueInLine
<1>8. \A b : First(b)' = First(b) /\ Size(b)' = Size(b) /\ LastOf(b)' = LastOf(b)
  BY <1>1 DEF First, Size, LastOf
<1>9. BatchesInLine'
  BY <1>1, <1>6, <1>8 DEF Line, BatchesInLine
<1>10. QueueJoins'
  <2>1. ASSUME NEW r \in (Oldest + 1)..i PROVE JoinsBatch(trace, Oldest, r)
    <3>1. CASE r = i
      <4>1. Waiting > 0
        BY <1>2, <1>6, <2>1, <3>1
      <4>. QED
        BY <1>1, <3>1, <4>1, ArrivalJoins
    <3>2. CASE r # i
      <4>1. r \in (Oldest + 1)..Submitted
        BY <1>2, <1>4, <1>6, <2>1, <3>2
      <4>. QED
        BY <4>1 DEF Line, QueueJoins
    <3>. QED
      BY <3>1, <3>2
  <2>. QED
    BY <1>1, <1>4, <1>6, <2>1 DEF QueueJoins
<1>11. \A b \in DOMAIN formed' : BatchJoins(b)'
  BY <1>1, <1>8 DEF Line, BatchJoins
<1>12. Agrees'
  <2>1. PICK f : f = Opener(trace)
    OBVIOUS
  <2>2. Opener(trace)' = f
    BY <1>1, <2>1
  <2>3. SUFFICES ASSUME Reads(f)
                 PROVE  /\ \A b \in DOMAIN formed : \A r \in First(b)..LastOf(b) : f[r] = First(b)
                        /\ \A r \in Oldest..i : f[r] = Oldest
    BY <1>1, <1>4, <1>6, <1>8, <2>2 DEF Agrees, Reads
  <2>4. /\ \A b \in DOMAIN formed : \A r \in First(b)..LastOf(b) : f[r] = First(b)
        /\ \A r \in Oldest..(i - 1) : f[r] = Oldest
    BY <1>4, <2>1, <2>3 DEF Line, Agrees
  <2>5. f[i] = IF i = 1 THEN 1 ELSE IF JoinsBatch(trace, f[i - 1], i) THEN f[i - 1] ELSE i
    BY <1>2, <2>3 DEF Reads
  <2>6. f[i] = Oldest
    <3>1. CASE Waiting > 0
      <4>1. Oldest \in Oldest..(i - 1) /\ i - 1 \in Oldest..(i - 1) /\ i # 1
        BY <1>2, <1>6, <3>1
      <4>2. f[i - 1] = Oldest
        BY <2>4, <4>1
      <4>3. JoinsBatch(trace, Oldest, i)
        BY <1>1, <3>1, ArrivalJoins
      <4>. QED
        BY <2>5, <4>1, <4>2, <4>3
    <3>2. CASE Waiting = 0
      <4>1. Oldest = i
        BY <1>2, <1>6, <3>2
      <4>2. CASE i = 1
        BY <2>5, <4>1, <4>2
      <4>3. CASE i # 1
        <5>. DEFINE b == Len(formed)
        <5>1. b \in DOMAIN formed
          <6>1. formed # <<>>
            BY <4>1, <4>3 DEF Line, BatchesInLine
          <6>2. formed \in Seq(BatchType) /\ b \in Nat /\ DOMAIN formed = 1..b
            BY CountTypes
          <6>. QED
            BY <6>1, <6>2, EmptySeq
        <5>2. Oldest = LastOf(b) + 1
          BY <5>1 DEF Line, BatchesInLine
        <5>3. First(b) \in Nat /\ LastOf(b) \in Nat /\ First(b) <= LastOf(b)
          BY <5>1, BatchNumbers
        <5>4. LastOf(b) = i - 1 /\ i - 1 \in First(b)..LastOf(b)
          BY <1>2, <4>1, <5>2, <5>3
        <5>5. f[i - 1] = First(b)
          BY <2>4, <5>1, <5>4
        <5>6. ~JoinsBatch(trace, First(b), i)
          <6>1. LastOf(b) < N /\ LastOf(b) + 1 = i
            BY <1>2, <5>4
          <6>. QED
            BY <5>1, <6>1 DEF Line, BatchJoins
        <5>. QED
          BY <2>5, <4>1, <4>3, <5>5, <5>6
      <4>. QED
        BY <4>2, <4>3
    <3>. QED
      BY <1>2, <3>1, <3>2
  <2>7. ASSUME NEW r \in Oldest..i PROVE f[r] = Oldest
    <3>1. r = i \/ r \in Oldest..(i - 1)
      BY <1>2, <1>6
    <3>. QED
      BY <2>4, <2>6, <3>1
  <2>. QED
    BY <2>4, <2>7
<1>13. Turn'
  <2>1. ASSUME NEW r \in 1..i PROVE trace[r] <= trace[i]
    <3>1. CASE r = i
      BY <1>2, <3>1
    <3>2. CASE r # i
      <4>1. r \in 1..Submitted /\ r \in 1..N
        BY <1>2, <1>4, <2>1, <3>2
      <4>2. trace[r] <= sched.now /\ trace[r] \in Nat
        BY <1>2, <4>1 DEF Turn
      <4>. QED
        BY <1>1, <1>2, <4>2
    <3>. QED
      BY <3>1, <3>2
  <2>2. ~sched'.closed
    BY <1>1, <1>3 DEF Turn
  <2>. QED
    BY <1>1, <1>3, <1>4, <2>1, <2>2 DEF Turn
<1>. QED
  BY <1>7, <1>9, <1>10, <1>11, <1>12, <1>13 DEF Line

\* A batch takes everything that waits, and closes behind it.
LEMMA FormKeeps ==
  ASSUME TypeOK, DriverTypes, Timed, Line, Turn, FormBatch
  PROVE  Line' /\ Turn'
<1>1. /\ at = "advancing" /\ AdvancePop /\ UNCHANGED <<trace, i, at>>
      /\ Submitted = i - 1 /\ Submitted' = i - 1
  BY DEF FormBatch, Submitted
<1>2. PICK d \in eligible_dispatch(sched, sched.now) : Pop(d)
  BY <1>1 DEF AdvancePop
<1>3. /\ sched \in SchedulerType(Requests) /\ sched.now \in Nat
      /\ sched.queue \in Seq(Entry) /\ Waiting = Len(sched.queue) /\ Waiting \in Nat
      /\ formed \in Seq(BatchType) /\ Len(formed) \in Nat /\ DOMAIN formed = 1..Len(formed)
  BY CountTypes
<1>4. i \in 1..(N + 1) /\ i \in Nat /\ N \in Nat /\ trace \in [1..N -> Nat]
  BY CountTypes
<1>5. sched.queue # <<>> /\ d.at \in Nat /\ d.trigger \in Triggers
  BY <1>2, <1>3, EligibleLemma
<1>6. /\ Waiting >= 1 /\ Waiting <= MaxBatch /\ Waiting <= i - 1
      /\ Oldest = i - Waiting /\ Oldest \in Nat /\ Oldest >= 1 /\ Oldest <= i - 1
  <2>1. Waiting # 0
    BY <1>5, CountTypes
  <2>2. Waiting <= MaxBatch /\ Waiting <= Submitted
    BY DEF Line, QueueInLine
  <2>. QED
    BY <1>1, <1>3, <1>4, <2>1, <2>2 DEF Oldest
<1>. DEFINE p == PoppedBatch(sched, d)
<1>n. PICK n : n = Len(formed) + 1
  OBVIOUS
<1>a. BatchCount(sched) = Len(sched.queue)
  BY <1>3, <1>6 DEF BatchCount, Fewer
<1>7. p.requests = sched.queue
  BY <1>3, <1>a, SubSeqFull DEF PoppedBatch
<1>8. /\ sched'.queue = <<>> /\ sched'.now = sched.now /\ sched'.closed = sched.closed
      /\ formed' = Append(formed, p) /\ p \in BatchType
      /\ call'.op = call.op /\ call'.slots = call.slots
  <2>1. sched'.queue = SubSeq(sched.queue, Len(sched.queue) + 1, Len(sched.queue))
    BY <1>2, <1>a DEF Pop, AfterPop
  <2>2. sched'.queue = <<>>
    BY <1>3, <2>1, SubSeqEmpty
  <2>3. p \in BatchType
    BY <1>3, <1>5, PopLemma
  <2>. QED
    BY <1>2, <2>2, <2>3 DEF Pop, AfterPop
<1>9. Waiting' = 0 /\ Oldest' = i
  BY <1>1, <1>4, <1>8, EmptySeq DEF Waiting, Oldest
<1>10. /\ DOMAIN formed' = 1..n /\ Len(formed') = n /\ formed'[n] = p
       /\ \A b \in DOMAIN formed : formed'[b] = formed[b]
  BY <1>3, <1>n, <1>8, AppendProperties, LenProperties
<1>11. \A b \in DOMAIN formed :
         First(b)' = First(b) /\ Size(b)' = Size(b) /\ LastOf(b)' = LastOf(b)
  BY <1>10 DEF First, Size, LastOf
<1>12. First(n)' = Oldest /\ Size(n)' = Waiting /\ LastOf(n)' = i - 1
  <2>1. 1 \in DOMAIN sched.queue
    BY <1>3, <1>6, LenProperties
  <2>2. sched.queue[1] = [id |-> Oldest + 1 - 1, admitted |-> trace[Oldest + 1 - 1]]
    BY <2>1 DEF Line, QueueInLine
  <2>3. sched.queue[1].id = Oldest
    BY <1>6, <2>2
  <2>4. First(n)' = Oldest
    BY <1>7, <1>10, <2>3 DEF First
  <2>5. Size(n)' = Waiting
    BY <1>3, <1>7, <1>10 DEF Size
  <2>6. LastOf(n)' = First(n)' + Size(n)' - 1
    BY DEF LastOf
  <2>. QED
    BY <1>3, <1>4, <1>6, <2>4, <2>5, <2>6
<1>. HIDE DEF p
<1>13. n \in Nat /\ n = Len(formed) + 1 /\ \A b \in 1..n : b = n \/ b \in DOMAIN formed
  BY <1>3, <1>n
<1>14. QueueInLine'
  BY <1>4, <1>1, <1>8, <1>9, EmptySeq DEF QueueInLine
<1>15. BatchesInLine'
  <2>1. ASSUME NEW b \in DOMAIN formed
        PROVE  /\ First(b) >= 1 /\ Size(b) >= 1 /\ LastOf(b) < i /\ LastOf(b) < Oldest
               /\ b = 1 => First(b) = 1
               /\ b > 1 => First(b) = LastOf(b - 1) + 1 /\ b - 1 \in DOMAIN formed
               /\ b # n
               /\ \A c \in DOMAIN formed : b < c => LastOf(b) < First(c)
    <3>1. /\ First(b) >= 1 /\ Size(b) >= 1 /\ LastOf(b) < Oldest
          /\ b = 1 => First(b) = 1
          /\ b > 1 => First(b) = LastOf(b - 1) + 1
          /\ \A c \in DOMAIN formed : b < c => LastOf(b) < First(c)
      BY <2>1 DEF Line, BatchesInLine
    <3>2. LastOf(b) \in Nat /\ b \in Nat /\ b >= 1 /\ b <= Len(formed)
      BY <2>1, BatchNumbers
    <3>3. LastOf(b) < i
      BY <1>4, <1>6, <3>1, <3>2
    <3>4. b # n
      BY <1>3, <1>13, <3>2
    <3>5. b > 1 => b - 1 \in DOMAIN formed
      <4>1. b > 1 => b - 1 \in 1..Len(formed)
        BY <1>3, <3>2
      <4>. QED
        BY <1>3, <4>1
    <3>. QED
      BY <3>1, <3>3, <3>4, <3>5
  <2>2. n = 1 => Oldest = 1
    <3>1. n = 1 => formed = <<>>
      BY <1>3, <1>13, EmptySeq
    <3>. QED
      BY <3>1 DEF Line, BatchesInLine
  <2>3. n > 1 => n - 1 \in DOMAIN formed /\ Oldest = LastOf(n - 1) + 1
    <3>1. n > 1 => n - 1 \in DOMAIN formed /\ n - 1 = Len(formed)
      BY <1>3, <1>13
    <3>. QED
      BY <3>1 DEF Line, BatchesInLine
  <2>4. ASSUME NEW r \in 1..(i - 1)
        PROVE  \E b \in DOMAIN formed' : r \in First(b)'..LastOf(b)'
    <3>1. CASE r < Oldest
      <4>1. r \in 1..(Oldest - 1)
        BY <1>6, <2>4, <3>1
      <4>2. PICK b \in DOMAIN formed : r \in First(b)..LastOf(b)
        BY <4>1 DEF Line, BatchesInLine
      <4>3. b \in DOMAIN formed'
        BY <1>3, <1>10, <1>13, <4>2
      <4>. QED
        BY <1>11, <4>2, <4>3
    <3>2. CASE r >= Oldest
      <4>1. r \in First(n)'..LastOf(n)' /\ n \in DOMAIN formed'
        BY <1>3, <1>6, <1>10, <1>12, <1>13, <2>4, <3>2
      <4>. QED
        BY <4>1
    <3>. QED
      BY <1>6, <2>4, <3>1, <3>2
  <2>5. ASSUME NEW b \in DOMAIN formed'
        PROVE  /\ First(b)' >= 1 /\ Size(b)' >= 1 /\ LastOf(b)' < i
               /\ b = 1 => First(b)' = 1
               /\ b > 1 => First(b)' = LastOf(b - 1)' + 1
               /\ b = n => i = LastOf(b)' + 1
               /\ \A c \in DOMAIN formed' : b < c => LastOf(b)' < First(c)'
    <3>1. CASE b \in DOMAIN formed
      <4>1. ASSUME NEW c \in DOMAIN formed', b < c PROVE LastOf(b)' < First(c)'
        <5>1. CASE c \in DOMAIN formed
          BY <1>11, <2>1, <3>1, <4>1, <5>1
        <5>2. CASE c = n
          BY <1>11, <1>12, <2>1, <3>1, <5>2
        <5>. QED
          BY <1>10, <1>13, <5>1, <5>2
      <4>. QED
        BY <1>11, <2>1, <3>1, <4>1
    <3>2. CASE b = n
      <4>1. \A c \in DOMAIN formed' : ~(b < c)
        BY <1>10, <1>13, <3>2
      <4>2. n > 1 => LastOf(n - 1)' = LastOf(n - 1)
        BY <1>11, <2>3
      <4>3. i = (i - 1) + 1 /\ i - 1 < i
        BY <1>4
      <4>. QED
        BY <1>6, <1>12, <2>2, <2>3, <3>2, <4>1, <4>2, <4>3
    <3>. QED
      BY <1>10, <1>13, <2>5, <3>1, <3>2
  <2>6. formed' # <<>>
    BY <1>8, AppendProperties, <1>3
  <2>. QED
    BY <1>9, <1>10, <2>4, <2>5, <2>6 DEF BatchesInLine
<1>16. QueueJoins'
  BY <1>1, <1>4, <1>9 DEF QueueJoins
<1>17. ASSUME NEW b \in DOMAIN formed' PROVE BatchJoins(b)'
  <2>1. CASE b \in DOMAIN formed
    BY <1>1, <1>11, <2>1 DEF Line, BatchJoins
  <2>2. CASE b = n
    <3>1. \A r \in (Oldest + 1)..(i - 1) : JoinsBatch(trace, Oldest, r)
      BY <1>1 DEF Line, QueueJoins
    <3>2. ASSUME i - 1 < N, JoinsBatch(trace, Oldest, i) PROVE FALSE
      <4>0. i \in 1..N /\ Oldest \in 1..N /\ trace[i] \in Nat /\ trace[Oldest] \in Nat
        BY <1>4, <1>6, <3>2
      <4>1. CASE Full(sched)
        <5>1. i - Oldest >= MaxBatch
          BY <1>3, <1>4, <1>6, <4>1 DEF Full
        <5>. QED
          BY <1>4, <1>6, <3>2, <5>1 DEF JoinsBatch
      <4>2. CASE ~Full(sched)
        <5>1. OldestDeadline(sched) <= sched.now
          BY <1>2, <1>5, <4>2 DEF eligible_dispatch, Timed
        <5>2. sched.queue[1].admitted = trace[Oldest]
          <6>1. 1 \in DOMAIN sched.queue
            BY <1>3, <1>6, LenProperties
          <6>2. sched.queue[1] = [id |-> Oldest + 1 - 1, admitted |-> trace[Oldest + 1 - 1]]
            BY <6>1 DEF Line, QueueInLine
          <6>3. Oldest + 1 - 1 = Oldest
            BY <1>6
          <6>. QED
            BY <6>2, <6>3
        <5>3. trace[Oldest] + MaxWait <= sched.now
          BY <5>1, <5>2 DEF OldestDeadline
        <5>4. trace[i] <= trace[Oldest] + MaxWait
          BY <3>2 DEF JoinsBatch
        <5>5. sched.now < trace[i] \/ (i > 1 /\ sched.now = trace[i - 1])
          BY <1>1, <1>4, <3>2 DEF Turn
        <5>6. CASE sched.now < trace[i]
          BY <1>3, <4>0, <5>3, <5>4, <5>6
        <5>7. CASE i > 1 /\ sched.now = trace[i - 1]
          <6>1. PICK r : r = i - 1
            OBVIOUS
          <6>2. /\ r \in 1..(N - 1) /\ r + 1 = i /\ Oldest <= r /\ Oldest \in 1..(N - 1)
                /\ i \in 1..N
            BY <1>4, <1>6, <3>2, <4>0, <5>7, <6>1
          <6>3. trace[r] <= trace[r + 1]
            BY <6>2 DEF DriverTypes
          <6>4. trace[r] = trace[r + 1] /\ trace[r] = trace[Oldest] + MaxWait
            BY <1>3, <4>0, <5>3, <5>4, <5>7, <6>1, <6>2, <6>3
          <6>5. Untied(trace)
            BY DEF Timed
          <6>. QED
            BY <6>2, <6>4, <6>5 DEF Untied
        <5>. QED
          BY <5>5, <5>6, <5>7
      <4>. QED
        BY <4>1, <4>2
    <3>3. (i - 1) + 1 = i
      BY <1>4
    <3>. QED
      BY <1>1, <1>12, <2>2, <3>1, <3>2, <3>3 DEF BatchJoins
  <2>. QED
    BY <1>10, <1>13, <1>17, <2>1, <2>2
<1>18. Agrees'
  <2>1. PICK f : f = Opener(trace)
    OBVIOUS
  <2>2. Opener(trace)' = f
    BY <1>1, <2>1
  <2>3. SUFFICES ASSUME Reads(f)
                 PROVE  /\ \A b \in DOMAIN formed' : \A r \in First(b)'..LastOf(b)' : f[r] = First(b)'
                        /\ \A r \in i..(i - 1) : f[r] = i
    BY <1>1, <1>9, <2>2 DEF Agrees, Reads
  <2>4. /\ \A b \in DOMAIN formed : \A r \in First(b)..LastOf(b) : f[r] = First(b)
        /\ \A r \in Oldest..(i - 1) : f[r] = Oldest
    BY <1>1, <2>1, <2>3 DEF Line, Agrees
  <2>5. ASSUME NEW b \in DOMAIN formed', NEW r \in First(b)'..LastOf(b)'
        PROVE  f[r] = First(b)'
    <3>1. CASE b \in DOMAIN formed
      BY <1>11, <2>4, <2>5, <3>1
    <3>2. CASE b = n
      BY <1>12, <2>4, <2>5, <3>2
    <3>. QED
      BY <1>10, <1>13, <2>5, <3>1, <3>2
  <2>. QED
    BY <1>4, <2>5
<1>19. Turn'
  <2>1. /\ \A r \in 1..(i - 1) : trace[r] <= sched.now
        /\ ~sched.closed /\ call.op = "advance" /\ call.slots = Unlimited
        /\ i = N + 1 \/ sched.now < trace[i] \/ (i > 1 /\ sched.now = trace[i - 1])
    BY <1>1 DEF Turn
  <2>2. at' = "advancing" /\ i' = i /\ trace' = trace /\ N' = N
    BY <1>1
  <2>. QED
    BY <1>1, <1>8, <2>1, <2>2 DEF Turn
<1>. QED
  BY <1>14, <1>15, <1>16, <1>17, <1>18, <1>19 DEF Line

\* The other steps of the driver submit nothing and form nothing; they take the turn further.
LEMMA TurnMoves ==
  ASSUME TypeOK, DriverTypes, Timed, Line, Turn,
         WakeBeforeArrival \/ OverflowRaises \/ AdvanceToArrival \/ Advanced
         \/ WakeAfterArrivals \/ CloseTrace \/ Closed
  PROVE  Line' /\ Turn'
<1>1. /\ i \in 1..(N + 1) /\ i \in Nat /\ N \in Nat /\ trace \in [1..N -> Nat]
      /\ sched \in SchedulerType(Requests) /\ sched.now \in Nat /\ Submitted \in 0..N
      /\ Waiting = 0 <=> sched.queue = <<>>
      /\ NextWakeup # NoTime => NextWakeup \in Nat
  <2>1. sched \in SchedulerType(Requests) /\ sched.now \in Nat
    BY CountTypes
  <2>2. NextWakeup # NoTime => NextWakeup \in Nat
    BY <2>1, WakeupLemma DEF NextWakeup
  <2>. QED
    BY <2>1, <2>2, CountTypes
<1>a. \A r \in 1..Submitted : trace[r] <= sched.now /\ r \in 1..N /\ trace[r] \in Nat
  BY <1>1 DEF Turn
<1>2. SUFFICES /\ sched'.queue = sched.queue /\ UNCHANGED <<formed, trace>>
               /\ Submitted' = Submitted
               /\ sched'.now \in Nat /\ sched'.now >= sched.now
               /\ Turn'
  BY LineStays
<1>3. ASSUME NEW t \in Nat, AdvanceEnter(t, Unlimited)
      PROVE  /\ sched'.queue = sched.queue /\ formed' = formed /\ sched'.closed = sched.closed
             /\ sched'.now = t /\ t >= sched.now
             /\ call'.op = "advance" /\ call'.slots = Unlimited
  BY <1>1, <1>3, MoveLemma DEF AdvanceEnter, Entering, MayMoveTo, history
<1>4. Waiting' = Waiting <=> Len(sched'.queue) = Len(sched.queue)
  BY DEF Waiting
<1>5. CASE WakeBeforeArrival
  <2>1. /\ at = "arrival" /\ i <= N /\ NextWakeup \in Nat /\ NextWakeup < trace[i]
        /\ AdvanceEnter(NextWakeup, Unlimited) /\ at' = "advancing" /\ UNCHANGED <<trace, i>>
    BY <1>1, <1>5 DEF WakeBeforeArrival
  <2>2. Submitted' = Submitted
    BY <2>1 DEF Submitted
  <2>3. /\ sched'.queue = sched.queue /\ formed' = formed /\ sched'.closed = sched.closed
        /\ sched'.now = NextWakeup /\ NextWakeup >= sched.now
        /\ call'.op = "advance" /\ call'.slots = Unlimited
    BY <1>3, <2>1
  <2>4. \A r \in 1..Submitted : trace[r] <= NextWakeup
    BY <1>1, <1>a, <2>1, <2>3
  <2>5. ~sched.closed
    BY <2>1 DEF Turn
  <2>6. Turn'
    BY <2>1, <2>2, <2>3, <2>4, <2>5 DEF Turn
  <2>. QED
    BY <1>1, <2>1, <2>2, <2>3, <2>6
<1>6. CASE AdvanceToArrival
  <2>1. /\ at = "submitted" /\ i <= N /\ AdvanceEnter(trace[i], Unlimited)
        /\ i' = i + 1 /\ at' = "advancing" /\ trace' = trace
    BY <1>6 DEF AdvanceToArrival, DriverTypes
  <2>2. Submitted' = Submitted /\ Submitted = i /\ trace[i] \in Nat
    BY <1>1, <2>1 DEF Submitted
  <2>3. /\ sched'.queue = sched.queue /\ formed' = formed /\ sched'.closed = sched.closed
        /\ sched'.now = trace[i] /\ trace[i] >= sched.now
        /\ call'.op = "advance" /\ call'.slots = Unlimited
    BY <1>3, <2>1, <2>2
  <2>4. \A r \in 1..Submitted : trace[r] <= trace[i]
    BY <1>1, <1>a, <2>2, <2>3
  <2>5. ~sched.closed
    BY <2>1 DEF Turn
  <2>6. i' > 1 /\ trace'[i' - 1] = trace[i]
    BY <1>1, <2>1
  <2>7. Turn'
    BY <2>1, <2>2, <2>3, <2>4, <2>5, <2>6 DEF Turn
  <2>. QED
    BY <1>1, <2>1, <2>2, <2>3, <2>7
<1>7. CASE WakeAfterArrivals
  <2>1. /\ at = "tail" /\ NextWakeup \in Nat
        /\ AdvanceEnter(NextWakeup, Unlimited) /\ at' = "advancing" /\ UNCHANGED <<trace, i>>
    BY <1>1, <1>7 DEF WakeAfterArrivals
  <2>2. Submitted' = Submitted
    BY <2>1 DEF Submitted
  <2>3. /\ sched'.queue = sched.queue /\ formed' = formed /\ sched'.closed = sched.closed
        /\ sched'.now = NextWakeup /\ NextWakeup >= sched.now
        /\ call'.op = "advance" /\ call'.slots = Unlimited
    BY <1>3, <2>1
  <2>4. \A r \in 1..Submitted : trace[r] <= NextWakeup
    BY <1>1, <1>a, <2>1, <2>3
  <2>5. ~sched.closed /\ i = N + 1
    BY <2>1 DEF Turn
  <2>6. Turn'
    BY <2>1, <2>2, <2>3, <2>4, <2>5 DEF Turn
  <2>. QED
    BY <1>1, <2>1, <2>2, <2>3, <2>6
<1>8. CASE OverflowRaises
  <2>1. /\ at = "arrival" /\ i <= N /\ SubmitRefused(i, trace[i])
        /\ at' = "raised" /\ UNCHANGED <<trace, i>>
    BY <1>8 DEF OverflowRaises
  <2>2. Submitted' = Submitted /\ trace[i] \in Nat
    BY <1>1, <2>1 DEF Submitted
  <2>3. /\ sched'.queue = sched.queue /\ formed' = formed
        /\ sched'.now = trace[i] /\ trace[i] >= sched.now
    BY <1>1, <2>1, <2>2, MoveLemma DEF SubmitRefused, MayMoveTo
  <2>4. \A r \in 1..Submitted : trace[r] <= trace[i]
    BY <1>1, <1>a, <2>2, <2>3
  <2>5. Turn'
    BY <2>1, <2>2, <2>3, <2>4 DEF Turn
  <2>. QED
    BY <1>1, <2>1, <2>2, <2>3, <2>5
<1>9. CASE Advanced
  <2>1. /\ at = "advancing" /\ AdvanceReturn /\ UNCHANGED <<trace, i>>
        /\ at' = IF i <= N THEN "arrival" ELSE "tail"
    BY <1>9 DEF Advanced
  <2>2. UNCHANGED <<sched, formed>> /\ eligible_dispatch(sched, sched.now) = {} /\ ~sched.closed
    BY <2>1 DEF AdvanceReturn, SlotLeft, Turn, history
  <2>3. Submitted' = Submitted /\ (at' = "tail" => i = N + 1) /\ at' \in {"arrival", "tail"}
    BY <1>1, <2>1 DEF Submitted
  <2>4. Waiting' = Waiting /\ Oldest' = Oldest
    BY <2>2, <2>3 DEF Waiting, Oldest
  <2>5. ASSUME Waiting > 0
        PROVE  Waiting < MaxBatch /\ trace[Oldest] + MaxWait > sched.now
    <3>1. sched.queue # <<>> /\ sched.queue \in Seq(Entry) /\ Waiting \in Nat
          /\ Waiting = Len(sched.queue)
      BY <2>5, CountTypes
    <3>2. ~Full(sched) /\ ~(OldestDeadline(sched) <= sched.now)
      BY <2>2, <3>1 DEF eligible_dispatch, Timed
    <3>3. sched.queue[1].admitted = trace[Oldest] /\ trace[Oldest] \in Nat
      <4>1. 1 \in DOMAIN sched.queue
        BY <2>5, <3>1, LenProperties
      <4>2. sched.queue[1] = [id |-> Oldest + 1 - 1, admitted |-> trace[Oldest + 1 - 1]]
        BY <4>1 DEF Line, QueueInLine
      <4>3. Waiting <= Submitted
        BY DEF Line, QueueInLine
      <4>4. Oldest \in 1..N /\ Oldest + 1 - 1 = Oldest
        BY <1>1, <2>5, <3>1, <4>3 DEF Oldest
      <4>. QED
        BY <1>1, <4>2, <4>4
    <3>4. Waiting < MaxBatch
      BY <3>1, <3>2 DEF Full
    <3>. QED
      BY <1>1, <3>2, <3>3, <3>4 DEF OldestDeadline
  <2>6. Turn'
    BY <1>a, <2>1, <2>2, <2>3, <2>4, <2>5 DEF Turn
  <2>. QED
    BY <1>1, <2>1, <2>2, <2>3, <2>6
<1>10. CASE CloseTrace
  <2>1. /\ at = "tail" /\ NextWakeup = NoTime /\ CloseEnter(sched.now, Unlimited)
        /\ at' = "closing" /\ UNCHANGED <<trace, i>>
    BY <1>10 DEF CloseTrace
  <2>2. /\ sched'.queue = sched.queue /\ formed' = formed /\ sched'.now = sched.now
    BY <1>1, <2>1, MoveLemma DEF CloseEnter, history
  <2>3. Submitted' = Submitted /\ ~sched.closed /\ i = N + 1
    BY <2>1 DEF Submitted, Turn
  <2>4. Waiting = 0
    <3>1. SUFFICES ASSUME sched.queue # <<>> PROVE FALSE
      BY <1>1
    <3>2. sched.queue[1].admitted \in Nat
      BY <1>1, <3>1, FieldTypes
    <3>. QED
      BY <1>1, <2>1, <2>3, <3>1, <3>2
         DEF NextWakeup, next_wakeup_ns, OldestDeadline, NoTime, Timed
  <2>5. Waiting' = 0
    BY <2>2, <2>4 DEF Waiting
  <2>6. Turn'
    BY <1>a, <2>1, <2>2, <2>3, <2>5 DEF Turn
  <2>. QED
    BY <1>1, <2>1, <2>2, <2>3, <2>6
<1>11. CASE Closed
  <2>1. /\ at = "closing" /\ CloseReturn /\ at' = "done" /\ UNCHANGED <<trace, i>>
    BY <1>11 DEF Closed
  <2>2. sched'.queue = sched.queue /\ formed' = formed /\ sched'.now = sched.now
    BY <2>1 DEF CloseReturn, AfterClose
  <2>3. Submitted' = Submitted /\ Waiting = 0 /\ i = N + 1
    BY <2>1 DEF Submitted, Turn
  <2>4. Waiting' = 0
    BY <2>2, <2>3 DEF Waiting
  <2>5. Turn'
    BY <1>a, <2>1, <2>2, <2>3, <2>4 DEF Turn
  <2>. QED
    BY <1>1, <2>1, <2>2, <2>3, <2>5
<1>. QED
  BY <1>5, <1>6, <1>7, <1>8, <1>9, <1>10, <1>11

\* The line and the turn hold at every step of the driver.
LEMMA DriverLine == TraceSpec => []DriverInv
<1>1. TraceInit => DriverInv
  <2>. SUFFICES ASSUME TraceInit, Timed PROVE Line /\ Turn
    BY DEF DriverInv
  <2>1. /\ at = "arrival" /\ i = 1 /\ formed = <<>> /\ sched.queue = <<>>
        /\ sched.now = 0 /\ ~sched.closed
    BY DEF TraceInit, Init, Timed, NewScheduler
  <2>2. Submitted = 0 /\ Waiting = 0 /\ Oldest = 1
    BY <2>1, EmptySeq DEF Submitted, Waiting, Oldest
  <2>3. QueueInLine /\ BatchesInLine /\ QueueJoins /\ Agrees
    BY <2>1, <2>2 DEF QueueInLine, BatchesInLine, QueueJoins, Agrees
  <2>4. Turn
    BY <2>1, <2>2 DEF Turn
  <2>. QED
    BY <2>1, <2>3, <2>4 DEF Line
<1>2. TypeOK /\ DriverTypes /\ DriverInv /\ [TraceNext]_traceVars => DriverInv'
  <2>. SUFFICES ASSUME TypeOK, DriverTypes, DriverInv, [TraceNext]_traceVars, Timed'
                PROVE  Line' /\ Turn'
    BY DEF DriverInv
  <2>1. CASE AnyCall
    BY <2>1 DEF AnyCall, Timed
  <2>2. CASE ~AnyCall
    <3>1. sched'.policy = sched.policy
      BY DriverStep, PolicyFixed
    <3>2. at # "free"
      BY <2>2 DEF TraceNext, DriverNext, WakeBeforeArrival, SubmitArrival, OverflowRaises,
              AdvanceToArrival, FormBatch, Advanced, WakeAfterArrivals, CloseTrace, Closed,
              traceVars, Timed
    <3>3. Timed /\ Line /\ Turn
      <4>1. trace' = trace
        BY <2>2 DEF TraceNext, DriverNext, WakeBeforeArrival, SubmitArrival, OverflowRaises,
              AdvanceToArrival, FormBatch, Advanced, WakeAfterArrivals, CloseTrace, Closed,
              traceVars
      <4>2. Untied(trace)
        <5>1. Untied(trace)' = Untied(trace)
          BY <4>1 DEF Untied, N
        <5>. QED
          BY <5>1 DEF Timed
      <4>. QED
        BY <3>1, <3>2, <4>2 DEF Timed, DriverInv
    <3>4. CASE UNCHANGED traceVars
      <4>1. UNCHANGED <<sched, call, formed, trace, i, at>>
        BY <3>4 DEF traceVars, vars
      <4>2. Submitted' = Submitted /\ Waiting' = Waiting /\ Oldest' = Oldest
        BY <4>1 DEF Submitted, Waiting, Oldest
      <4>3. Line'
        BY <3>3, <4>1, <4>2, LineStays
      <4>. QED
        BY <3>3, <4>1, <4>2, <4>3 DEF Turn
    <3>. QED
      BY <2>2, <3>3, <3>4, SubmitKeeps, FormKeeps, TurnMoves DEF TraceNext, DriverNext
  <2>. QED
    BY <2>1, <2>2
<1>. QED
  BY <1>1, <1>2, DriverInvariant, PTL DEF TraceSpec

\* When all are served, the batches are a reading of the trace: a request's batch is the one
\* it is in, and there is one.
LEMMA ReadingExists ==
  ASSUME TypeOK, DriverTypes, Timed, Line, Turn, at = "done"
  PROVE  Reads(Opener(trace))
<1>1. Submitted = N /\ Waiting = 0 /\ Oldest = N + 1 /\ N \in Nat /\ Len(formed) \in Nat
  <2>1. i = N + 1 /\ Waiting = 0
    BY DEF Turn
  <2>2. N \in Nat /\ Len(formed) \in Nat /\ Oldest = Submitted - Waiting + 1
    BY CountTypes
  <2>. QED
    BY <2>1, <2>2 DEF Submitted
<1>. DEFINE In(r, b) == r \in First(b)..LastOf(b)
            Home(r) == CHOOSE b \in DOMAIN formed : In(r, b)
            g == [r \in 1..N |-> First(Home(r))]
<1>2. ASSUME NEW r \in 1..N, NEW b \in DOMAIN formed, In(r, b)
      PROVE  g[r] = First(b)
  <2>1. Home(r) \in DOMAIN formed /\ In(r, Home(r))
    BY <1>2
  <2>2. PICK c \in DOMAIN formed : c = Home(r) /\ In(r, c)
    BY <2>1
  <2>3. ~(b < c) /\ ~(c < b)
    <3>1. /\ b < c => LastOf(b) < First(c)
          /\ c < b => LastOf(c) < First(b)
      BY DEF Line, BatchesInLine
    <3>2. /\ First(b) \in Nat /\ LastOf(b) \in Nat /\ First(c) \in Nat /\ LastOf(c) \in Nat
      BY BatchNumbers
    <3>. QED
      BY <1>2, <2>2, <3>1, <3>2
  <2>4. b = c
    BY <2>3, BatchNumbers
  <2>. QED
    BY <2>2, <2>4
<1>. HIDE DEF Home
<1>3. ASSUME NEW r \in 1..N
      PROVE  g[r] = IF r = 1 THEN 1
                    ELSE IF JoinsBatch(trace, g[r - 1], r) THEN g[r - 1] ELSE r
  <2>1. PICK b \in DOMAIN formed : In(r, b)
    <3>1. r \in 1..(Oldest - 1)
      BY <1>1
    <3>. QED
      BY <3>1 DEF Line, BatchesInLine
  <2>2. g[r] = First(b)
    BY <1>2, <2>1
  <2>3. /\ First(b) \in Nat /\ LastOf(b) \in Nat /\ First(b) >= 1 /\ First(b) <= r
        /\ r <= LastOf(b) /\ b \in Nat /\ b >= 1 /\ b <= Len(formed) /\ LastOf(b) < Oldest
    BY <2>1, BatchNumbers
  <2>4. CASE r = 1
    BY <2>2, <2>3, <2>4
  <2>5. CASE r # 1 /\ First(b) < r
    <3>1. r - 1 \in 1..N /\ In(r - 1, b)
      BY <2>3, <2>5, <1>1
    <3>2. g[r - 1] = First(b)
      BY <1>2, <3>1
    <3>3. r \in (First(b) + 1)..LastOf(b)
      BY <2>3, <2>5
    <3>4. JoinsBatch(trace, First(b), r)
      BY <3>3 DEF Line, BatchJoins
    <3>. QED
      BY <2>2, <2>5, <3>2, <3>4
  <2>6. CASE r # 1 /\ First(b) = r
    <3>1. b > 1
      <4>1. b = 1 => First(b) = 1
        BY DEF Line, BatchesInLine
      <4>. QED
        BY <2>3, <2>6, <4>1
    <3>2. First(b) = LastOf(b - 1) + 1
      BY <3>1 DEF Line, BatchesInLine
    <3>3. b - 1 \in DOMAIN formed
      <4>1. DOMAIN formed = 1..Len(formed)
        BY CountTypes
      <4>2. b - 1 \in 1..Len(formed)
        BY <1>1, <2>3, <3>1
      <4>. QED
        BY <4>1, <4>2
    <3>4. PICK c \in DOMAIN formed : c = b - 1
      BY <3>3
    <3>5. First(c) \in Nat /\ LastOf(c) \in Nat /\ First(c) <= LastOf(c) /\ First(c) >= 1
      BY BatchNumbers
    <3>6. LastOf(c) = r - 1 /\ r - 1 \in 1..N /\ In(r - 1, c) /\ LastOf(c) < N /\ LastOf(c) + 1 = r
      BY <1>1, <2>3, <2>6, <3>2, <3>4, <3>5
    <3>7. g[r - 1] = First(c)
      BY <1>2, <3>6
    <3>8. ~JoinsBatch(trace, First(c), r)
      BY <3>6 DEF Line, BatchJoins
    <3>. QED
      BY <2>2, <2>6, <3>7, <3>8
  <2>. QED
    BY <2>3, <2>4, <2>5, <2>6
<1>4. Reads(g)
  <2>. HIDE DEF g
  <2>1. PICK h : h = g
    OBVIOUS
  <2>2. h = [r \in 1..N |-> h[r]]
    BY <2>1 DEF g
  <2>3. \A r \in 1..N : h[r] = IF r = 1 THEN 1
                    ELSE IF JoinsBatch(trace, h[r - 1], r) THEN h[r - 1] ELSE r
    BY <1>3, <2>1
  <2>4. Reads(h)
    BY <2>2, <2>3 DEF Reads
  <2>. QED
    BY <2>1, <2>4
<1>5. Opener(trace) = CHOOSE f : Reads(f)
  BY DEF Opener, Reads
<1>. HIDE DEF g
<1>. QED
  BY <1>4, <1>5

\* So each batch holds the requests whose opener is its first one.
LEMMA ReadingIsFormed ==
  ASSUME TypeOK, DriverTypes, Timed, Line, Turn, at = "done"
  PROVE  /\ Openers(trace) = {First(b) : b \in DOMAIN formed}
         /\ \A b \in DOMAIN formed :
              {r \in 1..N : Opener(trace)[r] = First(b)} = First(b)..LastOf(b)
<1>1. Submitted = N /\ Oldest = N + 1 /\ N \in Nat
  <2>1. i = N + 1 /\ Waiting = 0
    BY DEF Turn
  <2>2. N \in Nat /\ Oldest = Submitted - Waiting + 1
    BY CountTypes
  <2>. QED
    BY <2>1, <2>2 DEF Submitted
<1>2. \A b \in DOMAIN formed : \A r \in First(b)..LastOf(b) : Opener(trace)[r] = First(b)
  BY ReadingExists DEF Line, Agrees
<1>3. \A r \in 1..N : \E b \in DOMAIN formed : r \in First(b)..LastOf(b)
  <2>1. Oldest - 1 = N
    BY <1>1
  <2>. QED
    BY <2>1 DEF Line, BatchesInLine
<1>4. \A b \in DOMAIN formed :
        /\ First(b) \in First(b)..LastOf(b) /\ First(b) \in 1..N
        /\ First(b)..LastOf(b) \subseteq 1..N
  <2>. TAKE b \in DOMAIN formed
  <2>1. /\ First(b) \in Nat /\ LastOf(b) \in Nat /\ First(b) >= 1 /\ First(b) <= LastOf(b)
        /\ LastOf(b) < N + 1
    BY <1>1, BatchNumbers
  <2>. QED
    BY <1>1, <2>1
<1>5. \A b, c \in DOMAIN formed : First(b) = First(c) => b = c
  <2>. TAKE b, c \in DOMAIN formed
  <2>1. /\ b < c => LastOf(b) < First(c)
        /\ c < b => LastOf(c) < First(b)
    BY DEF Line, BatchesInLine
  <2>2. /\ First(b) \in Nat /\ LastOf(b) \in Nat /\ First(b) <= LastOf(b) /\ b \in Nat
        /\ First(c) \in Nat /\ LastOf(c) \in Nat /\ First(c) <= LastOf(c) /\ c \in Nat
    BY BatchNumbers
  <2>. QED
    BY <2>1, <2>2
<1>6. Openers(trace) = {First(b) : b \in DOMAIN formed}
  <2>1. ASSUME NEW r \in 1..N PROVE \E b \in DOMAIN formed : Opener(trace)[r] = First(b)
    BY <1>2, <1>3
  <2>2. ASSUME NEW b \in DOMAIN formed PROVE \E r \in 1..N : Opener(trace)[r] = First(b)
    BY <1>2, <1>4
  <2>. QED
    BY <2>1, <2>2 DEF Openers
<1>7. ASSUME NEW b \in DOMAIN formed
      PROVE  {r \in 1..N : Opener(trace)[r] = First(b)} = First(b)..LastOf(b)
  <2>1. ASSUME NEW r \in 1..N, Opener(trace)[r] = First(b) PROVE r \in First(b)..LastOf(b)
    <3>1. PICK c \in DOMAIN formed : r \in First(c)..LastOf(c)
      BY <1>3
    <3>2. c = b
      BY <1>2, <1>5, <2>1, <3>1
    <3>. QED
      BY <3>1, <3>2
  <2>. QED
    BY <1>2, <1>4, <2>1
<1>. QED
  BY <1>6, <1>7

\* The batches of a trace that was run to its end are those of the reference.
LEMMA SizesAgree ==
  ASSUME TypeOK, DriverTypes, DriverInv
  PROVE  MatchesReference
<1>. SUFFICES ASSUME at = "done", sched.policy = "size_or_time", Untied(trace)
              PROVE  /\ Len(formed) = Cardinality(Openers(trace))
                     /\ \A b \in DOMAIN formed :
                          /\ First(b) \in Openers(trace)
                          /\ Size(b) = ReferenceSizes(trace)[First(b)]
  BY DEF MatchesReference, First, Size
<1>1. Timed /\ Line /\ Turn
  BY DEF Timed, DriverInv
<1>2. /\ Openers(trace) = {First(b) : b \in DOMAIN formed}
      /\ \A b \in DOMAIN formed :
           {r \in 1..N : Opener(trace)[r] = First(b)} = First(b)..LastOf(b)
  BY <1>1, ReadingIsFormed
<1>3. Len(formed) \in Nat /\ DOMAIN formed = 1..Len(formed)
  BY CountTypes
<1>4. Len(formed) = Cardinality(Openers(trace))
  <2>. DEFINE m == [b \in 1..Len(formed) |-> First(b)]
  <2>1. m \in [1..Len(formed) -> Openers(trace)]
    BY <1>2, <1>3
  <2>2. ASSUME NEW b \in 1..Len(formed), NEW c \in 1..Len(formed), m[b] = m[c] PROVE b = c
    <3>1. First(b) = First(c) /\ b \in DOMAIN formed /\ c \in DOMAIN formed
      BY <1>3, <2>2
    <3>2. /\ b < c => LastOf(b) < First(c)
          /\ c < b => LastOf(c) < First(b)
      BY <1>1, <3>1 DEF Line, BatchesInLine
    <3>3. /\ First(b) \in Nat /\ LastOf(b) \in Nat /\ First(b) <= LastOf(b) /\ b \in Nat
          /\ First(c) \in Nat /\ LastOf(c) \in Nat /\ First(c) <= LastOf(c) /\ c \in Nat
      BY <1>1, <3>1, BatchNumbers
    <3>. QED
      BY <3>1, <3>2, <3>3
  <2>3. \A r \in Openers(trace) : \E b \in 1..Len(formed) : m[b] = r
    BY <1>2, <1>3
  <2>. HIDE DEF m
  <2>4. m \in Injection(1..Len(formed), Openers(trace))
    BY <2>1, <2>2 DEF Injection, IsInjective
  <2>5. m \in Surjection(1..Len(formed), Openers(trace))
    BY <2>1, <2>3 DEF Surjection
  <2>6. ExistsBijection(1..Len(formed), Openers(trace))
    BY <2>4, <2>5 DEF ExistsBijection, Bijection
  <2>. QED
    BY <1>3, <2>6, FS_CountingElements
<1>5. ASSUME NEW b \in DOMAIN formed
      PROVE  /\ First(b) \in Openers(trace)
             /\ Size(b) = ReferenceSizes(trace)[First(b)]
  <2>1. First(b) \in Openers(trace)
    BY <1>2
  <2>2. ReferenceSizes(trace)[First(b)] = Cardinality({r \in 1..N : Opener(trace)[r] = First(b)})
    BY <2>1 DEF ReferenceSizes
  <2>3. /\ First(b) \in Nat /\ LastOf(b) \in Nat /\ First(b) <= LastOf(b)
        /\ Size(b) \in Nat /\ LastOf(b) = First(b) + Size(b) - 1
    BY <1>1, BatchNumbers
  <2>4. Cardinality(First(b)..LastOf(b)) = LastOf(b) - First(b) + 1
    BY <2>3, FS_Interval
  <2>5. {r \in 1..N : Opener(trace)[r] = First(b)} = First(b)..LastOf(b)
    BY <1>2
  <2>6. ReferenceSizes(trace)[First(b)] = LastOf(b) - First(b) + 1
    BY <2>2, <2>4, <2>5
  <2>. QED
    BY <2>1, <2>3, <2>6
<1>. QED
  BY <1>4, <1>5

\* Each policy forms its own batches.  For every trace in which no two requests arrive
\* together at the deadline of an earlier one, schedule_trace forms under size_or_time exactly
\* the batches of the documented rule, told without queue or clock; and whoever calls the
\* scheduler, windows stay on the grid of time zero.
THEOREM PoliciesKept == TraceSpec => []PolicyKept
<1>1. TypeOK /\ DriverTypes /\ DriverInv => MatchesReference
  BY SizesAgree
<1>. QED
  BY <1>1, DriverInvariant, DriverLine, OnTheGrid, PTL DEF PolicyKept

-----------------------------------------------------------------------------
(***************************************************************************)
(* The case store.                                                         *)
(***************************************************************************)
HIDE ConfigAssumption
HIDE BoundsAssumption
USE MatrixAssumption DEF Cases

\* No file knows of an execution to come.
Known ==
  \A c \in Cases : /\ events[c] <= execution
                   /\ batches[c] <= execution
                   /\ marker[c].events <= execution

\* While a case is being committed it is not complete, since its marker is older
\* than the execution that is being written.
Committing ==
  pc \in {"events", "batches", "marker"} =>
    /\ case \in Cases
    /\ execution > 0
    /\ ~case_is_complete(case)
    /\ marker[case].events < execution
    /\ pc # "events" => events[case] = execution
    /\ pc = "marker" => batches[case] = execution

StoreInv == StoreTypeOK /\ Known /\ Committing

caseFiles == <<events, batches, marker>>

\* Completeness of a case is a matter of its three files.
LEMMA SameFiles ==
  ASSUME NEW c \in Cases, events'[c] = events[c], batches'[c] = batches[c],
         marker'[c] = marker[c]
  PROVE  case_is_complete(c)' <=> case_is_complete(c)
  BY DEF case_is_complete, Coherent

\* The steps that leave the files of the cases alone and do not begin a commit.
Quiet ==
  \/ \E max \in Limits \cup {NoLimit} : Invoke(max)
  \/ PersistMetadata
  \/ SkipTrace \/ WriteTrace \/ ReadTrace \/ ReadRaises \/ TracesReady
  \/ SkipCase \/ StopAtLimit \/ CasesDone \/ CaseRaises \/ Kill
  \/ WriteTotalEvents \/ WriteTotalBatches \/ WriteStatus

LEMMA QuietLemma ==
  ASSUME StoreTypeOK, Quiet
  PROVE  /\ UNCHANGED <<caseFiles, execution, damages>>
         /\ case' \in Nat \ {0}
         /\ pc' \notin {"events", "batches", "marker"}
<1>. case \in Nat \ {0}
  BY DEF StoreTypeOK
<1>1. CASE \E max \in Limits \cup {NoLimit} : Invoke(max)
  BY <1>1 DEF Invoke, files, caseFiles
<1>2. CASE PersistMetadata \/ TracesReady
  BY <1>2 DEF PersistMetadata, TracesReady, files, caseFiles
<1>3. CASE SkipTrace \/ WriteTrace \/ ReadTrace \/ ReadRaises
  BY <1>3 DEF SkipTrace, WriteTrace, ReadTrace, ReadRaises, TraceDone, files, caseFiles
<1>4. CASE SkipCase
  BY <1>4 DEF SkipCase, files, caseFiles
<1>7. CASE StopAtLimit \/ CasesDone
  BY <1>7 DEF StopAtLimit, CasesDone, files, caseFiles
<1>8. CASE CaseRaises
  BY <1>8 DEF CaseRaises, files, caseFiles
<1>5. CASE Kill
  BY <1>5 DEF Kill, files, caseFiles
<1>6. CASE WriteTotalEvents \/ WriteTotalBatches \/ WriteStatus
  BY <1>6 DEF WriteTotalEvents, WriteTotalBatches, WriteStatus, caseFiles
<1>. QED
  BY <1>1, <1>2, <1>3, <1>4, <1>5, <1>6, <1>7, <1>8 DEF Quiet

\* The next-state relation in these terms.
LEMMA StoreSteps ==
  ASSUME [StoreNext]_storeVars
  PROVE  \/ Quiet
         \/ RunCase \/ WriteEvents \/ WriteBatches \/ WriteMarker
         \/ \E c \in Cases : Damage(c)
         \/ UNCHANGED storeVars
  BY DEF StoreNext, Runner, Quiet

\* A file that was damaged or lost makes its case incomplete.
LEMMA DamageLemma ==
  ASSUME StoreTypeOK, NEW c \in Cases, Damage(c)
  PROVE  /\ pc = "idle" /\ pc' = pc /\ case' = case
         /\ execution' = execution /\ damages' = damages + 1
         /\ \E x \in Content : events' = [events EXCEPT ![c] = x] /\ x \in {events[c], Absent, Garbage}
         /\ \E x \in Content : batches' = [batches EXCEPT ![c] = x] /\ x \in {batches[c], Absent, Garbage}
         /\ \E m \in {marker[c], NoMarker} : marker' = [marker EXCEPT ![c] = m]
         /\ ~case_is_complete(c)'
<1>1. /\ events \in [Cases -> Content] /\ batches \in [Cases -> Content]
      /\ marker \in [Cases -> [events : Content, batches : Content, trace : BOOLEAN]]
  BY DEF StoreTypeOK
<1>2. Absent \in Content /\ Garbage \in Content
  BY DEF Content, Absent, Garbage
<1>3. /\ events = [events EXCEPT ![c] = events[c]] /\ events[c] \in Content
      /\ batches = [batches EXCEPT ![c] = batches[c]] /\ batches[c] \in Content
      /\ marker = [marker EXCEPT ![c] = marker[c]]
  BY <1>1
<1>4. /\ pc = "idle" /\ pc' = pc /\ case' = case
      /\ execution' = execution /\ damages' = damages + 1
  BY DEF Damage, runner
<1>5. CASE /\ \E x \in {Absent, Garbage} : events' = [events EXCEPT ![c] = x]
           /\ UNCHANGED <<batches, marker>>
  <2>1. PICK x \in {Absent, Garbage} : events' = [events EXCEPT ![c] = x]
    BY <1>5
  <2>2. events'[c] = x
    BY <2>1, <1>1
  <2>3. ~case_is_complete(c)'
    BY <2>2 DEF case_is_complete, Coherent
  <2>. QED
    BY <1>5, <1>2, <1>3, <1>4, <2>1, <2>3
<1>6. CASE /\ \E x \in {Absent, Garbage} : batches' = [batches EXCEPT ![c] = x]
           /\ UNCHANGED <<events, marker>>
  <2>1. PICK x \in {Absent, Garbage} : batches' = [batches EXCEPT ![c] = x]
    BY <1>6
  <2>2. batches'[c] = x
    BY <2>1, <1>1
  <2>3. ~case_is_complete(c)'
    BY <2>2 DEF case_is_complete, Coherent
  <2>. QED
    BY <1>6, <1>2, <1>3, <1>4, <2>1, <2>3
<1>7. CASE marker' = [marker EXCEPT ![c] = NoMarker] /\ UNCHANGED <<events, batches>>
  <2>1. marker'[c] = NoMarker
    BY <1>7, <1>1
  <2>2. ~case_is_complete(c)'
    BY <2>1 DEF case_is_complete
  <2>. QED
    BY <1>7, <1>3, <1>4, <2>2
<1>. QED
  BY <1>5, <1>6, <1>7 DEF Damage

-----------------------------------------------------------------------------
(***************************************************************************)
(* The invariant                                                           *)
(***************************************************************************)
LEMMA StoreInvInit == StoreInit => StoreInv
  BY DEF StoreInit, StoreInv, StoreTypeOK, Content, Known, Committing, Absent, NoMarker

Marker == [events : Content, batches : Content, trace : BOOLEAN]

LEMMA StoreInvNext == StoreInv /\ [StoreNext]_storeVars => StoreInv'
<1>. SUFFICES ASSUME StoreInv, [StoreNext]_storeVars
              PROVE  StoreInv'
  OBVIOUS
<1>1. StoreTypeOK /\ Known /\ Committing
  BY DEF StoreInv
<1>2. /\ events \in [Cases -> Content] /\ batches \in [Cases -> Content]
      /\ marker \in [Cases -> Marker]
      /\ case \in Nat \ {0} /\ execution \in Nat /\ damages \in Nat
  BY <1>1 DEF StoreTypeOK, Marker
<1>3. CASE Quiet
  <2>1. /\ UNCHANGED <<caseFiles, execution, damages>>
        /\ case' \in Nat \ {0}
        /\ pc' \notin {"events", "batches", "marker"}
    BY <1>1, <1>3, QuietLemma
  <2>. QED
    BY <1>1, <2>1 DEF caseFiles, StoreInv, StoreTypeOK, Known, Committing
<1>4. CASE RunCase
  <2>1. /\ UNCHANGED <<events, batches, marker, case, damages>>
        /\ execution' = execution + 1 /\ pc' = "events"
        /\ case \in Cases /\ ~case_is_complete(case)
    BY <1>4, <1>2 DEF RunCase, files
  <2>2. StoreTypeOK'
    BY <1>2, <2>1 DEF StoreTypeOK, Marker
  <2>3. \A c \in Cases : /\ events[c] \in Content /\ batches[c] \in Content
                         /\ marker[c].events \in Content
    BY <1>2 DEF Marker
  <2>4. Known'
    <3>1. \A x \in Content : x <= execution => x <= execution + 1
      BY <1>2 DEF Content, Garbage
    <3>2. \A c \in Cases : /\ events[c] <= execution + 1
                           /\ batches[c] <= execution + 1
                           /\ marker[c].events <= execution + 1
      BY <1>1, <2>3, <3>1 DEF Known
    <3>. QED
      BY <2>1, <3>2 DEF Known
  <2>5. ~case_is_complete(case)'
    BY <2>1 DEF case_is_complete, Coherent
  <2>6. marker[case].events < execution'
    BY <1>1, <1>2, <2>1, <2>3 DEF Known, Content, Garbage
  <2>7. Committing'
    BY <1>2, <2>1, <2>5, <2>6 DEF Committing
  <2>. QED
    BY <2>2, <2>4, <2>7 DEF StoreInv
<1>5. CASE WriteEvents
  <2>1. /\ UNCHANGED <<batches, marker, case, execution, damages>>
        /\ events' = [events EXCEPT ![case] = execution] /\ pc' = "batches"
        /\ pc = "events"
    BY <1>5 DEF WriteEvents
  <2>2. case \in Cases /\ execution > 0 /\ marker[case].events < execution
    BY <1>1, <2>1 DEF Committing
  <2>3. execution \in Content
    BY <1>2 DEF Content
  <2>4. StoreTypeOK'
    BY <1>2, <2>1, <2>3 DEF StoreTypeOK, Marker
  <2>5. Known'
    BY <1>1, <1>2, <2>1 DEF Known
  <2>6. marker[case].events # events'[case] /\ events'[case] = execution
    BY <1>2, <2>1, <2>2
  <2>7. ~case_is_complete(case)'
    BY <2>1, <2>6 DEF case_is_complete
  <2>8. Committing'
    BY <2>1, <2>2, <2>6, <2>7 DEF Committing
  <2>. QED
    BY <2>4, <2>5, <2>8 DEF StoreInv
<1>6. CASE WriteBatches
  <2>1. /\ UNCHANGED <<events, marker, case, execution, damages>>
        /\ batches' = [batches EXCEPT ![case] = execution] /\ pc' = "marker"
        /\ pc = "batches"
    BY <1>6 DEF WriteBatches
  <2>2. /\ case \in Cases /\ execution > 0 /\ marker[case].events < execution
        /\ events[case] = execution
    BY <1>1, <2>1 DEF Committing
  <2>3. execution \in Content
    BY <1>2 DEF Content
  <2>4. StoreTypeOK'
    BY <1>2, <2>1, <2>3 DEF StoreTypeOK, Marker
  <2>5. Known'
    BY <1>1, <1>2, <2>1 DEF Known
  <2>6. marker[case].events # events[case] /\ batches'[case] = execution
    BY <1>2, <2>1, <2>2
  <2>7. ~case_is_complete(case)'
    BY <2>1, <2>6 DEF case_is_complete
  <2>8. Committing'
    BY <2>1, <2>2, <2>6, <2>7 DEF Committing
  <2>. QED
    BY <2>4, <2>5, <2>8 DEF StoreInv
<1>7. CASE WriteMarker
  <2>1. /\ UNCHANGED <<events, batches, execution, damages>>
        /\ case' = case + 1 /\ pc' = "cases" /\ pc = "marker"
        /\ marker' = [marker EXCEPT ![case] =
             [events |-> events[case], batches |-> batches[case],
              trace |-> Key \notin empty]]
    BY <1>7 DEF WriteMarker
  <2>2. case \in Cases
    BY <1>1, <2>1 DEF Committing
  <2>3. [events |-> events[case], batches |-> batches[case],
         trace |-> Key \notin empty] \in Marker
    BY <1>2, <2>2 DEF Marker
  <2>4. marker' \in [Cases -> Marker]
    BY <1>2, <2>1, <2>3
  <2>5. StoreTypeOK'
    BY <1>2, <2>1, <2>4 DEF StoreTypeOK, Marker
  <2>6. Known'
    BY <1>1, <1>2, <2>1, <2>2 DEF Known
  <2>7. Committing'
    BY <2>1 DEF Committing
  <2>. QED
    BY <2>5, <2>6, <2>7 DEF StoreInv
<1>8. ASSUME NEW c \in Cases, Damage(c)
      PROVE  StoreInv'
  <2>1. /\ pc' = "idle" /\ case' = case
        /\ execution' = execution /\ damages' = damages + 1
        /\ \E x \in Content : events' = [events EXCEPT ![c] = x] /\ x \in {events[c], Absent, Garbage}
        /\ \E x \in Content : batches' = [batches EXCEPT ![c] = x] /\ x \in {batches[c], Absent, Garbage}
        /\ \E m \in {marker[c], NoMarker} : marker' = [marker EXCEPT ![c] = m]
    BY <1>1, <1>8, DamageLemma
  <2>2. PICK x \in Content : events' = [events EXCEPT ![c] = x] /\ x \in {events[c], Absent, Garbage}
    BY <2>1
  <2>3. PICK y \in Content : batches' = [batches EXCEPT ![c] = y] /\ y \in {batches[c], Absent, Garbage}
    BY <2>1
  <2>4. PICK m \in {marker[c], NoMarker} : marker' = [marker EXCEPT ![c] = m]
    BY <2>1
  <2>5. NoMarker \in Marker /\ NoMarker.events = 0
    BY DEF NoMarker, Marker, Content, Absent
  <2>6. m \in Marker /\ marker' \in [Cases -> Marker]
    BY <1>2, <2>4, <2>5
  <2>7. StoreTypeOK'
    BY <1>2, <2>1, <2>2, <2>3, <2>6 DEF StoreTypeOK, Marker
  <2>8. \A d \in Cases : events[d] <= execution /\ batches[d] <= execution /\ marker[d].events <= execution
    BY <1>1 DEF Known
  <2>9. x <= execution /\ y <= execution /\ m.events <= execution
    BY <1>2, <2>2, <2>3, <2>4, <2>5, <2>8 DEF Absent, Garbage
  <2>10. Known'
    BY <1>2, <2>1, <2>2, <2>3, <2>4, <2>8, <2>9 DEF Known
  <2>11. Committing'
    BY <2>1 DEF Committing
  <2>. QED
    BY <2>7, <2>10, <2>11 DEF StoreInv
<1>9. CASE UNCHANGED storeVars
  <2>1. UNCHANGED <<events, batches, marker, pc, case, execution, damages>>
    BY <1>9 DEF storeVars, files, runner
  <2>. QED
    BY <1>1, <2>1 DEF StoreInv, StoreTypeOK, Known, Committing, case_is_complete, Coherent
<1>. QED
  BY <1>3, <1>4, <1>5, <1>6, <1>7, <1>8, <1>9, StoreSteps

LEMMA StoreInvariant == StoreSpec => []StoreInv
  BY StoreInvInit, StoreInvNext, PTL DEF StoreSpec

\* The files of the cases and the counters always have their types.
THEOREM StoreTypeCorrect == StoreSpec => []StoreTypeOK
<1>1. StoreInv => StoreTypeOK
  BY DEF StoreInv
<1>. QED
  BY <1>1, StoreInvariant, PTL

-----------------------------------------------------------------------------
(***************************************************************************)
(* The refinement                                                          *)
(***************************************************************************)
LEMMA CommittedAt ==
  \A c \in Cases : Committed[c] = IF case_is_complete(c)
                                  THEN [events |-> events[c], batches |-> batches[c]]
                                  ELSE Log!NotCommitted
  BY DEF Committed, Log!NotCommitted

\* While the files of the other cases stay as they are, so does what is committed
\* of them.
LEMMA OthersStay ==
  ASSUME NEW c \in Cases,
         \A d \in Cases \ {c} : /\ events'[d] = events[d] /\ batches'[d] = batches[d]
                                /\ marker'[d] = marker[d]
  PROVE  Committed' = [Committed EXCEPT ![c] = Committed'[c]]
<1>1. \A d \in Cases \ {c} : case_is_complete(d)' <=> case_is_complete(d)
  BY SameFiles
<1>2. \A d \in Cases \ {c} : Committed'[d] = Committed[d]
  BY <1>1 DEF Committed
<1>3. /\ Committed = [d \in Cases |-> Committed[d]]
      /\ Committed' = [d \in Cases |-> Committed'[d]]
  BY DEF Committed
<1>. QED
  BY <1>2, <1>3

LEMMA SameCommitted ==
  ASSUME UNCHANGED caseFiles
  PROVE  Committed' = Committed
<1>1. \A d \in Cases : case_is_complete(d)' <=> case_is_complete(d)
  BY SameFiles DEF caseFiles
<1>. QED
  BY <1>1 DEF Committed, caseFiles

\* A case that is incomplete before and after the step is not committed.
LEMMA StillIncomplete ==
  ASSUME NEW c \in Cases, ~case_is_complete(c), ~case_is_complete(c)',
         \A d \in Cases \ {c} : /\ events'[d] = events[d] /\ batches'[d] = batches[d]
                                /\ marker'[d] = marker[d]
  PROVE  Committed' = Committed
<1>1. Committed'[c] = Committed[c]
  BY DEF Committed
<1>2. Committed = [Committed EXCEPT ![c] = Committed[c]]
  BY DEF Committed
<1>. QED
  BY <1>1, <1>2, OthersStay

LEMMA LogInitLemma == StoreInit => Log!LogInit
<1>. SUFFICES ASSUME StoreInit PROVE Log!LogInit
  OBVIOUS
<1>1. \A c \in Cases : ~case_is_complete(c)
  BY DEF StoreInit, case_is_complete
<1>. QED
  BY <1>1 DEF StoreInit, Log!LogInit, Committed, Log!NotCommitted

LEMMA LogStep ==
  StoreInv /\ StoreInv' /\ [StoreNext]_storeVars => [Log!LogNext]_<<Committed, damages>>
<1>. SUFFICES ASSUME StoreInv, StoreInv', [StoreNext]_storeVars
              PROVE  [Log!LogNext]_<<Committed, damages>>
  OBVIOUS
<1>1. StoreTypeOK /\ Known /\ Committing /\ Committing'
  BY DEF StoreInv
<1>2. /\ events \in [Cases -> Content] /\ batches \in [Cases -> Content]
      /\ marker \in [Cases -> Marker] /\ execution \in Nat
  BY <1>1 DEF StoreTypeOK, Marker
<1>3. CASE Quiet
  BY <1>1, <1>3, QuietLemma, SameCommitted
<1>4. CASE RunCase
  <2>1. UNCHANGED <<caseFiles, damages>>
    BY <1>4 DEF RunCase, files, caseFiles
  <2>. QED
    BY <2>1, SameCommitted
<1>5. CASE WriteEvents
  <2>1. /\ UNCHANGED <<batches, marker, case, damages>>
        /\ events' = [events EXCEPT ![case] = execution]
        /\ pc = "events" /\ pc' = "batches"
    BY <1>5 DEF WriteEvents
  <2>2. case \in Cases /\ ~case_is_complete(case)
    BY <1>1, <2>1 DEF Committing
  <2>4. ~case_is_complete(case)'
    BY <1>1, <2>1 DEF Committing, case_is_complete, Coherent
  <2>5. \A d \in Cases \ {case} : events'[d] = events[d]
    BY <1>2, <2>1
  <2>. QED
    BY <2>1, <2>2, <2>4, <2>5, StillIncomplete
<1>6. CASE WriteBatches
  <2>1. /\ UNCHANGED <<events, marker, case, damages>>
        /\ batches' = [batches EXCEPT ![case] = execution]
        /\ pc = "batches" /\ pc' = "marker"
    BY <1>6 DEF WriteBatches
  <2>2. case \in Cases /\ ~case_is_complete(case)
    BY <1>1, <2>1 DEF Committing
  <2>4. ~case_is_complete(case)'
    BY <1>1, <2>1 DEF Committing, case_is_complete, Coherent
  <2>5. \A d \in Cases \ {case} : batches'[d] = batches[d]
    BY <1>2, <2>1
  <2>. QED
    BY <2>1, <2>2, <2>4, <2>5, StillIncomplete
<1>7. CASE WriteMarker
  <2>1. /\ UNCHANGED <<events, batches, damages>> /\ pc = "marker"
        /\ marker' = [marker EXCEPT ![case] =
             [events |-> events[case], batches |-> batches[case],
              trace |-> Key \notin empty]]
    BY <1>7 DEF WriteMarker
  <2>2. /\ case \in Cases /\ ~case_is_complete(case)
        /\ execution > 0 /\ events[case] = execution /\ batches[case] = execution
    BY <1>1, <2>1 DEF Committing
  <2>3. PICK c \in Cases : c = case
    BY <2>2
  <2>4. \A d \in Cases \ {c} : marker'[d] = marker[d]
    BY <1>2, <2>1, <2>3
  <2>5. /\ ~case_is_complete(c)
        /\ events'[c] = execution /\ batches'[c] = execution
    BY <2>1, <2>2, <2>3
  <2>6. CASE case_is_complete(c)'
    <3>1. Committed[c] = Log!NotCommitted
      BY <2>5, CommittedAt
    <3>2. Committed'[c] = [events |-> execution, batches |-> execution]
      BY <2>5, <2>6 DEF Committed
    <3>3. Committed' = [Committed EXCEPT ![c] = Committed'[c]]
      BY <2>1, <2>4, OthersStay
    <3>4. Committed'[c].events = execution /\ execution \in Nat \ {Absent}
      BY <1>2, <2>2, <3>2 DEF Absent
    <3>5. Log!OneExecution(Committed'[c].events) = Committed'[c]
      BY <3>2, <3>4 DEF Log!OneExecution
    <3>6. Log!Commit(c)
      BY <2>1, <3>1, <3>3, <3>4, <3>5 DEF Log!Commit
    <3>. QED
      BY <3>6 DEF Log!LogNext
  <2>7. CASE ~case_is_complete(c)'
    BY <2>1, <2>4, <2>5, <2>7, StillIncomplete
  <2>. QED
    BY <2>6, <2>7
<1>8. ASSUME NEW c \in Cases, Damage(c)
      PROVE  Log!LogNext
  <2>1. /\ damages' = damages + 1 /\ ~case_is_complete(c)'
        /\ \E x \in Content : events' = [events EXCEPT ![c] = x]
        /\ \E x \in Content : batches' = [batches EXCEPT ![c] = x]
        /\ \E m \in {marker[c], NoMarker} : marker' = [marker EXCEPT ![c] = m]
    BY <1>1, <1>8, DamageLemma
  <2>2. \A d \in Cases \ {c} : /\ events'[d] = events[d] /\ batches'[d] = batches[d]
                               /\ marker'[d] = marker[d]
    BY <1>2, <2>1
  <2>3. Committed' = [Committed EXCEPT ![c] = Committed'[c]]
    BY <2>2, OthersStay
  <2>4. Committed'[c] = Log!NotCommitted
    BY <2>1 DEF Committed, Log!NotCommitted
  <2>5. Log!Damaged(c)
    BY <2>1, <2>3, <2>4 DEF Log!Damaged
  <2>. QED
    BY <2>5 DEF Log!LogNext
<1>9. CASE UNCHANGED storeVars
  <2>1. UNCHANGED <<caseFiles, damages>>
    BY <1>9 DEF storeVars, files, caseFiles
  <2>. QED
    BY <2>1, SameCommitted
<1>. QED
  BY <1>3, <1>4, <1>5, <1>6, <1>7, <1>8, <1>9, StoreSteps

\* What _case_is_complete accepts implements the log: a case is committed with the
\* rows of one execution and keeps them, through any kills and restarts, until its
\* files are damaged.
THEOREM StoreImplementsLog == StoreSpec => CommitsOnce
<1>1. StoreInit => Log!LogInit
  BY LogInitLemma
<1>2. StoreInv /\ StoreInv' /\ [StoreNext]_storeVars => [Log!LogNext]_<<Committed, damages>>
  BY LogStep
<1>. QED
  BY <1>1, <1>2, StoreInvariant, PTL DEF StoreSpec, CommitsOnce, Log!LogSpec

-----------------------------------------------------------------------------
(***************************************************************************)
(* The totals                                                              *)
(***************************************************************************)
\* The rows a rebuild collects from one kind of file: those of the complete cases.
Collected(file) == [c \in CompleteCases |-> file[c]]

\* What a rebuild under way has written is what it would still write: no file of a
\* case changes before the invocation is over.
Rebuilding ==
  /\ totals = [events |-> totals.events, batches |-> totals.batches]
  /\ pc \in {"total batches", "status"} => totals.events = Collected(events)
  /\ pc = "status" => totals.batches = Collected(batches)

TotalsInv == Rebuilding /\ TotalsHonest

\* When all cases are complete, a rebuild collects all the rows.
LEMMA AllCollected ==
  ASSUME StoreTypeOK, CompleteCases = Cases
  PROVE  Collected(events) = events /\ Collected(batches) = batches
<1>1. events \in [Cases -> Content] /\ batches \in [Cases -> Content]
  BY DEF StoreTypeOK
<1>. QED
  BY <1>1 DEF Collected

\* The same cases stay complete, with the same rows, while their files do.
LEMMA SameCollected ==
  ASSUME UNCHANGED caseFiles
  PROVE  /\ CompleteCases' = CompleteCases
         /\ Collected(events)' = Collected(events)
         /\ Collected(batches)' = Collected(batches)
<1>1. \A c \in Cases : case_is_complete(c)' <=> case_is_complete(c)
  BY SameFiles DEF caseFiles
<1>2. CompleteCases' = CompleteCases
  BY <1>1 DEF CompleteCases
<1>. QED
  BY <1>2 DEF Collected, caseFiles

\* No case is being committed while all of them are complete.
LEMMA NoCommitWhenComplete ==
  ASSUME Committing, CompleteCases = Cases
  PROVE  pc \notin {"events", "batches", "marker"}
  BY DEF Committing, CompleteCases

\* The steps that write neither a case's files nor the totals nor the status.
LEMMA TotalsStay ==
  ASSUME TotalsInv, UNCHANGED <<caseFiles, totals, status, damages>>,
         pc' = pc \/ pc' \notin {"total batches", "status"}
  PROVE  TotalsInv'
<1>1. /\ CompleteCases' = CompleteCases
      /\ Collected(events)' = Collected(events)
      /\ Collected(batches)' = Collected(batches)
  BY SameCollected
<1>2. Rebuilding'
  BY <1>1 DEF TotalsInv, Rebuilding
<1>3. TotalsHonest'
  BY <1>1 DEF TotalsInv, TotalsHonest, caseFiles
<1>. QED
  BY <1>2, <1>3 DEF TotalsInv

\* The steps of a commit: no status can have told of the complete matrix.
LEMMA TotalsOfCommit ==
  ASSUME TotalsInv, Committing, pc \in {"events", "batches", "marker"},
         pc' \notin {"total batches", "status"},
         UNCHANGED <<totals, status, damages>>
  PROVE  TotalsInv'
<1>1. CompleteCases # Cases
  BY NoCommitWhenComplete
<1>2. ~(status = "benchmark_complete" /\ damages = 0)
  BY <1>1 DEF TotalsInv, TotalsHonest
<1>. QED
  BY <1>2 DEF TotalsInv, TotalsHonest, Rebuilding

LEMMA TotalsInvInit == StoreInit => TotalsInv
  BY DEF StoreInit, TotalsInv, Rebuilding, TotalsHonest

LEMMA TotalsQuiet ==
  ASSUME StoreInv, TotalsInv, Quiet
  PROVE  TotalsInv'
<1>. StoreTypeOK /\ UNCHANGED <<caseFiles, damages>>
  BY QuietLemma DEF StoreInv
<1>0. /\ CompleteCases' = CompleteCases
      /\ Collected(events)' = Collected(events)
      /\ Collected(batches)' = Collected(batches)
      /\ UNCHANGED <<events, batches>>
  BY SameCollected DEF caseFiles
<1>1. CASE \E max \in Limits \cup {NoLimit} : Invoke(max)
  BY <1>1, TotalsStay DEF Invoke, files
<1>2. CASE PersistMetadata \/ TracesReady
  BY <1>2, TotalsStay DEF PersistMetadata, TracesReady, files
<1>3. CASE SkipTrace \/ WriteTrace \/ ReadTrace \/ ReadRaises
  BY <1>3, TotalsStay DEF SkipTrace, WriteTrace, ReadTrace, ReadRaises, TraceDone, files
<1>4. CASE SkipCase
  BY <1>4, TotalsStay DEF SkipCase, files
<1>5. CASE StopAtLimit \/ CasesDone
  BY <1>5, TotalsStay DEF StopAtLimit, CasesDone, files
<1>6. CASE CaseRaises
  BY <1>6, TotalsStay DEF CaseRaises, files
<1>7. CASE Kill
  BY <1>7, TotalsStay DEF Kill, files
<1>8. CASE WriteTotalEvents
  <2>1. /\ totals' = [totals EXCEPT !.events = Collected(events)]
        /\ pc' = "total batches" /\ status' = status /\ damages' = damages
    BY <1>8 DEF WriteTotalEvents, Collected
  <2>2. totals = [events |-> totals.events, batches |-> totals.batches]
    BY DEF TotalsInv, Rebuilding
  <2>3. totals' = [events |-> Collected(events), batches |-> totals.batches]
    BY <2>1, <2>2
  <2>4. Rebuilding'
    BY <1>0, <2>1, <2>3 DEF Rebuilding
  <2>5. TotalsHonest'
    <3>. SUFFICES ASSUME status = "benchmark_complete", damages = 0
                  PROVE  TotalsHonest'
      BY <2>1 DEF TotalsHonest
    <3>1. CompleteCases = Cases /\ totals = [events |-> events, batches |-> batches]
      BY DEF TotalsInv, TotalsHonest
    <3>2. totals' = [events |-> events, batches |-> batches]
      BY <2>3, <3>1, AllCollected
    <3>. QED
      BY <1>0, <3>1, <3>2 DEF TotalsHonest
  <2>. QED
    BY <2>4, <2>5 DEF TotalsInv
<1>9. CASE WriteTotalBatches
  <2>1. /\ totals' = [totals EXCEPT !.batches = Collected(batches)]
        /\ pc = "total batches" /\ pc' = "status" /\ status' = status /\ damages' = damages
    BY <1>9 DEF WriteTotalBatches, Collected
  <2>2. /\ totals = [events |-> totals.events, batches |-> totals.batches]
        /\ totals.events = Collected(events)
    BY <2>1 DEF TotalsInv, Rebuilding
  <2>3. totals' = [events |-> Collected(events), batches |-> Collected(batches)]
    BY <2>1, <2>2
  <2>4. Rebuilding'
    <3>1. totals'.events = Collected(events)' /\ totals'.batches = Collected(batches)'
      BY <1>0, <2>3
    <3>2. totals' = [events |-> totals'.events, batches |-> totals'.batches]
      BY <2>3
    <3>. QED
      BY <3>1, <3>2 DEF Rebuilding
  <2>5. TotalsHonest'
    <3>. SUFFICES ASSUME status = "benchmark_complete", damages = 0
                  PROVE  TotalsHonest'
      BY <2>1 DEF TotalsHonest
    <3>1. CompleteCases = Cases
      BY DEF TotalsInv, TotalsHonest
    <3>2. totals' = [events |-> events, batches |-> batches]
      BY <2>3, <3>1, AllCollected
    <3>. QED
      BY <1>0, <3>1, <3>2 DEF TotalsHonest
  <2>. QED
    BY <2>4, <2>5 DEF TotalsInv
<1>10. CASE WriteStatus
  <2>1. /\ status' = IF CompleteCases = Cases THEN "benchmark_complete" ELSE "partial"
        /\ pc = "status" /\ pc' = "idle" /\ totals' = totals
    BY <1>10 DEF WriteStatus, Verdict
  <2>2. totals = [events |-> Collected(events), batches |-> Collected(batches)]
    BY <2>1 DEF TotalsInv, Rebuilding
  <2>3. Rebuilding'
    BY <2>1, <2>2 DEF Rebuilding
  <2>4. TotalsHonest'
    <3>. SUFFICES ASSUME status' = "benchmark_complete"
                  PROVE  TotalsHonest'
      BY DEF TotalsHonest
    <3>1. CompleteCases = Cases
      BY <2>1
    <3>2. totals = [events |-> events, batches |-> batches]
      BY <2>2, <3>1, AllCollected
    <3>. QED
      BY <1>0, <2>1, <3>1, <3>2 DEF TotalsHonest
  <2>. QED
    BY <2>3, <2>4 DEF TotalsInv
<1>. QED
  BY <1>1, <1>2, <1>3, <1>4, <1>5, <1>6, <1>7, <1>8, <1>9, <1>10 DEF Quiet

LEMMA TotalsInvNext == StoreInv /\ TotalsInv /\ [StoreNext]_storeVars => TotalsInv'
<1>. SUFFICES ASSUME StoreInv, TotalsInv, [StoreNext]_storeVars
              PROVE  TotalsInv'
  OBVIOUS
<1>1. StoreTypeOK /\ Committing
  BY DEF StoreInv
<1>2. CASE Quiet
  BY <1>2, TotalsQuiet
<1>3. CASE RunCase
  BY <1>3, TotalsStay DEF RunCase, files, caseFiles
<1>4. CASE WriteEvents
  BY <1>1, <1>4, TotalsOfCommit DEF WriteEvents
<1>5. CASE WriteBatches
  BY <1>1, <1>5, TotalsOfCommit DEF WriteBatches
<1>6. CASE WriteMarker
  BY <1>1, <1>6, TotalsOfCommit DEF WriteMarker
<1>7. ASSUME NEW c \in Cases, Damage(c)
      PROVE  TotalsInv'
  <2>1. pc' = "idle" /\ damages' = damages + 1 /\ damages \in Nat /\ totals' = totals
    BY <1>1, <1>7, DamageLemma DEF Damage, StoreTypeOK
  <2>2. damages' # 0
    BY <2>1
  <2>. QED
    BY <2>1, <2>2 DEF TotalsInv, Rebuilding, TotalsHonest
<1>8. CASE UNCHANGED storeVars
  BY <1>8, TotalsStay DEF storeVars, files, runner, caseFiles
<1>. QED
  BY <1>2, <1>3, <1>4, <1>5, <1>6, <1>7, <1>8, StoreSteps

\* While nobody damaged a file, "benchmark_complete" is true of the files and of the
\* totals, also while a later invocation rebuilds them or after it was killed.
THEOREM StatusIsHonest == StoreSpec => []TotalsHonest
<1>1. TotalsInv => TotalsHonest
  BY DEF TotalsInv
<1>. QED
  BY <1>1, TotalsInvInit, TotalsInvNext, StoreInvariant, PTL DEF StoreSpec
=============================================================================
