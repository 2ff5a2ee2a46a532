------------------------- MODULE OnlineServingProofs ------------------------
(***************************************************************************)
(* Theorems about run_online_case: for every trace, policy, admission      *)
(* timeout and interleaving of its threads the artifacts of a case tell    *)
(* what happened (CaseHonest), who was due when the coordinator looked     *)
(* enters before the flush (ArrivalsPrecedeFlush), requests that were      *)
(* scheduled together are served together, and the case implements the     *)
(* batching service (Serves).                                              *)
(*                                                                         *)
(* All of it rests on one inductive invariant, OnlineInv.  It follows a    *)
(* request along the line from the producer to the coordinator (LineInv),  *)
(* says where each request of the coordinator is and that its record says  *)
(* the same (CaseInv), and what the coordinator's place in its loops       *)
(* implies (PhaseOK).                                                      *)
(***************************************************************************)
EXTENDS OnlineServing, FiniteSetTheorems, SequenceTheorems, TLAPS

(***************************************************************************)
(* The inductive invariant                                                 *)
(***************************************************************************)
Last == Len(trace)

\* Where the coordinator may be, and where it is once the producer has returned.
Phases == {"top", "drain", "settle", "dispatch", "handoff", "expire", "wait", "join", "close",
           "closeDispatch", "handoffClosing", "done", "raised"}

Closing == {"close", "closeDispatch", "handoffClosing", "done"}

\* What the queues, the producer and the batches are made of.
Arrived == [id : Requests, observed : Nat]

Messages == [kind : {"group", "done", "wakeup"}, group : Seq(Arrived)]

Entries == [id : Requests, admitted : Nat]

Formeds == [ordinal : Nat, dispatch : Nat, trigger : Triggers, requests : Seq(Entries)]

Times == Nat \cup {NoTime}

Batches == [id : Nat, requests : Seq(Entries), dispatch : Nat, start : Times, first : Times,
            finish : Times, failed : BOOLEAN]

Producers == [at : {"observing", "returned", "failed"}, next : 1..(Last + 1), group : Seq(Arrived)]

\* The producer's half of the line of requests,
LineTypeOK ==
  /\ now \in Nat
  /\ arrivals \in Seq(Messages)
  /\ producer \in Producers
  /\ processed \in 0..Last
  /\ finished \in BOOLEAN

\* ... and the coordinator's and the worker's.
CaseTypeOK ==
  /\ work \in Seq(Batches) /\ completions \in Seq(Batches) /\ completed \in Seq(Batches)
  /\ worker \in [at : {"idle", "running", "notifying"}, batch : Batches \cup {NoBatch}]
  /\ sched \in SchedulerType(Requests)
  /\ pending \in Seq(Arrived)
  /\ inFlight \in BOOLEAN
  /\ formed \subseteq Formeds
  /\ life \in [Requests -> StateType]

\* The requests up to here are published; the groups in the queue carry some of them.
Published == producer.next - 1 - Len(producer.group)
Carried   == UNION {IdsOf(arrivals[i].group) : i \in DOMAIN arrivals}

\* No request after x was scheduled together with one up to x.
Apart(x) == \A r, s \in Requests : r <= x /\ x < s => trace[r] < trace[s]

\* An arrival is observed when it is due, and not ahead of time.
Timely(arrival) == trace[arrival.id] <= arrival.observed /\ arrival.observed <= now

\* Each group is without gaps, and the last of those that were scheduled together ends it.
GroupOK(group) ==
  /\ \A k \in DOMAIN group : group[k].id = group[1].id + k - 1 /\ Timely(group[k])
  /\ group # <<>> => Apart(group[Len(group)].id)

\* The requests of one group precede those of the other.
Before(group, other) == \A r \in IdsOf(group), s \in IdsOf(other) : r < s

GroupsOK ==
  \A i \in DOMAIN arrivals :
    /\ (arrivals[i].kind = "group") <=> (arrivals[i].group # <<>>)
    /\ GroupOK(arrivals[i].group)
    /\ \A j \in DOMAIN arrivals : i < j => Before(arrivals[i].group, arrivals[j].group)

\* The groups in the queue follow what the coordinator has processed, without gaps, up to
\* what is published.
LineOK ==
  /\ processed <= Published /\ Apart(processed)
  /\ Carried \subseteq (processed + 1)..Published
  /\ \A r \in Carried, s \in Requests : processed < s /\ s < r => s \in Carried
  /\ producer.at # "failed" => Carried = (processed + 1)..Published

\* The group that the producer builds goes on where the published ones end.
ProducerOK ==
  /\ \A k \in DOMAIN producer.group :
       producer.group[k].id = Published + k /\ Timely(producer.group[k])
  /\ producer.at # "observing" => producer.group = <<>>
  /\ producer.at = "returned" => producer.next = Last + 1

\* No group comes after the end of the producer.
DoneOK ==
  /\ finished => producer.at # "observing" /\ Carried = {}
  /\ \A i \in DOMAIN arrivals : arrivals[i].kind = "done" =>
       /\ producer.at # "observing"
       /\ \A j \in DOMAIN arrivals : i < j => arrivals[j].group = <<>>

LineInv == LineTypeOK /\ GroupsOK /\ LineOK /\ ProducerOK /\ DoneOK

\* The requests up to here are admitted or rejected; those after them, up to processed,
\* wait.
Decided == processed - Len(pending)

WaitersOK ==
  /\ Len(pending) <= processed
  /\ \A k \in DOMAIN pending : /\ pending[k].id = Decided + k
                               /\ pending[k].observed = life[pending[k].id].observed

\* What is recorded of a request that was scheduled at t.
StateOK(state, t) ==
  /\ t <= state.observed
  /\ state.admitted # NoTime => state.admitted \in state.observed..(state.observed + Timeout)
  /\ state.dispatch # NoTime => state.admitted # NoTime /\ state.admitted <= state.dispatch
  /\ (state.batch = NoBatchId <=> state.dispatch = NoTime)
  /\ state.start # NoTime => state.dispatch # NoTime /\ state.dispatch <= state.start
  /\ state.status = "pending" => ~state.reason /\ state.terminal = NoTime /\ state.start = NoTime
  /\ state.status = "completed" => /\ state.start # NoTime /\ ~state.reason
                                   /\ state.start <= state.first
                                   /\ state.first <= state.finished
                                   /\ state.finished = state.terminal
  /\ state.status = "failed" => state.start # NoTime /\ state.reason /\ state.start <= state.terminal
  /\ state.status = "rejected" => /\ state.admitted = NoTime /\ state.reason
                                  /\ state.terminal >= state.observed + Timeout
  /\ state.status # "completed" => state.first = NoTime /\ state.finished = NoTime

\* Nothing is recorded ahead of time.
Past(state, t) == state.observed <= t /\ state.admitted <= t /\ state.dispatch <= t

IsWaiting(state)  == state.admitted = NoTime /\ state.status = "pending"
IsAdmitted(state) == state.admitted # NoTime /\ state.dispatch = NoTime
IsHanded(state)   == state.dispatch # NoTime /\ state.status = "pending"
IsServed(state)   == state.status \in {"completed", "failed"}

RecordsOK ==
  \A r \in Requests : /\ StateOK(life[r], trace[r])
                      /\ r <= processed => Past(life[r], now)

Forming   == UNION {IdsOf(f.requests) : f \in formed}
Executing == IdsOf(worker.batch.requests) \cup BatchesIn(completions)
Handed    == BatchesIn(work) \cup Executing
Served    == UNION {Members(k) : k \in DOMAIN completed}

\* Where a request is, its record says.
PlacesOK ==
  /\ \A r \in Requests : Decided < r <=> IsWaiting(life[r])
  /\ IdsOf(sched.queue) \cup Forming = {r \in Requests : IsAdmitted(life[r])}
  /\ Handed = {r \in Requests : IsHanded(life[r])}
  /\ Served = {r \in Requests : IsServed(life[r])}

Ascending(queue) == \A j, k \in DOMAIN queue : j < k => queue[j].id < queue[k].id

QueueOK ==
  /\ Ascending(sched.queue)
  /\ \A r \in Forming, s \in IdsOf(sched.queue) : r < s

\* The one batch that is out is formed, handed over, running or executed.
TokenOK ==
  /\ \A f, g \in formed : f = g
  /\ formed # {} => ~inFlight
  /\ worker.at # "running" <=> worker.batch = NoBatch
  /\ \/ ~inFlight /\ work = <<>> /\ worker.at # "running" /\ completions = <<>>
     \/ inFlight /\ Len(work) = 1 /\ worker.at # "running" /\ completions = <<>>
     \/ inFlight /\ work = <<>> /\ worker.at = "running" /\ completions = <<>>
     \/ inFlight /\ work = <<>> /\ worker.at # "running" /\ Len(completions) = 1

\* The batch that is out, and what is recorded of its requests.
FormedOK(f) ==
  f.ordinal = Len(completed) /\ f.dispatch <= now /\ Len(f.requests) \in 1..MaxBatch

Recording(b) ==
  /\ Len(b.requests) \in 1..MaxBatch
  /\ \A r \in IdsOf(b.requests) : life[r].batch = b.id /\ life[r].dispatch = b.dispatch

OutOK(b) ==
  /\ Recording(b) /\ b.id = Len(completed) /\ b.dispatch <= now
  /\ \A k \in DOMAIN completed : completed[k].finish <= b.dispatch

StartedOK(b) == b.start \in Nat /\ b.dispatch <= b.start /\ b.start <= now

ExecutedOK(b) ==
  /\ StartedOK(b) /\ b.first \in Nat /\ b.finish \in Nat
  /\ b.start <= b.first /\ b.first <= b.finish /\ b.finish <= now

CompletedOK(b) ==
  /\ ExecutedOK(b) /\ Recording(b)
  /\ \A r \in IdsOf(b.requests) :
       /\ life[r].start = b.start /\ life[r].terminal = b.finish
       /\ life[r].status = IF b.failed THEN "failed" ELSE "completed"
       /\ ~b.failed => life[r].first = b.first /\ life[r].finished = b.finish

BatchesOK ==
  /\ \A f \in formed : FormedOK(f)
  /\ \A k \in DOMAIN work : OutOK(work[k])
  /\ worker.at = "running" => OutOK(worker.batch) /\ StartedOK(worker.batch)
  /\ \A k \in DOMAIN completions : OutOK(completions[k]) /\ ExecutedOK(completions[k])
  /\ \A k \in DOMAIN completed :
       /\ completed[k].id = k - 1 /\ CompletedOK(completed[k])
       /\ \A l \in 1..(k - 1) : completed[l].finish <= completed[k].dispatch
  /\ sched.ordinal = Len(completed) + (IF inFlight \/ formed # {} THEN 1 ELSE 0)

\* A batch that left with room in it, and in the queue, took all that were scheduled
\* together with one of its own and not served before or rejected.
Short(requests) == Len(requests) < MaxBatch /\ Len(requests) < Capacity

Whole(requests) ==
  Short(requests) =>
    \A r \in IdsOf(requests), s \in Requests : trace[s] = trace[r] =>
      life[s].status = "rejected" \/ s \in IdsOf(requests) \/ s \in Served

\* The same of the batches that came back.
EqualArrivalsTogether ==
  \A k \in DOMAIN completed :
    Short(completed[k].requests) =>
    \A r \in Members(k), s \in Requests :
      trace[s] = trace[r] => \/ life[s].status = "rejected"
                             \/ \E l \in 1..k : s \in Members(l)

TogetherOK ==
  /\ \A f \in formed : Whole(f.requests)
  /\ \A k \in DOMAIN work : Whole(work[k].requests)
  /\ Whole(worker.batch.requests)
  /\ \A k \in DOMAIN completions : Whole(completions[k].requests)
  /\ EqualArrivalsTogether

CaseInv ==
  /\ CaseTypeOK /\ WaitersOK /\ RecordsOK /\ PlacesOK /\ QueueOK
  /\ TokenOK /\ BatchesOK /\ TogetherOK

\* How far the coordinator has come.
PhaseOK ==
  /\ pc \in Phases
  /\ formed # {} <=> pc \in {"handoff", "handoffClosing"}
  /\ pc \in Closing \cup {"join", "raised"} => finished /\ pending = <<>>
  /\ pc \in Closing => producer.at = "returned"
  /\ sched.closed => pc \in Closing /\ sched.queue = <<>>
  /\ pc = "done" => ~inFlight /\ sched.closed
  /\ pc = "dispatch" => pending = <<>> \/ ~MayAdmit(sched)
  /\ pc = "dispatch" => \A r \in Requests : trace[r] <= checked => r <= processed
  /\ ArrivalsPrecedeFlush

OnlineInv == LineInv /\ CaseInv /\ PhaseOK

-----------------------------------------------------------------------------
(***************************************************************************)
(* Queues and records                                                      *)
(***************************************************************************)
\* The numbers a case is configured with.
LEMMA Numbers ==
  /\ MaxBatch \in Nat \ {0} /\ Capacity \in Nat \ {0} /\ Window \in Nat /\ MaxWait \in Nat
  /\ Timeout \in Nat /\ Last \in Nat /\ Requests = 1..Last
  /\ \A r \in Requests : trace[r] \in Nat
<1>1. trace \in Seq(Nat)
  BY OnlineAssumption
<1>2. Len(trace) \in Nat /\ DOMAIN trace = 1..Len(trace) /\ \A r \in 1..Len(trace) : trace[r] \in Nat
  BY <1>1
<1>. QED
  BY <1>2, ConfigAssumption, OnlineAssumption DEF Last, Requests

\* What follows in time is not scheduled before.
LEMMA TraceOrder ==
  ASSUME NEW r \in Requests, NEW s \in Requests, r <= s
  PROVE  trace[r] <= trace[s]
  BY OnlineAssumption DEF Requests

\* A queue that grows by one.
LEMMA IdsAppend ==
  ASSUME NEW S, NEW queue \in Seq(S), NEW x \in S
  PROVE  IdsOf(Append(queue, x)) = IdsOf(queue) \cup {x.id}
<1>1. /\ Len(queue) \in Nat /\ DOMAIN queue = 1..Len(queue)
      /\ DOMAIN Append(queue, x) = 1..(Len(queue) + 1)
      /\ \A k \in 1..Len(queue) : Append(queue, x)[k] = queue[k]
      /\ Append(queue, x)[Len(queue) + 1] = x
  OBVIOUS
<1>. QED
  BY <1>1 DEF IdsOf

\* The ids of a queue are those of its entries.
LEMMA IdsTyped ==
  ASSUME NEW S, NEW queue \in Seq(S)
  PROVE  /\ \A r \in IdsOf(queue) : \E x \in S : r = x.id
         /\ queue = <<>> => IdsOf(queue) = {}
<1>1. \A k \in DOMAIN queue : queue[k] \in S
  OBVIOUS
<1>. QED
  BY <1>1 DEF IdsOf

-----------------------------------------------------------------------------
(***************************************************************************)
(* The line of requests, from the producer to the coordinator              *)
(***************************************************************************)
\* The fields of a message, and of the producer.
LEMMA LineFields ==
  ASSUME LineTypeOK
  PROVE  /\ now \in Nat /\ processed \in Nat /\ producer.next \in Nat /\ producer.next \in 1..(Last + 1)
         /\ producer.group \in Seq(Arrived) /\ Len(producer.group) \in Nat
         /\ DOMAIN producer.group = 1..Len(producer.group)
         /\ Published \in Int
         /\ DOMAIN arrivals = 1..Len(arrivals) /\ Len(arrivals) \in Nat
         /\ \A i \in DOMAIN arrivals : /\ arrivals[i] \in Messages
                                       /\ arrivals[i].group \in Seq(Arrived)
         /\ Carried \subseteq Requests
<1>1. /\ now \in Nat /\ processed \in Nat /\ producer.next \in Nat /\ producer.next \in 1..(Last + 1)
      /\ producer.group \in Seq(Arrived)
  BY Numbers DEF LineTypeOK, Producers
<1>2. Len(producer.group) \in Nat /\ DOMAIN producer.group = 1..Len(producer.group)
  BY <1>1
<1>3. Published \in Int
  BY <1>1, <1>2 DEF Published
<1>4. /\ DOMAIN arrivals = 1..Len(arrivals) /\ Len(arrivals) \in Nat
      /\ \A i \in DOMAIN arrivals : arrivals[i] \in Messages
  BY DEF LineTypeOK
<1>5. \A m \in Messages : m.group \in Seq(Arrived)
  BY DEF Messages
<1>6. \A e \in Arrived : e.id \in Requests
  BY DEF Arrived
<1>7. \A i \in DOMAIN arrivals : IdsOf(arrivals[i].group) \subseteq Requests
  <2>1. ASSUME NEW i \in DOMAIN arrivals PROVE IdsOf(arrivals[i].group) \subseteq Requests
    <3>1. arrivals[i].group \in Seq(Arrived)
      BY <1>4, <1>5
    <3>. QED
      BY <1>6, <3>1, IdsTyped
  <2>. QED
    BY <2>1
<1>. QED
  BY <1>1, <1>2, <1>3, <1>4, <1>5, <1>7 DEF Carried

\* Nothing of it changes.
LEMMA LineStays ==
  ASSUME LineInv, UNCHANGED <<now, arrivals, producer, processed, finished>>
  PROVE  LineInv'
<1>. USE DEF LineInv
<1>1. LineTypeOK'
  BY DEF LineTypeOK
<1>2. Carried' = Carried /\ Published' = Published /\ (\A x : Apart(x)' <=> Apart(x))
  BY DEF Carried, Published, Apart
<1>3. (\A e : Timely(e)' <=> Timely(e)) /\ (\A g : GroupOK(g)' <=> GroupOK(g))
  BY DEF Timely, GroupOK, Apart
<1>4. GroupsOK'
  BY <1>3 DEF GroupsOK, Before
<1>5. LineOK'
  BY <1>2 DEF LineOK
<1>6. ProducerOK'
  BY <1>2, <1>3 DEF ProducerOK
<1>7. DoneOK'
  BY <1>2 DEF DoneOK
<1>. QED
  BY <1>1, <1>4, <1>5, <1>6, <1>7

\* Time passes.
LEMMA LineTick ==
  ASSUME LineInv, now' = now + 1, UNCHANGED <<arrivals, producer, processed, finished>>
  PROVE  LineInv'
<1>. USE DEF LineInv
<1>1. LineTypeOK'
  BY DEF LineTypeOK
<1>2. \A e \in Arrived : Timely(e) => Timely(e)'
  <2>1. now \in Nat
    BY LineFields
  <2>. QED
    BY <2>1, Numbers DEF Timely, Arrived
<1>3. GroupsOK'
  <2>1. ASSUME NEW i \in DOMAIN arrivals PROVE GroupOK(arrivals[i].group)'
    <3>1. \A k \in DOMAIN arrivals[i].group : arrivals[i].group[k] \in Arrived
      BY LineFields
    <3>2. GroupOK(arrivals[i].group)
      BY DEF GroupsOK
    <3>. QED
      BY <1>2, <3>1, <3>2 DEF GroupOK
  <2>. QED
    BY <2>1 DEF GroupsOK, Before
<1>4. ProducerOK'
  <2>1. \A k \in DOMAIN producer.group : producer.group[k] \in Arrived
    BY LineFields
  <2>. QED
    BY <1>2, <2>1 DEF ProducerOK, Published
<1>5. Carried' = Carried /\ Published' = Published /\ (\A x : Apart(x)' <=> Apart(x))
  BY DEF Carried, Published, Apart
<1>6. LineOK'
  BY <1>5 DEF LineOK
<1>7. DoneOK'
  BY <1>5 DEF DoneOK
<1>. QED
  BY <1>1, <1>3, <1>4, <1>6, <1>7

\* A message is put in the queue.
LEMMA Sent ==
  ASSUME LineTypeOK, GroupsOK, now' = now, NEW m \in Messages, arrivals' = Append(arrivals, m),
         (m.kind = "group") <=> (m.group # <<>>), GroupOK(m.group),
         \A r \in Carried, s \in IdsOf(m.group) : r < s
  PROVE  /\ arrivals' \in Seq(Messages) /\ GroupsOK'
         /\ Carried' = Carried \cup IdsOf(m.group)
         /\ Len(arrivals) \in Nat /\ DOMAIN arrivals' = 1..(Len(arrivals) + 1)
         /\ \A i \in DOMAIN arrivals : arrivals'[i] = arrivals[i]
         /\ arrivals'[Len(arrivals) + 1] = m
<1>1. /\ DOMAIN arrivals = 1..Len(arrivals) /\ Len(arrivals) \in Nat
      /\ arrivals \in Seq(Messages)
  BY LineFields DEF LineTypeOK
<1>2. /\ arrivals' \in Seq(Messages) /\ DOMAIN arrivals' = 1..(Len(arrivals) + 1)
      /\ \A i \in DOMAIN arrivals : arrivals'[i] = arrivals[i]
      /\ arrivals'[Len(arrivals) + 1] = m
  BY <1>1
<1>3. Carried' = Carried \cup IdsOf(m.group)
  BY <1>1, <1>2 DEF Carried
<1>4. \A i \in DOMAIN arrivals' : i \in DOMAIN arrivals \/ i = Len(arrivals) + 1
  BY <1>1, <1>2
<1>5. \A g : GroupOK(g)' <=> GroupOK(g)
  BY DEF GroupOK, Timely
<1>6. ASSUME NEW i \in DOMAIN arrivals'
      PROVE  /\ (arrivals'[i].kind = "group") <=> (arrivals'[i].group # <<>>)
             /\ GroupOK(arrivals'[i].group)
             /\ \A j \in DOMAIN arrivals' : i < j => Before(arrivals'[i].group, arrivals'[j].group)
  <2>1. CASE i \in DOMAIN arrivals
    <3>1. \A r \in IdsOf(arrivals[i].group) : r \in Carried
      BY <2>1 DEF Carried
    <3>2. Before(arrivals[i].group, m.group)
      BY <3>1 DEF Before
    <3>. QED
      BY <1>2, <1>4, <2>1, <3>2 DEF GroupsOK
  <2>2. CASE i = Len(arrivals) + 1
    BY <1>1, <1>2, <2>2
  <2>. QED
    BY <1>4, <2>1, <2>2
<1>7. GroupsOK'
  BY <1>5, <1>6 DEF GroupsOK, Before
<1>. QED
  BY <1>1, <1>2, <1>3, <1>7

\* A message is taken from the queue.
LEMMA Received ==
  ASSUME LineTypeOK, GroupsOK, now' = now, arrivals # <<>>, arrivals' = Tail(arrivals)
  PROVE  /\ arrivals' \in Seq(Messages) /\ GroupsOK'
         /\ Head(arrivals) = arrivals[1] /\ 1 \in DOMAIN arrivals
         /\ Head(arrivals) \in Messages
         /\ Carried = Carried' \cup IdsOf(Head(arrivals).group)
         /\ \A r \in IdsOf(Head(arrivals).group), s \in Carried' : r < s
         /\ \A i \in DOMAIN arrivals' : i + 1 \in DOMAIN arrivals /\ arrivals'[i] = arrivals[i + 1]
<1>1. /\ DOMAIN arrivals = 1..Len(arrivals) /\ Len(arrivals) \in Nat
      /\ arrivals \in Seq(Messages)
  BY LineFields DEF LineTypeOK
<1>2. /\ arrivals' \in Seq(Messages) /\ DOMAIN arrivals' = 1..(Len(arrivals) - 1) /\ Len(arrivals) > 0
      /\ \A i \in 1..(Len(arrivals) - 1) : arrivals'[i] = arrivals[i + 1]
      /\ Head(arrivals) = arrivals[1] /\ 1 \in DOMAIN arrivals
  BY <1>1
<1>3. \A i \in DOMAIN arrivals' : i + 1 \in DOMAIN arrivals /\ arrivals'[i] = arrivals[i + 1]
  BY <1>1, <1>2
<1>4. \A i \in DOMAIN arrivals : i = 1 \/ (i - 1 \in DOMAIN arrivals' /\ arrivals'[i - 1] = arrivals[i])
  BY <1>1, <1>2
<1>5. Carried = Carried' \cup IdsOf(Head(arrivals).group)
  BY <1>2, <1>3, <1>4 DEF Carried
<1>6. ASSUME NEW r \in IdsOf(Head(arrivals).group), NEW s \in Carried' PROVE r < s
  <2>1. PICK i \in DOMAIN arrivals' : s \in IdsOf(arrivals'[i].group)
    BY DEF Carried
  <2>2. i + 1 \in DOMAIN arrivals /\ 1 < i + 1 /\ s \in IdsOf(arrivals[i + 1].group)
    BY <1>1, <1>2, <1>3, <2>1
  <2>3. Before(arrivals[1].group, arrivals[i + 1].group)
    BY <1>2, <2>2 DEF GroupsOK
  <2>. QED
    BY <1>2, <2>2, <2>3 DEF Before
<1>7. \A g : GroupOK(g)' <=> GroupOK(g)
  BY DEF GroupOK, Timely
<1>8. ASSUME NEW i \in DOMAIN arrivals'
      PROVE  /\ (arrivals'[i].kind = "group") <=> (arrivals'[i].group # <<>>)
             /\ GroupOK(arrivals'[i].group)
             /\ \A j \in DOMAIN arrivals' : i < j => Before(arrivals'[i].group, arrivals'[j].group)
  <2>1. \A j \in DOMAIN arrivals' : i < j => i + 1 < j + 1
    BY <1>1, <1>2
  <2>. QED
    BY <1>3, <2>1 DEF GroupsOK
<1>9. GroupsOK'
  BY <1>7, <1>8 DEF GroupsOK, Before
<1>. QED
  BY <1>1, <1>2, <1>3, <1>5, <1>6, <1>9

\* The ids of a group without gaps.
LEMMA Interval ==
  ASSUME NEW group \in Seq(Arrived), NEW n \in Int,
         \A k \in DOMAIN group : group[k].id = n + k
  PROVE  /\ IdsOf(group) = (n + 1)..(n + Len(group))
<1>1. Len(group) \in Nat /\ DOMAIN group = 1..Len(group)
  OBVIOUS
<1>2. \A r \in (n + 1)..(n + Len(group)) : r - n \in DOMAIN group /\ r = n + (r - n)
  BY <1>1
<1>3. \A k \in DOMAIN group : n + k \in (n + 1)..(n + Len(group))
  BY <1>1
<1>. QED
  BY <1>2, <1>3 DEF IdsOf

\* The ids of the group that the producer builds.
LEMMA Building ==
  ASSUME LineInv
  PROVE  /\ IdsOf(producer.group) = (Published + 1)..(producer.next - 1)
         /\ Published \in Nat /\ Carried \subseteq 1..Published
<1>1. \A k \in DOMAIN producer.group : producer.group[k].id = Published + k
  BY DEF LineInv, ProducerOK
<1>2. /\ producer.group \in Seq(Arrived) /\ Published \in Int /\ producer.next \in Nat
      /\ Len(producer.group) \in Nat /\ processed \in Nat
  BY LineFields DEF LineInv
<1>3. IdsOf(producer.group) = (Published + 1)..(Published + Len(producer.group))
  BY <1>1, <1>2, Interval
<1>4. Published + Len(producer.group) = producer.next - 1
  BY <1>2 DEF Published
<1>5. processed <= Published /\ Carried \subseteq (processed + 1)..Published
  BY DEF LineInv, LineOK
<1>6. Published \in Nat
  BY <1>2, <1>5
<1>7. (processed + 1)..Published \subseteq 1..Published
  BY <1>2, <1>6
<1>. QED
  BY <1>3, <1>4, <1>5, <1>6, <1>7

\* The producer reads the clock for the next request of its group.
LEMMA ObserveLine ==
  ASSUME LineInv, Observe, UNCHANGED <<processed, finished>>
  PROVE  LineInv'
<1>. USE DEF LineInv
<1>. DEFINE e == [id |-> producer.next, observed |-> now]
            group == Append(producer.group, e)
<1>1. /\ producer.at = "observing" /\ producer.next <= Last /\ trace[producer.next] <= now
      /\ now' = now /\ arrivals' = arrivals
      /\ producer' = [producer EXCEPT !.next = @ + 1, !.group = group]
  BY DEF Observe, queues, Last
<1>2. /\ producer.next \in Requests /\ now \in Nat /\ e \in Arrived /\ Timely(e)
      /\ producer.next \in Nat
  BY <1>1, LineFields, Numbers DEF Arrived, Timely
<1>3. /\ producer.group \in Seq(Arrived) /\ Len(producer.group) \in Nat
      /\ DOMAIN producer.group = 1..Len(producer.group)
  BY LineFields
<1>4. /\ group \in Seq(Arrived) /\ Len(group) = Len(producer.group) + 1
      /\ DOMAIN group = 1..(Len(producer.group) + 1)
      /\ \A k \in 1..Len(producer.group) : group[k] = producer.group[k]
      /\ group[Len(producer.group) + 1] = e
  BY <1>2, <1>3
<1>. HIDE DEF group
<1>5. /\ producer' \in Producers
      /\ producer'.at = "observing" /\ producer'.next = producer.next + 1 /\ producer'.group = group
  <2>1. producer \in Producers /\ producer.next + 1 \in 1..(Last + 1)
    BY <1>1, <1>2, Numbers DEF LineTypeOK
  <2>2. producer' = [producer EXCEPT !.next = producer.next + 1, !.group = group]
    BY <1>1
  <2>. QED
    BY <1>1, <1>4, <2>1, <2>2 DEF Producers
<1>6. LineTypeOK'
  BY <1>1, <1>5 DEF LineTypeOK
<1>7. Published' = Published
  BY <1>2, <1>3, <1>4, <1>5 DEF Published
<1>8. Carried' = Carried /\ (\A x : Apart(x)' <=> Apart(x))
  BY <1>1 DEF Carried, Apart
<1>9. (\A x : Timely(x)' <=> Timely(x)) /\ (\A g : GroupOK(g)' <=> GroupOK(g))
  BY <1>1 DEF Timely, GroupOK, Apart
<1>10. GroupsOK'
  BY <1>1, <1>9 DEF GroupsOK, Before
<1>11. LineOK'
  BY <1>1, <1>5, <1>7, <1>8 DEF LineOK
<1>12. ProducerOK'
  <2>1. ASSUME NEW k \in DOMAIN group PROVE group[k].id = Published + k /\ Timely(group[k])
    <3>1. CASE k \in 1..Len(producer.group)
      BY <1>3, <1>4, <3>1 DEF ProducerOK
    <3>2. CASE k = Len(producer.group) + 1
      <4>0. producer.next \in Nat /\ Len(producer.group) \in Nat
        BY <1>2, <1>3
      <4>1. Published + k = producer.next
        BY <3>2, <4>0 DEF Published
      <4>. QED
        BY <1>2, <1>4, <3>2, <4>1
    <3>. QED
      BY <1>3, <1>4, <3>1, <3>2
  <2>. QED
    BY <1>5, <1>7, <1>9, <2>1 DEF ProducerOK
<1>13. DoneOK'
  BY <1>1, <1>5, <1>8 DEF DoneOK
<1>. QED
  BY <1>6, <1>10, <1>11, <1>12, <1>13

\* The group joins the end of the line.
LEMMA PublishLine ==
  ASSUME LineInv, Publish, UNCHANGED <<processed, finished>>
  PROVE  LineInv'
<1>. USE DEF LineInv
<1>. DEFINE n == Len(producer.group)
            m == Message("group", producer.group)
<1>1. /\ producer.at = "observing" /\ producer.group # <<>> /\ ~GroupGoesOn
      /\ now' = now /\ arrivals' = Append(arrivals, m)
      /\ producer' = [producer EXCEPT !.group = <<>>]
  BY DEF Publish
<1>2. /\ now \in Nat /\ producer.group \in Seq(Arrived) /\ n \in Nat /\ n > 0
      /\ DOMAIN producer.group = 1..n /\ producer.next \in Nat /\ producer.next \in 1..(Last + 1)
      /\ processed \in Nat
  BY <1>1, LineFields
<1>3. /\ m \in Messages /\ m.kind = "group" /\ m.group = producer.group
  BY <1>2 DEF Message, Messages
<1>4. /\ IdsOf(producer.group) = (Published + 1)..(producer.next - 1)
      /\ Published \in Nat /\ Carried \subseteq 1..Published
  BY Building
<1>5. \A k \in 1..n : producer.group[k].id = Published + k /\ Timely(producer.group[k])
  BY <1>2 DEF ProducerOK
<1>6. Published + n = producer.next - 1
  BY <1>2 DEF Published
<1>7. Apart(producer.next - 1)
  <2>1. SUFFICES ASSUME NEW r \in Requests, NEW s \in Requests,
                        r <= producer.next - 1, producer.next - 1 < s
                 PROVE  trace[r] < trace[s]
    BY DEF Apart
  <2>2. /\ producer.next \in Requests /\ producer.next \in Nat /\ producer.next <= Last /\ producer.next <= s /\ r \in Nat /\ s \in Nat
        /\ producer.next - 1 \in Requests
    BY <1>2, <2>1, Numbers
  <2>3. trace[producer.next] # trace[producer.next - 1]
    BY <1>1, <2>2 DEF GroupGoesOn, Last
  <2>4. trace[r] <= trace[producer.next - 1]
    BY <2>1, <2>2, TraceOrder
  <2>5. trace[producer.next] <= trace[s]
    BY <2>2, TraceOrder
  <2>6. producer.next - 1 <= producer.next
    BY <2>2
  <2>7. trace[producer.next - 1] <= trace[producer.next]
    BY <2>2, <2>6, TraceOrder
  <2>8. /\ trace[r] \in Nat /\ trace[s] \in Nat /\ trace[producer.next] \in Nat
        /\ trace[producer.next - 1] \in Nat
    BY <2>2, Numbers
  <2>. QED
    BY <2>3, <2>4, <2>5, <2>7, <2>8
<1>8. GroupOK(m.group)
  <2>0. 1 \in 1..n /\ \A k \in 1..n : producer.group[k].id = Published + k
    BY <1>2, <1>5
  <2>1. \A k \in 1..n : producer.group[k].id = producer.group[1].id + k - 1
    BY <1>2, <1>4, <2>0
  <2>2. producer.group[n].id = producer.next - 1
    BY <1>2, <1>5, <1>6
  <2>. QED
    BY <1>2, <1>3, <1>5, <1>7, <2>1, <2>2 DEF GroupOK
<1>. HIDE DEF m
<1>9. \A r \in Carried, s \in IdsOf(m.group) : r < s
  BY <1>2, <1>3, <1>4
<1>10. /\ arrivals' \in Seq(Messages) /\ GroupsOK' /\ Carried' = Carried \cup IdsOf(m.group)
       /\ Len(arrivals) \in Nat /\ DOMAIN arrivals' = 1..(Len(arrivals) + 1)
       /\ \A i \in DOMAIN arrivals : arrivals'[i] = arrivals[i]
       /\ arrivals'[Len(arrivals) + 1] = m
  BY <1>1, <1>3, <1>8, <1>9, Sent
<1>11. /\ producer'.at = "observing" /\ producer'.next = producer.next /\ producer'.group = <<>>
       /\ producer' \in Producers
  <2>1. producer \in Producers /\ <<>> \in Seq(Arrived)
    BY DEF LineTypeOK
  <2>. QED
    BY <1>1, <2>1 DEF Producers
<1>12. LineTypeOK'
  BY <1>1, <1>10, <1>11 DEF LineTypeOK
<1>13. Published' = producer.next - 1
  BY <1>2, <1>11 DEF Published
<1>14. Carried = (processed + 1)..Published
  BY <1>1 DEF LineOK
<1>15. Carried' = (processed + 1)..(producer.next - 1)
  <2>1. processed <= Published /\ Published <= producer.next - 1
    BY <1>2, <1>4, <1>6 DEF LineOK
  <2>. QED
    BY <1>2, <1>3, <1>4, <1>10, <1>14, <2>1
<1>16. LineOK'
  <2>1. processed <= producer.next - 1
    BY <1>2, <1>4, <1>6 DEF LineOK
  <2>2. \A r \in Carried', s \in Requests : processed < s /\ s < r => s \in Carried'
    BY <1>2, <1>15, Numbers
  <2>3. Apart(processed)'
    BY DEF LineOK, Apart
  <2>. QED
    BY <1>13, <1>15, <2>1, <2>2, <2>3 DEF LineOK
<1>17. ProducerOK'
  BY <1>11 DEF ProducerOK
<1>18. DoneOK'
  <2>1. ~finished /\ \A i \in DOMAIN arrivals : arrivals[i].kind # "done"
    BY <1>1 DEF DoneOK
  <2>2. \A i \in DOMAIN arrivals' : arrivals'[i].kind # "done"
    <3>1. \A i \in DOMAIN arrivals' : i \in DOMAIN arrivals \/ i = Len(arrivals) + 1
      BY <1>10, LineFields
    <3>. QED
      BY <1>3, <1>10, <2>1, <3>1
  <2>. QED
    BY <2>1, <2>2 DEF DoneOK
<1>. QED
  BY <1>10, <1>12, <1>16, <1>17, <1>18

\* The end of the producer is in the queue.
LEMMA EndsLine ==
  ASSUME LineInv, ProducerReturns \/ ProducerFails, UNCHANGED <<processed, finished>>
  PROVE  LineInv'
<1>. USE DEF LineInv
<1>1. /\ producer.at = "observing" /\ now' = now /\ arrivals' = Append(arrivals, Done)
      /\ \/ /\ producer' = [producer EXCEPT !.at = "returned"]
            /\ producer.group = <<>> /\ producer.next > Last
         \/ producer' = [producer EXCEPT !.at = "failed", !.group = <<>>]
  BY DEF ProducerReturns, ProducerFails, Last
<1>2. /\ Done \in Messages /\ Done.kind = "done" /\ Done.group = <<>> /\ GroupOK(Done.group)
      /\ IdsOf(Done.group) = {}
  BY DEF Done, Message, Messages, GroupOK, IdsOf
<1>3. /\ arrivals' \in Seq(Messages) /\ GroupsOK' /\ Carried' = Carried
      /\ Len(arrivals) \in Nat /\ DOMAIN arrivals' = 1..(Len(arrivals) + 1)
      /\ \A i \in DOMAIN arrivals : arrivals'[i] = arrivals[i]
      /\ arrivals'[Len(arrivals) + 1] = Done
  BY <1>1, <1>2, Sent
<1>4. /\ producer'.at \in {"returned", "failed"} /\ producer'.next = producer.next /\ producer'.group = <<>>
      /\ producer' \in Producers
      /\ producer'.at = "returned" => producer.group = <<>> /\ producer.next > Last
  <2>1. producer \in Producers /\ <<>> \in Seq(Arrived)
    BY DEF LineTypeOK
  <2>2. CASE /\ producer' = [producer EXCEPT !.at = "returned"]
             /\ producer.group = <<>> /\ producer.next > Last
    BY <2>1, <2>2 DEF Producers
  <2>3. CASE producer' = [producer EXCEPT !.at = "failed", !.group = <<>>]
    BY <2>1, <2>3 DEF Producers
  <2>. QED
    BY <1>1, <2>2, <2>3
<1>5. LineTypeOK'
  BY <1>1, <1>3, <1>4 DEF LineTypeOK
<1>6. /\ producer.next \in Nat /\ producer.next \in 1..(Last + 1) /\ Len(producer.group) \in Nat
      /\ processed \in Nat /\ Published \in Nat
  BY LineFields, Building
<1>7. Published' = producer.next - 1 /\ Published <= producer.next - 1
  BY <1>4, <1>6 DEF Published
<1>8. producer'.at = "returned" => Published' = Published /\ producer.next = Last + 1
  BY <1>4, <1>6, <1>7, Numbers DEF Published
<1>9. LineOK'
  <2>1. /\ processed <= Published /\ Carried = (processed + 1)..Published
        /\ \A r \in Carried, s \in Requests : processed < s /\ s < r => s \in Carried
    BY <1>1 DEF LineOK
  <2>2. processed <= Published' /\ Carried' \subseteq (processed + 1)..Published'
    BY <1>3, <1>6, <1>7, <2>1
  <2>3. Apart(processed)'
    BY DEF LineOK, Apart
  <2>4. producer'.at # "failed" => Carried' = (processed + 1)..Published'
    BY <1>3, <1>4, <1>8, <2>1
  <2>. QED
    BY <1>3, <2>1, <2>2, <2>3, <2>4 DEF LineOK
<1>10. ProducerOK'
  BY <1>4, <1>8 DEF ProducerOK
<1>11. DoneOK'
  <2>1. ~finished /\ \A i \in DOMAIN arrivals : arrivals[i].kind # "done"
    BY <1>1 DEF DoneOK
  <2>2. \A i \in DOMAIN arrivals' : i \in DOMAIN arrivals \/ i = Len(arrivals) + 1
    BY <1>3, LineFields
  <2>3. \A i, j \in DOMAIN arrivals' : arrivals'[i].kind = "done" /\ i < j => arrivals'[j].group = <<>>
    <3>1. \A i \in DOMAIN arrivals' : arrivals'[i].kind = "done" => i = Len(arrivals) + 1
      BY <1>3, <2>1, <2>2
    <3>. QED
      BY <1>3, <3>1
  <2>. QED
    BY <1>4, <2>1, <2>3 DEF DoneOK
<1>. QED
  BY <1>3, <1>5, <1>9, <1>10, <1>11

\* The worker wakes the coordinator up.
LEMMA NotifyLine ==
  ASSUME LineInv, Notify, UNCHANGED <<processed, finished>>
  PROVE  LineInv'
<1>. USE DEF LineInv
<1>1. now' = now /\ producer' = producer /\ arrivals' = Append(arrivals, Wakeup)
  BY DEF Notify
<1>2. /\ Wakeup \in Messages /\ Wakeup.kind = "wakeup" /\ Wakeup.group = <<>> /\ GroupOK(Wakeup.group)
      /\ IdsOf(Wakeup.group) = {}
  BY DEF Wakeup, Message, Messages, GroupOK, IdsOf
<1>3. /\ arrivals' \in Seq(Messages) /\ GroupsOK' /\ Carried' = Carried
      /\ Len(arrivals) \in Nat /\ DOMAIN arrivals' = 1..(Len(arrivals) + 1)
      /\ \A i \in DOMAIN arrivals : arrivals'[i] = arrivals[i]
      /\ arrivals'[Len(arrivals) + 1] = Wakeup
  BY <1>1, <1>2, Sent
<1>4. LineTypeOK'
  BY <1>1, <1>3 DEF LineTypeOK
<1>5. Published' = Published /\ (\A x : Apart(x)' <=> Apart(x)) /\ (\A x : Timely(x)' <=> Timely(x))
  BY <1>1 DEF Published, Apart, Timely
<1>6. LineOK'
  BY <1>1, <1>3, <1>5 DEF LineOK
<1>7. ProducerOK'
  BY <1>1, <1>5 DEF ProducerOK
<1>8. DoneOK'
  <2>1. \A i \in DOMAIN arrivals' : i \in DOMAIN arrivals \/ i = Len(arrivals) + 1
    BY <1>3, LineFields
  <2>. QED
    BY <1>1, <1>2, <1>3, <2>1 DEF DoneOK
<1>. QED
  BY <1>3, <1>4, <1>6, <1>7, <1>8

\* A message that is not a group has none.
LEMMA HeadFacts ==
  ASSUME LineInv, arrivals # <<>>
  PROVE  /\ Head(arrivals) \in Messages /\ Head(arrivals).group \in Seq(Arrived)
         /\ Head(arrivals).kind # "group" => IdsOf(Head(arrivals).group) = {}
         /\ Head(arrivals).kind = "group" =>
              LET group == Head(arrivals).group IN
              /\ Len(group) \in Nat \ {0} /\ DOMAIN group = 1..Len(group)
              /\ \A k \in 1..Len(group) : group[k].id = processed + k /\ Timely(group[k])
              /\ IdsOf(group) = (processed + 1)..(processed + Len(group))
              /\ processed + Len(group) <= Published /\ Apart(processed + Len(group))
<1>. USE DEF LineInv
<1>. DEFINE group == Head(arrivals).group
<1>1. /\ 1 \in DOMAIN arrivals /\ Head(arrivals) = arrivals[1] /\ arrivals[1] \in Messages
      /\ group \in Seq(Arrived)
  BY LineFields DEF LineTypeOK
<1>2. GroupOK(group) /\ (Head(arrivals).kind = "group" <=> group # <<>>)
  BY <1>1 DEF GroupsOK
<1>3. Len(group) \in Nat /\ DOMAIN group = 1..Len(group) /\ (group # <<>> => Len(group) > 0)
  BY <1>1
<1>4. ASSUME group # <<>>
      PROVE  /\ \A k \in 1..Len(group) : group[k].id = processed + k
             /\ processed + Len(group) <= Published
  <2>0. 1 \in 1..Len(group) /\ group[1] \in Arrived
    BY <1>1, <1>3, <1>4
  <2>1. 1 \in 1..Len(group) /\ group[1] \in Arrived /\ group[1].id \in Requests /\ group[1].id \in Nat
    BY <2>0, Numbers DEF Arrived
  <2>2. group[1].id \in IdsOf(group) /\ group[1].id \in Carried
    BY <1>1, <1>3, <2>1 DEF IdsOf, Carried
  <2>3. Carried \subseteq (processed + 1)..Published /\ processed \in Nat /\ Published \in Int
    BY LineFields DEF LineOK
  <2>4. ASSUME group[1].id # processed + 1 PROVE FALSE
    <3>1. processed + 1 \in Requests /\ processed < processed + 1 /\ processed + 1 < group[1].id
      BY <2>1, <2>2, <2>3, <2>4, Numbers
    <3>2. processed + 1 \in Carried
      BY <2>2, <3>1 DEF LineOK
    <3>3. PICK i \in DOMAIN arrivals : processed + 1 \in IdsOf(arrivals[i].group)
      BY <3>2 DEF Carried
    <3>4. CASE i = 1
      <4>1. PICK k \in 1..Len(group) : processed + 1 = group[k].id
        BY <1>1, <1>3, <3>3, <3>4 DEF IdsOf
      <4>2. group[k].id = group[1].id + k - 1
        BY <1>2, <1>3 DEF GroupOK
      <4>. QED
        BY <1>3, <2>1, <2>3, <3>1, <4>1, <4>2
    <3>5. CASE i # 1
      <4>1. 1 < i
        BY <3>5, LineFields
      <4>2. Before(arrivals[1].group, arrivals[i].group)
        BY <1>1, <4>1 DEF GroupsOK
      <4>3. group[1].id < processed + 1
        BY <1>1, <2>2, <3>3, <4>2 DEF Before
      <4>. QED
        BY <2>1, <2>3, <3>1, <4>3
    <3>. QED
      BY <3>4, <3>5
  <2>5. \A k \in 1..Len(group) : group[k].id = processed + k
    BY <1>2, <1>3, <2>3, <2>4 DEF GroupOK
  <2>6. Len(group) \in 1..Len(group) /\ group[Len(group)].id \in Carried
    BY <1>1, <1>3, <1>4 DEF IdsOf, Carried
  <2>. QED
    BY <2>3, <2>5, <2>6
<1>5. ASSUME group # <<>> PROVE IdsOf(group) = (processed + 1)..(processed + Len(group))
  <2>1. \A k \in DOMAIN group : group[k].id = processed + k
    BY <1>3, <1>4, <1>5
  <2>2. processed \in Int
    BY LineFields
  <2>. QED
    BY <1>1, <2>1, <2>2, Interval
<1>6. group = <<>> => IdsOf(group) = {}
  BY <1>1, IdsTyped
<1>7. group # <<>> => /\ \A k \in 1..Len(group) : Timely(group[k])
                      /\ Apart(processed + Len(group))
  BY <1>2, <1>3, <1>4 DEF GroupOK
<1>. QED
  BY <1>1, <1>2, <1>3, <1>4, <1>5, <1>6, <1>7

\* A number between two others, in a lemma of its own for the provers.
LEMMA Between ==
  ASSUME NEW r \in Int, NEW x \in Nat, NEW y \in Nat, x < r, r <= y
  PROVE  r \in (x + 1)..y
  OBVIOUS

\* A message is handled: a group moves to the waiters.
LEMMA HandleLine ==
  ASSUME LineInv, arrivals # <<>>, arrivals' = Tail(arrivals), UNCHANGED <<now, producer>>,
         \/ Head(arrivals).kind = "done" /\ finished' = TRUE /\ processed' = processed
         \/ Head(arrivals).kind = "wakeup" /\ finished' = finished /\ processed' = processed
         \/ /\ Head(arrivals).kind = "group" /\ finished' = finished
            /\ processed' = processed + Len(Head(arrivals).group)
  PROVE  LineInv'
<1>. USE DEF LineInv
<1>. DEFINE group == Head(arrivals).group
<1>1. /\ arrivals' \in Seq(Messages) /\ GroupsOK'
      /\ Head(arrivals) = arrivals[1] /\ 1 \in DOMAIN arrivals
      /\ Carried = Carried' \cup IdsOf(group)
      /\ \A r \in IdsOf(group), s \in Carried' : r < s
      /\ \A i \in DOMAIN arrivals' : i + 1 \in DOMAIN arrivals /\ arrivals'[i] = arrivals[i + 1]
  BY Received
<1>2. /\ processed \in Nat /\ Published \in Nat /\ producer.next \in 1..(Last + 1) /\ Len(producer.group) \in Nat
  BY LineFields, Building
<1>3. Published <= Last
  BY <1>2, Numbers DEF Published
<1>4. /\ Published' = Published /\ (\A x : Apart(x)' <=> Apart(x)) /\ (\A x : Timely(x)' <=> Timely(x))
  BY DEF Published, Apart, Timely
<1>5. ProducerOK'
  BY <1>4 DEF ProducerOK
<1>6. CASE Head(arrivals).kind = "group"
  <2>1. /\ Len(group) \in Nat \ {0}
        /\ IdsOf(group) = (processed + 1)..(processed + Len(group))
        /\ processed + Len(group) <= Published /\ Apart(processed + Len(group))
    BY <1>6, HeadFacts
  <2>2. processed' = processed + Len(group) /\ finished' = finished
    BY <1>6
  <2>. HIDE DEF group
  <2>3. LineTypeOK'
    BY <1>1, <1>2, <1>3, <2>1, <2>2, Numbers DEF LineTypeOK
  <2>4. Carried' = {r \in Carried : processed' < r}
    <3>1. Carried \subseteq Requests /\ processed + Len(group) \in IdsOf(group)
      BY <1>2, <2>1, LineFields
    <3>2. \A r \in Carried' : processed' < r
      BY <1>1, <2>2, <3>1
    <3>3. \A r \in IdsOf(group) : ~(processed' < r)
      BY <1>2, <2>1, <2>2
    <3>. QED
      BY <1>1, <3>2, <3>3
  <2>5. LineOK'
    <3>1. processed' <= Published' /\ Apart(processed')
      BY <1>4, <2>1, <2>2
    <3>0. Published \in Nat
      BY <1>2
    <3>2. Carried \subseteq (processed + 1)..Published
      BY DEF LineOK
    <3>3. processed' \in Nat /\ processed < processed'
      BY <1>2, <2>1, <2>2
    <3>4. Carried' \subseteq (processed' + 1)..Published
      <4>1. SUFFICES ASSUME NEW r \in Carried' PROVE r \in (processed' + 1)..Published
        OBVIOUS
      <4>2. r \in Carried /\ processed' < r
        BY <2>4, <4>1
      <4>3. r \in Int /\ r <= Published
        BY <1>2, <3>2, <4>2
      <4>. QED
        BY <3>0, <3>3, <4>2, <4>3, Between
    <3>5. \A r \in Carried', s \in Requests : processed' < s /\ s < r => s \in Carried'
      <4>1. SUFFICES ASSUME NEW r \in Carried', NEW s \in Requests, processed' < s, s < r
                     PROVE  s \in Carried'
        OBVIOUS
      <4>2. processed < s /\ r \in Carried
        BY <1>1, <1>2, <3>3, <4>1, Numbers
      <4>. QED
        BY <2>4, <4>1, <4>2 DEF LineOK
    <3>6. producer.at # "failed" => Carried' = (processed' + 1)..Published
      BY <1>2, <2>4, <3>3 DEF LineOK
    <3>. QED
      BY <1>4, <3>1, <3>4, <3>5, <3>6 DEF LineOK
  <2>6. DoneOK'
    <3>1. \A i, j \in DOMAIN arrivals' : i < j => i + 1 < j + 1
      BY <1>1
    <3>2. finished => Carried' = {}
      BY <2>4 DEF DoneOK
    <3>. QED
      BY <1>1, <2>2, <3>1, <3>2 DEF DoneOK
  <2>. QED
    BY <1>1, <1>5, <2>3, <2>5, <2>6
<1>7. CASE Head(arrivals).kind # "group"
  <2>1. IdsOf(group) = {} /\ processed' = processed
    BY <1>7, HeadFacts
  <2>2. Carried' = Carried
    BY <1>1, <2>1
  <2>3. LineTypeOK'
    BY <1>1, <1>7 DEF LineTypeOK
  <2>4. LineOK'
    BY <1>4, <2>1, <2>2 DEF LineOK
  <2>5. DoneOK'
    <3>1. \A i, j \in DOMAIN arrivals' : i < j => i + 1 < j + 1
      BY <1>1
    <3>2. \A i \in DOMAIN arrivals' : arrivals'[i].kind = "done" =>
            /\ producer'.at # "observing"
            /\ \A j \in DOMAIN arrivals' : i < j => arrivals'[j].group = <<>>
      BY <1>1, <3>1 DEF DoneOK
    <3>3. CASE Head(arrivals).kind = "done"
      <4>1. producer.at # "observing" /\ \A j \in DOMAIN arrivals : 1 < j => arrivals[j].group = <<>>
        BY <1>1, <3>3 DEF DoneOK
      <4>2. \A i \in DOMAIN arrivals' : arrivals'[i].group = <<>>
        <5>1. \A i \in DOMAIN arrivals' : i \in Nat \ {0} 
          BY <1>1
        <5>2. \A i \in DOMAIN arrivals' : 1 < i + 1
          BY <5>1
        <5>. QED
          BY <1>1, <4>1, <5>2
      <4>3. Carried' = {}
        BY <4>2 DEF Carried, IdsOf
      <4>. QED
        BY <3>2, <4>1, <4>3 DEF DoneOK
    <3>4. CASE Head(arrivals).kind = "wakeup"
      <4>1. finished' = finished
        BY <1>7, <3>4
      <4>. QED
        BY <2>2, <3>2, <4>1 DEF DoneOK
    <3>. QED
      BY <1>7, <3>3, <3>4
  <2>. QED
    BY <1>1, <1>5, <2>3, <2>4, <2>5
<1>. QED
  BY <1>6, <1>7

-----------------------------------------------------------------------------
(***************************************************************************)
(* The steps that leave the requests where they are                        *)
(***************************************************************************)
\* The fields of the scheduler.
LEMMA SchedulerFields ==
  ASSUME NEW s \in SchedulerType(Requests)
  PROVE  /\ s.queue \in Seq(Entries) /\ s.policy \in Policies /\ s.policy \in PolicyName
         /\ s.now \in Nat /\ s.ordinal \in Nat /\ s.closed \in BOOLEAN
         /\ s.nextWindow \in Nat \cup {NoTime}
         /\ Len(s.queue) \in Nat /\ DOMAIN s.queue = 1..Len(s.queue)
         /\ \A k \in 1..Len(s.queue) : /\ s.queue[k] \in Entries /\ s.queue[k].id \in Requests
                                       /\ s.queue[k].admitted \in Nat
         /\ s.queue # <<>> => Len(s.queue) > 0
<1>1. /\ s.queue \in Seq(Entries) /\ s.policy \in Policies /\ s.now \in Nat /\ s.ordinal \in Nat
      /\ s.closed \in BOOLEAN /\ s.nextWindow \in Nat \cup {NoTime}
  BY DEF SchedulerType, Entries
<1>2. s.policy \in PolicyName
  BY <1>1, ConfigAssumption
<1>3. /\ Len(s.queue) \in Nat /\ DOMAIN s.queue = 1..Len(s.queue)
      /\ \A k \in 1..Len(s.queue) : s.queue[k] \in Entries
      /\ s.queue # <<>> => Len(s.queue) > 0
  BY <1>1
<1>4. \A e \in Entries : e.admitted \in Nat /\ e.id \in Requests
  BY DEF Entries
<1>. QED
  BY <1>1, <1>2, <1>3, <1>4

\* The queue of the scheduler stays.
SameQueue ==
  /\ sched' \in SchedulerType(Requests)
  /\ sched'.queue = sched.queue /\ sched'.ordinal = sched.ordinal

\* Nothing of the case changes, except perhaps the clock and the window of the scheduler.
LEMMA CaseStays ==
  ASSUME CaseInv, SameQueue,
         UNCHANGED <<now, work, completions, completed, worker, pending, processed, inFlight,
                     formed, life>>
  PROVE  CaseInv'
<1>. USE DEF CaseInv
<1>1. CaseTypeOK'
  BY DEF CaseTypeOK, SameQueue
<1>2. WaitersOK' /\ Decided' = Decided
  BY DEF WaitersOK, Decided
<1>3. RecordsOK'
  BY DEF RecordsOK
<1>4. /\ Forming' = Forming /\ Executing' = Executing /\ Handed' = Handed /\ Served' = Served
      /\ \A k : Members(k)' = Members(k)
  BY DEF Forming, Executing, Handed, Served, BatchesIn, Members
<1>5. PlacesOK'
  BY <1>2, <1>4 DEF PlacesOK, SameQueue
<1>6. QueueOK'
  BY <1>4 DEF QueueOK, SameQueue, Ascending
<1>7. TokenOK'
  BY DEF TokenOK
<1>8. BatchesOK'
  <2>1. \A b : /\ (FormedOK(b)' <=> FormedOK(b)) /\ (OutOK(b)' <=> OutOK(b))
               /\ (StartedOK(b)' <=> StartedOK(b)) /\ (ExecutedOK(b)' <=> ExecutedOK(b))
               /\ (CompletedOK(b)' <=> CompletedOK(b))
    BY DEF FormedOK, OutOK, StartedOK, ExecutedOK, CompletedOK, Recording
  <2>. QED
    BY <2>1 DEF BatchesOK, SameQueue
<1>9. TogetherOK'
  <2>1. \A x : Whole(x)' <=> Whole(x)
    BY <1>4 DEF Whole
  <2>2. EqualArrivalsTogether'
    BY <1>4 DEF TogetherOK, EqualArrivalsTogether
  <2>. QED
    BY <2>1, <2>2 DEF TogetherOK
<1>. QED
  BY <1>1, <1>2, <1>3, <1>5, <1>6, <1>7, <1>8, <1>9

\* A scheduler that does not change keeps its queue.
LEMMA SameScheduler == CaseInv /\ sched' = sched => SameQueue
  BY DEF CaseInv, CaseTypeOK, SameQueue

\* The fields of the batches.
LEMMA BatchFields ==
  ASSUME NEW b \in Batches
  PROVE  /\ b.id \in Nat /\ b.requests \in Seq(Entries) /\ b.dispatch \in Nat
         /\ b.start \in Times /\ b.first \in Times /\ b.finish \in Times /\ b.failed \in BOOLEAN
         /\ IdsOf(b.requests) \subseteq Requests
         /\ Len(b.requests) \in Nat
<1>1. /\ b.id \in Nat /\ b.requests \in Seq(Entries) /\ b.dispatch \in Nat
      /\ b.start \in Times /\ b.first \in Times /\ b.finish \in Times /\ b.failed \in BOOLEAN
  BY DEF Batches
<1>2. \A e \in Entries : e.id \in Requests
  BY DEF Entries
<1>3. \A r \in IdsOf(b.requests) : \E e \in Entries : r = e.id
  BY <1>1, IdsTyped
<1>. QED
  BY <1>1, <1>2, <1>3

\* What the queues of the case hold.
LEMMA CaseFields ==
  ASSUME CaseTypeOK
  PROVE  /\ \A k \in DOMAIN work : work[k] \in Batches
         /\ \A k \in DOMAIN completions : completions[k] \in Batches
         /\ \A k \in DOMAIN completed : completed[k] \in Batches
         /\ Len(work) \in Nat /\ DOMAIN work = 1..Len(work)
         /\ Len(completions) \in Nat /\ DOMAIN completions = 1..Len(completions)
         /\ Len(completed) \in Nat /\ DOMAIN completed = 1..Len(completed)
         /\ \A k \in DOMAIN pending : pending[k] \in Arrived
         /\ Len(pending) \in Nat /\ DOMAIN pending = 1..Len(pending)
         /\ \A f \in formed : f \in Formeds
         /\ sched \in SchedulerType(Requests)
         /\ worker.at \in {"idle", "running", "notifying"} /\ worker.batch \in Batches \cup {NoBatch}
         /\ \A r \in Requests : life[r] \in StateType
         /\ life \in [Requests -> StateType]
  BY DEF CaseTypeOK

\* The times of a record.
LEMMA StateFields ==
  ASSUME NEW x \in StateType
  PROVE  /\ x.observed \in Nat /\ x.reason \in BOOLEAN
         /\ x.status \in {"pending", "completed", "failed", "rejected"}
         /\ x.batch \in Nat \cup {NoBatchId}
         /\ x.admitted \in Times /\ x.dispatch \in Times /\ x.start \in Times
         /\ x.first \in Times /\ x.finished \in Times /\ x.terminal \in Times
  BY DEF StateType, Times

\* Time passes.
LEMMA CaseTick ==
  ASSUME CaseInv, now \in Nat, now' = now + 1,
         UNCHANGED <<work, completions, completed, worker, sched, pending, processed, inFlight,
                     formed, life>>
  PROVE  CaseInv'
<1>. USE DEF CaseInv
<1>1. CaseTypeOK'
  BY DEF CaseTypeOK
<1>2. WaitersOK' /\ Decided' = Decided
  BY DEF WaitersOK, Decided
<1>3. RecordsOK'
  <2>1. \A r \in Requests : Past(life[r], now) => Past(life[r], now')
    <3>1. SUFFICES ASSUME NEW r \in Requests, Past(life[r], now) PROVE Past(life[r], now')
      OBVIOUS
    <3>2. /\ life[r].observed \in Int /\ life[r].admitted \in Int /\ life[r].dispatch \in Int
      BY CaseFields, StateFields DEF Times, NoTime
    <3>. QED
      BY <3>1, <3>2 DEF Past
  <2>. QED
    BY <2>1 DEF RecordsOK
<1>4. /\ Forming' = Forming /\ Executing' = Executing /\ Handed' = Handed /\ Served' = Served
      /\ \A k : Members(k)' = Members(k)
  BY DEF Forming, Executing, Handed, Served, BatchesIn, Members
<1>5. PlacesOK'
  BY <1>2, <1>4 DEF PlacesOK
<1>6. QueueOK'
  BY <1>4 DEF QueueOK, Ascending
<1>7. TokenOK'
  BY DEF TokenOK
<1>8. BatchesOK'
  <2>1. \A t \in Int : t <= now => t <= now'
    OBVIOUS
  <2>2. \A f \in formed : FormedOK(f) => FormedOK(f)'
    <3>1. \A f \in Formeds : f.dispatch \in Int
      BY DEF Formeds
    <3>. QED
      BY <2>1, <3>1, CaseFields DEF FormedOK
  <2>3. \A b \in Batches : OutOK(b) => OutOK(b)'
    BY <2>1, BatchFields DEF OutOK, Recording
  <2>4. \A b \in Batches : StartedOK(b) => StartedOK(b)'
    BY <2>1 DEF StartedOK
  <2>5. \A b \in Batches : ExecutedOK(b) => ExecutedOK(b)'
    BY <2>1, <2>4 DEF ExecutedOK
  <2>6. \A b \in Batches : CompletedOK(b) => CompletedOK(b)'
    BY <2>5 DEF CompletedOK, Recording
  <2>7. worker.at = "running" => worker.batch \in Batches
    BY CaseFields DEF TokenOK
  <2>. QED
    BY <2>2, <2>3, <2>4, <2>5, <2>6, <2>7, CaseFields DEF BatchesOK
<1>9. TogetherOK'
  <2>1. \A x : Whole(x)' <=> Whole(x)
    BY <1>4 DEF Whole
  <2>2. EqualArrivalsTogether'
    BY <1>4 DEF TogetherOK, EqualArrivalsTogether
  <2>. QED
    BY <2>1, <2>2 DEF TogetherOK
<1>. QED
  BY <1>1, <1>2, <1>3, <1>5, <1>6, <1>7, <1>8, <1>9

-----------------------------------------------------------------------------
(***************************************************************************)
(* The worker                                                              *)
(***************************************************************************)
\* Who is in the queues of batches.
LEMMA InQueues ==
  /\ BatchesIn(<<>>) = {} /\ IdsOf(NoBatch.requests) = {} /\ NoBatch \notin Batches
  /\ \A queue \in Seq(Batches) : Len(queue) = 1 =>
       /\ DOMAIN queue = {1} /\ queue[1] \in Batches /\ Head(queue) = queue[1] /\ Tail(queue) = <<>>
       /\ queue # <<>> /\ BatchesIn(queue) = IdsOf(queue[1].requests)
  /\ \A b : /\ Append(<<>>, b) = <<b>> /\ Len(<<b>>) = 1 /\ DOMAIN <<b>> = {1} /\ <<b>>[1] = b
            /\ BatchesIn(<<b>>) = IdsOf(b.requests)
<1>1. BatchesIn(<<>>) = {} /\ IdsOf(NoBatch.requests) = {}
  BY DEF BatchesIn, IdsOf, NoBatch
<1>2. NoBatch \notin Batches
  BY DEF NoBatch, Batches, NoBatchId
<1>3. ASSUME NEW queue \in Seq(Batches), Len(queue) = 1
      PROVE  /\ DOMAIN queue = {1} /\ queue[1] \in Batches /\ Head(queue) = queue[1] /\ Tail(queue) = <<>>
             /\ queue # <<>> /\ BatchesIn(queue) = IdsOf(queue[1].requests)
  <2>1. DOMAIN queue = {1} /\ queue[1] \in Batches /\ Head(queue) = queue[1] /\ queue # <<>>
    BY <1>3
  <2>2. Tail(queue) = <<>>
    <3>1. Tail(queue) \in Seq(Batches) /\ Len(Tail(queue)) = 0
      BY <1>3
    <3>. QED
      BY <3>1, EmptySeq
  <2>. QED
    BY <2>1, <2>2 DEF BatchesIn
<1>4. ASSUME NEW b
      PROVE  /\ Append(<<>>, b) = <<b>> /\ Len(<<b>>) = 1 /\ DOMAIN <<b>> = {1} /\ <<b>>[1] = b
             /\ BatchesIn(<<b>>) = IdsOf(b.requests)
  <2>1. Append(<<>>, b) = <<b>> /\ Len(<<b>>) = 1 /\ DOMAIN <<b>> = {1} /\ <<b>>[1] = b
    OBVIOUS
  <2>. QED
    BY <2>1 DEF BatchesIn
<1>. QED
  BY <1>1, <1>2, <1>3, <1>4

\* The batch that is out moves on, and its requests with it.
LEMMA OutMoves ==
  ASSUME CaseInv, CaseTypeOK', TokenOK', Handed' = Handed,
         UNCHANGED <<now, completed, sched, pending, processed, inFlight, formed, life>>,
         \A k \in DOMAIN work' : OutOK(work'[k]) /\ Whole(work'[k].requests),
         worker'.at = "running" => OutOK(worker'.batch) /\ StartedOK(worker'.batch),
         Whole(worker'.batch.requests),
         \A k \in DOMAIN completions' :
           OutOK(completions'[k]) /\ ExecutedOK(completions'[k]) /\ Whole(completions'[k].requests)
  PROVE  CaseInv'
<1>. USE DEF CaseInv
<1>2. WaitersOK' /\ Decided' = Decided
  BY DEF WaitersOK, Decided
<1>3. RecordsOK'
  BY DEF RecordsOK
<1>4. Forming' = Forming /\ Served' = Served /\ \A k : Members(k)' = Members(k)
  BY DEF Forming, Served, Members
<1>5. PlacesOK'
  BY <1>2, <1>4 DEF PlacesOK
<1>6. QueueOK'
  BY <1>4 DEF QueueOK, Ascending
<1>8. BatchesOK'
  <2>1. \A b : /\ (FormedOK(b)' <=> FormedOK(b)) /\ (OutOK(b)' <=> OutOK(b))
               /\ (StartedOK(b)' <=> StartedOK(b)) /\ (ExecutedOK(b)' <=> ExecutedOK(b))
               /\ (CompletedOK(b)' <=> CompletedOK(b))
    BY DEF FormedOK, OutOK, StartedOK, ExecutedOK, CompletedOK, Recording
  <2>. QED
    BY <2>1 DEF BatchesOK
<1>9. TogetherOK'
  <2>1. \A x : Whole(x)' <=> Whole(x)
    BY <1>4 DEF Whole
  <2>2. EqualArrivalsTogether'
    BY <1>4 DEF TogetherOK, EqualArrivalsTogether
  <2>. QED
    BY <2>1, <2>2 DEF TogetherOK
<1>. QED
  BY <1>2, <1>3, <1>5, <1>6, <1>8, <1>9

\* The worker takes the batch that was handed over.
LEMMA TakeWorkKeeps ==
  ASSUME CaseInv, now \in Nat, TakeWork
  PROVE  CaseInv'
<1>. USE DEF CaseInv
<1>. DEFINE b == [Head(work) EXCEPT !.start = now]
<1>1. /\ worker.at = "idle" /\ work # <<>> /\ worker' = [at |-> "running", batch |-> b]
      /\ work' = Tail(work)
      /\ UNCHANGED <<now, completions, completed, sched, pending, processed, inFlight, formed, life>>
  BY DEF TakeWork, coordinator
<1>2. /\ inFlight /\ Len(work) = 1 /\ completions = <<>> /\ worker.batch = NoBatch
  BY <1>1 DEF TokenOK
<1>3. /\ DOMAIN work = {1} /\ work[1] \in Batches /\ Head(work) = work[1] /\ work' = <<>>
      /\ BatchesIn(work) = IdsOf(work[1].requests)
  BY <1>1, <1>2, InQueues DEF CaseTypeOK
<1>4. /\ b \in Batches /\ b.id = work[1].id /\ b.requests = work[1].requests
      /\ b.dispatch = work[1].dispatch /\ b.start = now
  BY <1>3 DEF Batches, Times
<1>. HIDE DEF b
<1>5. worker'.at = "running" /\ worker'.batch = b /\ work' = <<>> /\ completions' = <<>>
  BY <1>1, <1>2, <1>3
<1>6. CaseTypeOK'
  BY <1>1, <1>4, <1>5 DEF CaseTypeOK
<1>7. TokenOK'
  BY <1>1, <1>2, <1>4, <1>5, InQueues DEF TokenOK
<1>8. Handed' = Handed
  BY <1>2, <1>3, <1>4, <1>5, InQueues DEF Handed, Executing
<1>9. OutOK(work[1]) /\ Whole(work[1].requests)
  BY <1>3 DEF BatchesOK, TogetherOK
<1>10. OutOK(b) /\ Whole(b.requests)
  BY <1>4, <1>9 DEF OutOK, Recording
<1>11. StartedOK(b)
  BY <1>4, <1>9 DEF StartedOK, OutOK
<1>. QED
  BY <1>1, <1>5, <1>6, <1>7, <1>8, <1>10, <1>11, OutMoves

\* The backend returns or raises: the batch is executed.
LEMMA ExecuteKeeps ==
  ASSUME CaseInv, now \in Nat, NEW failed \in BOOLEAN, Execute(failed)
  PROVE  CaseInv'
<1>. USE DEF CaseInv
<1>. DEFINE b == worker.batch
            c == [b EXCEPT !.first = now, !.finish = now, !.failed = failed]
<1>1. /\ worker.at = "running" /\ worker' = [at |-> "notifying", batch |-> NoBatch]
      /\ completions' = Append(completions, c)
      /\ UNCHANGED <<now, work, completed, sched, pending, processed, inFlight, formed, life>>
  BY DEF Execute, coordinator
<1>2. inFlight /\ work = <<>> /\ completions = <<>> /\ b # NoBatch
  BY <1>1 DEF TokenOK
<1>3. b \in Batches
  BY <1>2, CaseFields
<1>4. /\ c \in Batches /\ c.id = b.id /\ c.requests = b.requests
      /\ c.dispatch = b.dispatch /\ c.start = b.start /\ c.first = now /\ c.finish = now
  BY <1>3 DEF Batches, Times
<1>. HIDE DEF c
<1>5. /\ worker'.at = "notifying" /\ worker'.batch = NoBatch /\ work' = <<>> /\ completions' = <<c>>
  BY <1>1, <1>2, InQueues
<1>6. CaseTypeOK'
  BY <1>1, <1>4, <1>5 DEF CaseTypeOK
<1>7. TokenOK'
  BY <1>1, <1>2, <1>5, InQueues DEF TokenOK
<1>8. Handed' = Handed
  BY <1>2, <1>4, <1>5, InQueues DEF Handed, Executing
<1>9. OutOK(b) /\ StartedOK(b) /\ Whole(b.requests)
  BY <1>1 DEF BatchesOK, TogetherOK
<1>10. OutOK(c) /\ StartedOK(c) /\ Whole(c.requests)
  BY <1>4, <1>9 DEF OutOK, Recording, StartedOK
<1>11. ExecutedOK(c)
  BY <1>4, <1>10 DEF ExecutedOK, StartedOK
<1>12. Whole(NoBatch.requests)
  BY InQueues DEF Whole
<1>13. \A k \in DOMAIN completions' : completions'[k] = c
  BY <1>5
<1>14. DOMAIN work' = {}
  BY <1>5
<1>. QED
  BY <1>1, <1>5, <1>6, <1>7, <1>8, <1>10, <1>11, <1>12, <1>13, <1>14, OutMoves

\* The worker wakes the coordinator.
LEMMA NotifyKeeps ==
  ASSUME CaseInv, Notify
  PROVE  CaseInv'
<1>. USE DEF CaseInv
<1>1. /\ worker.at = "notifying" /\ worker' = [worker EXCEPT !.at = "idle"]
      /\ UNCHANGED <<now, work, completions, completed, sched, pending, processed, inFlight, formed, life>>
  BY DEF Notify, coordinator
<1>2. /\ worker'.at = "idle" /\ worker'.batch = worker.batch
      /\ worker' \in [at : {"idle", "running", "notifying"}, batch : Batches \cup {NoBatch}]
  BY <1>1 DEF CaseTypeOK
<1>3. CaseTypeOK'
  BY <1>1, <1>2 DEF CaseTypeOK
<1>4. TokenOK'
  BY <1>1, <1>2 DEF TokenOK
<1>5. Handed' = Handed
  BY <1>1, <1>2 DEF Handed, Executing, BatchesIn
<1>6. /\ \A k \in DOMAIN work' : OutOK(work'[k]) /\ Whole(work'[k].requests)
      /\ Whole(worker'.batch.requests) /\ worker'.at # "running"
      /\ \A k \in DOMAIN completions' :
           OutOK(completions'[k]) /\ ExecutedOK(completions'[k]) /\ Whole(completions'[k].requests)
  BY <1>1, <1>2 DEF BatchesOK, TogetherOK
<1>. QED
  BY <1>1, <1>3, <1>4, <1>5, <1>6, OutMoves

-----------------------------------------------------------------------------
(***************************************************************************)
(* A completion is collected                                               *)
(***************************************************************************)
\* The scheduler while the worker is busy.
LEMMA BusyKeeps ==
  ASSUME NEW s \in SchedulerType(Requests), NEW t \in Nat
  PROVE  /\ Busy(s, t) \in SchedulerType(Requests)
         /\ Busy(s, t).queue = s.queue /\ Busy(s, t).ordinal = s.ordinal
         /\ Busy(s, t).closed = s.closed
<1>. DEFINE m == MoveTo(s, t)
<1>1. /\ m \in SchedulerType(Requests) /\ m.queue = s.queue /\ m.ordinal = s.ordinal
      /\ m.closed = s.closed
  BY DEF MoveTo, SchedulerType
<1>. HIDE DEF m
<1>2. m.policy = "fixed_window" => GridAfter(t) \in Nat
  <2>1. SUFFICES ASSUME m.policy = "fixed_window" PROVE GridAfter(t) \in Nat
    OBVIOUS
  <2>2. Window \in Nat /\ Window > 0
    BY <1>1, <2>1, SchedulerFields, Numbers, ConfigAssumption
  <2>3. t \div Window \in Nat
    BY <2>2
  <2>. QED
    BY <2>2, <2>3 DEF GridAfter
<1>3. /\ SkipWindows(m, t) \in SchedulerType(Requests)
      /\ SkipWindows(m, t).queue = m.queue /\ SkipWindows(m, t).ordinal = m.ordinal
      /\ SkipWindows(m, t).closed = m.closed
  <2>. DEFINE w == IF m.policy = "fixed_window" /\ m.nextWindow <= t THEN GridAfter(t) ELSE m.nextWindow
  <2>1. w \in Nat \cup {NoTime}
    BY <1>1, <1>2, SchedulerFields
  <2>. HIDE DEF w
  <2>2. SkipWindows(m, t) = [policy |-> m.policy, queue |-> m.queue, now |-> m.now,
                             ordinal |-> m.ordinal, closed |-> m.closed, nextWindow |-> w]
    BY DEF SkipWindows, w
  <2>. QED
    BY <1>1, <2>1, <2>2 DEF SchedulerType
<1>4. Busy(s, t) = m \/ Busy(s, t) = SkipWindows(m, t)
  BY DEF Busy, m
<1>. QED
  BY <1>1, <1>3, <1>4

\* What the end of its batch adds to the record of a request.
LEMMA EndState ==
  ASSUME NEW x \in StateType, NEW t \in Nat, NEW n \in Nat, StateOK(x, t), Past(x, n), IsHanded(x),
         NEW b \in Batches, x.dispatch = b.dispatch, x.batch = b.id,
         b.start \in Nat, b.first \in Nat, b.finish \in Nat,
         b.dispatch <= b.start, b.start <= b.first, b.first <= b.finish
  PROVE  LET y == Recorded(x, b)
         IN  /\ y \in StateType /\ StateOK(y, t) /\ Past(y, n) /\ IsServed(y)
             /\ y.observed = x.observed /\ y.admitted = x.admitted /\ y.dispatch = b.dispatch
             /\ y.batch = b.id /\ y.start = b.start /\ y.terminal = b.finish
             /\ y.status = IF b.failed THEN "failed" ELSE "completed"
             /\ ~b.failed => y.first = b.first /\ y.finished = b.finish
<1>. DEFINE y == Recorded(x, b)
<1>1. CASE b.failed
  <2>1. y = [x EXCEPT !.status = "failed", !.reason = TRUE, !.start = b.start, !.terminal = b.finish]
    BY <1>1 DEF Recorded
  <2>2. y \in StateType
    BY <2>1 DEF StateType, Batches
  <2>3. /\ y.observed = x.observed /\ y.status = "failed" /\ y.reason = TRUE /\ y.batch = x.batch
        /\ y.admitted = x.admitted /\ y.dispatch = x.dispatch /\ y.start = b.start
        /\ y.first = x.first /\ y.finished = x.finished /\ y.terminal = b.finish
    BY <2>1 DEF StateType
  <2>. HIDE DEF y
  <2>4. StateOK(y, t) /\ Past(y, n) /\ IsServed(y)
    BY Numbers, <2>2, <2>3 DEF StateType, StateOK, Past, IsHanded, IsServed, NoTime, NoBatchId, Batches
  <2>. QED
    BY <1>1, <2>2, <2>3, <2>4 DEF y
<1>2. CASE ~b.failed
  <2>1. y = [x EXCEPT !.status = "completed", !.start = b.start, !.terminal = b.finish,
                      !.first = b.first, !.finished = b.finish]
    BY <1>2 DEF Recorded
  <2>2. y \in StateType
    BY <2>1 DEF StateType, Batches
  <2>3. /\ y.observed = x.observed /\ y.status = "completed" /\ y.reason = x.reason /\ y.batch = x.batch
        /\ y.admitted = x.admitted /\ y.dispatch = x.dispatch /\ y.start = b.start
        /\ y.first = b.first /\ y.finished = b.finish /\ y.terminal = b.finish
    BY <2>1 DEF StateType
  <2>. HIDE DEF y
  <2>4. StateOK(y, t) /\ Past(y, n) /\ IsServed(y)
    BY Numbers, <2>2, <2>3 DEF StateType, StateOK, Past, IsHanded, IsServed, NoTime, NoBatchId, Batches
  <2>. QED
    BY <1>2, <2>2, <2>3, <2>4 DEF y
<1>. QED
  BY <1>1, <1>2

\* What is completed stays together.
LEMMA EqualStays ==
  ASSUME EqualArrivalsTogether, completed' = completed,
         \A s \in Requests : life[s].status = "rejected" => life'[s].status = "rejected"
  PROVE  EqualArrivalsTogether'
  BY DEF EqualArrivalsTogether, Members

\* What a record says is one thing.
LEMMA OnePlace ==
  ASSUME NEW x \in StateType, NEW t \in Nat, StateOK(x, t)
  PROVE  /\ IsHanded(x) => ~IsServed(x) /\ ~IsWaiting(x) /\ ~IsAdmitted(x) /\ x.status # "rejected"
         /\ IsServed(x) => ~IsWaiting(x) /\ ~IsAdmitted(x) /\ x.status # "rejected"
         /\ IsAdmitted(x) => ~IsWaiting(x) /\ x.status = "pending"
         /\ x.status = "rejected" => ~IsWaiting(x)
         /\ IsWaiting(x) \/ IsAdmitted(x) \/ IsHanded(x) \/ IsServed(x) \/ x.status = "rejected"
<1>1. x.status \in {"pending", "completed", "failed", "rejected"}
  BY StateFields
<1>2. /\ x.status = "completed" \/ x.status = "failed" => x.dispatch # NoTime
      /\ x.status = "rejected" => x.admitted = NoTime
      /\ x.dispatch # NoTime => x.admitted # NoTime
  BY DEF StateOK
<1>. QED
  BY <1>1, <1>2 DEF IsHanded, IsServed, IsWaiting, IsAdmitted

\* What the invariant says of one record.
LEMMA StatesOK ==
  ASSUME CaseInv, NEW r \in Requests
  PROVE  life[r] \in StateType /\ trace[r] \in Nat /\ StateOK(life[r], trace[r])
  BY CaseFields, Numbers DEF CaseInv, RecordsOK

\* The worker's batch has been executed.
LEMMA CollectedKeeps ==
  ASSUME CaseInv, now \in Nat, processed \in Nat, completions # <<>>, collect_completions,
         UNCHANGED <<now, work, worker, pending, processed, formed>>
  PROVE  CaseInv' /\ ~inFlight' /\ sched' = Busy(sched, now)
<1>. USE DEF CaseInv
<1>a. PICK b : b = completions[1]
  OBVIOUS
<1>b. PICK n : n = Len(completed)
  OBVIOUS
<1>. DEFINE ids == IdsOf(b.requests)
<1>1. /\ inFlight /\ Len(completions) = 1 /\ work = <<>> /\ worker.at # "running"
      /\ worker.batch = NoBatch /\ formed = {}
  BY DEF TokenOK
<1>2. /\ b \in Batches /\ Head(completions) = b /\ Tail(completions) = <<>>
      /\ BatchesIn(completions) = ids /\ 1 \in DOMAIN completions
  BY <1>a, <1>1, InQueues DEF CaseTypeOK
<1>3. /\ completions' = <<>> /\ sched' = Busy(sched, now) /\ completed' = Append(completed, b)
      /\ inFlight' = FALSE
      /\ record([r \in ids |-> Recorded(life[r], b)])
  BY <1>1, <1>2 DEF collect_completions
<1>4. /\ b.id \in Nat /\ b.dispatch \in Nat /\ ids \subseteq Requests
  BY <1>2, BatchFields
<1>5. OutOK(b) /\ ExecutedOK(b) /\ Whole(b.requests)
  BY <1>a, <1>2 DEF BatchesOK, TogetherOK
<1>6. Handed = ids
  BY <1>1, <1>2, InQueues DEF Handed, Executing
<1>7. \A r \in Requests : r \in ids <=> IsHanded(life[r])
  BY <1>4, <1>6 DEF PlacesOK
<1>. HIDE DEF ids
<1>8. /\ life' = [r \in Requests |-> IF r \in ids THEN Recorded(life[r], b) ELSE life[r]]
  BY <1>3 DEF record
<1>9. ASSUME NEW r \in ids
      PROVE  /\ r \in Requests /\ life'[r] = Recorded(life[r], b)
             /\ life'[r] \in StateType /\ StateOK(life'[r], trace[r]) /\ Past(life'[r], now)
             /\ IsServed(life'[r])
             /\ life'[r].observed = life[r].observed /\ life'[r].admitted = life[r].admitted
             /\ life'[r].dispatch = b.dispatch /\ life[r].dispatch = b.dispatch
             /\ life'[r].batch = b.id /\ life'[r].start = b.start /\ life'[r].terminal = b.finish
             /\ life'[r].status = IF b.failed THEN "failed" ELSE "completed"
             /\ ~b.failed => life'[r].first = b.first /\ life'[r].finished = b.finish
  <2>1. /\ r \in Requests /\ IsHanded(life[r]) /\ life'[r] = Recorded(life[r], b)
    BY <1>4, <1>7, <1>8
  <2>2. life[r] \in StateType /\ trace[r] \in Nat /\ StateOK(life[r], trace[r])
    BY <2>1, StatesOK
  <2>3. Past(life[r], now)
    <3>1. ~IsWaiting(life[r])
      BY <2>1, <2>2, OnePlace
    <3>2. ~(Decided < r)
      BY <2>1, <3>1 DEF PlacesOK
    <3>3. Decided \in Int /\ Decided <= processed /\ processed \in Int /\ r \in Nat
      BY <2>1, CaseFields, Numbers DEF Decided, WaitersOK
    <3>. QED
      BY <2>1, <3>2, <3>3 DEF RecordsOK
  <2>4. life[r].dispatch = b.dispatch /\ life[r].batch = b.id
    BY <1>5, <1>9 DEF OutOK, Recording, ids
  <2>5. /\ b.start \in Nat /\ b.first \in Nat /\ b.finish \in Nat
        /\ b.dispatch <= b.start /\ b.start <= b.first /\ b.first <= b.finish
    BY <1>5 DEF ExecutedOK, StartedOK
  <2>. QED
    BY <1>2, <2>1, <2>2, <2>3, <2>4, <2>5, EndState
<1>10. \A r \in Requests : r \notin ids => life'[r] = life[r]
  BY <1>8
<1>11. /\ DOMAIN completed = 1..n /\ n \in Nat /\ DOMAIN completed' = 1..(n + 1)
       /\ \A k \in 1..n : completed'[k] = completed[k]
       /\ completed'[n + 1] = b
       /\ completed' \in Seq(Batches) /\ Len(completed') = n + 1
  BY <1>b, <1>2, <1>3, CaseFields DEF CaseTypeOK
<1>12. /\ sched' \in SchedulerType(Requests) /\ sched'.queue = sched.queue
       /\ sched'.ordinal = sched.ordinal
  BY <1>3, BusyKeeps, CaseFields
<1>13. CaseTypeOK'
  <2>1. life' \in [Requests -> StateType]
    <3>1. \A r \in Requests : (IF r \in ids THEN Recorded(life[r], b) ELSE life[r]) \in StateType
      BY <1>9, <1>8, CaseFields
    <3>. QED
      BY <1>8, <3>1
  <2>2. completions' \in Seq(Batches)
    BY <1>3
  <2>. QED
    BY <1>3, <1>11, <1>12, <2>1, <2>2 DEF CaseTypeOK
<1>14. WaitersOK' /\ Decided' = Decided
  <2>1. \A r \in Requests : life'[r].observed = life[r].observed
    BY <1>9, <1>10
  <2>2. \A k \in DOMAIN pending : pending[k].id \in Requests
    BY CaseFields DEF Arrived
  <2>3. Decided' = Decided
    BY DEF Decided
  <2>. QED
    BY <2>1, <2>2, <2>3 DEF WaitersOK
<1>15. RecordsOK'
  BY <1>9, <1>10 DEF RecordsOK
<1>16. /\ Forming' = Forming /\ Handed' = {}
  <2>1. Handed' = {}
    BY <1>1, <1>3, InQueues DEF Handed, Executing
  <2>. QED
    BY <2>1 DEF Forming
<1>17. Served' = Served \cup ids
  <2>1. /\ \A k \in 1..n : Members(k)' = Members(k)
        /\ Members(n + 1)' = ids
    BY <1>11 DEF Members, ids
  <2>. QED
    BY <1>11, <2>1 DEF Served
<1>18. \A r \in Requests : /\ IsWaiting(life'[r]) <=> IsWaiting(life[r])
                           /\ IsAdmitted(life'[r]) <=> IsAdmitted(life[r])
                           /\ IsHanded(life'[r]) <=> r \notin ids /\ IsHanded(life[r])
                           /\ IsServed(life'[r]) <=> r \in ids \/ IsServed(life[r])
                           /\ life[r].status = "rejected" => life'[r].status = "rejected"
  <2>1. ASSUME NEW r \in ids
        PROVE  /\ ~IsWaiting(life'[r]) /\ ~IsAdmitted(life'[r]) /\ ~IsHanded(life'[r]) /\ IsServed(life'[r])
               /\ ~IsWaiting(life[r]) /\ ~IsAdmitted(life[r]) /\ life[r].status # "rejected"
    <3>1. /\ r \in Requests /\ life[r] \in StateType /\ StateOK(life[r], trace[r]) /\ trace[r] \in Nat
          /\ life'[r] \in StateType /\ StateOK(life'[r], trace[r]) /\ IsServed(life'[r])
      BY <1>9, StatesOK
    <3>2. IsHanded(life[r])
      BY <1>7, <3>1
    <3>. QED
      BY <3>1, <3>2, OnePlace
  <2>. QED
    BY <1>10, <2>1
<1>19. PlacesOK'
  <2>1. \A r \in Requests : r \in Handed <=> r \in ids
    BY <1>6
  <2>. QED
    BY <1>4, <1>7, <1>12, <1>14, <1>16, <1>17, <1>18 DEF PlacesOK
<1>20. QueueOK'
  BY <1>12, <1>16 DEF QueueOK, Ascending
<1>21. TokenOK'
  BY <1>1, <1>3, InQueues DEF TokenOK
<1>22. \A k \in 1..n : \A r \in IdsOf(completed[k].requests) : r \notin ids /\ r \in Requests
  <2>1. SUFFICES ASSUME NEW k \in 1..n, NEW r \in IdsOf(completed[k].requests)
                 PROVE  r \notin ids /\ r \in Requests
    OBVIOUS
  <2>2. r \in Served
    BY <1>11 DEF Served, Members
  <2>3. r \in Requests /\ IsServed(life[r])
    BY <2>2 DEF PlacesOK
  <2>4. ~IsHanded(life[r])
    BY <2>3, StatesOK, OnePlace
  <2>. QED
    BY <1>7, <2>3, <2>4
<1>23. \A k \in 1..n : CompletedOK(completed[k])'
  <2>1. SUFFICES ASSUME NEW k \in 1..n PROVE CompletedOK(completed[k])'
    OBVIOUS
  <2>2. completed'[k] = completed[k] /\ CompletedOK(completed[k])
    BY <1>11 DEF BatchesOK
  <2>3. \A r \in IdsOf(completed[k].requests) : life'[r] = life[r]
    BY <1>10, <1>22
  <2>4. ExecutedOK(completed[k])' /\ Recording(completed[k])'
    BY <2>2, <2>3 DEF CompletedOK, ExecutedOK, StartedOK, Recording
  <2>. QED
    BY <2>2, <2>3, <2>4 DEF CompletedOK
<1>24. CompletedOK(b)'
  <2>1. ExecutedOK(b)'
    BY <1>5 DEF ExecutedOK, StartedOK
  <2>2. Recording(b)'
    BY <1>5, <1>9 DEF Recording, OutOK, ids
  <2>. QED
    BY <1>9, <2>1, <2>2 DEF CompletedOK, ids
<1>25. BatchesOK'
  <2>1. \A k \in 1..n : /\ completed[k].id = k - 1 /\ completed[k].finish <= b.dispatch
                        /\ \A l \in 1..(k - 1) : completed[l].finish <= completed[k].dispatch
    BY <1>5, <1>11 DEF BatchesOK, OutOK
  <2>2. b.id = n
    BY <1>5, <1>b DEF OutOK
  <2>3. \A k \in 1..(n + 1) :
          /\ completed'[k].id = k - 1 /\ CompletedOK(completed[k])'
          /\ \A l \in 1..(k - 1) : completed'[l].finish <= completed'[k].dispatch
    <3>1. SUFFICES ASSUME NEW k \in 1..(n + 1)
                   PROVE  /\ completed'[k].id = k - 1 /\ CompletedOK(completed[k])'
                          /\ \A l \in 1..(k - 1) : completed'[l].finish <= completed'[k].dispatch
      OBVIOUS
    <3>2. \A l \in 1..(k - 1) : l \in 1..n
      BY <1>11
    <3>3. CASE k \in 1..n
      BY <1>11, <1>23, <2>1, <3>2, <3>3
    <3>4. CASE k = n + 1
      BY <1>11, <1>24, <2>1, <2>2, <3>2, <3>4
    <3>. QED
      BY <1>11, <3>3, <3>4
  <2>4. sched'.ordinal = Len(completed') + (IF inFlight' \/ formed' # {} THEN 1 ELSE 0)
    BY <1>1, <1>3, <1>b, <1>11, <1>12 DEF BatchesOK
  <2>5. (\A f \in formed : FormedOK(f))' /\ (\A k \in DOMAIN work : OutOK(work[k]))'
    BY <1>1
  <2>6. (worker.at = "running" => OutOK(worker.batch) /\ StartedOK(worker.batch))'
    BY <1>1
  <2>7. (\A k \in DOMAIN completions : OutOK(completions[k]) /\ ExecutedOK(completions[k]))'
    BY <1>3
  <2>. QED
    BY <1>11, <2>3, <2>4, <2>5, <2>6, <2>7 DEF BatchesOK
<1>26. EqualArrivalsTogether'
  <2>1. SUFFICES ASSUME NEW k \in 1..(n + 1), Short(completed'[k].requests),
                        NEW r \in Members(k)', NEW s \in Requests, trace[s] = trace[r]
                 PROVE  life'[s].status = "rejected" \/ \E l \in 1..k : s \in Members(l)'
    BY <1>11 DEF EqualArrivalsTogether, Short
  <2>2. \A l \in 1..n : Members(l)' = Members(l)
    BY <1>11 DEF Members
  <2>3. CASE k \in 1..n
    <3>1. life[s].status = "rejected" \/ \E l \in 1..k : s \in Members(l)
      BY <1>11, <2>1, <2>2, <2>3 DEF TogetherOK, EqualArrivalsTogether, Short
    <3>2. \A l \in 1..k : l \in 1..n
      BY <1>11, <2>3
    <3>. QED
      BY <1>18, <2>2, <3>1, <3>2
  <2>4. CASE k = n + 1
    <3>1. Members(n + 1)' = ids
      BY <1>11 DEF Members, ids
    <3>2. life[s].status = "rejected" \/ s \in ids \/ s \in Served
      BY <1>5, <1>11, <2>1, <2>4, <3>1 DEF Whole, ids
    <3>3. \A l \in 1..n : l \in 1..k
      BY <1>11, <2>4
    <3>4. k \in 1..k
      BY <1>11, <2>4
    <3>. QED
      BY <1>11, <1>18, <2>2, <2>4, <3>1, <3>2, <3>3, <3>4 DEF Served
  <2>. QED
    BY <1>11, <2>3, <2>4
<1>27. TogetherOK'
  <2>1. Whole(worker.batch.requests)'
    BY <1>17, <1>18 DEF TogetherOK, Whole
  <2>. QED
    BY <1>1, <1>3, <1>26, <2>1 DEF TogetherOK
<1>. QED
  BY <1>3, <1>13, <1>14, <1>15, <1>19, <1>20, <1>21, <1>25, <1>27

\* collect_completions, with or without one.
LEMMA CollectKeeps ==
  ASSUME CaseInv, now \in Nat, processed \in Nat, collect_completions,
         UNCHANGED <<now, work, worker, pending, processed, formed>>
  PROVE  /\ CaseInv'
         /\ sched'.queue = sched.queue /\ sched'.closed = sched.closed
         /\ inFlight' => inFlight
<1>1. CASE completions = <<>>
  <2>1. UNCHANGED <<sched, completions, completed, inFlight, life>>
    BY <1>1 DEF collect_completions
  <2>. QED
    BY <2>1, CaseStays, SameScheduler
<1>2. CASE completions # <<>>
  <2>1. sched \in SchedulerType(Requests)
    BY CaseFields DEF CaseInv
  <2>. QED
    BY <1>2, <2>1, CollectedKeeps, BusyKeeps
<1>. QED
  BY <1>1, <1>2

-----------------------------------------------------------------------------
(***************************************************************************)
(* A group is recorded                                                     *)
(***************************************************************************)
\* What the arrival of a request adds to its record.
LEMMA ObservedState ==
  ASSUME NEW x \in StateType, NEW t \in Nat, NEW n \in Nat, StateOK(x, t), IsWaiting(x),
         NEW o \in Nat, t <= o, o <= n
  PROVE  LET y == [x EXCEPT !.observed = o]
         IN  /\ y \in StateType /\ StateOK(y, t) /\ Past(y, n) /\ y.observed = o
             /\ y.status = x.status /\ y.reason = x.reason /\ y.batch = x.batch
             /\ y.admitted = x.admitted /\ y.dispatch = x.dispatch /\ y.start = x.start
             /\ y.first = x.first /\ y.finished = x.finished /\ y.terminal = x.terminal
<1>. DEFINE y == [x EXCEPT !.observed = o]
<1>1. y \in StateType
  BY DEF StateType
<1>2. /\ y.observed = o /\ y.status = x.status /\ y.reason = x.reason /\ y.batch = x.batch
      /\ y.admitted = x.admitted /\ y.dispatch = x.dispatch /\ y.start = x.start
      /\ y.first = x.first /\ y.finished = x.finished /\ y.terminal = x.terminal
  BY DEF StateType
<1>. HIDE DEF y
<1>3. x.admitted = NoTime /\ x.dispatch = NoTime /\ x.status = "pending"
  BY DEF IsWaiting, StateOK
<1>4. StateOK(y, t) /\ Past(y, n)
  BY <1>2, <1>3 DEF StateOK, Past, NoTime
<1>. QED
  BY <1>1, <1>2, <1>4 DEF y

\* The records change, but where the requests are and what the batches say stays.
SameRecords ==
  /\ life' \in [Requests -> StateType]
  /\ \A r \in Requests :
       /\ life'[r].status = life[r].status /\ life'[r].batch = life[r].batch
       /\ life'[r].admitted = life[r].admitted /\ life'[r].dispatch = life[r].dispatch
       /\ life'[r].start = life[r].start /\ life'[r].first = life[r].first
       /\ life'[r].finished = life[r].finished /\ life'[r].terminal = life[r].terminal

\* A group joins the waiters.
LEMMA GroupKeeps ==
  ASSUME LineInv, CaseInv, arrivals # <<>>, Head(arrivals).kind = "group",
         handle_notification(Head(arrivals)),
         UNCHANGED <<now, work, worker, formed>>
  PROVE  CaseInv' /\ sched' = sched /\ inFlight' = inFlight
<1>. USE DEF CaseInv
<1>. DEFINE group == Head(arrivals).group
            n == Len(group)
<1>3. PICK p : p = processed
  OBVIOUS
<1>4. /\ group \in Seq(Arrived) /\ n \in Nat \ {0} /\ DOMAIN group = 1..n
      /\ \A k \in 1..n : group[k].id = p + k /\ Timely(group[k])
      /\ p + n <= Published /\ p \in Nat /\ now \in Nat /\ p <= Last
  <2>1. /\ group \in Seq(Arrived) /\ n \in Nat \ {0} /\ DOMAIN group = 1..n
        /\ \A k \in 1..n : group[k].id = p + k /\ Timely(group[k])
        /\ p + n <= Published
    BY <1>3, HeadFacts
  <2>2. LineTypeOK
    BY DEF LineInv
  <2>3. p \in Nat /\ now \in Nat /\ p <= Last
    BY <1>3, <2>2, LineFields, Numbers DEF LineTypeOK
  <2>. QED
    BY <2>1, <2>3
<1>5. \A k \in 1..n : group[k] \in Arrived /\ group[k].id \in Requests /\ group[k].observed \in Nat
  <2>1. \A k \in 1..n : group[k] \in Arrived
    BY <1>4
  <2>2. \A a \in Arrived : a.id \in Requests /\ a.observed \in Nat
    BY DEF Arrived
  <2>. QED
    BY <2>1, <2>2
<1>6. /\ pending' = pending \o group /\ processed' = p + n
      /\ UNCHANGED <<sched, completions, completed, inFlight>>
      /\ life' = [r \in Requests |->
              IF \E k \in DOMAIN group : group[k].id = r
              THEN [life[r] EXCEPT !.observed =
                      (CHOOSE m \in {group[k] : k \in DOMAIN group} : m.id = r).observed]
              ELSE life[r]]
  BY <1>3 DEF handle_notification
<1>2. n = Len(group)
  OBVIOUS
<1>. HIDE DEF group, n
<1>7. ASSUME NEW k \in 1..n
      PROVE  (CHOOSE m \in {group[j] : j \in DOMAIN group} : m.id = p + k) = group[k]
  <2>1. \A m \in {group[j] : j \in DOMAIN group} : m.id = p + k => m = group[k]
    BY <1>4
  <2>2. group[k] \in {group[j] : j \in DOMAIN group} /\ group[k].id = p + k
    BY <1>4
  <2>. QED
    BY <2>1, <2>2
<1>8. ASSUME NEW k \in 1..n
      PROVE  /\ p + k \in Requests
             /\ life'[p + k] = [life[p + k] EXCEPT !.observed = group[k].observed]
  <2>1. p + k \in Requests /\ \E j \in DOMAIN group : group[j].id = p + k
    BY <1>4, <1>5
  <2>. QED
    BY <1>6, <1>7, <2>1
<1>9. \A r \in Requests : (\A k \in 1..n : r # p + k) => life'[r] = life[r]
  BY <1>4, <1>6
<1>10. Decided \in Int /\ Decided <= p /\ Decided = p - Len(pending) /\ Len(pending) \in Nat
  BY <1>3, <1>4, CaseFields DEF Decided, WaitersOK
<1>11. ASSUME NEW k \in 1..n
       PROVE  LET y == life'[p + k]
                  x == life[p + k]
              IN  /\ y \in StateType /\ StateOK(y, trace[p + k]) /\ Past(y, now)
                  /\ y.observed = group[k].observed
                  /\ y.status = x.status /\ y.reason = x.reason /\ y.batch = x.batch
                  /\ y.admitted = x.admitted /\ y.dispatch = x.dispatch /\ y.start = x.start
                  /\ y.first = x.first /\ y.finished = x.finished /\ y.terminal = x.terminal
  <2>1. p + k \in Requests /\ group[k].observed \in Nat
    BY <1>5, <1>8
  <2>2. life[p + k] \in StateType /\ trace[p + k] \in Nat /\ StateOK(life[p + k], trace[p + k])
    BY <2>1, StatesOK
  <2>3. Decided < p + k
    BY <1>4, <1>10
  <2>4. IsWaiting(life[p + k])
    BY <2>1, <2>3 DEF PlacesOK
  <2>5. trace[p + k] <= group[k].observed /\ group[k].observed <= now
    BY <1>4 DEF Timely
  <2>. QED
    <3>1. now \in Nat
      BY <1>4
    <3>. DEFINE x == life[p + k]
                y == [x EXCEPT !.observed = group[k].observed]
    <3>2. /\ y \in StateType /\ StateOK(y, trace[p + k]) /\ Past(y, now)
          /\ y.observed = group[k].observed
          /\ y.status = x.status /\ y.reason = x.reason /\ y.batch = x.batch
          /\ y.admitted = x.admitted /\ y.dispatch = x.dispatch /\ y.start = x.start
          /\ y.first = x.first /\ y.finished = x.finished /\ y.terminal = x.terminal
      BY <2>1, <2>2, <2>4, <2>5, <3>1, ObservedState
    <3>3. life'[p + k] = y
      BY <1>8
    <3>. HIDE DEF y
    <3>. QED
      BY <3>2, <3>3
<1>12. \A r \in Requests :
         /\ life'[r] \in StateType
         /\ life'[r].status = life[r].status /\ life'[r].batch = life[r].batch
         /\ life'[r].admitted = life[r].admitted /\ life'[r].dispatch = life[r].dispatch
         /\ life'[r].start = life[r].start /\ life'[r].first = life[r].first
         /\ life'[r].finished = life[r].finished /\ life'[r].terminal = life[r].terminal
  BY <1>9, <1>11, CaseFields
<1>13. SameRecords
  BY <1>6, <1>12 DEF SameRecords
<1>14. CaseTypeOK'
  <2>1. pending' \in Seq(Arrived)
    BY <1>4, <1>6 DEF CaseTypeOK
  <2>. QED
    BY <1>6, <1>13, <2>1 DEF CaseTypeOK, SameRecords
<1>15. WaitersOK' /\ Decided' = Decided
  <2>1. PICK m : m = Len(pending)
    OBVIOUS
  <2>2. /\ Len(pending') = m + n /\ DOMAIN pending' = 1..(m + n) /\ m \in Nat
        /\ \A k \in 1..m : pending'[k] = pending[k]
        /\ \A k \in 1..n : pending'[m + k] = group[k]
    BY <1>2, <1>4, <1>6, <2>1 DEF CaseTypeOK
  <2>3. Decided' = Decided
    BY <1>3, <1>4, <1>6, <1>10, <2>1, <2>2 DEF Decided
  <2>4. Len(pending') <= processed'
    BY <1>3, <1>4, <1>6, <2>1, <2>2 DEF WaitersOK
  <2>5. ASSUME NEW k \in 1..m
        PROVE  pending'[k].id = Decided + k /\ pending'[k].observed = life'[pending'[k].id].observed
    <3>1. /\ pending[k].id = Decided + k /\ pending[k].observed = life[pending[k].id].observed
          /\ pending[k].id \in Requests
      BY <2>1, <2>2, CaseFields DEF WaitersOK, Arrived
    <3>2. pending[k].id <= p
      <4>1. k \in Int /\ k <= m /\ m = Len(pending) /\ m \in Nat
        BY <2>1, <2>2
      <4>. QED
        BY <1>4, <1>10, <3>1, <4>1
    <3>3. \A j \in 1..n : pending[k].id # p + j
      BY <1>4, <3>2, <1>10, <3>1, <2>2
    <3>. QED
      BY <1>9, <2>2, <3>1, <3>3
  <2>6. ASSUME NEW j \in 1..n
        PROVE  /\ pending'[m + j].id = Decided + (m + j)
               /\ pending'[m + j].observed = life'[pending'[m + j].id].observed
    <3>1. pending'[m + j] = group[j] /\ group[j].id = p + j
      BY <1>4, <2>2
    <3>2. p + j = Decided + (m + j)
      BY <1>4, <1>10, <2>1, <2>2
    <3>. QED
      BY <1>11, <3>1, <3>2
  <2>7. \A k \in 1..(m + n) : k \in 1..m \/ \E j \in 1..n : k = m + j
    <3>1. \A k \in 1..(m + n) : k \in 1..m \/ (k - m \in 1..n /\ k = m + (k - m))
      BY <1>4, <2>2
    <3>. QED
      BY <3>1
  <2>8. \A k \in 1..(m + n) : /\ pending'[k].id = Decided + k
                              /\ pending'[k].observed = life'[pending'[k].id].observed
    BY <2>5, <2>6, <2>7
  <2>. QED
    BY <2>2, <2>3, <2>4, <2>8 DEF WaitersOK
<1>16. RecordsOK'
  <2>1. SUFFICES ASSUME NEW r \in Requests
                 PROVE  /\ StateOK(life'[r], trace[r])
                        /\ r <= processed' => Past(life'[r], now)
    BY DEF RecordsOK
  <2>2. CASE \E k \in 1..n : r = p + k
    BY <1>11, <2>2
  <2>3. CASE \A k \in 1..n : r # p + k
    <3>1. life'[r] = life[r] /\ StateOK(life[r], trace[r])
      BY <1>9, <2>3 DEF RecordsOK
    <3>2. r <= p + n => r <= p
      <4>1. SUFFICES ASSUME r <= p + n, ~(r <= p) PROVE FALSE
        OBVIOUS
      <4>2. r \in Nat
        BY Numbers
      <4>3. r - p \in 1..n /\ r = p + (r - p)
        BY <1>4, <4>1, <4>2
      <4>. QED
        BY <2>3, <4>3
    <3>. QED
      BY <1>3, <1>6, <3>1, <3>2 DEF RecordsOK
  <2>. QED
    BY <2>2, <2>3
<1>17. /\ Forming' = Forming /\ Executing' = Executing /\ Handed' = Handed /\ Served' = Served
       /\ \A k : Members(k)' = Members(k)
  BY <1>6 DEF Forming, Executing, Handed, Served, BatchesIn, Members
<1>18. PlacesOK'
  <2>1. \A r \in Requests : /\ IsWaiting(life'[r]) <=> IsWaiting(life[r])
                            /\ IsAdmitted(life'[r]) <=> IsAdmitted(life[r])
                            /\ IsHanded(life'[r]) <=> IsHanded(life[r])
                            /\ IsServed(life'[r]) <=> IsServed(life[r])
    BY <1>12 DEF IsWaiting, IsAdmitted, IsHanded, IsServed
  <2>. QED
    BY <1>6, <1>15, <1>17, <2>1 DEF PlacesOK
<1>19. QueueOK'
  BY <1>6, <1>17 DEF QueueOK, Ascending
<1>20. TokenOK'
  BY <1>6 DEF TokenOK
<1>21. BatchesOK'
  <2>1. \A b \in Batches : IdsOf(b.requests) \subseteq Requests
    BY BatchFields
  <2>2. \A b \in Batches : Recording(b) => Recording(b)'
    BY <1>12, <2>1 DEF Recording
  <2>3. \A b \in Batches : OutOK(b) => OutOK(b)'
    BY <1>6, <2>2 DEF OutOK
  <2>4. \A b \in Batches : (StartedOK(b) => StartedOK(b)') /\ (ExecutedOK(b) => ExecutedOK(b)')
    BY DEF StartedOK, ExecutedOK
  <2>5. \A b \in Batches : CompletedOK(b) => CompletedOK(b)'
    BY <1>12, <2>1, <2>2, <2>4 DEF CompletedOK
  <2>6. \A f : FormedOK(f) => FormedOK(f)'
    BY <1>6 DEF FormedOK
  <2>7. worker.at = "running" => worker.batch \in Batches
    BY CaseFields DEF TokenOK
  <2>. QED
    BY <1>6, <2>3, <2>4, <2>5, <2>6, <2>7, CaseFields DEF BatchesOK
<1>22. TogetherOK'
  <2>1. \A x : Whole(x) => Whole(x)'
    BY <1>12, <1>17 DEF Whole
  <2>2. EqualArrivalsTogether'
    BY <1>6, <1>12, EqualStays DEF TogetherOK
  <2>. QED
    BY <1>6, <2>1, <2>2 DEF TogetherOK
<1>. QED
  BY <1>6, <1>14, <1>15, <1>16, <1>18, <1>19, <1>20, <1>21, <1>22

-----------------------------------------------------------------------------
(***************************************************************************)
(* A waiter is admitted or rejected                                        *)
(***************************************************************************)
\* Who waits longest.
FirstWaiter == pending[1].id

\* The first waiter is the first request that nothing is decided about.
LEMMA FirstWaits ==
  ASSUME CaseInv, processed \in Nat, pending # <<>>
  PROVE  /\ FirstWaiter \in Requests /\ FirstWaiter = Decided + 1 /\ FirstWaiter <= processed
         /\ Decided \in Nat
         /\ IsWaiting(life[FirstWaiter]) /\ Past(life[FirstWaiter], now)
         /\ pending[1].observed = life[FirstWaiter].observed
         /\ \A r \in Requests : ~IsWaiting(life[r]) => r <= Decided /\ r < FirstWaiter
<1>. USE DEF CaseInv
<1>1. /\ 1 \in DOMAIN pending /\ Len(pending) \in Nat /\ Len(pending) > 0 /\ pending[1] \in Arrived
  BY CaseFields DEF CaseTypeOK
<1>2. /\ FirstWaiter \in Requests /\ FirstWaiter = Decided + 1
      /\ pending[1].observed = life[FirstWaiter].observed
  BY <1>1 DEF WaitersOK, Arrived, FirstWaiter
<1>3. Decided \in Nat /\ Decided + 1 <= processed
  BY <1>1 DEF Decided, WaitersOK
<1>4. IsWaiting(life[FirstWaiter]) /\ Past(life[FirstWaiter], now)
  BY <1>2, <1>3 DEF PlacesOK, RecordsOK
<1>5. ASSUME NEW r \in Requests, ~IsWaiting(life[r])
      PROVE  r <= Decided /\ r < FirstWaiter
  <2>1. ~(Decided < r) /\ r \in Nat
    BY <1>5, Numbers DEF PlacesOK
  <2>. QED
    BY <1>2, <1>3, <2>1
<1>. QED
  BY <1>2, <1>3, <1>4, <1>5

\* The batches keep what is recorded of their requests.
LEMMA BatchesStay ==
  ASSUME CaseInv,
         \A r \in Handed \cup Served : life'[r] = life[r],
         \A r \in Requests : life[r].status = "rejected" => life'[r].status = "rejected",
         UNCHANGED <<now, work, completions, completed, worker, inFlight, formed>>,
         sched'.ordinal = sched.ordinal
  PROVE  /\ TokenOK' /\ BatchesOK' /\ TogetherOK'
         /\ Forming' = Forming /\ Handed' = Handed /\ Served' = Served
<1>. USE DEF CaseInv
<1>1. /\ Forming' = Forming /\ Executing' = Executing /\ Handed' = Handed /\ Served' = Served
      /\ \A k : Members(k)' = Members(k)
  BY DEF Forming, Executing, Handed, Served, BatchesIn, Members
<1>2. TokenOK'
  BY DEF TokenOK
<1>3. BatchesOK'
  <2>1. \A b : (\A r \in IdsOf(b.requests) : life'[r] = life[r])
                 => /\ Recording(b) => Recording(b)'
                    /\ OutOK(b) => OutOK(b)'
                    /\ CompletedOK(b) => CompletedOK(b)'
    <3>1. SUFFICES ASSUME NEW b, \A r \in IdsOf(b.requests) : life'[r] = life[r]
                   PROVE  /\ Recording(b) => Recording(b)'
                          /\ OutOK(b) => OutOK(b)'
                          /\ CompletedOK(b) => CompletedOK(b)'
      OBVIOUS
    <3>2. Recording(b) => Recording(b)'
      BY <3>1 DEF Recording
    <3>3. OutOK(b) => OutOK(b)'
      BY <3>2 DEF OutOK
    <3>4. ExecutedOK(b) => ExecutedOK(b)'
      BY DEF ExecutedOK, StartedOK
    <3>5. CompletedOK(b) => CompletedOK(b)'
      BY <3>1, <3>2, <3>4 DEF CompletedOK
    <3>. QED
      BY <3>2, <3>3, <3>5
  <2>2. \A k \in DOMAIN work : \A r \in IdsOf(work[k].requests) : life'[r] = life[r]
    BY DEF Handed, BatchesIn
  <2>3. \A k \in DOMAIN completions : \A r \in IdsOf(completions[k].requests) : life'[r] = life[r]
    BY DEF Handed, Executing, BatchesIn
  <2>4. \A r \in IdsOf(worker.batch.requests) : life'[r] = life[r]
    BY DEF Handed, Executing
  <2>5. \A k \in DOMAIN completed : \A r \in IdsOf(completed[k].requests) : life'[r] = life[r]
    BY DEF Served, Members
  <2>6. \A b : (FormedOK(b) => FormedOK(b)') /\ (StartedOK(b) => StartedOK(b)')
               /\ (ExecutedOK(b) => ExecutedOK(b)')
    BY DEF FormedOK, StartedOK, ExecutedOK
  <2>7. \A f \in formed' : FormedOK(f)'
    BY <2>6 DEF BatchesOK
  <2>8. \A k \in DOMAIN work' : OutOK(work[k])'
    BY <2>1, <2>2 DEF BatchesOK
  <2>9. worker'.at = "running" => OutOK(worker.batch)' /\ StartedOK(worker.batch)'
    BY <2>1, <2>4, <2>6 DEF BatchesOK
  <2>10. \A k \in DOMAIN completions' : OutOK(completions[k])' /\ ExecutedOK(completions[k])'
    BY <2>1, <2>3, <2>6 DEF BatchesOK
  <2>11. \A k \in DOMAIN completed' : CompletedOK(completed[k])'
    BY <2>1, <2>5 DEF BatchesOK
  <2>. QED
    BY <2>7, <2>8, <2>9, <2>10, <2>11 DEF BatchesOK
<1>4. TogetherOK'
  <2>1. \A x : Whole(x) => Whole(x)'
    BY <1>1 DEF Whole
  <2>2. EqualArrivalsTogether'
    BY EqualStays DEF TogetherOK
  <2>. QED
    BY <2>1, <2>2 DEF TogetherOK
<1>. QED
  BY <1>1, <1>2, <1>3, <1>4

\* The one who waits longest stops waiting.
LEMMA WaiterLeaves ==
  ASSUME CaseInv, processed \in Nat, pending # <<>>, pending' = Tail(pending),
         life' \in [Requests -> StateType],
         \A r \in Requests : r # FirstWaiter => life'[r] = life[r],
         StateOK(life'[FirstWaiter], trace[FirstWaiter]), Past(life'[FirstWaiter], now),
         ~IsWaiting(life'[FirstWaiter]), ~IsHanded(life'[FirstWaiter]), ~IsServed(life'[FirstWaiter]),
         sched' \in SchedulerType(Requests), sched'.ordinal = sched.ordinal,
         IdsOf(sched'.queue) = IdsOf(sched.queue) \cup {r \in {FirstWaiter} : IsAdmitted(life'[r])},
         Ascending(sched'.queue),
         UNCHANGED <<now, work, completions, completed, worker, processed, inFlight, formed>>
  PROVE  CaseInv'
<1>. USE DEF CaseInv
<1>1. PICK w : w = FirstWaiter
  OBVIOUS
<1>2. PICK d : d = Decided
  OBVIOUS
<1>3. /\ w \in Requests /\ w = d + 1 /\ d \in Nat /\ w <= processed
      /\ IsWaiting(life[w]) /\ pending[1].id = w
      /\ \A r \in Requests : ~IsWaiting(life[r]) => r <= d /\ r < w
  BY <1>1, <1>2, FirstWaits DEF FirstWaiter
<1>4. \A r \in Requests : r # w => life'[r] = life[r]
  BY <1>1
<1>5. CaseTypeOK'
  <2>1. pending' \in Seq(Arrived)
    BY DEF CaseTypeOK
  <2>. QED
    BY <2>1 DEF CaseTypeOK
<1>6. WaitersOK' /\ Decided' = d + 1
  <2>1. PICK m : m = Len(pending)
    OBVIOUS
  <2>2. /\ m \in Nat \ {0} /\ Len(pending') = m - 1 /\ DOMAIN pending' = 1..(m - 1)
        /\ \A k \in 1..(m - 1) : pending'[k] = pending[k + 1] /\ k + 1 \in DOMAIN pending
    BY <2>1 DEF CaseTypeOK
  <2>3. Decided' = d + 1
    BY <1>2, <2>1, <2>2 DEF Decided
  <2>4. Len(pending') <= processed'
    BY <2>1, <2>2 DEF WaitersOK
  <2>5. ASSUME NEW k \in 1..(m - 1)
        PROVE  /\ pending'[k].id = d + 1 + k
               /\ pending'[k].observed = life'[pending'[k].id].observed
    <3>1. /\ pending'[k] = pending[k + 1] /\ k + 1 \in DOMAIN pending /\ k \in Nat \ {0}
      BY <2>2
    <3>2. /\ pending[k + 1].id = d + (k + 1) /\ pending[k + 1].id \in Requests
          /\ pending[k + 1].observed = life[pending[k + 1].id].observed
      BY <1>2, <3>1, CaseFields DEF WaitersOK, Arrived
    <3>3. d + (k + 1) = d + 1 + k /\ d + (k + 1) # w
      BY <1>3, <3>1
    <3>. QED
      BY <1>4, <3>1, <3>2, <3>3
  <2>. QED
    BY <2>2, <2>3, <2>4, <2>5 DEF WaitersOK
<1>7. RecordsOK'
  <2>1. SUFFICES ASSUME NEW r \in Requests
                 PROVE  /\ StateOK(life'[r], trace[r])
                        /\ r <= processed => Past(life'[r], now)
    BY DEF RecordsOK
  <2>2. CASE r = w
    BY <1>1, <2>2
  <2>3. CASE r # w
    BY <1>4, <2>3 DEF RecordsOK
  <2>. QED
    BY <2>2, <2>3
<1>8. w \notin Handed /\ w \notin Served /\ Handed \subseteq Requests /\ Served \subseteq Requests
      /\ life[w].status # "rejected" /\ w \notin Forming /\ Forming \subseteq Requests
      /\ ~IsAdmitted(life[w])
  <2>1. /\ ~IsHanded(life[w]) /\ ~IsServed(life[w]) /\ ~IsAdmitted(life[w]) /\ life[w].status # "rejected"
    BY <1>3, StatesOK, OnePlace
  <2>. QED
    BY <2>1 DEF PlacesOK
<1>9. /\ TokenOK' /\ BatchesOK' /\ TogetherOK'
      /\ Forming' = Forming /\ Handed' = Handed /\ Served' = Served
  <2>1. \A r \in Handed \cup Served : life'[r] = life[r]
    BY <1>4, <1>8
  <2>2. \A r \in Requests : life[r].status = "rejected" => life'[r].status = "rejected"
    BY <1>4, <1>8
  <2>. QED
    BY <2>1, <2>2, BatchesStay
<1>10. PlacesOK'
  <2>1. \A r \in Requests : d + 1 < r <=> IsWaiting(life'[r])
    <3>1. SUFFICES ASSUME NEW r \in Requests PROVE d + 1 < r <=> IsWaiting(life'[r])
      OBVIOUS
    <3>2. CASE r = w
      BY <1>1, <1>3, <3>2
    <3>3. CASE r # w
      <4>1. d < r <=> IsWaiting(life'[r])
        BY <1>2, <1>4, <3>3 DEF PlacesOK
      <4>2. r \in Nat
        BY Numbers
      <4>. QED
        BY <1>3, <3>3, <4>1, <4>2
    <3>. QED
      BY <3>2, <3>3
  <2>2. IdsOf(sched'.queue) \cup Forming = {r \in Requests : IsAdmitted(life'[r])}
    <3>1. \A r \in Requests : r # w => (r \in IdsOf(sched.queue) \cup Forming <=> IsAdmitted(life'[r]))
      BY <1>4 DEF PlacesOK
    <3>2. w \notin IdsOf(sched.queue) \cup Forming
      BY <1>8 DEF PlacesOK
    <3>3. IdsOf(sched.queue) \cup Forming \subseteq Requests
      BY DEF PlacesOK
    <3>. QED
      BY <1>1, <1>3, <3>1, <3>2, <3>3
  <2>3. Handed = {r \in Requests : IsHanded(life'[r])}
    BY <1>1, <1>3, <1>4, <1>8 DEF PlacesOK
  <2>4. Served = {r \in Requests : IsServed(life'[r])}
    BY <1>1, <1>3, <1>4, <1>8 DEF PlacesOK
  <2>. QED
    BY <1>6, <1>9, <2>1, <2>2, <2>3, <2>4 DEF PlacesOK
<1>11. QueueOK'
  <2>1. ASSUME NEW r \in Forming, NEW s \in IdsOf(sched'.queue)
        PROVE  r < s
    <3>1. CASE s \in IdsOf(sched.queue)
      BY <3>1 DEF QueueOK
    <3>2. CASE s = w
      <4>1. r \in Requests /\ IsAdmitted(life[r])
        BY DEF PlacesOK
      <4>2. ~IsWaiting(life[r])
        BY <4>1, StatesOK, OnePlace
      <4>. QED
        BY <1>3, <3>2, <4>1, <4>2
    <3>. QED
      BY <1>1, <3>1, <3>2
  <2>. QED
    BY <1>9, <2>1 DEF QueueOK, Ascending
<1>. QED
  BY <1>5, <1>6, <1>7, <1>9, <1>10, <1>11

\* What an admission in time does to a record,
LEMMA AdmittedState ==
  ASSUME NEW x \in StateType, NEW t \in Nat, NEW n \in Nat, StateOK(x, t), IsWaiting(x), Past(x, n),
         n <= x.observed + Timeout
  PROVE  LET y == [x EXCEPT !.admitted = n]
         IN  /\ y \in StateType /\ StateOK(y, t) /\ Past(y, n) /\ IsAdmitted(y)
             /\ ~IsWaiting(y) /\ ~IsHanded(y) /\ ~IsServed(y)
<1>. DEFINE y == [x EXCEPT !.admitted = n]
<1>1. y \in StateType
  BY DEF StateType
<1>2. /\ y.observed = x.observed /\ y.status = x.status /\ y.reason = x.reason /\ y.batch = x.batch
      /\ y.admitted = n /\ y.dispatch = x.dispatch /\ y.start = x.start
      /\ y.first = x.first /\ y.finished = x.finished /\ y.terminal = x.terminal
  BY DEF StateType
<1>. HIDE DEF y
<1>3. /\ x.admitted = NoTime /\ x.dispatch = NoTime /\ x.status = "pending" /\ x.observed \in Nat
      /\ x.observed <= n
  BY DEF IsWaiting, StateOK, Past, StateType
<1>4. StateOK(y, t) /\ Past(y, n)
  BY <1>2, <1>3, Numbers DEF StateOK, Past, NoTime
<1>5. IsAdmitted(y) /\ ~IsWaiting(y) /\ ~IsHanded(y) /\ ~IsServed(y)
  BY <1>2, <1>3 DEF IsAdmitted, IsWaiting, IsHanded, IsServed, NoTime
<1>. QED
  BY <1>1, <1>4, <1>5 DEF y

\* ... and a rejection after the deadline.
LEMMA RejectedState ==
  ASSUME NEW x \in StateType, NEW t \in Nat, NEW n \in Nat, StateOK(x, t), IsWaiting(x), Past(x, n),
         n >= x.observed + Timeout
  PROVE  LET y == [x EXCEPT !.status = "rejected", !.reason = TRUE, !.terminal = n]
         IN  /\ y \in StateType /\ StateOK(y, t) /\ Past(y, n) /\ ~IsAdmitted(y)
             /\ ~IsWaiting(y) /\ ~IsHanded(y) /\ ~IsServed(y)
<1>. DEFINE y == [x EXCEPT !.status = "rejected", !.reason = TRUE, !.terminal = n]
<1>1. y \in StateType
  BY DEF StateType
<1>2. /\ y.observed = x.observed /\ y.status = "rejected" /\ y.reason = TRUE /\ y.batch = x.batch
      /\ y.admitted = x.admitted /\ y.dispatch = x.dispatch /\ y.start = x.start
      /\ y.first = x.first /\ y.finished = x.finished /\ y.terminal = n
  BY DEF StateType
<1>. HIDE DEF y
<1>3. x.admitted = NoTime /\ x.dispatch = NoTime /\ x.status = "pending" /\ x.start = NoTime
  BY DEF IsWaiting, StateOK
<1>4. StateOK(y, t) /\ Past(y, n)
  BY <1>2, <1>3 DEF StateOK, Past, NoTime
<1>5. ~IsAdmitted(y) /\ ~IsWaiting(y) /\ ~IsHanded(y) /\ ~IsServed(y)
  BY <1>2, <1>3 DEF IsAdmitted, IsWaiting, IsHanded, IsServed, NoTime
<1>. QED
  BY <1>1, <1>4, <1>5 DEF y

\* The first waiter joins the queue of the scheduler.
LEMMA AdmitKeeps ==
  ASSUME CaseInv, now \in Nat, processed \in Nat, AdmitsHead, admit_head,
         UNCHANGED <<now, work, completions, completed, worker, processed, inFlight, formed>>
  PROVE  CaseInv' /\ sched'.closed = sched.closed
<1>. DEFINE w == FirstWaiter
            e == [id |-> w, admitted |-> now]
            y == [life[w] EXCEPT !.admitted = now]
<1>1. /\ pending # <<>> /\ MayAdmit(sched) /\ now <= pending[1].observed + Timeout
      /\ sched' = Admit(sched, w, now) /\ life' = [life EXCEPT ![w].admitted = now]
      /\ pending' = Tail(pending)
  BY DEF AdmitsHead, admit_head, Deadline, FirstWaiter
<1>2. /\ w \in Requests /\ IsWaiting(life[w]) /\ Past(life[w], now)
      /\ pending[1].observed = life[w].observed
      /\ \A r \in Requests : ~IsWaiting(life[r]) => r <= Decided /\ r < w
  BY <1>1, FirstWaits
<1>. HIDE DEF w
<1>3. life[w] \in StateType /\ trace[w] \in Nat /\ StateOK(life[w], trace[w])
  BY <1>2, StatesOK
<1>4. now <= life[w].observed + Timeout
  BY <1>1, <1>2
<1>5. /\ y \in StateType /\ StateOK(y, trace[w]) /\ Past(y, now) /\ IsAdmitted(y)
      /\ ~IsWaiting(y) /\ ~IsHanded(y) /\ ~IsServed(y)
  BY <1>2, <1>3, <1>4, AdmittedState
<1>6. /\ life' = [life EXCEPT ![w] = y] /\ life \in [Requests -> StateType]
  BY <1>1, CaseFields DEF CaseInv
<1>. HIDE DEF y
<1>7. /\ life' \in [Requests -> StateType] /\ life'[w] = y
      /\ \A r \in Requests : r # w => life'[r] = life[r]
  BY <1>2, <1>5, <1>6
<1>8. sched \in SchedulerType(Requests) /\ e \in Entries /\ e.id = w
  BY <1>2, CaseFields DEF CaseInv, Entries
<1>. HIDE DEF e
<1>. DEFINE queue == Append(sched.queue, e)
<1>9. /\ sched.queue \in Seq(Entries) /\ Len(sched.queue) \in Nat
      /\ DOMAIN sched.queue = 1..Len(sched.queue)
  BY <1>8, SchedulerFields
<1>10. /\ queue \in Seq(Entries) /\ DOMAIN queue = 1..(Len(sched.queue) + 1)
       /\ \A k \in 1..Len(sched.queue) : queue[k] = sched.queue[k]
       /\ queue[Len(sched.queue) + 1] = e
       /\ IdsOf(queue) = IdsOf(sched.queue) \cup {w}
  BY <1>8, <1>9, IdsAppend
<1>. HIDE DEF queue
<1>11. sched' = [policy |-> sched.policy, queue |-> queue, now |-> now, ordinal |-> sched.ordinal,
                 closed |-> sched.closed, nextWindow |-> sched.nextWindow]
  BY <1>1 DEF Admit, queue, e
<1>12. /\ sched' \in SchedulerType(Requests) /\ sched'.ordinal = sched.ordinal
       /\ sched'.closed = sched.closed /\ sched'.queue = queue
  BY <1>8, <1>10, <1>11 DEF SchedulerType, Entries
<1>13. Ascending(queue)
  <2>1. \A k \in 1..Len(sched.queue) : sched.queue[k].id < w
    <3>1. SUFFICES ASSUME NEW k \in 1..Len(sched.queue) PROVE sched.queue[k].id < w
      OBVIOUS
    <3>2. sched.queue[k].id \in IdsOf(sched.queue) /\ sched.queue[k].id \in Requests
      BY <1>8, <1>9, SchedulerFields DEF IdsOf
    <3>3. IsAdmitted(life[sched.queue[k].id])
      BY <3>2 DEF CaseInv, PlacesOK
    <3>4. ~IsWaiting(life[sched.queue[k].id])
      BY <3>2, <3>3, StatesOK, OnePlace
    <3>. QED
      BY <1>2, <3>2, <3>4
  <2>2. \A j, k \in 1..Len(sched.queue) : j < k => sched.queue[j].id < sched.queue[k].id
    BY <1>9 DEF CaseInv, QueueOK, Ascending
  <2>3. SUFFICES ASSUME NEW j \in 1..(Len(sched.queue) + 1), NEW k \in 1..(Len(sched.queue) + 1), j < k
                 PROVE  queue[j].id < queue[k].id
    BY <1>10 DEF Ascending
  <2>4. j \in 1..Len(sched.queue) /\ (k \in 1..Len(sched.queue) \/ k = Len(sched.queue) + 1)
    BY <1>9, <2>3
  <2>. QED
    BY <1>8, <1>10, <2>1, <2>2, <2>3, <2>4
<1>14. IdsOf(sched'.queue) = IdsOf(sched.queue) \cup {r \in {w} : IsAdmitted(life'[r])}
  BY <1>5, <1>7, <1>10, <1>12
<1>. QED
  BY <1>1, <1>5, <1>7, <1>12, <1>13, <1>14, WaiterLeaves DEF w

\* The first waiter is rejected.
LEMMA ExpireKeeps ==
  ASSUME CaseInv, now \in Nat, processed \in Nat, NEW full \in BOOLEAN, ExpiresHead(full), expire_head,
         UNCHANGED <<now, work, completions, completed, worker, processed, inFlight, formed>>
  PROVE  CaseInv'
<1>. DEFINE w == FirstWaiter
            y == [life[w] EXCEPT !.status = "rejected", !.reason = TRUE, !.terminal = now]
<1>1. /\ pending # <<>> /\ sched' = sched /\ pending' = Tail(pending)
      /\ life' = [life EXCEPT ![w].status = "rejected", ![w].reason = TRUE, ![w].terminal = now]
  BY DEF ExpiresHead, expire_head, FirstWaiter
<1>2. /\ w \in Requests /\ IsWaiting(life[w]) /\ Past(life[w], now)
      /\ pending[1].observed = life[w].observed
  BY <1>1, FirstWaits
<1>. HIDE DEF w
<1>3. life[w] \in StateType /\ trace[w] \in Nat /\ StateOK(life[w], trace[w])
  BY <1>2, StatesOK
<1>4. now >= life[w].observed + Timeout
  <2>1. now > pending[1].observed + Timeout \/ now >= pending[1].observed + Timeout
    BY DEF ExpiresHead, Deadline
  <2>2. life[w].observed \in Nat
    BY <1>3, StateFields
  <2>. QED
    BY <1>2, <2>1, <2>2, Numbers
<1>5. /\ y \in StateType /\ StateOK(y, trace[w]) /\ Past(y, now) /\ ~IsAdmitted(y)
      /\ ~IsWaiting(y) /\ ~IsHanded(y) /\ ~IsServed(y)
  BY <1>2, <1>3, <1>4, RejectedState
<1>6. /\ life' = [life EXCEPT ![w] = y] /\ life \in [Requests -> StateType]
  BY <1>1, CaseFields DEF CaseInv
<1>. HIDE DEF y
<1>7. /\ life' \in [Requests -> StateType] /\ life'[w] = y
      /\ \A r \in Requests : r # w => life'[r] = life[r]
  BY <1>2, <1>5, <1>6
<1>8. /\ sched' \in SchedulerType(Requests) /\ sched'.ordinal = sched.ordinal
      /\ Ascending(sched'.queue)
  BY <1>1, CaseFields DEF CaseInv, QueueOK
<1>9. IdsOf(sched'.queue) = IdsOf(sched.queue) \cup {r \in {w} : IsAdmitted(life'[r])}
  BY <1>1, <1>5, <1>7
<1>. QED
  BY <1>1, <1>5, <1>7, <1>8, <1>9, WaiterLeaves DEF w

-----------------------------------------------------------------------------
(***************************************************************************)
(* A batch is formed                                                       *)
(***************************************************************************)
\* A sequence is cut in two.
LEMMA Cut ==
  ASSUME NEW S, NEW queue \in Seq(S), NEW n \in 1..Len(queue)
  PROVE  LET front == SubSeq(queue, 1, n)
             back == SubSeq(queue, n + 1, Len(queue))
         IN  /\ front \in Seq(S) /\ back \in Seq(S)
             /\ Len(front) = n /\ DOMAIN front = 1..n /\ DOMAIN back = 1..(Len(queue) - n)
             /\ \A k \in 1..n : front[k] = queue[k]
             /\ \A k \in 1..(Len(queue) - n) : back[k] = queue[n + k]
  OBVIOUS

\* The batch takes as many as it may.
LEMMA Counted ==
  ASSUME NEW s \in SchedulerType(Requests), s.queue # <<>>
  PROVE  /\ BatchCount(s) \in 1..Len(s.queue) /\ BatchCount(s) <= MaxBatch
         /\ BatchCount(s) < MaxBatch => BatchCount(s) = Len(s.queue)
<1>1. Len(s.queue) \in Nat /\ Len(s.queue) > 0 /\ MaxBatch \in Nat /\ MaxBatch > 0
  BY SchedulerFields, Numbers
<1>. QED
  BY <1>1 DEF BatchCount, Fewer

\* A queue falls into the batch that leaves and the rest.
LEMMA Split ==
  ASSUME NEW q \in Seq(Entries), NEW count \in 1..Len(q), Ascending(q)
  PROVE  LET batch == SubSeq(q, 1, count)
             rest == SubSeq(q, count + 1, Len(q))
         IN  /\ batch \in Seq(Entries) /\ Len(batch) = count
             /\ rest \in Seq(Entries) /\ Ascending(rest)
             /\ IdsOf(q) = IdsOf(batch) \cup IdsOf(rest)
             /\ \A r \in IdsOf(batch), t \in IdsOf(rest) : r < t
             /\ count = Len(q) => IdsOf(batch) = IdsOf(q)
<1>. DEFINE batch == SubSeq(q, 1, count)
            rest == SubSeq(q, count + 1, Len(q))
<1>1. PICK n : n = Len(q)
  OBVIOUS
<1>4. /\ batch \in Seq(Entries) /\ Len(batch) = count /\ DOMAIN batch = 1..count
      /\ \A k \in 1..count : batch[k] = q[k]
      /\ rest \in Seq(Entries) /\ DOMAIN rest = 1..(n - count)
      /\ \A k \in 1..(n - count) : rest[k] = q[count + k]
  BY <1>1, Cut
<1>. HIDE DEF batch, rest
<1>2. /\ n \in Nat /\ DOMAIN q = 1..n /\ count \in 1..n
      /\ \A k \in 1..n : q[k] \in Entries
  BY <1>1
<1>3. \A j, k \in 1..n : j < k => q[j].id < q[k].id
  BY <1>2 DEF Ascending
<1>0. \A e \in Entries : e.id \in Nat
  BY Numbers DEF Entries
<1>a. n \in Nat /\ count \in Nat /\ 1 <= count /\ count <= n
  BY <1>2
<1>5. \A k \in 1..n : k \in 1..count \/ (k - count \in 1..(n - count) /\ count + (k - count) = k)
  BY <1>a
<1>6. IdsOf(batch) = {q[k].id : k \in 1..count}
  BY <1>4 DEF IdsOf
<1>7. IdsOf(rest) = {q[count + k].id : k \in 1..(n - count)}
  BY <1>4 DEF IdsOf
<1>8. IdsOf(q) = {q[k].id : k \in 1..n}
  BY <1>2 DEF IdsOf
<1>9. \A k \in 1..(n - count) : count + k \in 1..n /\ count < count + k
  BY <1>a
<1>10. \A k \in 1..count : k \in 1..n
  BY <1>a
<1>11. IdsOf(q) = IdsOf(batch) \cup IdsOf(rest)
  <2>1. IdsOf(q) \subseteq IdsOf(batch) \cup IdsOf(rest)
    <3>1. SUFFICES ASSUME NEW k \in 1..n PROVE q[k].id \in IdsOf(batch) \cup IdsOf(rest)
      BY <1>8
    <3>2. CASE k \in 1..count
      BY <1>6, <3>2
    <3>3. CASE k - count \in 1..(n - count) /\ count + (k - count) = k
      BY <1>7, <3>3
    <3>. QED
      BY <1>5, <3>2, <3>3
  <2>2. IdsOf(batch) \subseteq IdsOf(q)
    BY <1>6, <1>8, <1>10
  <2>3. IdsOf(rest) \subseteq IdsOf(q)
    BY <1>7, <1>8, <1>9
  <2>. QED
    BY <2>1, <2>2, <2>3
<1>12. Ascending(rest)
  <2>1. SUFFICES ASSUME NEW j \in 1..(n - count), NEW k \in 1..(n - count), j < k
                 PROVE  rest[j].id < rest[k].id
    BY <1>4 DEF Ascending
  <2>2. count + j \in 1..n /\ count + k \in 1..n /\ count + j < count + k
    BY <1>a, <2>1
  <2>. QED
    BY <1>3, <1>4, <2>2
<1>13. ASSUME NEW r \in IdsOf(batch), NEW t \in IdsOf(rest)
       PROVE  r < t
  <2>1. PICK j \in 1..count : r = q[j].id
    BY <1>6
  <2>2. PICK k \in 1..(n - count) : t = q[count + k].id
    BY <1>7
  <2>3. j \in 1..n /\ count + k \in 1..n /\ j < count + k
    BY <1>a
  <2>. QED
    BY <1>3, <2>1, <2>2, <2>3
<1>14. count = n => IdsOf(batch) = IdsOf(q)
  BY <1>6, <1>8
<1>. QED
  BY <1>1, <1>4, <1>11, <1>12, <1>13, <1>14 DEF batch, rest

\* No batch is out.
LEMMA NothingOut ==
  ASSUME CaseInv, ~inFlight
  PROVE  work = <<>> /\ completions = <<>> /\ worker.at # "running" /\ worker.batch = NoBatch
         /\ Handed = {}
<1>1. work = <<>> /\ completions = <<>> /\ worker.at # "running" /\ worker.batch = NoBatch
  BY DEF CaseInv, TokenOK
<1>. QED
  BY <1>1, InQueues DEF Handed, Executing

\* The head of the queue becomes a batch.
LEMMA PopKeeps ==
  ASSUME CaseInv, now \in Nat, processed \in Nat, Apart(processed), ~inFlight, formed = {},
         sched.queue # <<>>, pending = <<>> \/ ~MayAdmit(sched),
         NEW d, d.at \in Nat, d.at <= now, d.trigger \in Triggers,
         formed' = {PoppedBatch(sched, d)},
         sched' \in SchedulerType(Requests), sched'.ordinal = sched.ordinal + 1,
         sched'.queue = SubSeq(sched.queue, BatchCount(sched) + 1, Len(sched.queue)),
         UNCHANGED <<now, work, completions, completed, worker, pending, processed, inFlight, life>>
  PROVE  CaseInv'
<1>. USE DEF CaseInv
<1>1. PICK count, batch, rest :
        /\ count = BatchCount(sched) /\ batch = SubSeq(sched.queue, 1, count)
        /\ rest = SubSeq(sched.queue, count + 1, Len(sched.queue))
  OBVIOUS
<1>2. PICK f : f = PoppedBatch(sched, d)
  OBVIOUS
<1>3. sched \in SchedulerType(Requests) /\ sched.ordinal \in Nat /\ Len(sched.queue) \in Nat
  BY CaseFields, SchedulerFields
<1>4. /\ count \in 1..Len(sched.queue) /\ count <= MaxBatch
      /\ count < MaxBatch => count = Len(sched.queue)
      /\ batch \in Seq(Entries) /\ Len(batch) = count
      /\ rest \in Seq(Entries) /\ Ascending(rest)
      /\ IdsOf(sched.queue) = IdsOf(batch) \cup IdsOf(rest)
      /\ \A r \in IdsOf(batch), q \in IdsOf(rest) : r < q
      /\ count = Len(sched.queue) => IdsOf(batch) = IdsOf(sched.queue)
  BY <1>1, <1>3, Split, Counted, SchedulerFields DEF QueueOK
<1>5. /\ f = [ordinal |-> sched.ordinal, dispatch |-> d.at, trigger |-> d.trigger, requests |-> batch]
      /\ f \in Formeds /\ formed' = {f} /\ sched'.queue = rest
      /\ f.requests = batch /\ f.ordinal = sched.ordinal /\ f.dispatch = d.at
  BY <1>1, <1>2, <1>3, <1>4 DEF PoppedBatch, Formeds
<1>6. /\ work = <<>> /\ completions = <<>> /\ worker.at # "running" /\ worker.batch = NoBatch
      /\ Handed = {}
  BY NothingOut
<1>7. CaseTypeOK'
  BY <1>5 DEF CaseTypeOK
<1>8. WaitersOK' /\ Decided' = Decided
  BY DEF WaitersOK, Decided
<1>9. RecordsOK'
  BY DEF RecordsOK
<1>10. /\ Forming = {} /\ Forming' = IdsOf(batch) /\ Executing' = Executing /\ Handed' = Handed
       /\ Served' = Served /\ \A k : Members(k)' = Members(k)
  BY <1>5 DEF Forming, Executing, Handed, Served, BatchesIn, Members
<1>11. PlacesOK'
  <2>1. IdsOf(sched'.queue) \cup Forming' = IdsOf(sched.queue) \cup Forming
    BY <1>4, <1>5, <1>10
  <2>. QED
    BY <1>8, <1>10, <2>1 DEF PlacesOK
<1>12. QueueOK'
  BY <1>4, <1>5, <1>10 DEF QueueOK, Ascending
<1>13. TokenOK'
  BY <1>5 DEF TokenOK
<1>14. BatchesOK'
  <2>1. sched.ordinal = Len(completed)
    BY <1>3, CaseFields DEF BatchesOK
  <2>2. (\A g \in formed : FormedOK(g))'
    <3>1. Len(batch) \in 1..MaxBatch
      BY <1>3, <1>4, Numbers
    <3>. QED
      BY <1>5, <2>1, <3>1 DEF FormedOK
  <2>3. sched'.ordinal = Len(completed') + 1 /\ formed' # {}
    BY <1>5, <2>1
  <2>4. \A b : /\ (OutOK(b)' <=> OutOK(b)) /\ (StartedOK(b)' <=> StartedOK(b))
               /\ (ExecutedOK(b)' <=> ExecutedOK(b)) /\ (CompletedOK(b)' <=> CompletedOK(b))
    BY DEF OutOK, StartedOK, ExecutedOK, CompletedOK, Recording
  <2>. QED
    BY <2>2, <2>3, <2>4 DEF BatchesOK
<1>15. Whole(batch)
  <2>1. SUFFICES ASSUME Short(batch), NEW r \in IdsOf(batch), NEW s \in Requests, trace[s] = trace[r]
                 PROVE  life[s].status = "rejected" \/ s \in IdsOf(batch)
                        \/ s \in Served
    BY DEF Whole
  <2>2. IdsOf(batch) = IdsOf(sched.queue) /\ pending = <<>>
    BY <1>3, <1>4, <2>1 DEF Short, MayAdmit
  <2>3. Decided = processed
    BY <2>2 DEF Decided
  <2>4. r \in Requests /\ IsAdmitted(life[r])
    BY <2>2 DEF PlacesOK
  <2>5. ~IsWaiting(life[r])
    BY <2>4, StatesOK, OnePlace
  <2>6. r <= processed /\ r \in Nat /\ s \in Nat
    BY <2>3, <2>4, <2>5, Numbers DEF PlacesOK
  <2>7. ~(processed < s)
    <3>1. trace[r] \in Nat
      BY <2>4, Numbers
    <3>. QED
      BY <2>1, <2>4, <2>6, <3>1 DEF Apart
  <2>8. ~IsWaiting(life[s])
    BY <2>3, <2>7 DEF PlacesOK
  <2>9. IsAdmitted(life[s]) \/ IsHanded(life[s]) \/ IsServed(life[s]) \/ life[s].status = "rejected"
    BY <2>8, StatesOK, OnePlace
  <2>10. ~IsHanded(life[s])
    BY <1>6 DEF PlacesOK
  <2>. QED
    BY <1>10, <2>2, <2>9, <2>10 DEF PlacesOK
<1>16. TogetherOK'
  <2>1. \A x : Whole(x)' <=> Whole(x)
    BY <1>10 DEF Whole
  <2>2. EqualArrivalsTogether'
    BY EqualStays DEF TogetherOK
  <2>. QED
    BY <1>5, <1>15, <2>1, <2>2 DEF TogetherOK
<1>. QED
  BY <1>7, <1>8, <1>9, <1>11, <1>12, <1>13, <1>14, <1>16

\* The batch leaves behind none of the requests that the coordinator knows, unless it is
\* full or as long as the queue may be.
LEMMA PopTakesAll ==
  ASSUME CaseInv, processed \in Nat, ~inFlight, formed = {}, sched.queue # <<>>,
         pending = <<>> \/ ~MayAdmit(sched), NEW d, formed' = {PoppedBatch(sched, d)}
  PROVE  \A f \in formed' : Short(f.requests) =>
           \A r \in Requests : r <= processed =>
             r \in IdsOf(f.requests) \/ life[r].dispatch # NoTime \/ life[r].status = "rejected"
<1>. USE DEF CaseInv
<1>1. PICK count, batch : count = BatchCount(sched) /\ batch = SubSeq(sched.queue, 1, count)
  OBVIOUS
<1>2. sched \in SchedulerType(Requests) /\ Len(sched.queue) \in Nat
  BY CaseFields, SchedulerFields
<1>3. /\ count \in 1..Len(sched.queue) /\ (count < MaxBatch => count = Len(sched.queue))
      /\ Len(batch) = count /\ (count = Len(sched.queue) => IdsOf(batch) = IdsOf(sched.queue))
  BY <1>1, <1>2, Split, Counted, SchedulerFields DEF QueueOK
<1>4. \A f \in formed' : f.requests = batch
  BY <1>1 DEF PoppedBatch
<1>5. SUFFICES ASSUME Short(batch), NEW r \in Requests, r <= processed, life[r].dispatch = NoTime,
                      life[r].status # "rejected"
               PROVE  r \in IdsOf(batch)
  BY <1>4
<1>6. IdsOf(batch) = IdsOf(sched.queue) /\ pending = <<>>
  BY <1>2, <1>3, <1>5 DEF Short, MayAdmit
<1>7. ~IsWaiting(life[r])
  <2>1. Decided = processed /\ r \in Nat
    BY <1>6, Numbers DEF Decided
  <2>. QED
    BY <1>5, <2>1 DEF PlacesOK
<1>8. ~IsHanded(life[r]) /\ ~IsServed(life[r])
  <2>1. life[r] \in StateType /\ StateOK(life[r], trace[r])
    BY StatesOK
  <2>. QED
    BY <1>5, <2>1 DEF IsHanded, IsServed, StateOK
<1>9. IsAdmitted(life[r])
  BY <1>5, <1>7, <1>8, StatesOK, OnePlace
<1>10. Forming = {}
  BY DEF Forming
<1>. QED
  BY <1>6, <1>9, <1>10 DEF PlacesOK

-----------------------------------------------------------------------------
(***************************************************************************)
(* A batch is handed to the worker                                         *)
(***************************************************************************)
\* What the handoff adds to a record.
HandedOver(x, n, id) == [x EXCEPT !.dispatch = n, !.batch = id]

\* ... and the record is one of a request that was handed over.
LEMMA HandedState ==
  ASSUME NEW x \in StateType, NEW t \in Nat, NEW n \in Nat, StateOK(x, t), IsAdmitted(x), Past(x, n),
         NEW id \in Nat
  PROVE  LET y == HandedOver(x, n, id)
         IN  /\ y \in StateType /\ StateOK(y, t) /\ Past(y, n) /\ IsHanded(y)
             /\ y.observed = x.observed /\ y.dispatch = n /\ y.batch = id
<1>. DEFINE y == HandedOver(x, n, id)
<1>1. y \in StateType
  BY DEF StateType, HandedOver
<1>2. /\ y.observed = x.observed /\ y.status = x.status /\ y.reason = x.reason /\ y.batch = id
      /\ y.admitted = x.admitted /\ y.dispatch = n /\ y.start = x.start
      /\ y.first = x.first /\ y.finished = x.finished /\ y.terminal = x.terminal
  BY DEF StateType, HandedOver
<1>. HIDE DEF y
<1>3. x.status = "pending" /\ x.admitted # NoTime /\ x.start = NoTime
  BY OnePlace DEF IsAdmitted, StateOK
<1>4. StateOK(y, t) /\ Past(y, n) /\ IsHanded(y)
  BY <1>2, <1>3 DEF StateOK, Past, IsHanded, NoTime, NoBatchId
<1>. QED
  BY <1>1, <1>2, <1>4 DEF y

\* A historical dispatch time becomes the time of the handoff, the batch and its records agree
\* on it, and it is not before the end of the batch before it.
LEMMA HandoffKeeps ==
  ASSUME CaseInv, now \in Nat, processed \in Nat, Handoff
  PROVE  CaseInv' /\ sched' = sched /\ formed' = {} /\ formed # {}
<1>. USE DEF CaseInv
<1>1. PICK f \in formed :
        LET dispatch == Later(f.dispatch, now) IN
        /\ work' = Append(work, [NoBatch EXCEPT !.id = f.ordinal, !.dispatch = dispatch,
                                                !.requests = f.requests])
        /\ record([r \in IdsOf(f.requests) |->
                  [life[r] EXCEPT !.dispatch = dispatch, !.batch = f.ordinal]])
  BY DEF Handoff
<1>2. /\ inFlight' = TRUE /\ formed' = {}
      /\ UNCHANGED <<now, completions, worker, sched, pending, processed, completed>>
  BY DEF Handoff, Threads
<1>3. /\ formed = {f} /\ ~inFlight
      /\ f \in Formeds /\ FormedOK(f) /\ Whole(f.requests)
  BY CaseFields DEF TokenOK, BatchesOK, TogetherOK
<1>4. /\ f.ordinal \in Nat /\ f.dispatch \in Nat /\ f.requests \in Seq(Entries)
      /\ f.ordinal = Len(completed) /\ f.dispatch <= now /\ Len(f.requests) \in 1..MaxBatch
  BY <1>3 DEF Formeds, FormedOK
<1>5. Later(f.dispatch, now) = now
  BY <1>4 DEF Later
<1>6. /\ work = <<>> /\ completions = <<>> /\ worker.at # "running" /\ worker.batch = NoBatch
      /\ Handed = {}
  BY <1>3, NothingOut
<1>7. PICK b : b = [NoBatch EXCEPT !.id = f.ordinal, !.dispatch = now, !.requests = f.requests]
  OBVIOUS
<1>8. /\ b = [id |-> f.ordinal, requests |-> f.requests, dispatch |-> now, start |-> NoTime,
              first |-> NoTime, finish |-> NoTime, failed |-> FALSE]
      /\ b \in Batches /\ b.id = f.ordinal /\ b.requests = f.requests /\ b.dispatch = now
  BY <1>4, <1>7 DEF NoBatch, Batches, Times
<1>9. work' = <<b>>
  BY <1>1, <1>5, <1>6, <1>7, InQueues
<1>. DEFINE ids == IdsOf(f.requests)
<1>10. life' = [r \in Requests |->
                  IF r \in ids THEN [life[r] EXCEPT !.dispatch = now, !.batch = f.ordinal]
                  ELSE life[r]]
  BY <1>1, <1>5 DEF record
<1>11. Forming = ids
  BY <1>3 DEF Forming
<1>12. \A r \in ids : r \in Requests /\ IsAdmitted(life[r])
  BY <1>11 DEF PlacesOK
<1>13. \A r \in IdsOf(sched.queue) : r \notin ids
  <2>1. \A r \in IdsOf(sched.queue) : r \in Nat
    BY Numbers DEF PlacesOK
  <2>. QED
    BY <1>11, <2>1 DEF QueueOK
<1>. HIDE DEF ids
<1>14. ASSUME NEW r \in ids
       PROVE  /\ life'[r] \in StateType /\ StateOK(life'[r], trace[r]) /\ Past(life'[r], now)
              /\ IsHanded(life'[r]) /\ life'[r].observed = life[r].observed
              /\ life'[r].dispatch = now /\ life'[r].batch = f.ordinal
  <2>1. r \in Requests /\ IsAdmitted(life[r]) /\ life[r] \in StateType /\ trace[r] \in Nat
        /\ StateOK(life[r], trace[r])
    BY <1>12, StatesOK
  <2>2. Past(life[r], now)
    <3>1. ~IsWaiting(life[r])
      BY <2>1, OnePlace
    <3>2. ~(Decided < r) /\ r \in Nat /\ Decided \in Int /\ Decided <= processed
      BY <2>1, <3>1, Numbers, CaseFields DEF PlacesOK, Decided, WaitersOK
    <3>. QED
      BY <2>1, <3>2 DEF RecordsOK
  <2>. DEFINE y == [life[r] EXCEPT !.dispatch = now, !.batch = f.ordinal]
  <2>3. life'[r] = y
    BY <1>10, <2>1
  <2>4. /\ y \in StateType /\ StateOK(y, trace[r]) /\ Past(y, now)
        /\ IsHanded(y) /\ y.observed = life[r].observed
        /\ y.dispatch = now /\ y.batch = f.ordinal
    <3>1. now \in Nat /\ f.ordinal \in Nat
      BY <1>4
    <3>2. y = HandedOver(life[r], now, f.ordinal)
      BY DEF HandedOver
    <3>. HIDE DEF y
    <3>. QED
      BY <2>1, <2>2, <3>1, <3>2, HandedState
  <2>. HIDE DEF y
  <2>. QED
    BY <2>3, <2>4
<1>15. \A r \in Requests : r \notin ids => life'[r] = life[r]
  BY <1>10
<1>16. CaseTypeOK'
  <2>1. life' \in [Requests -> StateType]
    <3>1. \A r \in Requests : (IF r \in ids
                               THEN [life[r] EXCEPT !.dispatch = now, !.batch = f.ordinal]
                               ELSE life[r]) \in StateType
      BY <1>10, <1>14, CaseFields
    <3>. QED
      BY <1>10, <3>1
  <2>2. work' \in Seq(Batches)
    BY <1>8, <1>9
  <2>. QED
    BY <1>2, <2>1, <2>2 DEF CaseTypeOK
<1>17. WaitersOK' /\ Decided' = Decided
  <2>1. \A r \in Requests : life'[r].observed = life[r].observed
    BY <1>14, <1>15
  <2>2. \A k \in DOMAIN pending : pending[k].id \in Requests
    BY CaseFields DEF Arrived
  <2>3. Decided' = Decided
    BY <1>2 DEF Decided
  <2>. QED
    BY <1>2, <2>1, <2>2, <2>3 DEF WaitersOK
<1>18. RecordsOK'
  BY <1>2, <1>14, <1>15 DEF RecordsOK
<1>19. /\ Forming' = {} /\ Handed' = ids /\ Served' = Served /\ \A k : Members(k)' = Members(k)
  <2>1. Handed' = BatchesIn(<<b>>) \cup Executing
    BY <1>2, <1>9 DEF Handed, Executing
  <2>2. BatchesIn(<<b>>) = ids /\ Executing = {}
    BY <1>6, <1>8, InQueues DEF Handed, ids
  <2>3. Served' = Served /\ \A k : Members(k)' = Members(k)
    BY <1>2 DEF Served, Members
  <2>. QED
    BY <1>2, <2>1, <2>2, <2>3 DEF Forming
<1>20. ASSUME NEW r \in ids
       PROVE  /\ ~IsWaiting(life'[r]) /\ ~IsAdmitted(life'[r]) /\ ~IsServed(life'[r])
              /\ ~IsWaiting(life[r]) /\ ~IsServed(life[r]) /\ ~IsHanded(life[r])
              /\ life[r].status # "rejected"
  <2>1. r \in Requests /\ IsAdmitted(life[r]) /\ life[r] \in StateType /\ trace[r] \in Nat
        /\ StateOK(life[r], trace[r])
    BY <1>12, StatesOK
  <2>2. ~IsHanded(life[r]) /\ ~IsServed(life[r]) /\ ~IsWaiting(life[r]) /\ life[r].status # "rejected"
    BY <2>1, OnePlace DEF IsAdmitted, IsHanded, IsServed
  <2>3. ~IsWaiting(life'[r]) /\ ~IsAdmitted(life'[r]) /\ ~IsServed(life'[r])
    BY <1>14, <2>1, OnePlace
  <2>. QED
    BY <2>2, <2>3
<1>21. PlacesOK'
  <2>1. \A r \in Requests : IsWaiting(life'[r]) <=> IsWaiting(life[r])
    BY <1>15, <1>20
  <2>2. IdsOf(sched.queue) = {r \in Requests : IsAdmitted(life'[r])}
    <3>1. ASSUME NEW r \in Requests PROVE r \in IdsOf(sched.queue) <=> IsAdmitted(life'[r])
      BY <1>11, <1>13, <1>15, <1>20 DEF PlacesOK
    <3>2. IdsOf(sched.queue) \subseteq Requests
      BY DEF PlacesOK
    <3>. QED
      BY <3>1, <3>2
  <2>3. ids = {r \in Requests : IsHanded(life'[r])}
    <3>1. ASSUME NEW r \in Requests PROVE r \in ids <=> IsHanded(life'[r])
      BY <1>6, <1>14, <1>15 DEF PlacesOK
    <3>. QED
      BY <1>12, <3>1
  <2>4. Served = {r \in Requests : IsServed(life'[r])}
    <3>1. \A r \in Requests : IsServed(life'[r]) <=> IsServed(life[r])
      BY <1>15, <1>20
    <3>. QED
      BY <3>1 DEF PlacesOK
  <2>. QED
    BY <1>2, <1>17, <1>19, <2>1, <2>2, <2>3, <2>4 DEF PlacesOK
<1>22. QueueOK'
  BY <1>2, <1>19 DEF QueueOK, Ascending
<1>23. TokenOK'
  BY <1>2, <1>6, <1>9, InQueues DEF TokenOK
<1>24. BatchesOK'
  <2>1. \A k \in DOMAIN completed : /\ ExecutedOK(completed[k]) /\ completed[k].finish <= now
                                    /\ CompletedOK(completed[k])
    BY DEF BatchesOK, CompletedOK, ExecutedOK
  <2>2. OutOK(b)'
    <3>1. Recording(b)'
      BY <1>4, <1>8, <1>14 DEF Recording, ids
    <3>2. now <= now
      BY Numbers
    <3>. QED
      BY <1>2, <1>4, <1>8, <2>1, <3>1, <3>2 DEF OutOK
  <2>3. \A k \in DOMAIN completed : CompletedOK(completed[k])'
    <3>1. SUFFICES ASSUME NEW k \in DOMAIN completed PROVE CompletedOK(completed[k])'
      OBVIOUS
    <3>2. PICK c : c = completed[k]
      OBVIOUS
    <3>3. \A r \in IdsOf(c.requests) : life'[r] = life[r]
      <4>1. SUFFICES ASSUME NEW r \in IdsOf(c.requests) PROVE life'[r] = life[r]
        OBVIOUS
      <4>2. r \in Served
        BY <3>2 DEF Served, Members
      <4>3. r \in Requests /\ IsServed(life[r])
        BY <4>2 DEF PlacesOK
      <4>. QED
        BY <1>15, <1>20, <4>3
    <3>4. ExecutedOK(c)' /\ Recording(c)'
      BY <1>2, <2>1, <3>2, <3>3 DEF CompletedOK, ExecutedOK, StartedOK, Recording
    <3>5. CompletedOK(c)'
      BY <2>1, <3>2, <3>3, <3>4 DEF CompletedOK
    <3>. QED
      BY <1>2, <3>2, <3>5
  <2>4. (\A k \in DOMAIN work : OutOK(work[k]))'
    BY <1>9, <2>2, InQueues
  <2>5. sched'.ordinal = Len(completed') + (IF inFlight' \/ formed' # {} THEN 1 ELSE 0)
    BY <1>2, <1>3 DEF BatchesOK
  <2>6. (\A g \in formed : FormedOK(g))' /\ (worker.at = "running" => OutOK(worker.batch) /\ StartedOK(worker.batch))'
        /\ (\A k \in DOMAIN completions : OutOK(completions[k]) /\ ExecutedOK(completions[k]))'
    BY <1>2, <1>6
  <2>. QED
    BY <1>2, <2>3, <2>4, <2>5, <2>6 DEF BatchesOK
<1>25. TogetherOK'
  <2>1. \A r \in Requests : life[r].status = "rejected" => life'[r].status = "rejected"
    BY <1>15, <1>20
  <2>2. \A x : Whole(x) => Whole(x)'
    BY <1>19, <2>1 DEF Whole
  <2>3. EqualArrivalsTogether'
    BY <1>2, <2>1, EqualStays DEF TogetherOK
  <2>4. (\A k \in DOMAIN work : Whole(work[k].requests))'
    BY <1>3, <1>8, <1>9, <2>2, InQueues
  <2>. QED
    BY <1>2, <2>2, <2>3, <2>4 DEF TogetherOK
<1>. QED
  BY <1>2, <1>3, <1>16, <1>17, <1>18, <1>21, <1>22, <1>23, <1>24, <1>25

-----------------------------------------------------------------------------
(***************************************************************************)
(* The scheduler at a dispatch                                             *)
(***************************************************************************)
\* A batch leaves the scheduler.
LEMMA Popped ==
  ASSUME NEW s \in SchedulerType(Requests), s.queue # <<>>, NEW t \in Nat, NEW d, d.at \in Nat
  PROVE  LET p == AfterPop(MoveTo(s, t), d)
         IN  /\ p \in SchedulerType(Requests) /\ p.ordinal = s.ordinal + 1 /\ p.closed = s.closed
             /\ p.queue = SubSeq(s.queue, BatchCount(s) + 1, Len(s.queue))
<1>. DEFINE m == MoveTo(s, t)
            rest == SubSeq(s.queue, BatchCount(s) + 1, Len(s.queue))
            w == IF m.policy = "fixed_window" THEN d.at + Window ELSE m.nextWindow
            p == AfterPop(m, d)
<1>1. /\ m.queue = s.queue /\ m.ordinal = s.ordinal /\ m.closed = s.closed /\ m.now = t
      /\ m.policy = s.policy /\ m.nextWindow = s.nextWindow
  BY DEF MoveTo
<1>2. BatchCount(m) = BatchCount(s)
  BY <1>1 DEF BatchCount
<1>. HIDE DEF m
<1>3. rest \in Seq(Entries)
  BY Cut, Counted, SchedulerFields
<1>4. w \in Nat \cup {NoTime}
  BY <1>1, Numbers, SchedulerFields
<1>5. p = [policy |-> s.policy, queue |-> rest, now |-> t, ordinal |-> s.ordinal + 1,
           closed |-> s.closed, nextWindow |-> w]
  BY <1>1, <1>2 DEF AfterPop
<1>. HIDE DEF rest, w
<1>6. /\ s.policy \in Policies /\ s.ordinal + 1 \in Nat /\ s.closed \in BOOLEAN
  BY SchedulerFields
<1>. HIDE DEF p
<1>7. /\ p \in SchedulerType(Requests) /\ p.ordinal = s.ordinal + 1 /\ p.closed = s.closed
      /\ p.queue = rest
  BY <1>3, <1>4, <1>5, <1>6 DEF SchedulerType, Entries
<1>. QED
  BY <1>7 DEF p, m, rest

\* What is due is due now or was due before.
LEMMA Due ==
  ASSUME NEW s \in SchedulerType(Requests), NEW t \in Nat, NEW d \in eligible_dispatch(s, t)
  PROVE  s.queue # <<>> /\ d.at \in Nat /\ d.at <= t /\ d.trigger \in Triggers
<1>1. s.queue # <<>>
  BY DEF eligible_dispatch
<1>2. OldestDeadline(s) \in Nat
  <2>1. s.queue[1].admitted \in Nat
    BY <1>1, SchedulerFields
  <2>. QED
    BY <2>1, Numbers DEF OldestDeadline
<1>3. \/ d = Fire(t, "immediate") \/ d = Fire(t, "size")
      \/ next_wakeup_ns(s) \in 0..t /\ d = Fire(next_wakeup_ns(s), "window")
      \/ OldestDeadline(s) <= t /\ d = Fire(OldestDeadline(s), "timeout")
  BY DEF eligible_dispatch
<1>4. CASE next_wakeup_ns(s) \in 0..t /\ d = Fire(next_wakeup_ns(s), "window")
  BY <1>1, <1>4 DEF Fire, Triggers
<1>. QED
  BY <1>1, <1>2, <1>3, <1>4 DEF Fire, Triggers

\* The clock of the scheduler, and its end.
LEMMA Moved ==
  ASSUME NEW s \in SchedulerType(Requests), NEW t \in Nat
  PROVE  /\ MoveTo(s, t) \in SchedulerType(Requests) /\ MoveTo(s, t).queue = s.queue
         /\ MoveTo(s, t).ordinal = s.ordinal /\ MoveTo(s, t).closed = s.closed
         /\ AfterClose(s) \in SchedulerType(Requests) /\ AfterClose(s).queue = s.queue
         /\ AfterClose(s).ordinal = s.ordinal /\ AfterClose(s).closed = (s.queue = <<>>)
<1>1. /\ MoveTo(s, t) \in SchedulerType(Requests) /\ MoveTo(s, t).queue = s.queue
      /\ MoveTo(s, t).ordinal = s.ordinal /\ MoveTo(s, t).closed = s.closed
  BY DEF MoveTo, SchedulerType
<1>. DEFINE c == (s.queue = <<>>)
<1>2. AfterClose(s) = [policy |-> s.policy, queue |-> s.queue, now |-> s.now, ordinal |-> s.ordinal,
                       closed |-> c, nextWindow |-> s.nextWindow]
  BY DEF AfterClose
<1>3. c \in BOOLEAN
  OBVIOUS
<1>. HIDE DEF c
<1>4. /\ AfterClose(s) \in SchedulerType(Requests) /\ AfterClose(s).queue = s.queue
      /\ AfterClose(s).ordinal = s.ordinal /\ AfterClose(s).closed = c
  BY <1>2, <1>3 DEF SchedulerType
<1>. QED
  BY <1>1, <1>4 DEF c

\* A dispatch while a batch is out moves the scheduler's clock and its windows.
LEMMA BusyStays ==
  ASSUME CaseInv, now \in Nat, sched' = Busy(sched, now),
         UNCHANGED <<now, work, completions, completed, worker, pending, processed, inFlight,
                     formed, life>>
  PROVE  CaseInv' /\ sched'.queue = sched.queue /\ sched'.closed = sched.closed
<1>1. sched \in SchedulerType(Requests)
  BY CaseFields DEF CaseInv
<1>2. SameQueue /\ sched'.closed = sched.closed
  BY <1>1, BusyKeeps DEF SameQueue
<1>. QED
  BY <1>2, CaseStays DEF SameQueue

\* A dispatch that finds nothing eligible,
LEMMA DispatchNoneKeeps ==
  ASSUME CaseInv, now \in Nat, DispatchNone
  PROVE  CaseInv' /\ sched'.queue = sched.queue /\ sched'.closed = sched.closed
<1>1. /\ sched' = MoveTo(sched, now)
      /\ UNCHANGED <<now, work, completions, completed, worker, pending, processed, inFlight,
                     formed, life>>
  BY DEF DispatchNone, queues, Threads
<1>2. sched \in SchedulerType(Requests)
  BY CaseFields DEF CaseInv
<1>3. SameQueue /\ sched'.closed = sched.closed
  BY <1>1, <1>2, Moved DEF SameQueue
<1>. QED
  BY <1>1, <1>3, CaseStays DEF SameQueue

\* ... a dispatch that forms a batch,
LEMMA DispatchBatchKeeps ==
  ASSUME CaseInv, now \in Nat, processed \in Nat, Apart(processed), formed = {},
         pending = <<>> \/ ~MayAdmit(sched), DispatchBatch
  PROVE  /\ CaseInv' /\ sched'.closed = sched.closed /\ formed' # {}
         /\ \A f \in formed' : Short(f.requests) =>
              \A r \in Requests : r <= processed =>
                r \in IdsOf(f.requests) \/ life[r].dispatch # NoTime \/ life[r].status = "rejected"
<1>1. PICK d \in eligible_dispatch(sched, now) :
        /\ sched' = AfterPop(MoveTo(sched, now), d) /\ formed' = {PoppedBatch(sched, d)}
  BY DEF DispatchBatch
<1>2. /\ ~inFlight
      /\ UNCHANGED <<now, work, completions, completed, worker, pending, processed, inFlight, life>>
  BY DEF DispatchBatch, queues, Threads
<1>3. sched \in SchedulerType(Requests)
  BY CaseFields DEF CaseInv
<1>4. sched.queue # <<>> /\ d.at \in Nat /\ d.at <= now /\ d.trigger \in Triggers
  BY <1>3, Due
<1>5. /\ sched' \in SchedulerType(Requests) /\ sched'.ordinal = sched.ordinal + 1
      /\ sched'.closed = sched.closed
      /\ sched'.queue = SubSeq(sched.queue, BatchCount(sched) + 1, Len(sched.queue))
  BY <1>1, <1>3, <1>4, Popped
<1>6. CaseInv' /\ formed' # {}
  BY <1>1, <1>2, <1>4, <1>5, PopKeeps
<1>. QED
  BY <1>1, <1>2, <1>4, <1>5, <1>6, PopTakesAll

\* ... the batch that close() pops,
LEMMA CloseBatchKeeps ==
  ASSUME CaseInv, now \in Nat, processed \in Nat, Apart(processed), formed = {}, pending = <<>>,
         CloseBatch
  PROVE  CaseInv' /\ (sched'.closed => sched'.queue = <<>>) /\ formed' # {}
<1>1. PICK d : d = Shutdown(now)
  OBVIOUS
<1>2. /\ ~inFlight /\ sched.queue # <<>>
      /\ sched' = AfterClose(AfterPop(MoveTo(sched, now), d)) /\ formed' = {PoppedBatch(sched, d)}
      /\ UNCHANGED <<now, work, completions, completed, worker, pending, processed, inFlight, life>>
  BY <1>1 DEF CloseBatch, queues, Threads
<1>3. sched \in SchedulerType(Requests)
  BY CaseFields DEF CaseInv
<1>4. d.at = now /\ d.at \in Nat /\ d.at <= now /\ d.trigger \in Triggers
  BY <1>1 DEF Shutdown, Fire, Triggers
<1>. DEFINE p == AfterPop(MoveTo(sched, now), d)
<1>5. /\ p \in SchedulerType(Requests) /\ p.ordinal = sched.ordinal + 1
      /\ p.queue = SubSeq(sched.queue, BatchCount(sched) + 1, Len(sched.queue))
  BY <1>2, <1>3, <1>4, Popped
<1>. HIDE DEF p
<1>6. /\ sched' \in SchedulerType(Requests) /\ sched'.ordinal = sched.ordinal + 1
      /\ sched'.queue = SubSeq(sched.queue, BatchCount(sched) + 1, Len(sched.queue))
      /\ sched'.closed => sched'.queue = <<>>
  BY <1>2, <1>5, Moved DEF p
<1>. QED
  BY <1>2, <1>4, <1>6, PopKeeps

\* ... and a close() of an empty queue.
LEMMA CloseEmptyKeeps ==
  ASSUME CaseInv, now \in Nat, CloseEmpty
  PROVE  CaseInv' /\ (sched'.closed => sched'.queue = <<>>)
<1>1. /\ sched' = AfterClose(MoveTo(sched, now))
      /\ UNCHANGED <<now, work, completions, completed, worker, pending, processed, inFlight,
                     formed, life>>
  BY DEF CloseEmpty, queues, Threads
<1>2. sched \in SchedulerType(Requests)
  BY CaseFields DEF CaseInv
<1>. DEFINE m == MoveTo(sched, now)
<1>3. m \in SchedulerType(Requests) /\ m.queue = sched.queue /\ m.ordinal = sched.ordinal
  BY <1>2, Moved
<1>. HIDE DEF m
<1>4. SameQueue /\ (sched'.closed => sched'.queue = <<>>)
  BY <1>1, <1>3, Moved DEF SameQueue, m
<1>. QED
  BY <1>1, <1>4, CaseStays

-----------------------------------------------------------------------------
(***************************************************************************)
(* Every step keeps the invariant                                          *)
(***************************************************************************)
\* Nothing that the case is about changes.
LEMMA NothingStays ==
  ASSUME CaseInv,
         UNCHANGED <<now, work, completions, completed, worker, sched, pending, processed, inFlight,
                     formed, life>>
  PROVE  CaseInv'
  BY CaseStays, SameScheduler

\* The coordinator stands still.
LEMMA PhaseStays ==
  ASSUME PhaseOK, UNCHANGED coordinator,
         producer'.at = producer.at \/ producer.at = "observing"
  PROVE  PhaseOK'
  BY DEF PhaseOK, coordinator, MayAdmit, ArrivalsPrecedeFlush

\* The coordinator goes on in its main loop.
LEMMA PhaseOpen ==
  ASSUME PhaseOK, pc \in {"top", "drain", "settle", "dispatch", "expire", "wait", "handoff"},
         pc' \in {"top", "drain", "settle", "expire", "wait"},
         formed' = {}, sched'.closed = sched.closed
  PROVE  PhaseOK'
<1>1. ~sched.closed
  BY DEF PhaseOK, Closing
<1>. QED
  BY <1>1 DEF PhaseOK, Phases, Closing, ArrivalsPrecedeFlush

\* A message is handled.
LEMMA HandleKeeps ==
  ASSUME LineInv, CaseInv, arrivals # <<>>, handle_notification(Head(arrivals)),
         arrivals' = Tail(arrivals), UNCHANGED <<now, work, Threads, formed>>
  PROVE  LineInv' /\ CaseInv' /\ sched'.closed = sched.closed
<1>1. Head(arrivals).kind \in {"done", "wakeup", "group"} /\ now \in Nat /\ processed \in Nat
  BY HeadFacts, LineFields DEF LineInv, Messages
<1>2. UNCHANGED <<now, work, worker, producer, formed>>
  BY DEF Threads
<1>3. CASE Head(arrivals).kind = "done"
  <2>1. /\ finished' = TRUE
        /\ UNCHANGED <<sched, completions, completed, inFlight, life, pending, processed>>
    BY <1>3 DEF handle_notification
  <2>2. LineInv'
    BY <1>2, <1>3, <2>1, HandleLine
  <2>3. CaseInv'
    BY <1>2, <2>1, NothingStays
  <2>. QED
    BY <2>1, <2>2, <2>3
<1>4. CASE Head(arrivals).kind = "wakeup"
  <2>1. collect_completions /\ UNCHANGED <<finished, pending, processed>>
    BY <1>4 DEF handle_notification
  <2>2. LineInv'
    BY <1>2, <1>4, <2>1, HandleLine
  <2>3. CaseInv' /\ sched'.closed = sched.closed
    BY <1>1, <1>2, <2>1, CollectKeeps
  <2>. QED
    BY <2>2, <2>3
<1>5. CASE Head(arrivals).kind = "group"
  <2>1. finished' = finished /\ processed' = processed + Len(Head(arrivals).group)
    BY <1>5 DEF handle_notification
  <2>2. LineInv'
    BY <1>2, <1>5, <2>1, HandleLine
  <2>3. CaseInv' /\ sched' = sched
    BY <1>2, <1>5, GroupKeeps
  <2>. QED
    BY <2>2, <2>3
<1>. QED
  BY <1>1, <1>3, <1>4, <1>5

\* Time, the producer and the worker.
LEMMA OtherSteps ==
  ASSUME OnlineInv, Tick \/ Producer \/ ProducerFails \/ Worker
  PROVE  OnlineInv'
<1>. USE DEF OnlineInv
<1>0. now \in Nat
  BY LineFields DEF LineInv
<1>1. CASE Tick
  <2>1. /\ now' = now + 1 /\ UNCHANGED coordinator /\ producer' = producer
        /\ UNCHANGED <<arrivals, processed, finished>>
        /\ UNCHANGED <<work, completions, completed, worker, sched, pending, processed, inFlight,
                       formed, life>>
    BY <1>1 DEF Tick, queues, coordinator
  <2>. QED
    BY <1>0, <1>1, <2>1, LineTick, CaseTick, PhaseStays
<1>2. CASE Producer \/ ProducerFails
  <2>1. /\ UNCHANGED coordinator /\ producer.at = "observing"
        /\ UNCHANGED <<now, work, completions, completed, worker, sched, pending, processed, inFlight,
                       formed, life>>
        /\ UNCHANGED <<processed, finished>>
    BY <1>2 DEF Producer, Observe, Publish, ProducerReturns, ProducerFails, queues, coordinator
  <2>2. LineInv'
    BY <1>2, <2>1, ObserveLine, PublishLine, EndsLine DEF Producer
  <2>. QED
    BY <2>1, <2>2, NothingStays, PhaseStays
<1>3. CASE Worker
  <2>1. UNCHANGED coordinator /\ producer' = producer /\ UNCHANGED <<now, processed, finished>>
    BY <1>3 DEF Worker, TakeWork, Execute, Notify, coordinator
  <2>2. PhaseOK'
    BY <2>1, PhaseStays
  <2>3. CASE TakeWork
    <3>1. arrivals' = arrivals
      BY <2>3 DEF TakeWork
    <3>. QED
      BY <1>0, <2>1, <2>2, <2>3, <3>1, LineStays, TakeWorkKeeps
  <2>4. CASE \E failed \in BOOLEAN : Execute(failed)
    <3>1. arrivals' = arrivals
      BY <2>4 DEF Execute
    <3>. QED
      BY <1>0, <2>1, <2>2, <2>4, <3>1, LineStays, ExecuteKeeps
  <2>5. CASE Notify
    BY <2>1, <2>2, <2>5, NotifyLine, NotifyKeeps
  <2>. QED
    BY <1>3, <2>3, <2>4, <2>5 DEF Worker
<1>. QED
  BY <1>1, <1>2, <1>3

\* The coordinator settles only while no waiter can be admitted any more.
LEMMA SettledOut ==
  ASSUME CaseTypeOK, now \in Nat, pc = "settle", Settled
  PROVE  pending = <<>> \/ ~MayAdmit(sched)
<1>1. SUFFICES ASSUME pending # <<>>, MayAdmit(sched) PROVE FALSE
  OBVIOUS
<1>2. pending[1] \in Arrived
  BY <1>1, CaseFields DEF CaseTypeOK
<1>3. Deadline(pending[1]) \in Nat
  BY <1>2, Numbers DEF Deadline, Arrived
<1>4. ~(now <= Deadline(pending[1])) /\ ~(now > Deadline(pending[1]))
  BY <1>1 DEF Settled, AdmitsHead, ExpiresHead
<1>. QED
  BY <1>3, <1>4

\* The main loop of the coordinator.
LEMMA LoopSteps ==
  ASSUME OnlineInv,
         Top \/ LeaveLoop \/ DrainOne \/ DrainedOut \/ SettleOne \/ Recheck \/ DispatchBusy
           \/ DispatchNone \/ DispatchBatch \/ SettledAgain \/ WaitNotified \/ WaitTimedOut
  PROVE  OnlineInv'
<1>. USE DEF OnlineInv
<1>0. now \in Nat /\ processed \in Nat /\ Apart(processed)
  BY LineFields DEF LineInv, LineOK
<1>a. pc \in {"top", "drain", "settle", "dispatch", "expire", "wait"} => formed = {} /\ ~sched.closed
  BY DEF PhaseOK, Closing
<1>1. CASE Top
  <2>1. /\ pc = "top" /\ pc' = "drain" /\ collect_completions
        /\ UNCHANGED <<now, work, worker, pending, processed, formed>>
        /\ UNCHANGED <<now, arrivals, producer, processed, finished>>
    BY <1>1 DEF Top, Threads
  <2>2. CaseInv' /\ sched'.closed = sched.closed
    BY <1>0, <2>1, CollectKeeps
  <2>3. LineInv'
    BY <2>1, LineStays
  <2>. QED
    BY <1>a, <2>1, <2>2, <2>3, PhaseOpen
<1>2. CASE DrainOne \/ WaitNotified
  <2>1. /\ pc \in {"drain", "wait"} /\ pc' \in {"top", "drain"} /\ formed' = formed
        /\ arrivals # <<>> /\ handle_notification(Head(arrivals)) /\ arrivals' = Tail(arrivals)
        /\ UNCHANGED <<now, work, Threads, formed>>
    BY <1>2 DEF DrainOne, WaitNotified
  <2>2. LineInv' /\ CaseInv' /\ sched'.closed = sched.closed
    BY <2>1, HandleKeeps
  <2>. QED
    BY <1>a, <2>1, <2>2, PhaseOpen
<1>3. CASE LeaveLoop \/ DrainedOut \/ Recheck \/ SettledAgain \/ WaitTimedOut
  <2>1. /\ UNCHANGED <<now, work, completions, completed, worker, sched, pending, processed, inFlight,
                       formed, life>>
        /\ UNCHANGED <<now, arrivals, producer, processed, finished>>
    BY <1>3 DEF LeaveLoop, DrainedOut, Recheck, SettledAgain, WaitTimedOut, queues, Threads
  <2>2. LineInv' /\ CaseInv'
    BY <2>1, LineStays, NothingStays
  <2>3. PhaseOK'
    <3>1. CASE LeaveLoop
      BY <1>a, <2>1, <3>1 DEF LeaveLoop, PhaseOK, Phases, Closing, ArrivalsPrecedeFlush
    <3>2. CASE Recheck
      <4>1. pc = "settle" /\ (pc' = "wait" \/ pc' = "dispatch")
        BY <3>2 DEF Recheck
      <4>2. pending = <<>> \/ ~MayAdmit(sched)
        BY <1>0, <3>2, SettledOut DEF Recheck, CaseInv
      <4>3. ASSUME pc' = "dispatch", NEW r \in Requests, trace[r] <= checked', processed < r
            PROVE  FALSE
        <5>1. checked' = now /\ trace[processed + 1] > now /\ processed + 1 \in Requests
          BY <1>0, <3>2, <4>3, Numbers DEF Recheck, unpublished_arrival_is_due, Last
        <5>2. trace[processed + 1] <= trace[r]
          BY <1>0, <4>3, <5>1, Numbers, TraceOrder
        <5>. QED
          BY <1>0, <4>3, <5>1, <5>2, Numbers
      <4>4. pc' = "dispatch" => \A r \in Requests : trace[r] <= checked' => r <= processed'
        BY <1>0, <2>1, <4>3, Numbers
      <4>5. ArrivalsPrecedeFlush'
        BY <4>1 DEF ArrivalsPrecedeFlush
      <4>. QED
        BY <1>a, <2>1, <4>1, <4>2, <4>4, <4>5 DEF PhaseOK, Phases, Closing, MayAdmit
    <3>3. CASE DrainedOut \/ SettledAgain \/ WaitTimedOut
      <4>1. pc \in {"drain", "expire", "wait"} /\ pc' \in {"wait", "settle", "top"}
        BY <3>3 DEF DrainedOut, SettledAgain, WaitTimedOut
      <4>. QED
        BY <1>a, <2>1, <4>1, PhaseOpen
    <3>. QED
      BY <1>3, <3>1, <3>2, <3>3
  <2>. QED
    BY <2>2, <2>3
<1>4. CASE SettleOne
  <2>1. /\ pc \in {"settle", "expire"} /\ pc' = pc
        /\ UNCHANGED <<now, work, completions, completed, worker, processed, inFlight, formed>>
        /\ UNCHANGED <<now, arrivals, producer, processed, finished>>
    BY <1>4 DEF SettleOne, queues, Threads
  <2>2. LineInv'
    BY <2>1, LineStays
  <2>3. CASE AdmitsHead /\ admit_head
    <3>1. CaseInv' /\ sched'.closed = sched.closed
      BY <1>0, <2>1, <2>3, AdmitKeeps
    <3>. QED
      BY <1>a, <2>1, <2>2, <3>1, PhaseOpen
  <2>4. CASE ExpiresHead(pc = "expire") /\ expire_head
    <3>1. (pc = "expire") \in BOOLEAN /\ sched' = sched
      BY <2>4 DEF expire_head
    <3>2. CaseInv'
      BY <1>0, <2>1, <2>4, <3>1, ExpireKeeps
    <3>. QED
      BY <1>a, <2>1, <2>2, <3>1, <3>2, PhaseOpen
  <2>. QED
    BY <1>4, <2>3, <2>4 DEF SettleOne
<1>5. CASE DispatchBusy
  <2>1. /\ pc = "dispatch" /\ pc' = "expire" /\ sched' = Busy(sched, now)
        /\ UNCHANGED <<now, work, completions, completed, worker, pending, processed, inFlight,
                       formed, life>>
        /\ UNCHANGED <<now, arrivals, producer, processed, finished>>
    BY <1>5 DEF DispatchBusy, queues, Threads
  <2>2. CaseInv' /\ sched'.closed = sched.closed /\ LineInv'
    BY <1>0, <2>1, BusyStays, LineStays
  <2>. QED
    BY <1>a, <2>1, <2>2, PhaseOpen
<1>6. CASE DispatchNone
  <2>1. /\ pc = "dispatch" /\ pc' = "expire" /\ formed' = formed
        /\ UNCHANGED <<now, arrivals, producer, processed, finished>>
    BY <1>6 DEF DispatchNone, queues, Threads
  <2>2. CaseInv' /\ sched'.closed = sched.closed /\ LineInv'
    BY <1>0, <1>6, <2>1, DispatchNoneKeeps, LineStays
  <2>. QED
    BY <1>a, <2>1, <2>2, PhaseOpen
<1>7. CASE DispatchBatch
  <2>1. /\ pc = "dispatch" /\ pc' = "handoff" /\ UNCHANGED <<pending>>
        /\ UNCHANGED <<now, arrivals, producer, processed, finished>>
    BY <1>7 DEF DispatchBatch, queues, Threads
  <2>2. pending = <<>> \/ ~MayAdmit(sched)
    BY <2>1 DEF PhaseOK
  <2>3. CaseInv' /\ sched'.closed = sched.closed /\ formed' # {} /\ LineInv'
    BY <1>0, <1>a, <1>7, <2>1, <2>2, DispatchBatchKeeps, LineStays
  <2>4. ArrivalsPrecedeFlush'
    <3>1. \A r \in Requests : trace[r] <= checked => r <= processed
      BY <2>1 DEF PhaseOK
    <3>2. checked' = checked /\ life' = life
      BY <1>7 DEF DispatchBatch, Threads
    <3>3. \A f \in formed' : Short(f.requests) =>
            \A r \in Requests : r <= processed =>
              r \in IdsOf(f.requests) \/ life[r].dispatch # NoTime \/ life[r].status = "rejected"
      BY <1>0, <1>a, <1>7, <2>1, <2>2, DispatchBatchKeeps
    <3>. QED
      BY <3>1, <3>2, <3>3 DEF ArrivalsPrecedeFlush, Short
  <2>5. PhaseOK'
    BY <1>a, <2>1, <2>3, <2>4 DEF PhaseOK, Phases, Closing
  <2>. QED
    BY <2>3, <2>5
<1>. QED
  BY <1>1, <1>2, <1>3, <1>4, <1>5, <1>6, <1>7

\* The handoff, the join and the final loop.
LEMMA ClosingSteps ==
  ASSUME OnlineInv,
         Handoff \/ JoinProducer \/ CloseLoop \/ CloseBusy \/ CloseBatch \/ CloseEmpty \/ Finish
  PROVE  OnlineInv'
<1>. USE DEF OnlineInv
<1>0. now \in Nat /\ processed \in Nat /\ Apart(processed) /\ producer.at \in {"observing", "returned", "failed"}
  BY LineFields DEF LineInv, LineOK, LineTypeOK, Producers
<1>a. pc \in {"close", "closeDispatch"} =>
        formed = {} /\ finished /\ pending = <<>> /\ producer.at = "returned"
  BY DEF PhaseOK, Closing
<1>1. CASE Handoff
  <2>1. /\ pc \in {"handoff", "handoffClosing"}
        /\ pc' = IF pc = "handoff" THEN "expire" ELSE "close"
        /\ UNCHANGED <<now, arrivals, producer, processed, finished, pending>>
    BY <1>1 DEF Handoff, Threads
  <2>2. CaseInv' /\ sched' = sched /\ formed' = {}
    BY <1>0, <1>1, HandoffKeeps
  <2>3. LineInv'
    BY <2>1, LineStays
  <2>4. PhaseOK'
    BY <2>1, <2>2 DEF PhaseOK, Phases, Closing, ArrivalsPrecedeFlush
  <2>. QED
    BY <2>2, <2>3, <2>4
<1>2. CASE JoinProducer
  <2>1. /\ pc = "join" /\ producer.at # "observing"
        /\ pc' = IF producer.at = "failed" THEN "raised" ELSE "close"
        /\ UNCHANGED <<now, work, completions, completed, worker, sched, pending, processed, inFlight,
                       formed, life>>
        /\ UNCHANGED <<now, arrivals, producer, processed, finished>>
    BY <1>2 DEF JoinProducer, queues, Threads
  <2>2. LineInv' /\ CaseInv'
    BY <2>1, LineStays, NothingStays
  <2>3. PhaseOK'
    BY <1>0, <2>1 DEF PhaseOK, Phases, Closing, ArrivalsPrecedeFlush
  <2>. QED
    BY <2>2, <2>3
<1>3. CASE CloseLoop \/ Finish
  <2>1. /\ pc = "close" /\ collect_completions /\ (pc' = "closeDispatch" \/ (pc' = "done" /\ ~inFlight /\ sched.closed))
        /\ UNCHANGED <<now, work, worker, pending, processed, formed>>
        /\ UNCHANGED <<now, arrivals, producer, processed, finished>>
    BY <1>3 DEF CloseLoop, Finish, Threads
  <2>2. CaseInv' /\ sched'.closed = sched.closed /\ sched'.queue = sched.queue /\ (inFlight' => inFlight)
    BY <1>0, <2>1, CollectKeeps
  <2>3. inFlight \in BOOLEAN /\ inFlight' \in BOOLEAN
    BY <2>2 DEF CaseInv, CaseTypeOK
  <2>4. LineInv'
    BY <2>1, LineStays
  <2>5. PhaseOK'
    BY <1>a, <2>1, <2>2 DEF PhaseOK, Phases, Closing, ArrivalsPrecedeFlush
  <2>. QED
    BY <2>2, <2>4, <2>5
<1>4. CASE CloseBusy
  <2>1. /\ pc = "closeDispatch" /\ pc' = "close" /\ sched' = Busy(sched, now)
        /\ UNCHANGED <<now, work, completions, completed, worker, pending, processed, inFlight,
                       formed, life>>
        /\ UNCHANGED <<now, arrivals, producer, processed, finished>>
    BY <1>4 DEF CloseBusy, queues, Threads
  <2>2. CaseInv' /\ sched'.closed = sched.closed /\ sched'.queue = sched.queue /\ LineInv'
    BY <1>0, <2>1, BusyStays, LineStays
  <2>3. PhaseOK'
    BY <1>a, <2>1, <2>2 DEF PhaseOK, Phases, Closing, ArrivalsPrecedeFlush
  <2>. QED
    BY <2>2, <2>3
<1>5. CASE CloseBatch
  <2>1. /\ pc = "closeDispatch" /\ pc' = "handoffClosing" /\ UNCHANGED pending
        /\ UNCHANGED <<now, arrivals, producer, processed, finished>>
    BY <1>5 DEF CloseBatch, queues, Threads
  <2>2. CaseInv' /\ (sched'.closed => sched'.queue = <<>>) /\ formed' # {} /\ LineInv'
    BY <1>0, <1>a, <1>5, <2>1, CloseBatchKeeps, LineStays
  <2>3. PhaseOK'
    BY <1>a, <2>1, <2>2 DEF PhaseOK, Phases, Closing, ArrivalsPrecedeFlush
  <2>. QED
    BY <2>2, <2>3
<1>6. CASE CloseEmpty
  <2>1. /\ pc = "closeDispatch" /\ pc' = "close" /\ UNCHANGED <<pending, formed>>
        /\ UNCHANGED <<now, arrivals, producer, processed, finished>>
    BY <1>6 DEF CloseEmpty, queues, Threads
  <2>2. CaseInv' /\ (sched'.closed => sched'.queue = <<>>) /\ LineInv'
    BY <1>0, <1>6, <2>1, CloseEmptyKeeps, LineStays
  <2>3. PhaseOK'
    BY <1>a, <2>1, <2>2 DEF PhaseOK, Phases, Closing, ArrivalsPrecedeFlush
  <2>. QED
    BY <2>2, <2>3
<1>. QED
  BY <1>1, <1>2, <1>3, <1>4, <1>5, <1>6

\* Every step of the three threads keeps the invariant.
LEMMA OnlineStep == OnlineInv /\ [OnlineNext]_onlineVars => OnlineInv'
<1>1. SUFFICES ASSUME OnlineInv, [OnlineNext]_onlineVars PROVE OnlineInv'
  OBVIOUS
<1>2. CASE UNCHANGED onlineVars
  <2>1. /\ UNCHANGED coordinator /\ producer' = producer
        /\ UNCHANGED <<now, arrivals, producer, processed, finished>>
        /\ UNCHANGED <<now, work, completions, completed, worker, sched, pending, processed, inFlight,
                       formed, life>>
    BY <1>2 DEF onlineVars, queues, coordinator
  <2>. QED
    BY <1>1, <2>1, LineStays, NothingStays, PhaseStays DEF OnlineInv
<1>3. CASE OnlineNext
  BY <1>1, <1>3, OtherSteps, LoopSteps, ClosingSteps DEF OnlineNext, Coordinator
<1>. QED
  BY <1>1, <1>2, <1>3

\* A case starts with nothing published and nobody waiting.
LEMMA OnlineStart == OnlineInit => OnlineInv
<1>1. SUFFICES ASSUME OnlineInit PROVE OnlineInv
  OBVIOUS
<1>. USE DEF OnlineInit
<1>2. /\ now = 0 /\ arrivals = <<>> /\ work = <<>> /\ completions = <<>> /\ processed = 0
      /\ finished = FALSE /\ inFlight = FALSE /\ formed = {} /\ completed = <<>> /\ pending = <<>>
      /\ producer = [at |-> "observing", next |-> 1, group |-> <<>>]
      /\ worker = [at |-> "idle", batch |-> NoBatch] /\ pc = "top"
      /\ life = [r \in Requests |-> FreshState(trace[r])]
  BY <1>1
<1>3. /\ producer.at = "observing" /\ producer.next = 1 /\ producer.group = <<>>
      /\ worker.at = "idle" /\ worker.batch = NoBatch
  BY <1>2
<1>4. Published = 0 /\ Carried = {}
  BY <1>2, <1>3 DEF Published, Carried
<1>5. LineInv
  <2>1. LineTypeOK
    <3>1. 1 \in 1..(Last + 1) /\ 0 \in 0..Last /\ <<>> \in Seq(Arrived) /\ <<>> \in Seq(Messages)
      BY Numbers
    <3>2. producer \in Producers
      BY <1>2, <3>1 DEF Producers
    <3>. QED
      BY <1>2, <3>1, <3>2 DEF LineTypeOK
  <2>2. GroupsOK
    BY <1>2 DEF GroupsOK
  <2>3. LineOK
    <3>1. Apart(0)
      BY Numbers DEF Apart
    <3>. QED
      BY <1>2, <1>4, <3>1 DEF LineOK
  <2>4. ProducerOK
    BY <1>2, <1>3 DEF ProducerOK
  <2>5. DoneOK
    BY <1>2 DEF DoneOK
  <2>. QED
    BY <2>1, <2>2, <2>3, <2>4, <2>5 DEF LineInv
<1>6. /\ sched \in SchedulerType(Requests) /\ sched.queue = <<>> /\ sched.ordinal = 0
      /\ sched.closed = FALSE
  <2>1. PICK policy \in Policies : sched = NewScheduler(policy)
    BY <1>1
  <2>. DEFINE w == IF Window > 0 THEN Window ELSE NoTime
  <2>2. w \in Nat \cup {NoTime}
    BY Numbers
  <2>3. sched = [policy |-> policy, queue |-> <<>>, now |-> 0, ordinal |-> 0, closed |-> FALSE,
                 nextWindow |-> w]
    BY <2>1 DEF NewScheduler
  <2>. HIDE DEF w
  <2>. QED
    BY <2>2, <2>3 DEF SchedulerType
<1>7. ASSUME NEW r \in Requests
      PROVE  /\ life[r] \in StateType /\ StateOK(life[r], trace[r]) /\ IsWaiting(life[r])
             /\ ~IsAdmitted(life[r]) /\ ~IsHanded(life[r]) /\ ~IsServed(life[r])
  <2>1. life[r] = FreshState(trace[r]) /\ trace[r] \in Nat
    BY <1>2, Numbers
  <2>2. FreshState(trace[r]) \in StateType
    BY <2>1 DEF FreshState, StateType
  <2>3. /\ life[r].observed = trace[r] /\ life[r].status = "pending" /\ life[r].reason = FALSE
        /\ life[r].batch = NoBatchId /\ life[r].admitted = NoTime /\ life[r].dispatch = NoTime
        /\ life[r].start = NoTime /\ life[r].first = NoTime /\ life[r].finished = NoTime
        /\ life[r].terminal = NoTime
    BY <2>1 DEF FreshState
  <2>. QED
    BY <2>1, <2>2, <2>3 DEF StateOK, IsWaiting, IsAdmitted, IsHanded, IsServed
<1>8. IdsOf(sched.queue) = {} /\ Forming = {} /\ Handed = {} /\ Served = {} /\ Decided = 0
  <2>1. IdsOf(sched.queue) = {}
    BY <1>6 DEF IdsOf
  <2>2. Handed = {}
    BY <1>2, <1>3, InQueues DEF Handed, Executing
  <2>3. Forming = {} /\ Served = {}
    BY <1>2 DEF Forming, Served
  <2>4. Decided = 0
    <3>1. processed = 0 /\ Len(pending) = 0
      BY <1>2
    <3>. QED
      BY <3>1 DEF Decided
  <2>. QED
    BY <2>1, <2>2, <2>3, <2>4
<1>9. CaseInv
  <2>1. CaseTypeOK
    <3>1. life \in [Requests -> StateType]
      BY <1>2, <1>7
    <3>2. /\ work \in Seq(Batches) /\ completions \in Seq(Batches) /\ completed \in Seq(Batches)
          /\ pending \in Seq(Arrived)
      BY <1>2
    <3>3. worker \in [at : {"idle", "running", "notifying"}, batch : Batches \cup {NoBatch}]
      BY <1>2
    <3>. QED
      BY <1>2, <1>6, <3>1, <3>2, <3>3 DEF CaseTypeOK
  <2>2. WaitersOK
    BY <1>2 DEF WaitersOK
  <2>3. RecordsOK
    <3>1. \A r \in Requests : ~(r <= 0)
      BY Numbers
    <3>. QED
      BY <1>2, <1>7, <3>1 DEF RecordsOK
  <2>4. PlacesOK
    <3>1. \A r \in Requests : 0 < r
      BY Numbers
    <3>. QED
      BY <1>7, <1>8, <3>1 DEF PlacesOK
  <2>5. QueueOK
    BY <1>6, <1>8 DEF QueueOK, Ascending
  <2>6. TokenOK
    BY <1>2, <1>3 DEF TokenOK
  <2>7. BatchesOK
    BY <1>2, <1>3, <1>6 DEF BatchesOK
  <2>8. TogetherOK
    <3>1. Whole(worker.batch.requests)
      BY <1>3, InQueues DEF Whole
    <3>2. EqualArrivalsTogether
      BY <1>2 DEF EqualArrivalsTogether
    <3>. QED
      BY <1>2, <3>1, <3>2 DEF TogetherOK
  <2>. QED
    BY <2>1, <2>2, <2>3, <2>4, <2>5, <2>6, <2>7, <2>8 DEF CaseInv
<1>10. PhaseOK
  BY <1>2, <1>6 DEF PhaseOK, Phases, Closing, ArrivalsPrecedeFlush
<1>. QED
  BY <1>5, <1>9, <1>10 DEF OnlineInv

\* At every step of run_online_case the line of requests, the places of the requests and
\* their records agree.
THEOREM OnlineInvariant == OnlineSpec => []OnlineInv
  BY OnlineStart, OnlineStep, PTL DEF OnlineSpec

-----------------------------------------------------------------------------
(***************************************************************************)
(* What the artifacts say                                                  *)
(***************************************************************************)
\* A queue has at least as many entries as it has requests.
LEMMA IdsCount ==
  ASSUME NEW queue \in Seq(Entries)
  PROVE  /\ IsFiniteSet(IdsOf(queue)) /\ IdsOf(queue) \subseteq Requests
         /\ Cardinality(IdsOf(queue)) \in Nat /\ Cardinality(IdsOf(queue)) <= Len(queue)
         /\ Len(queue) > 0 => IdsOf(queue) # {} /\ Cardinality(IdsOf(queue)) > 0
<1>1. PICK n : n = Len(queue)
  OBVIOUS
<1>2. n \in Nat /\ DOMAIN queue = 1..n /\ \A k \in 1..n : queue[k] \in Entries
  BY <1>1
<1>3. IdsOf(queue) \subseteq Requests /\ IsFiniteSet(IdsOf(queue))
  <2>1. \A e \in Entries : e.id \in Requests
    BY DEF Entries
  <2>2. IsFiniteSet(Requests)
    BY FS_Interval, Numbers
  <2>3. IdsOf(queue) \subseteq Requests
    BY <2>1, IdsTyped
  <2>. QED
    BY <2>2, <2>3, FS_Subset
<1>. DEFINE f == [k \in 1..n |-> queue[k].id]
<1>4. f \in Surjection(1..n, IdsOf(queue))
  <2>1. \A k \in 1..n : f[k] \in IdsOf(queue)
    BY <1>2 DEF IdsOf
  <2>2. \A r \in IdsOf(queue) : \E k \in 1..n : f[k] = r
    BY <1>2 DEF IdsOf
  <2>3. f \in [1..n -> IdsOf(queue)]
    BY <2>1
  <2>. HIDE DEF f
  <2>. QED
    BY <2>2, <2>3 DEF Surjection
<1>5. IsFiniteSet(1..n) /\ Cardinality(1..n) = n
  BY <1>2, FS_Interval
<1>6. Cardinality(IdsOf(queue)) <= n
  BY <1>4, <1>5, FS_Surjection
<1>7. Cardinality(IdsOf(queue)) \in Nat
  BY <1>3, FS_CardinalityType
<1>8. n > 0 => IdsOf(queue) # {}
  <2>1. n > 0 => 1 \in 1..n
    BY <1>2
  <2>. QED
    BY <1>2, <2>1 DEF IdsOf
<1>9. IdsOf(queue) # {} => Cardinality(IdsOf(queue)) > 0
  BY <1>3, <1>7, FS_EmptySet
<1>. QED
  BY <1>1, <1>3, <1>6, <1>7, <1>8, <1>9

\* A request that came to its end has a row that the validator accepts.
LEMMA RowAccepted ==
  ASSUME NEW r \in Requests, NEW t \in Nat, NEW x \in StateType, StateOK(x, t), x.status # "pending"
  PROVE  EventAccepted(EventRow(r, t, x))
<1>. DEFINE event == EventRow(r, t, x)
            chain == LifecycleOf(event)
            present == {k \in 1..5 : chain[k] # NoTime}
<1>1. /\ event.scheduled = t /\ event.observed = x.observed /\ event.terminal = x.terminal
      /\ event.status = x.status /\ event.reason = x.reason /\ event.batch = x.batch
      /\ event.admitted = x.admitted /\ event.finished = x.finished
      /\ chain[1] = x.admitted /\ chain[2] = x.dispatch /\ chain[3] = x.start
      /\ chain[4] = x.first /\ chain[5] = x.finished
  BY DEF EventRow, LifecycleOf
<1>2. /\ x.admitted \in Times /\ x.dispatch \in Times /\ x.start \in Times /\ x.first \in Times
      /\ x.finished \in Times /\ x.terminal \in Times /\ x.observed \in Nat
      /\ x.batch \in Nat \cup {NoBatchId} /\ x.reason \in BOOLEAN
      /\ x.status \in {"completed", "failed", "rejected"}
  BY StateFields
<1>3. \A k \in 1..5 : k = 1 \/ k = 2 \/ k = 3 \/ k = 4 \/ k = 5
  OBVIOUS
<1>. SUFFICES /\ event.scheduled <= event.observed /\ event.observed <= event.terminal
              /\ \A k \in present : 1..k \subseteq present
              /\ \A k, l \in present : k <= l => chain[k] <= chain[l]
              /\ 1 \in present => event.observed <= event.admitted
              /\ \/ /\ event.status = "completed"
                    /\ present = 1..5 /\ event.finished = event.terminal
                    /\ event.batch # NoBatchId /\ ~event.reason
                 \/ /\ event.status = "rejected"
                    /\ present = {} /\ event.batch = NoBatchId /\ event.reason
                 \/ event.status = "failed" /\ event.reason
  BY DEF EventAccepted
<1>. HIDE DEF event, chain
<1>4. t <= x.observed
  BY DEF StateOK
<1>5. CASE x.status = "completed"
  <2>1. /\ x.admitted # NoTime /\ x.dispatch # NoTime /\ x.start # NoTime /\ x.batch # NoBatchId
        /\ ~x.reason /\ x.start <= x.first /\ x.first <= x.finished /\ x.finished = x.terminal
        /\ x.admitted <= x.dispatch /\ x.dispatch <= x.start
        /\ x.admitted \in x.observed..(x.observed + Timeout)
    BY <1>5 DEF StateOK
  <2>2. /\ x.admitted \in Nat /\ x.dispatch \in Nat /\ x.start \in Nat /\ x.first \in Nat
        /\ x.finished \in Nat /\ x.observed <= x.admitted
    BY <1>2, <2>1, Numbers DEF NoTime, Times
  <2>3. present = 1..5
    BY <1>1, <1>3, <2>2 DEF NoTime
  <2>4. \A k, l \in 1..5 : k <= l => chain[k] <= chain[l]
    BY <1>1, <1>3, <2>1, <2>2
  <2>5. \A k \in 1..5 : 1..k \subseteq 1..5
    OBVIOUS
  <2>6. x.observed <= x.terminal
    BY <1>2, <2>1, <2>2
  <2>. HIDE DEF present
  <2>. QED
    BY <1>1, <1>4, <1>5, <2>1, <2>2, <2>3, <2>4, <2>5, <2>6
<1>6. CASE x.status = "rejected"
  <2>1. /\ x.admitted = NoTime /\ x.dispatch = NoTime /\ x.start = NoTime /\ x.first = NoTime
        /\ x.finished = NoTime /\ x.batch = NoBatchId /\ x.reason
        /\ x.terminal >= x.observed + Timeout
    BY <1>2, <1>6 DEF StateOK
  <2>2. present = {}
    BY <1>1, <1>3, <2>1
  <2>3. x.observed <= x.terminal
    BY <1>2, <2>1, Numbers DEF Times, NoTime
  <2>. HIDE DEF present
  <2>. QED
    BY <1>1, <1>4, <1>6, <2>1, <2>2, <2>3
<1>7. CASE x.status = "failed"
  <2>1. /\ x.admitted # NoTime /\ x.dispatch # NoTime /\ x.start # NoTime
        /\ x.reason /\ x.start <= x.terminal /\ x.first = NoTime /\ x.finished = NoTime
        /\ x.admitted <= x.dispatch /\ x.dispatch <= x.start
        /\ x.admitted \in x.observed..(x.observed + Timeout)
    BY <1>7 DEF StateOK
  <2>2. /\ x.admitted \in Nat /\ x.dispatch \in Nat /\ x.start \in Nat /\ x.observed <= x.admitted
    BY <1>2, <2>1, Numbers DEF NoTime, Times
  <2>3. present = 1..3
    BY <1>1, <1>3, <2>1, <2>2 DEF NoTime
  <2>4. \A k, l \in 1..3 : k <= l => chain[k] <= chain[l]
    BY <1>1, <1>3, <2>1, <2>2
  <2>5. \A k \in 1..3 : 1..k \subseteq 1..3
    OBVIOUS
  <2>6. x.observed <= x.terminal
    BY <1>2, <2>1, <2>2 DEF Times, NoTime
  <2>. HIDE DEF present
  <2>. QED
    BY <1>1, <1>4, <1>7, <2>1, <2>2, <2>3, <2>4, <2>5, <2>6
<1>. QED
  BY <1>2, <1>5, <1>6, <1>7

\* The row of a batch is accepted,
LEMMA BatchRowAccepted ==
  ASSUME CaseInv, NEW k \in DOMAIN completed
  PROVE  BatchAccepted(BatchRow(completed[k]))
<1>1. PICK b : b = completed[k]
  OBVIOUS
<1>. DEFINE row == BatchRow(b)
<1>2. b \in Batches /\ CompletedOK(b)
  BY <1>1, CaseFields DEF CaseInv, BatchesOK
<1>3. /\ b.requests \in Seq(Entries) /\ b.dispatch \in Nat /\ b.start \in Nat /\ b.first \in Nat
      /\ b.finish \in Nat /\ b.failed \in BOOLEAN /\ Len(b.requests) \in 1..MaxBatch
      /\ b.dispatch <= b.start /\ b.start <= b.first /\ b.first <= b.finish
  BY <1>2, BatchFields DEF CompletedOK, ExecutedOK, StartedOK, Recording
<1>4. /\ row.members = IdsOf(b.requests) /\ row.dispatch = b.dispatch /\ row.start = b.start
      /\ row.first = (IF b.failed THEN NoTime ELSE b.first) /\ row.finished = b.finish
      /\ row.status = (IF b.failed THEN "failed" ELSE "completed") /\ row.reason = b.failed
  BY DEF BatchRow
<1>. HIDE DEF row
<1>5. Cardinality(row.members) \in 1..MaxBatch
  <2>1. Len(b.requests) > 0 /\ Len(b.requests) \in Nat /\ Len(b.requests) <= MaxBatch
    BY <1>3, Numbers
  <2>2. /\ Cardinality(IdsOf(b.requests)) \in Nat /\ Cardinality(IdsOf(b.requests)) > 0
        /\ Cardinality(IdsOf(b.requests)) <= Len(b.requests)
    BY <1>3, <2>1, IdsCount
  <2>. QED
    BY <1>4, <2>1, <2>2, Numbers
<1>6. row.dispatch <= row.start /\ row.start <= row.finished
  BY <1>3, <1>4
<1>7. row.first # NoTime => row.first \in row.start..row.finished
  BY <1>3, <1>4
<1>8. \/ row.status = "completed" /\ ~row.reason /\ row.first # NoTime
      \/ row.status = "failed" /\ row.reason
  BY <1>3, <1>4 DEF NoTime
<1>9. BatchAccepted(row)
  BY <1>5, <1>6, <1>7, <1>8 DEF BatchAccepted
<1>. QED
  BY <1>1, <1>9 DEF row

\* ... two batches share neither a number nor a request,
LEMMA CompletedApart ==
  ASSUME CaseInv, NEW k \in DOMAIN completed, NEW l \in DOMAIN completed, k # l
  PROVE  /\ completed[k].id # completed[l].id
         /\ IdsOf(completed[k].requests) \cap IdsOf(completed[l].requests) = {}
<1>1. /\ completed[k].id = k - 1 /\ completed[l].id = l - 1
      /\ CompletedOK(completed[k]) /\ CompletedOK(completed[l])
  BY DEF CaseInv, BatchesOK
<1>2. k \in Nat /\ l \in Nat
  BY CaseFields DEF CaseInv
<1>3. completed[k].id # completed[l].id
  BY <1>1, <1>2
<1>4. /\ \A r \in IdsOf(completed[k].requests) : life[r].batch = completed[k].id
      /\ \A r \in IdsOf(completed[l].requests) : life[r].batch = completed[l].id
  BY <1>1 DEF CompletedOK, Recording
<1>. QED
  BY <1>3, <1>4

\* ... and the rows of its requests agree with it.
LEMMA MembersAgree ==
  ASSUME CaseInv, NEW k \in DOMAIN completed
  PROVE  \A r \in IdsOf(completed[k].requests) :
           /\ r \in Requests
           /\ Agree(EventRow(r, trace[r], life[r]), BatchRow(completed[k]))
           /\ life[r].terminal = completed[k].finish /\ completed[k].finish \in Nat
<1>1. PICK b : b = completed[k]
  OBVIOUS
<1>. DEFINE row == BatchRow(b)
<1>2. /\ b \in Batches /\ CompletedOK(b) /\ b.failed \in BOOLEAN
      /\ IdsOf(b.requests) \subseteq Requests /\ b.finish \in Nat
  BY <1>1, CaseFields, BatchFields DEF CaseInv, BatchesOK, CompletedOK, ExecutedOK
<1>3. /\ row.id = b.id /\ row.dispatch = b.dispatch /\ row.start = b.start
      /\ row.first = (IF b.failed THEN NoTime ELSE b.first) /\ row.finished = b.finish
      /\ row.status = (IF b.failed THEN "failed" ELSE "completed") /\ row.reason = b.failed
  BY DEF BatchRow
<1>. HIDE DEF row
<1>4. ASSUME NEW r \in IdsOf(b.requests)
      PROVE  r \in Requests /\ Agree(EventRow(r, trace[r], life[r]), row) /\ life[r].terminal = b.finish
  <2>. DEFINE event == EventRow(r, trace[r], life[r])
  <2>1. /\ event.batch = life[r].batch /\ event.dispatch = life[r].dispatch
        /\ event.start = life[r].start /\ event.status = life[r].status
        /\ event.reason = life[r].reason /\ event.first = life[r].first
        /\ event.finished = life[r].finished
    BY DEF EventRow
  <2>2. /\ life[r].batch = b.id /\ life[r].dispatch = b.dispatch /\ life[r].start = b.start
        /\ life[r].terminal = b.finish
        /\ life[r].status = IF b.failed THEN "failed" ELSE "completed"
        /\ ~b.failed => life[r].first = b.first /\ life[r].finished = b.finish
    BY <1>2 DEF CompletedOK, Recording
  <2>3. /\ r \in Requests /\ life[r].reason \in BOOLEAN
        /\ life[r].status = "completed" => ~life[r].reason
        /\ life[r].status = "failed" => life[r].reason
    BY <1>2, StatesOK, StateFields DEF StateOK
  <2>. HIDE DEF event
  <2>4. event.reason = row.reason
    BY <1>2, <1>3, <2>1, <2>2, <2>3
  <2>5. row.status = "completed" => ~b.failed
    BY <1>3
  <2>6. Agree(event, row)
    BY <1>3, <2>1, <2>2, <2>4, <2>5 DEF Agree
  <2>. QED
    BY <2>2, <2>3, <2>6 DEF event
<1>. QED
  BY <1>1, <1>2, <1>4 DEF row

\* Once the case is done every request was served or rejected.
LEMMA EveryoneDecided ==
  ASSUME OnlineInv, pc = "done"
  PROVE  \A r \in Requests : IsServed(life[r]) \/ life[r].status = "rejected"
<1>. USE DEF OnlineInv
<1>1. /\ finished /\ pending = <<>> /\ producer.at = "returned" /\ ~inFlight /\ sched.queue = <<>>
      /\ formed = {}
  BY DEF PhaseOK, Closing
<1>2. processed = Last
  <2>1. Carried = {} /\ Carried = (processed + 1)..Published /\ processed <= Published
    BY <1>1 DEF LineInv, DoneOK, LineOK
  <2>2. processed \in Nat /\ Published \in Int
    BY LineFields DEF LineInv
  <2>3. producer.group = <<>> /\ producer.next = Last + 1
    BY <1>1 DEF LineInv, ProducerOK
  <2>4. Published = Last
    BY <2>3, Numbers DEF Published
  <2>. QED
    BY <2>1, <2>2, <2>4, Numbers
<1>3. Decided = Last
  <2>1. Len(pending) = 0
    BY <1>1
  <2>. QED
    BY <1>2, <2>1, Numbers DEF Decided
<1>4. IdsOf(sched.queue) = {} /\ Forming = {} /\ Handed = {}
  BY <1>1, NothingOut DEF IdsOf, Forming
<1>5. ASSUME NEW r \in Requests
      PROVE  IsServed(life[r]) \/ life[r].status = "rejected"
  <2>1. ~(Last < r)
    BY Numbers
  <2>2. ~IsWaiting(life[r]) /\ ~IsAdmitted(life[r]) /\ ~IsHanded(life[r])
    BY <1>3, <1>4, <2>1 DEF CaseInv, PlacesOK
  <2>. QED
    BY <2>2, StatesOK, OnePlace
<1>. QED
  BY <1>5

\* Every artifact of a finished case is accepted.
LEMMA RowsAgree == OnlineInv => RowsConsistent
<1>. SUFFICES ASSUME OnlineInv, pc = "done"
              PROVE  /\ \A r \in Requests : life[r].status # "pending"
                     /\ validate_case_artifacts(
                          {EventRow(r, trace[r], life[r]) : r \in Requests},
                          {BatchRow(completed[k]) : k \in DOMAIN completed})
  BY DEF RowsConsistent
<1>. DEFINE events == {EventRow(r, trace[r], life[r]) : r \in Requests}
            rows == {BatchRow(completed[k]) : k \in DOMAIN completed}
            batched == UNION {batch.members : batch \in rows}
<1>1. CaseInv
  BY DEF OnlineInv
<1>2. \A r \in Requests : life[r].status # "pending"
  BY EveryoneDecided DEF IsServed
<1>3. \A event \in events : EventAccepted(event)
  <2>1. ASSUME NEW r \in Requests PROVE EventAccepted(EventRow(r, trace[r], life[r]))
    BY <1>1, <1>2, StatesOK, RowAccepted
  <2>. QED
    BY <2>1
<1>4. \A k \in DOMAIN completed : /\ BatchRow(completed[k]).members = IdsOf(completed[k].requests)
                                  /\ BatchRow(completed[k]).id = completed[k].id
                                  /\ BatchRow(completed[k]).finished = completed[k].finish
  BY DEF BatchRow
<1>5. BatchesAccepted(rows)
  <2>1. \A batch \in rows : BatchAccepted(batch)
    BY <1>1, BatchRowAccepted
  <2>2. ASSUME NEW a \in rows, NEW b \in rows, a # b
        PROVE  a.id # b.id /\ a.members \cap b.members = {}
    <3>1. PICK k \in DOMAIN completed : a = BatchRow(completed[k])
      OBVIOUS
    <3>2. PICK l \in DOMAIN completed : b = BatchRow(completed[l])
      OBVIOUS
    <3>3. k # l
      BY <2>2, <3>1, <3>2
    <3>. QED
      BY <1>1, <1>4, <3>1, <3>2, <3>3, CompletedApart
  <2>. QED
    BY <2>1, <2>2 DEF BatchesAccepted
<1>6. batched = {event.id : event \in {e \in events : e.status # "rejected"}}
  <2>1. batched = Served
    BY <1>4 DEF Served, Members
  <2>2. \A r \in Requests : /\ EventRow(r, trace[r], life[r]).id = r
                            /\ EventRow(r, trace[r], life[r]).status = life[r].status
    BY DEF EventRow
  <2>3. \A r \in Requests : IsServed(life[r]) <=> life[r].status # "rejected"
    BY EveryoneDecided DEF IsServed
  <2>4. Served = {r \in Requests : life[r].status # "rejected"}
    BY <1>1, <2>3 DEF CaseInv, PlacesOK
  <2>. QED
    BY <2>1, <2>2, <2>4
<1>7. ASSUME NEW batch \in rows
      PROVE  LET members == {e \in events : e.id \in batch.members}
             IN  /\ \A event \in members : Agree(event, batch)
                 /\ batch.finished \in {e.terminal : e \in members}
                 /\ \A event \in members : event.terminal <= batch.finished
  <2>. DEFINE members == {e \in events : e.id \in batch.members}
  <2>1. PICK k \in DOMAIN completed : batch = BatchRow(completed[k])
    OBVIOUS
  <2>2. batch.members = IdsOf(completed[k].requests) /\ batch.finished = completed[k].finish
    BY <1>4, <2>1
  <2>3. \A r \in batch.members :
          /\ r \in Requests /\ Agree(EventRow(r, trace[r], life[r]), batch)
          /\ life[r].terminal = batch.finished /\ batch.finished \in Nat
    BY <1>1, <2>1, <2>2, MembersAgree
  <2>4. \A r \in Requests : /\ EventRow(r, trace[r], life[r]).id = r
                            /\ EventRow(r, trace[r], life[r]).terminal = life[r].terminal
    BY DEF EventRow
  <2>5. ASSUME NEW event \in members
        PROVE  Agree(event, batch) /\ event.terminal <= batch.finished
    <3>1. PICK r \in Requests : event = EventRow(r, trace[r], life[r])
      OBVIOUS
    <3>2. r \in batch.members
      BY <2>4, <3>1
    <3>. QED
      BY <2>3, <2>4, <3>1, <3>2
  <2>6. \E r \in batch.members : TRUE
    <3>1. completed[k].requests \in Seq(Entries) /\ Len(completed[k].requests) > 0
      BY <1>1, CaseFields, BatchFields, Numbers DEF CaseInv, BatchesOK, CompletedOK, Recording
    <3>. QED
      BY <2>2, <3>1, IdsCount
  <2>7. batch.finished \in {e.terminal : e \in members}
    <3>1. PICK r \in batch.members : TRUE
      BY <2>6
    <3>2. EventRow(r, trace[r], life[r]) \in members
      BY <2>3, <2>4, <3>1
    <3>. QED
      BY <2>3, <2>4, <3>1, <3>2
  <2>. QED
    BY <2>5, <2>7
<1>8. validate_case_artifacts(events, rows)
  <2>. HIDE DEF events, rows
  <2>. QED
    BY <1>3, <1>5, <1>6, <1>7 DEF validate_case_artifacts
<1>. QED
  BY <1>2, <1>8

\* One batch is out, exactly when the coordinator says so.
LEMMA OneOut == CaseInv => OneBatchOut
<1>1. SUFFICES ASSUME CaseInv PROVE OneBatchOut
  OBVIOUS
<1>2. TokenOK
  BY <1>1 DEF CaseInv
<1>3. Cardinality(formed) = IF formed = {} THEN 0 ELSE 1
  <2>1. CASE formed = {}
    BY <2>1, FS_EmptySet
  <2>2. CASE formed # {}
    <3>0. PICK f \in formed : \A g \in formed : g = f
      BY <1>2, <2>2 DEF TokenOK
    <3>1. formed = {f}
      BY <3>0
    <3>. QED
      BY <3>1, FS_Singleton
  <2>. QED
    BY <2>1, <2>2
<1>4. Len(<<>>) = 0
  OBVIOUS
<1>5. \/ ~inFlight /\ Len(work) = 0 /\ worker.at # "running" /\ Len(completions) = 0
      \/ inFlight /\ formed = {} /\ Len(work) = 1 /\ worker.at # "running" /\ Len(completions) = 0
      \/ inFlight /\ formed = {} /\ Len(work) = 0 /\ worker.at = "running" /\ Len(completions) = 0
      \/ inFlight /\ formed = {} /\ Len(work) = 0 /\ worker.at # "running" /\ Len(completions) = 1
  BY <1>2, <1>4 DEF TokenOK
<1>. DEFINE w == Count(worker.at = "running")
            c == Count(inFlight \/ formed # {})
<1>6. Cardinality(formed) + Len(work) + w + Len(completions) = c
  <2>1. (worker.at = "running" => w = 1) /\ (worker.at # "running" => w = 0)
    BY DEF Count
  <2>2. CASE ~inFlight /\ formed = {}
    <3>1. c = 0 /\ Cardinality(formed) = 0
      BY <1>3, <2>2 DEF Count
    <3>. HIDE DEF c, w
    <3>. QED
      BY <1>5, <2>1, <2>2, <3>1
  <2>3. CASE formed # {}
    <3>1. c = 1 /\ Cardinality(formed) = 1
      BY <1>3, <2>3 DEF Count
    <3>2. Len(work) = 0 /\ worker.at # "running" /\ Len(completions) = 0
      BY <1>5, <2>3
    <3>. HIDE DEF c, w
    <3>. QED
      BY <2>1, <3>1, <3>2
  <2>4. CASE inFlight /\ formed = {}
    <3>1. c = 1 /\ Cardinality(formed) = 0
      BY <1>3, <2>4 DEF Count
    <3>. HIDE DEF c, w
    <3>2. CASE Len(work) = 1 /\ worker.at # "running" /\ Len(completions) = 0
      BY <2>1, <3>1, <3>2
    <3>3. CASE Len(work) = 0 /\ worker.at = "running" /\ Len(completions) = 0
      BY <2>1, <3>1, <3>3
    <3>4. CASE Len(work) = 0 /\ worker.at # "running" /\ Len(completions) = 1
      BY <2>1, <3>1, <3>4
    <3>. QED
      BY <1>5, <2>4, <3>2, <3>3, <3>4
  <2>. QED
    BY <2>2, <2>3, <2>4
<1>. QED
  BY <1>6 DEF OneBatchOut, w, c

\* The batches follow one another.
LEMMA LifecycleKept == CaseInv => BatchLifecycle
<1>1. SUFFICES ASSUME CaseInv, NEW k \in DOMAIN completed
               PROVE  /\ completed[k].dispatch <= completed[k].start
                      /\ completed[k].start <= completed[k].finish
                      /\ \A m \in DOMAIN completed[k].requests :
                           life[completed[k].requests[m].id].admitted <= completed[k].dispatch
                      /\ \A l \in 1..(k - 1) : completed[l].finish <= completed[k].dispatch
  BY DEF BatchLifecycle
<1>2. PICK b : b = completed[k]
  OBVIOUS
<1>3. /\ b \in Batches /\ CompletedOK(b) /\ b.dispatch \in Nat
      /\ IdsOf(b.requests) \subseteq Requests
  BY <1>1, <1>2, CaseFields, BatchFields DEF CaseInv, BatchesOK
<1>4. /\ b.start \in Nat /\ b.first \in Nat /\ b.finish \in Nat
      /\ b.dispatch <= b.start /\ b.start <= b.first /\ b.first <= b.finish
  BY <1>3 DEF CompletedOK, ExecutedOK, StartedOK
<1>5. b.start <= b.finish
  BY <1>4
<1>6. ASSUME NEW m \in DOMAIN b.requests
      PROVE  life[b.requests[m].id].admitted <= b.dispatch
  <2>1. b.requests[m].id \in IdsOf(b.requests)
    BY DEF IdsOf
  <2>2. /\ b.requests[m].id \in Requests /\ life[b.requests[m].id].dispatch = b.dispatch
        /\ StateOK(life[b.requests[m].id], trace[b.requests[m].id])
    BY <1>1, <1>3, <2>1, StatesOK DEF CompletedOK, Recording
  <2>. QED
    BY <1>3, <2>2 DEF StateOK, NoTime
<1>7. \A l \in 1..(k - 1) : completed[l].finish <= b.dispatch
  BY <1>1, <1>2 DEF CaseInv, BatchesOK
<1>. QED
  BY <1>2, <1>4, <1>5, <1>6, <1>7

\* Every waiter keeps its own deadline.
LEMMA DeadlineKept == CaseInv => OwnDeadline
<1>1. ASSUME CaseInv, NEW r \in Requests
      PROVE  StateOK(life[r], trace[r])
  BY <1>1, StatesOK
<1>. QED
  BY <1>1 DEF OwnDeadline, StateOK

\* The invariant implies what the artifacts say.
LEMMA HonestByInvariant == OnlineInv => CaseHonest
  BY RowsAgree, OneOut, LifecycleKept, DeadlineKept DEF OnlineInv, CaseHonest

\* The artifacts that run_online_case writes are true, for every trace, policy and
\* interleaving: the in_flight token is held exactly while one batch is out, no batch is
\* dispatched before the one before it finished, every waiter is admitted or rejected by
\* its own deadline, and validate_case_artifacts accepts the rows of a case that ended.
THEOREM ServingHonest == OnlineSpec => []CaseHonest
  BY OnlineInvariant, HonestByInvariant, PTL

\* A flush that leaves room in its batch, and in the queue, takes along every request that
\* was due at the recheck before it and neither dispatched before nor rejected, however
\* late the producer publishes and wherever the threads are interrupted.
THEOREM ArrivalsBeforeFlush == OnlineSpec => []ArrivalsPrecedeFlush
<1>1. OnlineInv => ArrivalsPrecedeFlush
  BY DEF OnlineInv, PhaseOK
<1>. QED
  BY <1>1, OnlineInvariant, PTL

\* "A due group is published atomically": a batch that was dispatched with room in it, and
\* in the queue, took every request that was scheduled at the time of one of its own and
\* not served before or rejected.
THEOREM GroupsStayTogether == OnlineSpec => []EqualArrivalsTogether
<1>1. OnlineInv => EqualArrivalsTogether
  BY DEF OnlineInv, CaseInv, TogetherOK
<1>. QED
  BY <1>1, OnlineInvariant, PTL

-----------------------------------------------------------------------------
(***************************************************************************)
(* The case implements the service                                         *)
(***************************************************************************)
\* The service counts as the case does.
LEMMA SameCardinality == \A S : Service!Cardinality(S) = Cardinality(S)
  BY DEF Service!Cardinality, Cardinality

\* The requests that are in a batch which does not run yet.
Batched == BatchesIn(work) \cup Forming

\* Where a request is on its way through the service.
StagePlaces ==
  \A r \in Requests :
    /\ Stage(r) = IF life[r].status # "pending" THEN life[r].status
                  ELSE IF r \in Executing THEN "running"
                  ELSE IF r \in Batched THEN "formed"
                  ELSE IF r \in IdsOf(sched.queue) THEN "queued"
                  ELSE "scheduled"
    /\ Stage(r) = "scheduled" <=> Decided < r
    /\ Stage(r) = "queued" <=> r \in IdsOf(sched.queue)
    /\ Stage(r) = "formed" <=> r \in Batched
    /\ Stage(r) = "running" <=> r \in Executing

\* The places of the case are those of the service.
LEMMA StageByPlace == CaseInv => StagePlaces
<1>1. SUFFICES ASSUME CaseInv, NEW r \in Requests
               PROVE  /\ Stage(r) = IF life[r].status # "pending" THEN life[r].status
                                    ELSE IF r \in Executing THEN "running"
                                    ELSE IF r \in Batched THEN "formed"
                                    ELSE IF r \in IdsOf(sched.queue) THEN "queued"
                                    ELSE "scheduled"
                      /\ Stage(r) = "scheduled" <=> Decided < r
                      /\ Stage(r) = "queued" <=> r \in IdsOf(sched.queue)
                      /\ Stage(r) = "formed" <=> r \in Batched
                      /\ Stage(r) = "running" <=> r \in Executing
  BY DEF StagePlaces
<1>. USE DEF CaseInv
<1>2. life[r] \in StateType /\ StateOK(life[r], trace[r]) /\ trace[r] \in Nat /\ r \in Nat
  BY <1>1, StatesOK, Numbers
<1>3. life[r].status \in {"pending", "completed", "failed", "rejected"}
  BY <1>2, StateFields
<1>4. /\ Decided < r <=> IsWaiting(life[r])
      /\ r \in IdsOf(sched.queue) \cup Forming <=> IsAdmitted(life[r])
      /\ r \in BatchesIn(work) \cup Executing <=> IsHanded(life[r])
  BY <1>1 DEF PlacesOK, Handed
<1>5. /\ IsHanded(life[r]) => ~IsServed(life[r]) /\ ~IsWaiting(life[r]) /\ ~IsAdmitted(life[r])
      /\ IsAdmitted(life[r]) => ~IsWaiting(life[r]) /\ life[r].status = "pending"
      /\ life[r].status = "rejected" => ~IsWaiting(life[r])
      /\ IsServed(life[r]) => ~IsWaiting(life[r]) /\ ~IsAdmitted(life[r])
      /\ IsWaiting(life[r]) \/ IsAdmitted(life[r]) \/ IsHanded(life[r]) \/ IsServed(life[r])
           \/ life[r].status = "rejected"
  BY <1>2, OnePlace
<1>6. r \in Forming => r \notin IdsOf(sched.queue)
  BY <1>1, <1>2 DEF QueueOK
<1>7. r \in BatchesIn(work) => r \notin Executing
  <2>1. CASE work = <<>>
    BY <2>1, InQueues
  <2>2. CASE work # <<>>
    <3>1. completions = <<>> /\ worker.batch = NoBatch
      BY <1>1, <2>2 DEF TokenOK
    <3>. QED
      BY <3>1, InQueues DEF Executing
  <2>. QED
    BY <2>1, <2>2
<1>8. /\ IsHanded(life[r]) => life[r].status = "pending"
      /\ IsWaiting(life[r]) => life[r].status = "pending"
      /\ IsServed(life[r]) <=> life[r].status \in {"completed", "failed"}
  BY DEF IsHanded, IsWaiting, IsServed
<1>9. Stage(r) = IF life[r].status # "pending" THEN life[r].status
                 ELSE IF r \in Executing THEN "running"
                 ELSE IF r \in Batched THEN "formed"
                 ELSE IF r \in IdsOf(sched.queue) THEN "queued"
                 ELSE "scheduled"
  BY DEF Stage, Executing, Batched, Forming
<1>10. r \in Batched <=> r \in BatchesIn(work) \/ r \in Forming
  BY DEF Batched
<1>11. r \in Executing => life[r].status = "pending"
  BY <1>4, <1>8
<1>12. r \in Batched => life[r].status = "pending" /\ r \notin Executing
  BY <1>4, <1>5, <1>7, <1>8, <1>10
<1>13. r \in IdsOf(sched.queue) => life[r].status = "pending" /\ r \notin Executing /\ r \notin Batched
  BY <1>4, <1>5, <1>6, <1>10
<1>14. Decided < r <=>
         /\ life[r].status = "pending" /\ r \notin Executing /\ r \notin Batched
         /\ r \notin IdsOf(sched.queue)
  <2>1. CASE Decided < r
    BY <1>4, <1>5, <1>8, <1>10, <2>1
  <2>2. CASE ~(Decided < r)
    <3>1. ~IsWaiting(life[r])
      BY <1>4, <2>2
    <3>2. IsAdmitted(life[r]) \/ IsHanded(life[r]) \/ life[r].status # "pending"
      BY <1>5, <1>8, <3>1
    <3>3. IsAdmitted(life[r]) => r \in IdsOf(sched.queue) \/ r \in Batched
      BY <1>4, <1>10
    <3>4. IsHanded(life[r]) => r \in Executing \/ r \in Batched
      BY <1>4, <1>10
    <3>. QED
      BY <2>2, <3>2, <3>3, <3>4
  <2>. QED
    BY <2>1, <2>2
<1>. QED
  BY <1>3, <1>9, <1>11, <1>12, <1>13, <1>14

\* ... now and after a step.
LEMMA StagesNext == CaseInv' => StagePlaces'
  BY StageByPlace, PTL

\* Who is at a stage, the places say.
LEMMA AtPlaces ==
  ASSUME CaseInv
  PROVE  /\ Service!At("scheduled") = {r \in Requests : Decided < r}
         /\ Service!At("queued") = IdsOf(sched.queue)
         /\ Service!At("running") = Executing
<1>1. \A s : Service!At(s) = {r \in Requests : Stage(r) = s}
  BY DEF Service!At
<1>2. StagePlaces
  BY StageByPlace
<1>3. IdsOf(sched.queue) \subseteq Requests /\ Executing \subseteq Requests
  BY DEF CaseInv, PlacesOK, Handed
<1>. QED
  BY <1>1, <1>2, <1>3 DEF StagePlaces

\* The requests of X move to another stage, if the others stay.
LEMMA MoveByPlace ==
  ASSUME NEW X \in SUBSET Requests, NEW to,
         \A r \in X : Stage(r)' = to,
         \A r \in Requests \ X : Stage(r)' = Stage(r)
  PROVE  Service!Move(X, to)
<1>1. \A r \in Requests : Stage(r)' = IF r \in X THEN to ELSE Stage(r)
  OBVIOUS
<1>. QED
  BY <1>1 DEF Service!Move

\* The batch that waits for the worker, if there is one.
LEMMA ReadyBatch ==
  ASSUME CaseInv
  PROVE  /\ work = <<>> /\ formed = {} => Ready = <<>>
         /\ formed # {} => Ready = <<Forming>> /\ work = <<>>
         /\ work # <<>> => Ready = <<IdsOf(work[1].requests)>> /\ Len(work) = 1 /\ formed = {}
<1>. USE DEF CaseInv
<1>1. CASE work = <<>> /\ formed = {}
  <2>1. Len(work) + Cardinality(formed) = 0
    BY <1>1, FS_EmptySet
  <2>2. Ready = [k \in 1..0 |-> IF k <= Len(work) THEN IdsOf(work[k].requests) ELSE Forming]
    BY <2>1 DEF Ready, Forming
  <2>. QED
    BY <1>1, <2>2
<1>2. CASE formed # {}
  <2>0. PICK f \in formed : TRUE
    BY <1>2
  <2>1. formed = {f}
    BY <2>0 DEF TokenOK
  <2>2. work = <<>> /\ Len(work) = 0
    BY <1>2 DEF TokenOK
  <2>3. Cardinality(formed) = 1
    BY <2>1, FS_Singleton
  <2>4. Len(work) + Cardinality(formed) = 1
    BY <2>2, <2>3
  <2>5. Ready = [k \in 1..1 |-> IF k <= Len(work) THEN IdsOf(work[k].requests) ELSE Forming]
    BY <2>4 DEF Ready, Forming
  <2>6. Ready = [k \in 1..1 |-> Forming]
    BY <2>2, <2>5
  <2>7. Ready = <<Forming>>
    BY <2>6
  <2>. QED
    BY <1>2, <2>2, <2>7
<1>3. CASE work # <<>>
  <2>1. Len(work) = 1 /\ inFlight
    BY <1>3 DEF TokenOK
  <2>2. formed = {} /\ Cardinality(formed) = 0
    BY <2>1, FS_EmptySet DEF TokenOK
  <2>3. Len(work) + Cardinality(formed) = 1
    BY <2>1, <2>2
  <2>4. Ready = [k \in 1..1 |-> IF k <= Len(work) THEN IdsOf(work[k].requests) ELSE Forming]
    BY <2>3 DEF Ready, Forming
  <2>5. Ready = [k \in 1..1 |-> IdsOf(work[1].requests)]
    BY <2>1, <2>4
  <2>6. Ready = <<IdsOf(work[1].requests)>>
    BY <2>5
  <2>. QED
    BY <1>3, <2>1, <2>2, <2>6
<1>. QED
  BY <1>1, <1>2, <1>3

\* The same, to be used after a step.
ReadyPlaces ==
  /\ work = <<>> /\ formed = {} => Ready = <<>>
  /\ formed # {} => Ready = <<Forming>> /\ work = <<>>
  /\ work # <<>> => Ready = <<IdsOf(work[1].requests)>> /\ Len(work) = 1 /\ formed = {}

\* ... where it holds as well.
LEMMA ReadyNext == CaseInv' => ReadyPlaces'
<1>1. CaseInv => ReadyPlaces
  BY ReadyBatch DEF ReadyPlaces
<1>. QED
  BY <1>1, PTL

\* Nobody moves.
LEMMA ServiceStays ==
  ASSUME \A r \in Requests : Stage(r)' = Stage(r), Ready' = Ready
  PROVE  [Service!ServiceNext]_Service!serviceVars
  BY DEF Service!serviceVars

\* Nobody moves if the places and the states stay.
LEMMA PlacesStay ==
  ASSUME CaseInv, CaseInv',
         \A r \in Requests : life'[r].status = life[r].status,
         Executing' = Executing, UNCHANGED <<work, formed>>, sched'.queue = sched.queue
  PROVE  [Service!ServiceNext]_Service!serviceVars
<1>1. Batched' = Batched /\ Ready' = Ready
  BY DEF Batched, BatchesIn, Forming, Ready
<1>2. StagePlaces /\ StagePlaces'
  BY StageByPlace, StagesNext
<1>3. \A r \in Requests : Stage(r)' = Stage(r)
  BY <1>1, <1>2 DEF StagePlaces
<1>. QED
  BY <1>1, <1>3, ServiceStays

\* The oldest request that nothing is decided about is the first waiter.
LEMMA FirstIsOldest ==
  ASSUME CaseInv, processed \in Nat, pending # <<>>
  PROVE  FirstWaiter \in Requests /\ Service!Oldest(FirstWaiter)
<1>1. FirstWaiter \in Requests /\ FirstWaiter = Decided + 1 /\ Decided \in Nat
  BY FirstWaits
<1>2. Service!At("scheduled") = {r \in Requests : Decided < r}
  BY AtPlaces
<1>3. \A r \in Requests : r \in Nat
  BY Numbers
<1>4. FirstWaiter \in Service!At("scheduled")
  BY <1>1, <1>2
<1>5. \A r \in Service!At("scheduled") : FirstWaiter <= r
  <2>1. \A r \in Nat : Decided < r => Decided + 1 <= r
    BY <1>1
  <2>2. \A r \in Service!At("scheduled") : r \in Nat /\ Decided < r
    BY <1>2, <1>3
  <2>. QED
    BY <1>1, <2>1, <2>2
<1>. QED
  BY <1>1, <1>4, <1>5 DEF Service!Oldest

\* An admission is an Enqueue of the service,
LEMMA AdmitServes ==
  ASSUME CaseInv, CaseInv', now \in Nat, processed \in Nat, AdmitsHead, admit_head,
         UNCHANGED <<work, completions, worker, formed>>
  PROVE  [Service!ServiceNext]_Service!serviceVars
<1>1. pending # <<>> /\ MayAdmit(sched)
  BY DEF AdmitsHead
<1>2. PICK r \in Requests : r = FirstWaiter
  BY <1>1, FirstIsOldest
<1>3. Service!Oldest(r) /\ r = pending[1].id
  BY <1>1, <1>2, FirstIsOldest DEF FirstWaiter
<1>4. life \in [Requests -> StateType] /\ life' = [life EXCEPT ![r].admitted = now]
  BY <1>3 DEF CaseInv, CaseTypeOK, admit_head
<1>5. \A s \in Requests : life'[s].status = life[s].status
  <2>1. \A s \in Requests : s # r => life'[s] = life[s]
    BY <1>4
  <2>2. life'[r] = [life[r] EXCEPT !.admitted = now] /\ life[r] \in StateType
    BY <1>4
  <2>3. life'[r].status = life[r].status
    BY <2>2 DEF StateType
  <2>. QED
    BY <2>1, <2>3
<1>6. IdsOf(sched'.queue) = IdsOf(sched.queue) \cup {r}
  <2>1. PICK e : e = [id |-> r, admitted |-> now]
    OBVIOUS
  <2>2. sched'.queue = Append(sched.queue, e)
    BY <1>3, <2>1 DEF admit_head, Admit
  <2>3. e \in Entries /\ e.id = r
    BY <2>1 DEF Entries
  <2>4. sched.queue \in Seq(Entries)
    BY CaseFields, SchedulerFields DEF CaseInv
  <2>. QED
    BY <2>2, <2>3, <2>4, IdsAppend
<1>7. Executing' = Executing /\ Batched' = Batched /\ Ready' = Ready
  BY DEF Executing, Batched, BatchesIn, Forming, Ready
<1>8. StagePlaces /\ StagePlaces'
  BY StageByPlace, StagesNext
<1>9. Stage(r)' = "queued"
  BY <1>6, <1>8 DEF StagePlaces
<1>10. \A s \in Requests \ {r} : Stage(s)' = Stage(s)
  BY <1>5, <1>6, <1>7, <1>8 DEF StagePlaces
<1>11. Service!Move({r}, "queued")
  BY <1>9, <1>10, MoveByPlace
<1>12. Cardinality(Service!At("queued")) < Capacity
  <2>1. sched.queue \in Seq(Entries) /\ Len(sched.queue) \in Nat
    BY CaseFields, SchedulerFields DEF CaseInv
  <2>2. Len(sched.queue) < Capacity
    BY <1>1 DEF MayAdmit
  <2>. QED
    BY <2>1, <2>2, IdsCount, AtPlaces, Numbers
<1>13. Service!Enqueue(r)
  BY <1>3, <1>7, <1>11, <1>12, SameCardinality DEF Service!Enqueue
<1>. QED
  BY <1>13 DEF Service!ServiceNext

\* ... a rejection is a Reject,
LEMMA ExpireServes ==
  ASSUME CaseInv, CaseInv', processed \in Nat, pending # <<>>, expire_head,
         UNCHANGED <<work, completions, worker, formed>>
  PROVE  [Service!ServiceNext]_Service!serviceVars
<1>1. PICK r \in Requests : r = FirstWaiter
  BY FirstIsOldest
<1>2. Service!Oldest(r) /\ r = pending[1].id
  BY <1>1, FirstIsOldest DEF FirstWaiter
<1>3. /\ life \in [Requests -> StateType] /\ sched' = sched
      /\ life' = [life EXCEPT ![r].status = "rejected", ![r].reason = TRUE, ![r].terminal = now]
  BY <1>2 DEF CaseInv, CaseTypeOK, expire_head
<1>4. \A s \in Requests : s # r => life'[s] = life[s]
  BY <1>3
<1>5. life'[r].status = "rejected"
  <2>1. life'[r] = [life[r] EXCEPT !.status = "rejected", !.reason = TRUE, !.terminal = now]
        /\ life[r] \in StateType
    BY <1>3
  <2>. QED
    BY <2>1 DEF StateType
<1>6. Executing' = Executing /\ Batched' = Batched /\ Ready' = Ready
  BY DEF Executing, Batched, BatchesIn, Forming, Ready
<1>7. StagePlaces /\ StagePlaces'
  BY StageByPlace, StagesNext
<1>8. Stage(r)' = "rejected"
  BY <1>5, <1>7 DEF StagePlaces
<1>9. \A s \in Requests \ {r} : Stage(s)' = Stage(s)
  BY <1>3, <1>4, <1>6, <1>7 DEF StagePlaces
<1>10. Service!Move({r}, "rejected")
  BY <1>8, <1>9, MoveByPlace
<1>11. Service!Reject(r)
  BY <1>2, <1>6, <1>10 DEF Service!Reject
<1>. QED
  BY <1>11 DEF Service!ServiceNext

\* ... a batch that the scheduler forms is a Form,
LEMMA PopServes ==
  ASSUME CaseInv, CaseInv', ~inFlight, formed = {}, sched.queue # <<>>,
         NEW d, formed' = {PoppedBatch(sched, d)},
         sched'.queue = SubSeq(sched.queue, BatchCount(sched) + 1, Len(sched.queue)),
         UNCHANGED <<work, completions, worker, life>>
  PROVE  [Service!ServiceNext]_Service!serviceVars
<1>1. /\ sched \in SchedulerType(Requests) /\ sched.queue \in Seq(Entries)
      /\ Ascending(sched.queue) /\ BatchCount(sched) \in 1..Len(sched.queue)
      /\ BatchCount(sched) <= MaxBatch
  BY CaseFields, SchedulerFields, Counted DEF CaseInv, QueueOK
<1>. DEFINE front == SubSeq(sched.queue, 1, BatchCount(sched))
            rest == sched'.queue
<1>2. /\ front \in Seq(Entries) /\ Len(front) = BatchCount(sched)
      /\ IdsOf(sched.queue) = IdsOf(front) \cup IdsOf(rest)
      /\ \A r \in IdsOf(front), t \in IdsOf(rest) : r < t
  BY <1>1, Split
<1>3. Forming' = IdsOf(front)
  <2>1. PICK p : p = PoppedBatch(sched, d)
    OBVIOUS
  <2>2. p.requests = front
    BY <2>1 DEF PoppedBatch
  <2>3. formed' = {p}
    BY <2>1
  <2>. HIDE DEF front, rest
  <2>4. Forming' = UNION {IdsOf(f.requests) : f \in {p}}
    BY <2>3 DEF Forming
  <2>. QED
    BY <2>2, <2>4
<1>. HIDE DEF front, rest
<1>4. PICK X \in SUBSET Requests : X = IdsOf(front)
  BY <1>2, IdsCount
<1>5. X # {} /\ Cardinality(X) <= MaxBatch
  <2>1. Len(front) \in Nat /\ Len(front) > 0 /\ Len(front) <= MaxBatch
    BY <1>1, <1>2, Numbers
  <2>2. Cardinality(X) \in Nat /\ Cardinality(X) <= Len(front) /\ X # {}
    BY <1>2, <1>4, <2>1, IdsCount
  <2>. QED
    BY <2>1, <2>2, Numbers
<1>6. Service!At("queued") = IdsOf(sched.queue)
  BY AtPlaces
<1>7. X \subseteq Service!At("queued") /\ \A r \in X, s \in Service!At("queued") \ X : r < s
  BY <1>2, <1>4, <1>6
<1>8. work = <<>> /\ work' = <<>>
  BY NothingOut
<1>9. Batched = {} /\ Batched' = X
  BY <1>3, <1>4, <1>8, InQueues DEF Batched, Forming
<1>10. Executing' = Executing
  BY DEF Executing, BatchesIn
<1>11. StagePlaces /\ StagePlaces'
  BY StageByPlace, StagesNext
<1>12. \A r \in X : Stage(r)' = "formed"
  BY <1>9, <1>11 DEF StagePlaces
<1>13. \A r \in Requests \ X : r \in IdsOf(sched'.queue) <=> r \in IdsOf(sched.queue)
  BY <1>2, <1>4 DEF rest
<1>14. \A r \in Requests \ X : Stage(r)' = Stage(r)
  BY <1>9, <1>10, <1>11, <1>13 DEF StagePlaces
<1>15. Service!Move(X, "formed")
  BY <1>12, <1>14, MoveByPlace
<1>16. Ready' = Append(Ready, X)
  <2>1. Ready = <<>>
    BY <1>8, ReadyBatch
  <2>2. Ready' = <<X>>
    BY <1>3, <1>4, ReadyNext DEF ReadyPlaces
  <2>3. Append(<<>>, X) = <<X>>
    BY InQueues
  <2>. QED
    BY <2>1, <2>2, <2>3
<1>17. Service!Form(X)
  BY <1>5, <1>7, <1>15, <1>16, SameCardinality DEF Service!Form
<1>. QED
  BY <1>17 DEF Service!ServiceNext

\* ... and the service does not see the handoff of a batch.
LEMMA HandoffServes ==
  ASSUME CaseInv, CaseInv', Handoff
  PROVE  [Service!ServiceNext]_Service!serviceVars
<1>. USE DEF CaseInv
<1>1. PICK f \in formed :
        LET dispatch == Later(f.dispatch, now) IN
        /\ work' = Append(work, [NoBatch EXCEPT !.id = f.ordinal, !.dispatch = dispatch,
                                                !.requests = f.requests])
        /\ record([r \in IdsOf(f.requests) |->
                  [life[r] EXCEPT !.dispatch = dispatch, !.batch = f.ordinal]])
  BY DEF Handoff
<1>2. formed' = {} /\ UNCHANGED <<completions, worker, sched>>
  BY DEF Handoff, Threads
<1>3. formed = {f} /\ work = <<>> /\ f \in Formeds
  BY CaseFields, NothingOut DEF TokenOK
<1>4. PICK n : n = Later(f.dispatch, now)
  OBVIOUS
<1>5. PICK b : b = [NoBatch EXCEPT !.id = f.ordinal, !.dispatch = n, !.requests = f.requests]
  OBVIOUS
<1>6. b.requests = f.requests
  BY <1>5 DEF NoBatch
<1>7. work' = <<b>>
  BY <1>1, <1>3, <1>4, <1>5, InQueues
<1>. DEFINE ids == IdsOf(f.requests)
<1>8. life' = [r \in Requests |->
                 IF r \in ids THEN [life[r] EXCEPT !.dispatch = n, !.batch = f.ordinal]
                 ELSE life[r]]
  BY <1>1, <1>4 DEF record
<1>9. Forming = ids /\ Forming' = {} /\ BatchesIn(work) = {} /\ BatchesIn(work') = ids
  BY <1>2, <1>3, <1>6, <1>7, InQueues DEF Forming
<1>. HIDE DEF ids
<1>10. \A r \in Requests : life'[r].status = life[r].status
  <2>1. ASSUME NEW r \in Requests, r \in ids PROVE life'[r].status = life[r].status
    <3>1. life'[r] = HandedOver(life[r], n, f.ordinal) /\ life[r] \in StateType
      BY <1>8, <2>1, CaseFields DEF HandedOver
    <3>. QED
      BY <3>1 DEF HandedOver, StateType
  <2>. QED
    BY <1>8, <2>1
<1>11. Batched' = Batched /\ Executing' = Executing
  BY <1>2, <1>9 DEF Batched, Executing, BatchesIn
<1>12. Ready = <<ids>>
  BY <1>3, <1>9, ReadyBatch
<1>13. Ready' = <<ids>>
  BY <1>6, <1>7, InQueues, ReadyNext DEF ReadyPlaces, ids
<1>14. StagePlaces /\ StagePlaces'
  BY StageByPlace, StagesNext
<1>15. \A r \in Requests : Stage(r)' = Stage(r)
  BY <1>2, <1>10, <1>11, <1>14 DEF StagePlaces
<1>. QED
  BY <1>12, <1>13, <1>15, ServiceStays

\* What the worker takes is a Start of the service,
LEMMA TakeWorkServes ==
  ASSUME CaseInv, CaseInv', TakeWork
  PROVE  [Service!ServiceNext]_Service!serviceVars
<1>. USE DEF CaseInv
<1>1. PICK b : b = [Head(work) EXCEPT !.start = now]
  OBVIOUS
<1>2. /\ worker.at = "idle" /\ work # <<>> /\ worker' = [at |-> "running", batch |-> b]
      /\ work' = Tail(work) /\ UNCHANGED <<completions, sched, formed, life>>
  BY <1>1 DEF TakeWork, coordinator
<1>3. /\ Len(work) = 1 /\ completions = <<>> /\ worker.batch = NoBatch /\ formed = {}
  BY <1>2 DEF TokenOK
<1>4. /\ work[1] \in Batches /\ Head(work) = work[1] /\ work' = <<>>
      /\ BatchesIn(work) = IdsOf(work[1].requests)
  BY <1>2, <1>3, InQueues DEF CaseTypeOK
<1>5. b.requests = work[1].requests
  BY <1>1, <1>4 DEF Batches
<1>6. PICK X \in SUBSET Requests : X = IdsOf(work[1].requests)
  BY <1>4, BatchFields
<1>7. Executing = {} /\ Executing' = X
  BY <1>2, <1>3, <1>5, <1>6, InQueues DEF Executing
<1>8. Batched = X /\ Batched' = {}
  BY <1>2, <1>3, <1>4, <1>6, InQueues DEF Batched, Forming
<1>9. StagePlaces /\ StagePlaces'
  BY StageByPlace, StagesNext
<1>10. \A r \in X : Stage(r)' = "running"
  BY <1>7, <1>9 DEF StagePlaces
<1>11. \A r \in Requests \ X : Stage(r)' = Stage(r)
  BY <1>2, <1>7, <1>8, <1>9 DEF StagePlaces
<1>12. Service!Move(X, "running")
  BY <1>10, <1>11, MoveByPlace
<1>13. Ready = <<X>> /\ Ready' = <<>>
  BY <1>2, <1>3, <1>4, <1>6, ReadyBatch, ReadyNext DEF ReadyPlaces
<1>14. Ready # <<>> /\ Head(Ready) = X /\ Tail(Ready) = <<>>
  BY <1>13
<1>15. Service!At("running") = {}
  BY <1>7, AtPlaces
<1>16. Service!Start
  BY <1>12, <1>13, <1>14, <1>15 DEF Service!Start
<1>. QED
  BY <1>16 DEF Service!ServiceNext

\* ... the service does not see that a batch ends before the coordinator does,
LEMMA ExecuteServes ==
  ASSUME CaseInv, CaseInv', NEW failed \in BOOLEAN, Execute(failed)
  PROVE  [Service!ServiceNext]_Service!serviceVars
<1>. USE DEF CaseInv
<1>1. PICK b : b = worker.batch
  OBVIOUS
<1>2. PICK c : c = [b EXCEPT !.first = now, !.finish = now, !.failed = failed]
  OBVIOUS
<1>3. /\ worker.at = "running" /\ worker' = [at |-> "notifying", batch |-> NoBatch]
      /\ completions' = Append(completions, c)
      /\ UNCHANGED <<work, sched, formed, life>>
  BY <1>1, <1>2 DEF Execute, coordinator
<1>4. completions = <<>> /\ b # NoBatch
  BY <1>1, <1>3 DEF TokenOK
<1>5. b \in Batches
  BY <1>1, <1>4, CaseFields
<1>6. c.requests = b.requests
  BY <1>2, <1>5 DEF Batches
<1>7. worker'.batch = NoBatch /\ completions' = <<c>>
  BY <1>3, <1>4, InQueues
<1>8. Executing' = Executing
  BY <1>1, <1>4, <1>6, <1>7, InQueues DEF Executing
<1>. QED
  BY <1>3, <1>8, PlacesStay

\* ... and a collected completion is a Finish.
LEMMA CollectServes ==
  ASSUME CaseInv, CaseInv', now \in Nat, processed \in Nat, collect_completions,
         UNCHANGED <<now, work, worker, pending, processed, formed>>
  PROVE  [Service!ServiceNext]_Service!serviceVars
<1>. USE DEF CaseInv
<1>1. CASE completions = <<>>
  <2>1. UNCHANGED <<sched, completions, completed, inFlight, life>>
    BY <1>1 DEF collect_completions
  <2>2. Executing' = Executing
    BY <2>1 DEF Executing, BatchesIn
  <2>. QED
    BY <2>1, <2>2, PlacesStay
<1>2. CASE completions # <<>>
  <2>1. /\ inFlight /\ work = <<>> /\ Len(completions) = 1 /\ worker.batch = NoBatch /\ formed = {}
    BY <1>2 DEF TokenOK
  <2>2. PICK b : b = Head(completions)
    OBVIOUS
  <2>3. /\ b \in Batches /\ b = completions[1] /\ completions' = <<>>
        /\ BatchesIn(completions) = IdsOf(b.requests)
    BY <1>2, <2>1, <2>2, InQueues DEF collect_completions, CaseTypeOK
  <2>4. PICK X \in SUBSET Requests : X = IdsOf(b.requests)
    BY <2>3, BatchFields
  <2>5. record([r \in X |-> Recorded(life[r], b)])
    BY <1>2, <2>2, <2>4 DEF collect_completions
  <2>6. /\ \A r \in X : life'[r] = Recorded(life[r], b)
        /\ \A r \in Requests \ X : life'[r] = life[r]
    BY <2>5 DEF record
  <2>7. sched'.queue = sched.queue
    BY CollectKeeps
  <2>8. Executing = X /\ Executing' = {}
    BY <2>1, <2>3, <2>4, InQueues DEF Executing
  <2>9. X # {}
    <3>1. b.requests \in Seq(Entries) /\ Len(b.requests) \in 1..MaxBatch
      BY <2>1, <2>3, BatchFields, CaseFields DEF BatchesOK, OutOK, Recording
    <3>. QED
      BY <2>4, <3>1, IdsCount, Numbers
  <2>10. PICK outcome \in Service!Outcomes : outcome = IF b.failed THEN "failed" ELSE "completed"
    BY DEF Service!Outcomes
  <2>11. outcome # "pending"
    BY <2>10
  <2>12. ASSUME NEW r \in X PROVE life'[r].status = outcome
    <3>1. life'[r] = Recorded(life[r], b) /\ life[r] \in StateType
      BY <2>6, CaseFields
    <3>. QED
      BY <2>10, <3>1 DEF Recorded, StateType
  <2>13. StagePlaces /\ StagePlaces'
    BY StageByPlace, StagesNext
  <2>14. \A r \in X : Stage(r)' = outcome
    BY <2>11, <2>12, <2>13 DEF StagePlaces
  <2>15. Batched' = Batched /\ Ready' = Ready
    BY DEF Batched, BatchesIn, Forming, Ready
  <2>16. \A r \in Requests \ X : Stage(r)' = Stage(r)
    BY <2>6, <2>7, <2>8, <2>13, <2>15 DEF StagePlaces
  <2>17. Service!Move(X, outcome)
    BY <2>14, <2>16, MoveByPlace
  <2>18. Service!At("running") = X
    BY <2>8, AtPlaces
  <2>19. Service!Finish(outcome)
    BY <2>9, <2>15, <2>17, <2>18 DEF Service!Finish
  <2>. QED
    BY <2>19 DEF Service!ServiceNext
<1>. QED
  BY <1>1, <1>2

\* A notification is a Finish, or the service does not see it.
LEMMA HandleServes ==
  ASSUME LineInv, CaseInv, CaseInv', now \in Nat, processed \in Nat,
         arrivals # <<>>, handle_notification(Head(arrivals)),
         UNCHANGED <<now, work, worker, formed>>
  PROVE  [Service!ServiceNext]_Service!serviceVars
<1>1. PICK m : m = Head(arrivals)
  OBVIOUS
<1>2. m.kind \in {"group", "done", "wakeup"}
  BY <1>1, HeadFacts DEF Messages
<1>3. CASE m.kind = "done"
  <2>1. UNCHANGED <<sched, completions, completed, inFlight, life, pending, processed>>
    BY <1>1, <1>3 DEF handle_notification
  <2>2. Executing' = Executing
    BY <2>1 DEF Executing, BatchesIn
  <2>. QED
    BY <2>1, <2>2, PlacesStay
<1>4. CASE m.kind = "wakeup"
  <2>1. collect_completions /\ UNCHANGED <<pending, processed>>
    BY <1>1, <1>4 DEF handle_notification
  <2>. QED
    BY <2>1, CollectServes
<1>5. CASE m.kind = "group"
  <2>. DEFINE group == Head(arrivals).group
              seen(r) == (CHOOSE x \in {group[k] : k \in DOMAIN group} : x.id = r).observed
  <2>1. /\ UNCHANGED <<sched, completions>>
        /\ life' = [r \in Requests |->
              IF \E k \in DOMAIN group : group[k].id = r
              THEN [life[r] EXCEPT !.observed = seen(r)] ELSE life[r]]
    BY <1>1, <1>5 DEF handle_notification
  <2>. HIDE DEF group, seen
  <2>2. \A r \in Requests : life'[r].status = life[r].status
    <3>1. \A r \in Requests : life[r] \in StateType
      BY CaseFields DEF CaseInv
    <3>2. \A r \in Requests : life'[r] = [life[r] EXCEPT !.observed = seen(r)] \/ life'[r] = life[r]
      BY <2>1
    <3>. QED
      BY <3>1, <3>2 DEF StateType
  <2>3. Executing' = Executing
    BY <2>1 DEF Executing, BatchesIn
  <2>. QED
    BY <2>1, <2>2, <2>3, PlacesStay
<1>. QED
  BY <1>2, <1>3, <1>4, <1>5

\* Before the first arrival everybody is still to come.
LEMMA InitServes == OnlineInit => Service!ServiceInit
<1>. SUFFICES ASSUME OnlineInit PROVE Service!ServiceInit
  OBVIOUS
<1>1. CaseInv /\ StagePlaces
  BY OnlineStart, StageByPlace DEF OnlineInv
<1>2. processed = 0 /\ pending = <<>> /\ work = <<>> /\ formed = {}
  BY DEF OnlineInit
<1>3. Decided = 0
  <2>1. processed = 0 /\ Len(pending) = 0
    BY <1>2
  <2>2. processed - Len(pending) = 0
    BY <2>1
  <2>. QED
    BY <2>2 DEF Decided
<1>4. \A r \in Requests : Stage(r) = "scheduled"
  BY <1>1, <1>3, Numbers DEF StagePlaces
<1>5. [r \in Requests |-> Stage(r)] = [r \in Requests |-> "scheduled"]
  BY <1>4
<1>6. Ready = <<>>
  BY <1>1, <1>2, ReadyBatch
<1>. QED
  BY <1>5, <1>6 DEF Service!ServiceInit

\* The steps that the service does not see.
LEMMA QuietServes ==
  ASSUME CaseInv, CaseInv',
         UNCHANGED <<work, completions, formed, life>>,
         worker'.batch = worker.batch, sched'.queue = sched.queue
  PROVE  [Service!ServiceNext]_Service!serviceVars
<1>1. Executing' = Executing
  BY DEF Executing, BatchesIn
<1>. QED
  BY <1>1, PlacesStay

\* The clock, the producer and the worker serve,
LEMMA OthersServe ==
  ASSUME OnlineInv, OnlineInv', Tick \/ Producer \/ ProducerFails \/ Worker
  PROVE  [Service!ServiceNext]_Service!serviceVars
<1>0. CaseInv /\ CaseInv'
  BY DEF OnlineInv
<1>1. CASE Tick \/ Producer \/ ProducerFails
  <2>1. UNCHANGED <<work, completions, formed, life, worker, sched>>
    BY <1>1 DEF Tick, Producer, Observe, Publish, ProducerReturns, ProducerFails, queues, coordinator
  <2>. QED
    BY <1>0, <2>1, QuietServes
<1>2. CASE TakeWork
  BY <1>0, <1>2, TakeWorkServes
<1>3. CASE \E failed \in BOOLEAN : Execute(failed)
  BY <1>0, <1>3, ExecuteServes
<1>4. CASE Notify
  <2>1. worker' = [worker EXCEPT !.at = "idle"] /\ UNCHANGED <<work, completions, formed, life, sched>>
    BY <1>4 DEF Notify, coordinator
  <2>2. worker'.batch = worker.batch
    BY <1>0, <2>1 DEF CaseInv, CaseTypeOK
  <2>. QED
    BY <1>0, <2>1, <2>2, QuietServes
<1>. QED
  BY <1>1, <1>2, <1>3, <1>4 DEF Worker

\* ... and so does the coordinator.
LEMMA CoordinatorServes ==
  ASSUME OnlineInv, OnlineInv', Coordinator
  PROVE  [Service!ServiceNext]_Service!serviceVars
<1>0. /\ LineInv /\ CaseInv /\ CaseInv' /\ now \in Nat /\ processed \in Nat
      /\ sched \in SchedulerType(Requests)
  BY LineFields, CaseFields DEF OnlineInv, LineInv, LineTypeOK, CaseInv
<1>1. CASE LeaveLoop \/ DrainedOut \/ Recheck \/ SettledAgain \/ WaitTimedOut \/ JoinProducer
  <2>1. UNCHANGED <<work, completions, formed, life, worker, sched>>
    BY <1>1 DEF LeaveLoop, DrainedOut, Recheck, SettledAgain, WaitTimedOut, JoinProducer,
       queues, Threads
  <2>. QED
    BY <1>0, <2>1, QuietServes
<1>2. CASE Top \/ CloseLoop \/ Finish
  <2>1. collect_completions /\ UNCHANGED <<now, work, worker, pending, processed, formed>>
    BY <1>2 DEF Top, CloseLoop, Finish, Threads
  <2>. QED
    BY <1>0, <2>1, CollectServes
<1>3. CASE DrainOne \/ WaitNotified
  <2>1. arrivals # <<>> /\ handle_notification(Head(arrivals)) /\ UNCHANGED <<now, work, worker, formed>>
    BY <1>3 DEF DrainOne, WaitNotified, Threads
  <2>. QED
    BY <1>0, <2>1, HandleServes
<1>4. CASE SettleOne
  <2>1. UNCHANGED <<work, completions, worker, formed>>
    BY <1>4 DEF SettleOne, queues, Threads
  <2>2. CASE AdmitsHead /\ admit_head
    BY <1>0, <2>1, <2>2, AdmitServes
  <2>3. CASE ExpiresHead(pc = "expire") /\ expire_head
    <3>1. pending # <<>>
      BY <2>3 DEF ExpiresHead
    <3>. QED
      BY <1>0, <2>1, <2>3, <3>1, ExpireServes
  <2>. QED
    BY <1>4, <2>2, <2>3 DEF SettleOne
<1>5. CASE DispatchBusy \/ DispatchNone \/ CloseBusy \/ CloseEmpty
  <2>1. UNCHANGED <<work, completions, formed, life, worker>>
    BY <1>5 DEF DispatchBusy, DispatchNone, CloseBusy, CloseEmpty, queues, Threads
  <2>2. sched' = Busy(sched, now) \/ sched' = MoveTo(sched, now) \/ sched' = AfterClose(MoveTo(sched, now))
    BY <1>5 DEF DispatchBusy, DispatchNone, CloseBusy, CloseEmpty
  <2>3. MoveTo(sched, now) \in SchedulerType(Requests) /\ MoveTo(sched, now).queue = sched.queue
    BY <1>0, Moved
  <2>4. sched'.queue = sched.queue
    BY <1>0, <2>2, <2>3, BusyKeeps, Moved
  <2>. QED
    BY <1>0, <2>1, <2>4, QuietServes
<1>6. CASE DispatchBatch
  <2>1. pc = "dispatch" /\ ~inFlight /\ UNCHANGED <<work, completions, worker, life>>
    BY <1>6 DEF DispatchBatch, queues, Threads
  <2>2. formed = {}
    BY <2>1 DEF OnlineInv, PhaseOK
  <2>3. PICK d \in eligible_dispatch(sched, now) :
          sched' = AfterPop(MoveTo(sched, now), d) /\ formed' = {PoppedBatch(sched, d)}
    BY <1>6 DEF DispatchBatch
  <2>4. sched.queue # <<>> /\ d.at \in Nat
    BY <1>0, Due
  <2>5. sched'.queue = SubSeq(sched.queue, BatchCount(sched) + 1, Len(sched.queue))
    BY <1>0, <2>3, <2>4, Popped
  <2>. QED
    BY <1>0, <2>1, <2>2, <2>3, <2>4, <2>5, PopServes
<1>7. CASE CloseBatch
  <2>1. /\ pc = "closeDispatch" /\ ~inFlight /\ sched.queue # <<>>
        /\ UNCHANGED <<work, completions, worker, life>>
    BY <1>7 DEF CloseBatch, queues, Threads
  <2>2. formed = {}
    BY <2>1 DEF OnlineInv, PhaseOK
  <2>3. PICK d : d = Shutdown(now)
    OBVIOUS
  <2>4. sched' = AfterClose(AfterPop(MoveTo(sched, now), d)) /\ formed' = {PoppedBatch(sched, d)}
    BY <1>7, <2>3 DEF CloseBatch
  <2>5. d.at \in Nat
    BY <1>0, <2>3 DEF Shutdown, Fire
  <2>6. PICK p : p = AfterPop(MoveTo(sched, now), d)
    OBVIOUS
  <2>7. p \in SchedulerType(Requests)
        /\ p.queue = SubSeq(sched.queue, BatchCount(sched) + 1, Len(sched.queue))
    BY <1>0, <2>1, <2>5, <2>6, Popped
  <2>8. sched'.queue = SubSeq(sched.queue, BatchCount(sched) + 1, Len(sched.queue))
    BY <1>0, <2>4, <2>6, <2>7, Moved
  <2>. QED
    BY <1>0, <2>1, <2>2, <2>4, <2>8, PopServes
<1>8. CASE Handoff
  BY <1>0, <1>8, HandoffServes
<1>. QED
  BY <1>1, <1>2, <1>3, <1>4, <1>5, <1>6, <1>7, <1>8 DEF Coordinator

\* Every step of the case is one of the service, or none.
LEMMA StepServes ==
  OnlineInv /\ OnlineInv' /\ [OnlineNext]_onlineVars => [Service!ServiceNext]_Service!serviceVars
<1>. SUFFICES ASSUME OnlineInv, OnlineInv', [OnlineNext]_onlineVars
              PROVE  [Service!ServiceNext]_Service!serviceVars
  OBVIOUS
<1>1. CASE OnlineNext
  BY <1>1, OthersServe, CoordinatorServes DEF OnlineNext
<1>2. CASE UNCHANGED onlineVars
  <2>1. UNCHANGED <<work, completions, formed, life, worker, sched>>
    BY <1>2 DEF onlineVars, queues, coordinator
  <2>. QED
    BY <2>1, QuietServes DEF OnlineInv
<1>. QED
  BY <1>1, <1>2

\* run_online_case implements the batching service, with its races and its clock: for
\* every trace, policy and interleaving its requests pass the bounded queue in arrival
\* order, leave it in batches of bounded size, and are executed one batch at a time, each
\* exactly once.
THEOREM OnlineServes == OnlineSpec => Serves
<1>. QED
  BY InitServes, OnlineInvariant, StepServes, PTL DEF OnlineSpec, Serves, Service!ServiceSpec
=============================================================================
