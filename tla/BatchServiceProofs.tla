------------------------- MODULE BatchServiceProofs -------------------------
(***************************************************************************)
(* For any requests and any limits, the batching service serves in arrival *)
(* order.  The two facts need each other: a batch that starts overtakes    *)
(* nobody because the waiting batches are in arrival order, and a batch    *)
(* joins them at the end because what is in them was further on.           *)
(*                                                                         *)
(* The simulated case implements that service, and what its artifacts say  *)
(* is true, for every trace, policy, limit and backend.  SimInv is what    *)
(* both need: where every request is, its record says; nothing that is due *)
(* is ever overdue; and the batches carry their numbers in order.          *)
(***************************************************************************)
EXTENDS SimulateCase, BatchService, FiniteSetTheorems, SequenceTheorems, TLAPS

ServiceTypeOK ==
  /\ stage \in [Clients -> Stages]
  /\ ready \in Seq(SUBSET Clients)

ServiceInv == ServiceTypeOK /\ InArrivalOrder /\ ReadyHoldsFormed

\* After a move, a request is where it was or where the move took it.
LEMMA MoveLemma ==
  ASSUME NEW requests, NEW to \in Stages, stage \in [Clients -> Stages], Move(requests, to)
  PROVE  /\ stage' \in [Clients -> Stages]
         /\ \A r \in Clients : stage'[r] = IF r \in requests THEN to ELSE stage[r]
  BY DEF Move

\* At the start everybody is scheduled and no batch waits.
LEMMA ServiceInitHolds == ServiceInit => ServiceInv
<1> SUFFICES ASSUME ServiceInit PROVE ServiceInv
  OBVIOUS
<1>1. ServiceTypeOK
  BY DEF ServiceInit, ServiceTypeOK, Stages
<1>2. InArrivalOrder
  BY DEF ServiceInit, InArrivalOrder, Rank
<1>3. ReadyHoldsFormed
  BY DEF ServiceInit, ReadyHoldsFormed, At
<1> QED
  BY <1>1, <1>2, <1>3 DEF ServiceInv

\* A request leaves "scheduled" only if all earlier ones have left it.
LEMMA DecideKeeps ==
  ASSUME ServiceAssumption, ServiceInv, NEW q \in Clients, Enqueue(q) \/ Reject(q)
  PROVE  ServiceInv'
<1> USE DEF ServiceAssumption
<1>1. PICK to \in {"queued", "rejected"} : Move({q}, to)
  BY DEF Enqueue, Reject
<1>2. ready' = ready /\ Oldest(q)
  BY DEF Enqueue, Reject
<1>3. /\ stage' \in [Clients -> Stages]
      /\ \A r \in Clients : stage'[r] = IF r \in {q} THEN to ELSE stage[r]
  <2>1. to \in Stages /\ stage \in [Clients -> Stages]
    BY DEF ServiceInv, ServiceTypeOK, Stages
  <2> QED
    BY ONLY <1>1, <2>1, MoveLemma
<1>4. ServiceTypeOK'
  BY <1>2, <1>3 DEF ServiceInv, ServiceTypeOK
<1>5. InArrivalOrder'
  <2> SUFFICES ASSUME NEW r \in Clients, NEW s \in Clients, r < s
               PROVE  Rank(stage'[r]) >= Rank(stage'[s]) \/ stage'[s] = "rejected"
    BY DEF InArrivalOrder
  <2>1. Rank(stage[r]) >= Rank(stage[s]) \/ stage[s] = "rejected"
    BY DEF ServiceInv, InArrivalOrder
  <2>2. s = q => stage[r] # "scheduled"
    BY <1>2 DEF Oldest, At
  <2>3. stage[q] = "scheduled"
    BY <1>2 DEF Oldest, At
  <2>4. stage[r] \in Stages /\ stage[s] \in Stages
    BY DEF ServiceInv, ServiceTypeOK
  <2>5. r # s
    BY <1>3
  <2> QED
    BY <1>3, <2>1, <2>2, <2>3, <2>4, <2>5 DEF Rank, Stages
<1>6. ReadyHoldsFormed'
  <2>1. At("formed")' = At("formed")
    BY <1>2, <1>3 DEF At, Oldest
  <2> QED
    BY <1>2, <2>1 DEF ServiceInv, ReadyHoldsFormed
<1> QED
  BY <1>4, <1>5, <1>6 DEF ServiceInv

\* The requests of a new batch come after those of the batches that wait.
LEMMA FormKeeps ==
  ASSUME ServiceAssumption, ServiceInv, NEW batch \in SUBSET Clients, Form(batch)
  PROVE  ServiceInv'
<1> USE DEF ServiceAssumption
<1>1. /\ stage' \in [Clients -> Stages]
      /\ \A r \in Clients : stage'[r] = IF r \in batch THEN "formed" ELSE stage[r]
  BY MoveLemma DEF ServiceInv, ServiceTypeOK, Stages, Form
<1>2. \A r \in batch : stage[r] = "queued"
  BY DEF Form, At
<1>3. ready \in Seq(SUBSET Clients) /\ ready' = Append(ready, batch)
  BY DEF Form, ServiceInv, ServiceTypeOK
<1>4. ServiceTypeOK'
  BY <1>1, <1>3 DEF ServiceTypeOK
<1>5. InArrivalOrder'
  <2> SUFFICES ASSUME NEW r \in Clients, NEW s \in Clients, r < s
               PROVE  Rank(stage'[r]) >= Rank(stage'[s]) \/ stage'[s] = "rejected"
    BY DEF InArrivalOrder
  <2>1. Rank(stage[r]) >= Rank(stage[s]) \/ stage[s] = "rejected"
    BY DEF ServiceInv, InArrivalOrder
  <2>2. s \in batch /\ stage[r] = "queued" => r \in batch
    <3> SUFFICES ASSUME s \in batch, stage[r] = "queued", r \notin batch PROVE FALSE
      OBVIOUS
    <3>1. s < r
      BY DEF Form, At
    <3> QED
      BY <3>1
  <2>3. stage[r] \in Stages /\ stage[s] \in Stages
    BY DEF ServiceInv, ServiceTypeOK
  <2> QED
    BY <1>1, <1>2, <2>1, <2>2, <2>3 DEF Rank, Stages
<1>6. ReadyHoldsFormed'
  <2>1. \A k \in DOMAIN ready : ready[k] \subseteq At("formed")
    BY DEF ServiceInv, ReadyHoldsFormed
  <2>2. \A r \in At("formed"), s \in batch : r < s
    <3> SUFFICES ASSUME NEW r \in At("formed"), NEW s \in batch PROVE r < s
      OBVIOUS
    <3>1. r \in Clients /\ s \in Clients /\ stage[r] = "formed" /\ stage[s] = "queued"
      BY <1>2 DEF At
    <3>2. Rank(stage[r]) = 2 /\ Rank(stage[s]) = 1
      BY <3>1 DEF Rank
    <3>3. ~(s < r)
      BY <3>1, <3>2 DEF ServiceInv, InArrivalOrder
    <3> QED
      BY <3>1, <3>3
  <2>3. At("formed")' = At("formed") \cup batch
    BY <1>1 DEF At
  <2>4. /\ DOMAIN ready = 1..Len(ready) /\ DOMAIN ready' = 1..(Len(ready) + 1)
        /\ Len(ready) \in Nat
        /\ \A k \in 1..Len(ready) : ready'[k] = ready[k]
        /\ ready'[Len(ready) + 1] = batch
    BY <1>3
  <2>5. UNION {ready'[k] : k \in DOMAIN ready'}
          = (UNION {ready[k] : k \in DOMAIN ready}) \cup batch
    BY <2>4
  <2>6. \A k, l \in DOMAIN ready' : k < l => \A r \in ready'[k], s \in ready'[l] : r < s
    <3> SUFFICES ASSUME NEW k \in DOMAIN ready', NEW l \in DOMAIN ready', k < l,
                        NEW r \in ready'[k], NEW s \in ready'[l]
                 PROVE  r < s
      OBVIOUS
    <3>1. k \in DOMAIN ready /\ r \in ready[k]
      BY <2>4
    <3>2. CASE l \in DOMAIN ready
      BY <2>4, <3>1, <3>2 DEF ServiceInv, ReadyHoldsFormed
    <3>3. CASE l = Len(ready) + 1
      BY <2>1, <2>2, <2>4, <3>1, <3>3
    <3> QED
      BY <2>4, <3>2, <3>3
  <2> QED
    BY <2>3, <2>5, <2>6 DEF ServiceInv, ReadyHoldsFormed
<1> QED
  BY <1>4, <1>5, <1>6 DEF ServiceInv

\* The batch that starts holds the oldest of the formed requests.
LEMMA StartKeeps ==
  ASSUME ServiceAssumption, ServiceInv, Start
  PROVE  ServiceInv'
<1> USE DEF ServiceAssumption
<1> DEFINE first == ready[1]
<1>1. /\ ready \in Seq(SUBSET Clients) /\ ready # <<>>
      /\ first = Head(ready) /\ first \subseteq Clients
      /\ ready' = Tail(ready) /\ ready' \in Seq(SUBSET Clients)
      /\ Len(ready) \in Nat /\ 1 \in DOMAIN ready
      /\ DOMAIN ready = 1..Len(ready)
      /\ DOMAIN ready' = 1..(Len(ready) - 1)
      /\ \A k \in 1..(Len(ready) - 1) : ready'[k] = ready[k + 1]
  BY DEF Start, ServiceInv, ServiceTypeOK
<1>2. /\ stage' \in [Clients -> Stages]
      /\ \A r \in Clients : stage'[r] = IF r \in first THEN "running" ELSE stage[r]
  BY <1>1, MoveLemma DEF ServiceInv, ServiceTypeOK, Stages, Start
<1>3. \A r \in first : r \in Clients /\ stage[r] = "formed"
  BY <1>1 DEF ServiceInv, ReadyHoldsFormed, At
<1>4. \A k \in DOMAIN ready : k # 1 => \A r \in first, s \in ready[k] : r < s
  BY <1>1 DEF ServiceInv, ReadyHoldsFormed
<1>5. \A k \in DOMAIN ready : ready[k] \subseteq Clients
  BY <1>1
<1> HIDE DEF first
<1>6. ServiceTypeOK'
  BY <1>1, <1>2 DEF ServiceTypeOK
<1>7. InArrivalOrder'
  <2> SUFFICES ASSUME NEW r \in Clients, NEW s \in Clients, r < s
               PROVE  Rank(stage'[r]) >= Rank(stage'[s]) \/ stage'[s] = "rejected"
    BY DEF InArrivalOrder
  <2>1. Rank(stage[r]) >= Rank(stage[s]) \/ stage[s] = "rejected"
    BY DEF ServiceInv, InArrivalOrder
  <2>2. s \in first /\ stage[r] = "formed" => r \in first
    <3> SUFFICES ASSUME s \in first, stage[r] = "formed", r \notin first PROVE FALSE
      OBVIOUS
    <3>1. PICK k \in DOMAIN ready : r \in ready[k]
      BY DEF ServiceInv, ReadyHoldsFormed, At
    <3>2. k # 1
      BY <3>1 DEF first
    <3>3. s < r
      BY <1>4, <3>1, <3>2
    <3> QED
      BY <3>3
  <2>3. stage[r] \in Stages /\ stage[s] \in Stages
    BY DEF ServiceInv, ServiceTypeOK
  <2> QED
    BY <1>2, <1>3, <2>1, <2>2, <2>3 DEF Rank, Stages
<1>8. ReadyHoldsFormed'
  <2>1. At("formed")' = At("formed") \ first
    BY <1>2 DEF At
  <2>2. UNION {ready'[k] : k \in DOMAIN ready'} \subseteq At("formed") \ first
    <3> SUFFICES ASSUME NEW k \in DOMAIN ready', NEW s \in ready'[k]
                 PROVE  s \in At("formed") /\ s \notin first
      OBVIOUS
    <3>1. k + 1 \in DOMAIN ready /\ k + 1 # 1 /\ s \in ready[k + 1]
      BY <1>1
    <3>2. s \in At("formed")
      BY <3>1 DEF ServiceInv, ReadyHoldsFormed
    <3>3. s \in Nat
      BY <1>5, <3>1
    <3>4. s \in first => s < s
      BY <1>4, <3>1
    <3> QED
      BY <3>2, <3>3, <3>4
  <2>3. At("formed") \ first \subseteq UNION {ready'[k] : k \in DOMAIN ready'}
    <3> SUFFICES ASSUME NEW s \in At("formed"), s \notin first
                 PROVE  \E k \in DOMAIN ready' : s \in ready'[k]
      OBVIOUS
    <3>1. PICK k \in DOMAIN ready : s \in ready[k]
      BY DEF ServiceInv, ReadyHoldsFormed
    <3>2. k # 1
      BY <3>1 DEF first
    <3>3. k - 1 \in DOMAIN ready' /\ ready'[k - 1] = ready[k]
      BY <1>1, <3>2
    <3> QED
      BY <3>1, <3>3
  <2>4. \A k, l \in DOMAIN ready' : k < l => \A r \in ready'[k], s \in ready'[l] : r < s
    <3> SUFFICES ASSUME NEW k \in DOMAIN ready', NEW l \in DOMAIN ready', k < l,
                        NEW r \in ready'[k], NEW s \in ready'[l]
                 PROVE  r < s
      OBVIOUS
    <3>1. /\ k + 1 \in DOMAIN ready /\ l + 1 \in DOMAIN ready /\ k + 1 < l + 1
          /\ r \in ready[k + 1] /\ s \in ready[l + 1]
      BY <1>1
    <3> QED
      BY <3>1 DEF ServiceInv, ReadyHoldsFormed
  <2>5. UNION {ready'[k] : k \in DOMAIN ready'} = At("formed")'
    BY <2>1, <2>2, <2>3
  <2> QED
    BY <2>4, <2>5 DEF ReadyHoldsFormed
<1> QED
  BY <1>6, <1>7, <1>8 DEF ServiceInv

\* All running requests end together, and they were the furthest.
LEMMA FinishKeeps ==
  ASSUME ServiceAssumption, ServiceInv, NEW outcome \in Outcomes, Finish(outcome)
  PROVE  ServiceInv'
<1> USE DEF ServiceAssumption
<1>1. /\ stage' \in [Clients -> Stages]
      /\ \A r \in Clients :
           stage'[r] = IF stage[r] = "running" THEN outcome ELSE stage[r]
  <2>1. outcome \in Stages
    BY DEF Outcomes, Stages
  <2> QED
    BY <2>1, MoveLemma DEF ServiceInv, ServiceTypeOK, Finish, At
<1>2. ServiceTypeOK'
  BY <1>1 DEF ServiceInv, ServiceTypeOK, Finish
<1>3. InArrivalOrder'
  <2> SUFFICES ASSUME NEW r \in Clients, NEW s \in Clients, r < s
               PROVE  Rank(stage'[r]) >= Rank(stage'[s]) \/ stage'[s] = "rejected"
    BY DEF InArrivalOrder
  <2>1. Rank(stage[r]) >= Rank(stage[s]) \/ stage[s] = "rejected"
    BY DEF ServiceInv, InArrivalOrder
  <2>2. stage[r] \in Stages /\ stage[s] \in Stages
    BY DEF ServiceInv, ServiceTypeOK
  <2> QED
    BY <1>1, <2>1, <2>2 DEF Rank, Stages, Outcomes
<1>4. ReadyHoldsFormed'
  <2>1. At("formed")' = At("formed")
    BY <1>1 DEF At, Outcomes
  <2> QED
    BY <2>1 DEF ServiceInv, ReadyHoldsFormed, Finish
<1> QED
  BY <1>2, <1>3, <1>4 DEF ServiceInv

\* The inductive invariant, one lemma for each kind of step.
LEMMA ServiceInvariant ==
  ASSUME ServiceAssumption PROVE ServiceSpec => []ServiceInv
<1>1. ServiceInv /\ [ServiceNext]_serviceVars => ServiceInv'
  <2> SUFFICES ASSUME ServiceAssumption, ServiceInv, [ServiceNext]_serviceVars PROVE ServiceInv'
    OBVIOUS
  <2>1. CASE UNCHANGED serviceVars
    BY <2>1 DEF serviceVars, ServiceInv, ServiceTypeOK, InArrivalOrder, ReadyHoldsFormed, At
  <2>2. CASE \E r \in Clients : Enqueue(r) \/ Reject(r)
    BY <2>2, DecideKeeps
  <2>3. CASE \E batch \in SUBSET Clients : Form(batch)
    BY <2>3, FormKeeps
  <2>4. CASE Start
    BY <2>4, StartKeeps
  <2>5. CASE \E outcome \in Outcomes : Finish(outcome)
    BY <2>5, FinishKeeps
  <2> QED
    BY <2>1, <2>2, <2>3, <2>4, <2>5 DEF ServiceNext
<1> QED
  BY ServiceInitHolds, <1>1, PTL DEF ServiceSpec

\* For any requests and limits, no request of the service overtakes an earlier one:
\* what run_online_case and simulate_case inherit by implementing it.
THEOREM ServedInArrivalOrder ==
  ASSUME ServiceAssumption PROVE ServiceSpec => []InArrivalOrder
<1>1. ServiceInv => InArrivalOrder
  BY DEF ServiceInv
<1> QED
  BY ServiceInvariant, <1>1, PTL

\* The waiting batches are exactly the formed requests, in arrival order.
THEOREM ReadyIsFormed ==
  ASSUME ServiceAssumption PROVE ServiceSpec => []ReadyHoldsFormed
<1>1. ServiceInv => ReadyHoldsFormed
  BY DEF ServiceInv
<1> QED
  BY ServiceInvariant, <1>1, PTL

-----------------------------------------------------------------------------
(***************************************************************************)
(* The simulated case: the inductive invariant                             *)
(***************************************************************************)
Phases == {"loop", "finish", "start", "admit", "arrive", "dispatch", "restart", "readmit",
           "redispatch", "reject", "drain", "done"}

Entries == [id : Requests, admitted : Nat]

Patients == [id : Requests, deadline : Nat]

Formeds == [id : Nat, requests : Seq(Entries), dispatch : Nat]

Actives == [id : Nat, requests : Seq(Entries), dispatch : Nat, start : Nat, first : Nat,
            finish : Nat, failed : BOOLEAN]

SimTypeOK ==
  /\ trace \in [Requests -> Nat]
  /\ now \in Nat /\ index \in 1..(Count + 1)
  /\ sched \in SchedulerType(Requests)
  /\ waiters \in Seq(Patients)
  /\ batches \in Seq(Formeds)
  /\ active \subseteq Actives
  /\ completed \in Seq(Actives)
  /\ life \in [Requests -> StateType]
  /\ pc \in Phases

\* The ids of a queue are in arrival order.
Ascending(queue) == \A j, k \in DOMAIN queue : j < k => queue[j].id < queue[k].id

\* The waiters and the queue are in arrival order, and the queue is before the waiters.
InLine ==
  /\ Ascending(waiters) /\ Ascending(sched.queue)
  /\ \A j, k \in DOMAIN sched.queue : j < k => sched.queue[j].admitted <= sched.queue[k].admitted
  /\ \A r \in IdsOf(sched.queue), s \in IdsOf(waiters) : r < s
  /\ \A r, s \in Requests : r <= s => trace[r] <= trace[s]

\* The window or the timeout of the oldest request in the queue has not passed.
HeadDue ==
  sched.queue # <<>> =>
    /\ sched.policy = "fixed_window" => WindowOf(sched) >= now
    /\ sched.policy = "size_or_time" => OldestDeadline(sched) >= now

\* The arrivals so far, and the deadlines of those of them that wait.
ArrivalsOnTime ==
  /\ \A r \in Requests : IF r < index THEN trace[r] <= now ELSE now <= trace[r]
  /\ \A k \in DOMAIN waiters : /\ waiters[k].id < index
                               /\ waiters[k].deadline = trace[waiters[k].id] + Timeout
                               /\ now <= waiters[k].deadline

\* The batches so far.
WorkOnTime ==
  /\ \A k \in DOMAIN sched.queue : sched.queue[k].admitted <= now
  /\ \A k \in DOMAIN batches : batches[k].dispatch <= now
  /\ \A a \in active : a.start <= now /\ now <= a.finish
  /\ \A k \in DOMAIN completed : completed[k].finish <= now

\* What is recorded of a request that arrived at t.
StateOK(state, t) ==
  /\ state.observed = t
  /\ state.admitted # NoTime => state.admitted \in t..(t + Timeout)
  /\ state.dispatch # NoTime => state.admitted # NoTime /\ state.admitted <= state.dispatch
  /\ (state.batch = NoBatchId <=> state.dispatch = NoTime)
  /\ state.start # NoTime => state.dispatch # NoTime /\ state.dispatch <= state.start
  /\ state.status = "pending" => ~state.reason /\ state.terminal = NoTime
  /\ state.status = "completed" => /\ state.start # NoTime /\ ~state.reason
                                   /\ state.start <= state.first
                                   /\ state.first <= state.finished
                                   /\ state.finished = state.terminal
  /\ state.status = "failed" => state.start # NoTime /\ state.reason /\ state.start <= state.terminal
  /\ state.status = "rejected" => /\ state.admitted = NoTime /\ state.reason
                                  /\ state.terminal = t + Timeout
  /\ state.status # "completed" => state.first = NoTime /\ state.finished = NoTime

\* Nothing is recorded ahead of time.
Past(state, t) ==
  state.admitted <= t /\ state.dispatch <= t /\ state.start <= t /\ state.terminal <= t

RecordsOK == \A r \in Requests : StateOK(life[r], trace[r]) /\ Past(life[r], now)

InBatches == UNION {WaitingIn(k) : k \in DOMAIN batches}
Running   == UNION {IdsOf(a.requests) : a \in active}
Served    == UNION {IdsOf(completed[k].requests) : k \in DOMAIN completed}

\* Where a request is, its record says.
IsWaiting(r) == r < index /\ life[r].admitted = NoTime /\ life[r].status = "pending"
IsQueued(r)  == life[r].admitted # NoTime /\ life[r].dispatch = NoTime
IsFormed(r)  == life[r].dispatch # NoTime /\ life[r].start = NoTime
IsRunning(r) == life[r].start # NoTime /\ life[r].status = "pending"
IsServed(r)  == life[r].status \in {"completed", "failed"}

PlacesOK ==
  /\ \A r \in Requests : r >= index => life[r].admitted = NoTime /\ life[r].status = "pending"
  /\ IdsOf(waiters) = {r \in Requests : IsWaiting(r)}
  /\ IdsOf(sched.queue) = {r \in Requests : IsQueued(r)}
  /\ InBatches = {r \in Requests : IsFormed(r)}
  /\ Running = {r \in Requests : IsRunning(r)}
  /\ Served = {r \in Requests : IsServed(r)}

\* A batch, and what is recorded of its requests.
InBatch(b) ==
  /\ Len(b.requests) \in 1..MaxBatch
  /\ \A r \in IdsOf(b.requests) : life[r].batch = b.id /\ life[r].dispatch = b.dispatch

Started(b) ==
  /\ InBatch(b)
  /\ b.dispatch <= b.start /\ b.start <= b.first /\ b.first <= b.finish
  /\ \A r \in IdsOf(b.requests) : life[r].start = b.start

Executed(b) ==
  /\ Started(b)
  /\ \A r \in IdsOf(b.requests) :
       /\ life[r].terminal = b.finish
       /\ life[r].status = IF b.failed THEN "failed" ELSE "completed"
       /\ ~b.failed => life[r].first = b.first /\ life[r].finished = b.finish
       /\ b.failed => life[r].reason
       /\ ~b.failed => ~life[r].reason

BatchesOK ==
  /\ \A k \in DOMAIN batches : InBatch(batches[k])
  /\ \A a \in active : Started(a)
  /\ \A k \in DOMAIN completed : Executed(completed[k])

\* The batches are numbered in the order in which they are formed and executed, one at
\* a time.
Out == Len(completed) + (IF active = {} THEN 0 ELSE 1)

OneByOne ==
  /\ \A a, b \in active : a = b
  /\ \A k \in DOMAIN completed : completed[k].id = k - 1
  /\ \A a \in active : a.id = Len(completed)
  /\ \A k \in DOMAIN batches : batches[k].id = Out + k - 1
  /\ sched.ordinal = Out + Len(batches)
  /\ \A k, l \in DOMAIN completed : k < l => completed[k].finish <= completed[l].start
  /\ \A k \in DOMAIN completed, a \in active : completed[k].finish <= a.start

InCapacity == Cardinality(Waiting) <= Capacity

\* How far the turn of the loop has come.
NothingDue == eligible_dispatch(sched, now) = {}

\* ... with the arrivals and the waiters,
ArrivalsPhase ==
  /\ pc \in {"arrive", "dispatch", "restart", "redispatch", "reject", "loop"} =>
       (waiters # <<>> => ~MayWait)
  /\ pc \in {"dispatch", "restart", "readmit", "redispatch", "reject", "loop"} =>
       (Arriving => trace[index] > now \/ (pc = "loop" /\ index = 1))
  /\ pc = "loop" => ~DeadlineCame

\* ... with the batches,
WorkPhase ==
  /\ pc \in {"restart", "reject", "loop"} => NothingDue
  /\ pc \in {"readmit", "redispatch"} => active # {}
  /\ pc \in {"reject", "loop"} => (active = {} => batches = <<>>)
  /\ pc # "finish" => (\A a \in active : a.finish = now => a.start = now)

\* ... and at its end.
LastPhase ==
  /\ pc \in {"drain", "done"} => /\ index = Count + 1 /\ waiters = <<>> /\ sched.queue = <<>>
                                 /\ batches = <<>> /\ active = {}
  /\ sched.closed => pc \in {"drain", "done"}

\* Once a waiter was rejected, the instant goes on only with a batch that took no time.
RejectedNow == \E r \in Requests : life[r].status = "rejected" /\ life[r].terminal = now

Instantly(b) == b.start = now /\ b.finish = now

Instant ==
  RejectedNow =>
    \/ pc \in {"reject", "loop", "drain", "done"}
    \/ pc = "finish" /\ \E a \in active : Instantly(a)
    \/ \E k \in DOMAIN completed : Instantly(completed[k])

Settled ==
  /\ SimTypeOK /\ InLine /\ HeadDue /\ ArrivalsOnTime /\ WorkOnTime
  /\ RecordsOK /\ PlacesOK /\ BatchesOK /\ OneByOne /\ InCapacity

Phased == ArrivalsPhase /\ WorkPhase /\ LastPhase /\ Instant

SimInv == Settled /\ Phased

-----------------------------------------------------------------------------
(***************************************************************************)
(* Queues and records                                                      *)
(***************************************************************************)
\* The numbers a case is configured with.
LEMMA Numbers ==
  /\ MaxBatch \in Nat \ {0} /\ Capacity \in Nat \ {0} /\ Window \in Nat /\ MaxWait \in Nat
  /\ Count \in Nat \ {0} /\ Timeout \in Nat
  BY ConfigAssumption, SimulationAssumption

\* A queue that grows by one.
LEMMA IdsAppend ==
  ASSUME NEW S, NEW queue \in Seq(S), NEW x \in S
  PROVE  IdsOf(Append(queue, x)) = IdsOf(queue) \cup {x.id}
<1>1. /\ Len(queue) \in Nat /\ DOMAIN queue = 1..Len(queue)
      /\ DOMAIN Append(queue, x) = 1..(Len(queue) + 1)
      /\ \A k \in 1..Len(queue) : Append(queue, x)[k] = queue[k]
      /\ Append(queue, x)[Len(queue) + 1] = x
  OBVIOUS
<1>. QED
  BY <1>1 DEF IdsOf

\* A queue without its first.
LEMMA IdsTail ==
  ASSUME NEW S, NEW queue \in Seq(S), queue # <<>>, Ascending(queue), \A x \in S : x.id \in Nat
  PROVE  /\ queue[1].id \in IdsOf(queue)
         /\ IdsOf(Tail(queue)) = IdsOf(queue) \ {queue[1].id}
         /\ Ascending(Tail(queue))
<1>. DEFINE rest == Tail(queue)
<1>1. /\ Len(queue) \in Nat /\ Len(queue) > 0 /\ DOMAIN queue = 1..Len(queue)
      /\ DOMAIN rest = 1..(Len(queue) - 1)
      /\ \A k \in 1..(Len(queue) - 1) : rest[k] = queue[k + 1]
      /\ \A k \in 1..Len(queue) : queue[k] \in S
  OBVIOUS
<1>. HIDE DEF rest
<1>2. \A k \in 1..Len(queue) : queue[k].id \in Nat
  BY <1>1
<1>3. ASSUME NEW k \in 1..Len(queue), k # 1 PROVE queue[k].id # queue[1].id
  <2>1. 1 \in DOMAIN queue /\ k \in DOMAIN queue /\ 1 < k
    BY <1>1, <1>3
  <2>2. queue[1].id < queue[k].id
    BY <2>1 DEF Ascending
  <2>3. queue[1].id \in Nat /\ queue[k].id \in Nat
    BY <1>1, <1>2
  <2>. QED
    BY <2>2, <2>3
<1>4. Ascending(rest)
  <2>1. ASSUME NEW j \in 1..(Len(queue) - 1), NEW k \in 1..(Len(queue) - 1), j < k
        PROVE  rest[j].id < rest[k].id
    <3>1. j + 1 \in DOMAIN queue /\ k + 1 \in DOMAIN queue /\ j + 1 < k + 1
      BY <1>1, <2>1
    <3>2. queue[j + 1].id < queue[k + 1].id
      BY <3>1 DEF Ascending
    <3>. QED
      BY <1>1, <3>2
  <2>. QED
    BY <1>1, <2>1 DEF Ascending
<1>5. IdsOf(rest) \subseteq IdsOf(queue) \ {queue[1].id}
  BY <1>1, <1>3 DEF IdsOf
<1>6. ASSUME NEW r \in IdsOf(queue), r # queue[1].id
      PROVE  r \in IdsOf(rest)
  <2>1. PICK k \in 1..Len(queue) : r = queue[k].id
    BY <1>1, <1>6 DEF IdsOf
  <2>2. k # 1 /\ k - 1 \in 1..(Len(queue) - 1) /\ rest[k - 1] = queue[k]
    BY <1>1, <1>6, <2>1
  <2>. QED
    BY <1>1, <2>1, <2>2 DEF IdsOf
<1>7. queue[1].id \in IdsOf(queue)
  BY <1>1 DEF IdsOf
<1>8. IdsOf(rest) = IdsOf(queue) \ {queue[1].id}
  BY <1>5, <1>6
<1>. QED
  BY <1>4, <1>7, <1>8 DEF rest

\* A queue that is cut in two.
LEMMA IdsSplit ==
  ASSUME NEW S, NEW queue \in Seq(S), Ascending(queue), \A x \in S : x.id \in Nat,
         NEW n \in 1..Len(queue)
  PROVE  LET front == SubSeq(queue, 1, n)
             back == SubSeq(queue, n + 1, Len(queue))
         IN  /\ front \in Seq(S) /\ back \in Seq(S)
             /\ Len(front) = n /\ Len(back) = Len(queue) - n
             /\ \A k \in 1..n : front[k] = queue[k]
             /\ \A k \in 1..(Len(queue) - n) : back[k] = queue[n + k]
             /\ Ascending(front) /\ Ascending(back)
             /\ IdsOf(front) \cup IdsOf(back) = IdsOf(queue)
             /\ \A r \in IdsOf(front), s \in IdsOf(back) : r < s
<1>. DEFINE front == SubSeq(queue, 1, n)
            back == SubSeq(queue, n + 1, Len(queue))
<1>1. /\ Len(queue) \in Nat /\ DOMAIN queue = 1..Len(queue) /\ n \in Nat
      /\ front \in Seq(S) /\ back \in Seq(S)
      /\ Len(front) = n /\ Len(back) = Len(queue) - n
      /\ DOMAIN front = 1..n /\ DOMAIN back = 1..(Len(queue) - n)
      /\ \A k \in 1..n : front[k] = queue[k]
      /\ \A k \in 1..(Len(queue) - n) : back[k] = queue[n + k]
      /\ \A k \in 1..Len(queue) : queue[k] \in S
  OBVIOUS
<1>. HIDE DEF front, back
<1>0. \A k \in 1..Len(queue) : queue[k].id \in Nat
  BY <1>1
<1>2. Ascending(front) /\ Ascending(back)
  <2>1. Ascending(front)
    BY <1>0, <1>1 DEF Ascending
  <2>2. ASSUME NEW j \in 1..(Len(queue) - n), NEW k \in 1..(Len(queue) - n), j < k
        PROVE  back[j].id < back[k].id
    <3>1. n + j \in 1..Len(queue) /\ n + k \in 1..Len(queue) /\ n + j < n + k
      BY <1>1, <2>2
    <3>2. back[j] = queue[n + j] /\ back[k] = queue[n + k]
      BY <1>1
    <3>. QED
      BY <1>1, <3>1, <3>2 DEF Ascending
  <2>. QED
    BY <1>1, <2>1, <2>2 DEF Ascending
<1>3. IdsOf(front) \cup IdsOf(back) \subseteq IdsOf(queue)
  <2>1. IdsOf(front) \subseteq IdsOf(queue)
    BY <1>1 DEF IdsOf
  <2>2. ASSUME NEW k \in 1..(Len(queue) - n) PROVE back[k].id \in IdsOf(queue)
    <3>1. n + k \in 1..Len(queue) /\ back[k] = queue[n + k]
      BY <1>1
    <3>. QED
      BY <1>1, <3>1 DEF IdsOf
  <2>3. IdsOf(back) \subseteq IdsOf(queue)
    BY <1>1, <2>2 DEF IdsOf
  <2>. QED
    BY <2>1, <2>3
<1>4. ASSUME NEW r \in IdsOf(queue) PROVE r \in IdsOf(front) \cup IdsOf(back)
  <2>1. PICK k \in 1..Len(queue) : r = queue[k].id
    BY <1>1, <1>4 DEF IdsOf
  <2>2. CASE k <= n
    <3>1. k \in 1..n /\ front[k] = queue[k]
      BY <1>1, <2>2
    <3>. QED
      BY <1>1, <2>1, <3>1 DEF IdsOf
  <2>3. CASE k > n
    <3>1. k - n \in 1..(Len(queue) - n) /\ n + (k - n) = k
      BY <1>1, <2>3
    <3>2. back[k - n] = queue[k]
      BY <1>1, <3>1
    <3>. QED
      BY <1>1, <2>1, <3>1, <3>2 DEF IdsOf
  <2>. QED
    BY <1>1, <2>2, <2>3
<1>5. ASSUME NEW r \in IdsOf(front), NEW s \in IdsOf(back) PROVE r < s
  <2>1. PICK k \in 1..n : r = queue[k].id
    BY <1>1, <1>5 DEF IdsOf
  <2>2. PICK l \in 1..(Len(queue) - n) : s = queue[n + l].id
    BY <1>1, <1>5 DEF IdsOf
  <2>3. k \in 1..Len(queue) /\ n + l \in 1..Len(queue) /\ k < n + l
    BY <1>1
  <2>. QED
    BY <1>1, <2>1, <2>2, <2>3 DEF Ascending
<1>. QED
  BY <1>1, <1>2, <1>3, <1>4, <1>5 DEF front, back

\* The record of a request that is admitted at n.
LEMMA AdmitState ==
  ASSUME NEW x \in StateType, NEW t \in Nat, NEW n \in Nat, StateOK(x, t),
         x.admitted = NoTime, x.status = "pending", n \in t..(t + Timeout)
  PROVE  LET y == [x EXCEPT !.admitted = n]
         IN  y \in StateType /\ StateOK(y, t) /\ (Past(x, n) => Past(y, n))
<1>. DEFINE y == [x EXCEPT !.admitted = n]
<1>1. y \in StateType
  BY Numbers DEF StateType, NoTime, NoBatchId
<1>2. /\ y.observed = x.observed /\ y.status = x.status /\ y.reason = x.reason
      /\ y.batch = x.batch /\ y.admitted = n /\ y.dispatch = x.dispatch
      /\ y.start = x.start /\ y.first = x.first /\ y.finished = x.finished
      /\ y.terminal = x.terminal
  BY DEF StateType
<1>. HIDE DEF y
<1>3. x \in StateType
  OBVIOUS
<1>4. StateOK(y, t)
  BY Numbers, <1>1, <1>2 DEF StateType, StateOK, Past, NoTime, NoBatchId
<1>5. Past(x, n) => Past(y, n)
  BY <1>1, <1>2 DEF StateType, StateOK, Past, NoTime, NoBatchId
<1>. QED
  BY <1>1, <1>4, <1>5 DEF y

\* ... that is put in a batch at n,
LEMMA FormState ==
  ASSUME NEW x \in StateType, NEW t \in Nat, NEW n \in Nat, NEW b \in Nat, StateOK(x, t),
         x.admitted # NoTime, x.dispatch = NoTime, Past(x, n)
  PROVE  LET y == [x EXCEPT !.dispatch = n, !.batch = b]
         IN  y \in StateType /\ StateOK(y, t) /\ Past(y, n)
<1>. DEFINE y == [x EXCEPT !.dispatch = n, !.batch = b]
<1>1. y \in StateType
  BY Numbers DEF StateType, NoTime, NoBatchId
<1>2. /\ y.observed = x.observed /\ y.status = x.status /\ y.reason = x.reason
      /\ y.batch = b /\ y.admitted = x.admitted /\ y.dispatch = n
      /\ y.start = x.start /\ y.first = x.first /\ y.finished = x.finished
      /\ y.terminal = x.terminal
  BY DEF StateType
<1>. HIDE DEF y
<1>3. x \in StateType
  OBVIOUS
<1>4. StateOK(y, t)
  BY Numbers, <1>1, <1>2 DEF StateType, StateOK, Past, NoTime, NoBatchId
<1>5. Past(x, n) => Past(y, n)
  BY <1>1, <1>2 DEF StateType, StateOK, Past, NoTime, NoBatchId
<1>. QED
  BY <1>1, <1>4, <1>5 DEF y

\* ... that the worker takes at n,
LEMMA StartState ==
  ASSUME NEW x \in StateType, NEW t \in Nat, NEW n \in Nat, StateOK(x, t),
         x.dispatch # NoTime, x.start = NoTime, Past(x, n)
  PROVE  LET y == [x EXCEPT !.start = n]
         IN  y \in StateType /\ StateOK(y, t) /\ Past(y, n) /\ y.status = "pending"
  BY Numbers DEF StateType, StateOK, Past, NoTime, NoBatchId

\* ... that is executed,
LEMMA EndState ==
  ASSUME NEW x \in StateType, NEW t \in Nat, NEW n \in Nat, StateOK(x, t), Past(x, n),
         NEW a \in Actives, a.start <= a.first, a.first <= a.finish, a.finish = n,
         x.start = a.start, x.status = "pending"
  PROVE  LET y == Recorded(x, a)
         IN  y \in StateType /\ StateOK(y, t) /\ Past(y, n)
<1>. DEFINE y == Recorded(x, a)
<1>1. CASE a.failed
  <2>1. y = [x EXCEPT !.status = "failed", !.reason = TRUE, !.start = a.start, !.terminal = a.finish]
    BY <1>1 DEF Recorded
  <2>2. y \in StateType
    BY <2>1 DEF StateType, Actives
  <2>3. /\ y.observed = x.observed /\ y.status = "failed" /\ y.reason = TRUE /\ y.batch = x.batch
        /\ y.admitted = x.admitted /\ y.dispatch = x.dispatch /\ y.start = x.start
        /\ y.first = x.first /\ y.finished = x.finished /\ y.terminal = n
    BY <2>1 DEF StateType
  <2>. HIDE DEF y
  <2>4. StateOK(y, t) /\ Past(y, n)
    BY Numbers, <2>2, <2>3 DEF StateType, StateOK, Past, NoTime, NoBatchId, Actives
  <2>. QED
    BY <2>2, <2>4 DEF y
<1>2. CASE ~a.failed
  <2>1. y = [x EXCEPT !.status = "completed", !.start = a.start, !.terminal = a.finish,
                      !.first = a.first, !.finished = a.finish]
    BY <1>2 DEF Recorded
  <2>2. y \in StateType
    BY <2>1 DEF StateType, Actives
  <2>3. /\ y.observed = x.observed /\ y.status = "completed" /\ y.reason = x.reason /\ y.batch = x.batch
        /\ y.admitted = x.admitted /\ y.dispatch = x.dispatch /\ y.start = x.start
        /\ y.first = a.first /\ y.finished = n /\ y.terminal = n
    BY <2>1 DEF StateType
  <2>. HIDE DEF y
  <2>4. StateOK(y, t) /\ Past(y, n)
    BY Numbers, <2>2, <2>3 DEF StateType, StateOK, Past, NoTime, NoBatchId, Actives
  <2>. QED
    BY <2>2, <2>4 DEF y
<1>. QED
  BY <1>1, <1>2

\* ... or that is rejected.
LEMMA RejectState ==
  ASSUME NEW x \in StateType, NEW t \in Nat, NEW n \in Nat, StateOK(x, t), Past(x, n),
         x.admitted = NoTime, x.status = "pending", n = t + Timeout
  PROVE  LET y == [x EXCEPT !.status = "rejected", !.reason = TRUE, !.terminal = n]
         IN  y \in StateType /\ StateOK(y, t) /\ Past(y, n)
<1>. DEFINE y == [x EXCEPT !.status = "rejected", !.reason = TRUE, !.terminal = n]
<1>1. y \in StateType
  BY Numbers DEF StateType, NoTime, NoBatchId
<1>2. /\ y.observed = x.observed /\ y.status = "rejected" /\ y.reason = TRUE
      /\ y.batch = x.batch /\ y.admitted = x.admitted /\ y.dispatch = x.dispatch
      /\ y.start = x.start /\ y.first = x.first /\ y.finished = x.finished
      /\ y.terminal = n
  BY DEF StateType
<1>. HIDE DEF y
<1>3. x \in StateType
  OBVIOUS
<1>4. StateOK(y, t)
  BY Numbers, <1>1, <1>2 DEF StateType, StateOK, Past, NoTime, NoBatchId
<1>5. Past(x, n) => Past(y, n)
  BY <1>1, <1>2 DEF StateType, StateOK, Past, NoTime, NoBatchId
<1>. QED
  BY <1>1, <1>4, <1>5 DEF y

-----------------------------------------------------------------------------
(***************************************************************************)
(* What is due                                                             *)
(***************************************************************************)
\* The fields of the scheduler.
LEMMA SchedulerFields ==
  ASSUME NEW s \in SchedulerType(Requests)
  PROVE  /\ s.queue \in Seq(Entries) /\ s.policy \in Policies /\ s.policy \in PolicyName
         /\ s.now \in Nat /\ s.ordinal \in Nat /\ s.closed \in BOOLEAN
         /\ s.nextWindow \in Nat \cup {NoTime}
         /\ Len(s.queue) \in Nat
         /\ s.queue # <<>> => /\ s.queue[1] \in Entries /\ s.queue[1].admitted \in Nat
                              /\ s.queue[1].id \in Requests /\ 1 \in DOMAIN s.queue
<1>1. /\ s.queue \in Seq(Entries) /\ s.policy \in Policies /\ s.now \in Nat /\ s.ordinal \in Nat
      /\ s.closed \in BOOLEAN /\ s.nextWindow \in Nat \cup {NoTime}
  BY DEF SchedulerType, Entries
<1>2. s.policy \in PolicyName
  BY <1>1, ConfigAssumption
<1>3. Len(s.queue) \in Nat /\ (s.queue # <<>> => s.queue[1] \in Entries /\ 1 \in DOMAIN s.queue)
  BY <1>1
<1>4. \A e \in Entries : e.admitted \in Nat /\ e.id \in Requests
  BY DEF Entries
<1>. QED
  BY <1>1, <1>2, <1>3, <1>4

\* A window of the grid is not before the time it is computed for.
LEMMA WindowLemma ==
  ASSUME NEW s \in SchedulerType(Requests), s.queue # <<>>, s.policy = "fixed_window"
  PROVE  /\ WindowOf(s) \in Nat /\ WindowOf(s) >= s.queue[1].admitted
         /\ WindowOf(s) >= s.nextWindow
<1>1. /\ Window \in Nat /\ Window > 0 /\ s.queue[1].admitted \in Nat
      /\ s.nextWindow \in Nat \cup {NoTime}
  BY Numbers, SchedulerFields, ConfigAssumption
<1>2. \A t \in Nat : GridAtOrAfter(t) \in Nat /\ GridAtOrAfter(t) >= t
  BY <1>1 DEF GridAtOrAfter
<1>. DEFINE grid == GridAtOrAfter(s.queue[1].admitted)
<1>3. grid \in Nat /\ grid >= s.queue[1].admitted
  BY <1>1, <1>2
<1>4. WindowOf(s) = IF s.nextWindow >= grid THEN s.nextWindow ELSE grid
  BY DEF WindowOf, Later
<1>. HIDE DEF grid
<1>. QED
  BY <1>1, <1>3, <1>4 DEF NoTime

\* What is due is due now.
LEMMA DueNow ==
  ASSUME SimTypeOK, HeadDue, ~sched.closed, NEW d \in eligible_dispatch(sched, now)
  PROVE  /\ sched.queue # <<>> /\ d.at = now
         /\ sched.policy = "size_or_time" /\ ~Full(sched) => OldestDeadline(sched) = now
<1>1. sched \in SchedulerType(Requests) /\ now \in Nat
  BY DEF SimTypeOK
<1>2. sched.queue # <<>>
  BY DEF eligible_dispatch
<1>3. sched.policy \in PolicyName
  BY <1>1, SchedulerFields
<1>4. CASE sched.policy = "no_batching"
  BY <1>2, <1>4 DEF eligible_dispatch, Fire
<1>5. CASE sched.policy = "fixed_window"
  <2>1. next_wakeup_ns(sched) = WindowOf(sched)
    BY <1>2, <1>5 DEF next_wakeup_ns
  <2>2. WindowOf(sched) \in Nat /\ WindowOf(sched) >= now
    BY <1>1, <1>2, <1>5, WindowLemma DEF HeadDue
  <2>3. d = Fire(WindowOf(sched), "window") /\ WindowOf(sched) \in 0..now
    BY <1>2, <1>5, <2>1 DEF eligible_dispatch
  <2>. QED
    BY <1>1, <1>2, <1>5, <2>2, <2>3 DEF Fire
<1>6. CASE sched.policy = "size_or_time"
  <2>1. OldestDeadline(sched) >= now /\ OldestDeadline(sched) \in Nat
    BY <1>1, <1>2, <1>6, Numbers, SchedulerFields DEF HeadDue, OldestDeadline
  <2>2. CASE Full(sched)
    BY <1>2, <1>6, <2>2 DEF eligible_dispatch, Fire
  <2>3. CASE ~Full(sched)
    <3>1. d = Fire(OldestDeadline(sched), "timeout") /\ OldestDeadline(sched) <= now
      BY <1>2, <1>6, <2>3 DEF eligible_dispatch
    <3>. QED
      BY <1>1, <1>2, <2>1, <3>1 DEF Fire
  <2>. QED
    BY <2>2, <2>3
<1>. QED
  BY <1>3, <1>4, <1>5, <1>6 DEF PolicyName

\* Where nothing is due, the wakeup is still to come.
LEMMA WakeupAhead ==
  ASSUME SimTypeOK, HeadDue, ~sched.closed, NothingDue, sched.queue # <<>>
  PROVE  /\ next_wakeup_ns(sched) \in Nat /\ next_wakeup_ns(sched) > now
         /\ sched.policy = "fixed_window" => next_wakeup_ns(sched) = WindowOf(sched)
         /\ sched.policy = "size_or_time" => next_wakeup_ns(sched) = OldestDeadline(sched)
<1>1. sched \in SchedulerType(Requests) /\ now \in Nat
  BY DEF SimTypeOK
<1>2. sched.policy \in PolicyName
  BY <1>1, SchedulerFields
<1>3. sched.policy # "no_batching"
  BY DEF NothingDue, eligible_dispatch
<1>4. CASE sched.policy = "fixed_window"
  <2>1. next_wakeup_ns(sched) = WindowOf(sched)
    BY <1>4 DEF next_wakeup_ns
  <2>2. WindowOf(sched) \in Nat
    BY <1>1, <1>4, WindowLemma
  <2>3. ~(WindowOf(sched) \in 0..now)
    BY <1>4, <2>1 DEF NothingDue, eligible_dispatch
  <2>. QED
    BY <1>1, <1>4, <2>1, <2>2, <2>3
<1>5. CASE sched.policy = "size_or_time"
  <2>1. ~Full(sched) /\ ~(OldestDeadline(sched) <= now)
    BY <1>5 DEF NothingDue, eligible_dispatch
  <2>2. OldestDeadline(sched) \in Nat
    BY <1>1, Numbers, SchedulerFields DEF OldestDeadline
  <2>3. next_wakeup_ns(sched) = OldestDeadline(sched)
    BY <1>5, <2>1 DEF next_wakeup_ns
  <2>. QED
    BY <1>1, <1>5, <2>1, <2>2, <2>3
<1>. QED
  BY <1>2, <1>3, <1>4, <1>5 DEF PolicyName

-----------------------------------------------------------------------------
(***************************************************************************)
(* The steps that only move on                                             *)
(***************************************************************************)
Elsewhere == <<trace, now, index, waiters, batches, active, completed, life>>

\* The queue and the next window of the scheduler stay.
SameQueue ==
  /\ sched' \in SchedulerType(Requests)
  /\ sched'.queue = sched.queue /\ sched'.policy = sched.policy
  /\ sched'.ordinal = sched.ordinal /\ sched'.nextWindow = sched.nextWindow

\* What does not say how far the turn has come stays.
LEMMA MovesOn ==
  ASSUME Settled, UNCHANGED Elsewhere, SameQueue, pc' \in Phases
  PROVE  /\ Settled' /\ (MayWait' <=> MayWait) /\ (RejectedNow' <=> RejectedNow)
         /\ (sched'.closed = sched.closed => (NothingDue' <=> NothingDue))
<1>1. /\ trace' = trace /\ now' = now /\ index' = index /\ waiters' = waiters
      /\ batches' = batches /\ active' = active /\ completed' = completed /\ life' = life
  BY DEF Elsewhere
<1>2. SimTypeOK'
  BY <1>1 DEF Settled, SimTypeOK, SameQueue
<1>3. InLine'
  BY <1>1 DEF Settled, InLine, SameQueue
<1>4. HeadDue'
  BY <1>1 DEF Settled, HeadDue, SameQueue, WindowOf, OldestDeadline
<1>5. ArrivalsOnTime' /\ WorkOnTime'
  BY <1>1 DEF Settled, ArrivalsOnTime, WorkOnTime, SameQueue
<1>6. RecordsOK'
  BY <1>1 DEF Settled, RecordsOK
<1>7. Waiting' = Waiting /\ InBatches' = InBatches /\ Running' = Running /\ Served' = Served
  BY <1>1 DEF SameQueue, Waiting, WaitingIn, InBatches, Running, Served
<1>8. PlacesOK'
  BY <1>1, <1>7 DEF Settled, PlacesOK, SameQueue, IsWaiting, IsQueued, IsFormed, IsRunning, IsServed
<1>9. BatchesOK'
  BY <1>1 DEF Settled, BatchesOK, InBatch, Started, Executed
<1>10. OneByOne'
  BY <1>1 DEF Settled, OneByOne, Out, SameQueue
<1>11. InCapacity' /\ (MayWait' <=> MayWait)
  BY <1>7 DEF Settled, InCapacity, MayWait
<1>12. RejectedNow' <=> RejectedNow
  BY <1>1 DEF RejectedNow
<1>13. ASSUME sched'.closed = sched.closed PROVE NothingDue' <=> NothingDue
  <2>1. next_wakeup_ns(sched)' = next_wakeup_ns(sched) \/ sched.policy # "fixed_window"
    BY <1>13 DEF SameQueue, next_wakeup_ns, WindowOf
  <2>2. eligible_dispatch(sched, now)' = eligible_dispatch(sched, now)
    BY <1>1, <2>1 DEF SameQueue, eligible_dispatch, Full, OldestDeadline
  <2>. QED
    BY <2>2 DEF NothingDue
<1>. QED
  BY <1>2, <1>3, <1>4, <1>5, <1>6, <1>8, <1>9, <1>10, <1>11, <1>12, <1>13 DEF Settled

\* A scheduler that does not change keeps its queue.
LEMMA SameScheduler == SimTypeOK /\ sched' = sched => SameQueue
  BY DEF SimTypeOK, SameQueue

\* The clock of the scheduler, and its end, are not looked at by the loop.
LEMMA MovedQueue ==
  ASSUME SimTypeOK, sched' = MoveTo(sched, now)
  PROVE  SameQueue /\ sched'.closed = sched.closed
<1>1. /\ sched'.queue = sched.queue /\ sched'.policy = sched.policy /\ sched'.closed = sched.closed
      /\ sched'.ordinal = sched.ordinal /\ sched'.nextWindow = sched.nextWindow
  BY DEF MoveTo
<1>2. sched' \in SchedulerType(Requests)
  BY DEF MoveTo, SimTypeOK, SchedulerType
<1>. QED
  BY <1>1, <1>2 DEF SameQueue

\* The turn goes on to another part.
PartEnds == NothingFinishes \/ NothingStarts \/ WaitersAdmitted \/ NoMoreArrive \/ WaitersRejected
              \/ Drained

\* ... or the loop is done.
LEMMA PartEndsKeeps ==
  ASSUME SimInv, PartEnds
  PROVE  SimInv'
<1>1. UNCHANGED Elsewhere /\ sched' = sched /\ pc' \in Phases
  <2>1. CASE NothingFinishes
    BY <2>1 DEF NothingFinishes, Elsewhere, Phases
  <2>2. CASE NothingStarts
    BY <2>2 DEF NothingStarts, Elsewhere, Phases
  <2>3. CASE WaitersAdmitted
    BY <2>3 DEF WaitersAdmitted, Elsewhere, Phases
  <2>4. CASE NoMoreArrive
    BY <2>4 DEF NoMoreArrive, Elsewhere, Phases
  <2>5. CASE WaitersRejected
    BY <2>5 DEF WaitersRejected, Elsewhere, Phases
  <2>6. CASE Drained
    BY <2>6 DEF Drained, Elsewhere, Phases
  <2>. QED
    BY <2>1, <2>2, <2>3, <2>4, <2>5, <2>6 DEF PartEnds
<1>2. /\ Settled' /\ (MayWait' <=> MayWait) /\ (RejectedNow' <=> RejectedNow)
      /\ (NothingDue' <=> NothingDue)
  BY <1>1, MovesOn, SameScheduler DEF SimInv, Settled
<1>3. /\ trace' = trace /\ now' = now /\ index' = index /\ waiters' = waiters
      /\ batches' = batches /\ active' = active /\ completed' = completed /\ life' = life
  BY <1>1 DEF Elsewhere
<1>4. (Arriving' <=> Arriving) /\ (DeadlineCame' <=> DeadlineCame)
  BY <1>3 DEF Arriving, DeadlineCame
<1>5. /\ \A k \in DOMAIN waiters : waiters[k].deadline >= now
      /\ waiters # <<>> => 1 \in DOMAIN waiters
      /\ Arriving => trace[index] >= now /\ trace[index] \in Nat /\ now \in Nat
  <2>1. Arriving => index \in Requests /\ ~(index < index) /\ trace[index] \in Nat
    BY Numbers DEF Arriving, Requests, SimInv, Settled, SimTypeOK
  <2>3. now \in Nat /\ waiters \in Seq(Patients)
    BY DEF SimInv, Settled, SimTypeOK
  <2>2. \A k \in DOMAIN waiters : waiters[k].deadline \in Nat
    <3>1. \A k \in DOMAIN waiters : waiters[k] \in Patients
      BY <2>3
    <3>. QED
      BY <3>1 DEF Patients
  <2>. QED
    BY <2>1, <2>2, <2>3 DEF SimInv, Settled, ArrivalsOnTime
<1>6. ArrivalsPhase'
  <2>1. CASE NothingFinishes
    BY <2>1 DEF NothingFinishes, ArrivalsPhase
  <2>2. CASE NothingStarts
    BY <1>2, <1>3, <1>4, <2>2 DEF NothingStarts, SimInv, Phased, ArrivalsPhase
  <2>3. CASE WaitersAdmitted
    <3>1. waiters # <<>> => ~MayWait
      BY <1>5, <2>3 DEF WaitersAdmitted, CanAdmit
    <3>. QED
      BY <1>2, <1>3, <1>4, <2>3, <3>1 DEF WaitersAdmitted, SimInv, Phased, ArrivalsPhase
  <2>4. CASE NoMoreArrive
    <3>1. Arriving => trace[index] > now
      BY <1>5, <2>4 DEF NoMoreArrive
    <3>. QED
      BY <1>2, <1>3, <1>4, <2>4, <3>1 DEF NoMoreArrive, SimInv, Phased, ArrivalsPhase
  <2>5. CASE WaitersRejected
    BY <1>2, <1>3, <1>4, <2>5 DEF WaitersRejected, SimInv, Phased, ArrivalsPhase
  <2>6. CASE Drained
    BY <2>6 DEF Drained, ArrivalsPhase
  <2>. QED
    BY <2>1, <2>2, <2>3, <2>4, <2>5, <2>6 DEF PartEnds
<1>7. WorkPhase'
  <2>1. CASE NothingFinishes
    BY <1>2, <1>3, <2>1 DEF NothingFinishes, WorkPhase
  <2>2. CASE NothingStarts
    BY <1>2, <1>3, <2>2 DEF NothingStarts, SimInv, Phased, WorkPhase, CanStart
  <2>3. CASE WaitersAdmitted
    BY <1>2, <1>3, <2>3 DEF WaitersAdmitted, SimInv, Phased, WorkPhase
  <2>4. CASE NoMoreArrive
    BY <1>2, <1>3, <2>4 DEF NoMoreArrive, SimInv, Phased, WorkPhase
  <2>5. CASE WaitersRejected
    BY <1>2, <1>3, <2>5 DEF WaitersRejected, SimInv, Phased, WorkPhase
  <2>6. CASE Drained
    BY <1>2, <1>3, <2>6 DEF Drained, SimInv, Phased, WorkPhase
  <2>. QED
    BY <2>1, <2>2, <2>3, <2>4, <2>5, <2>6 DEF PartEnds
<1>8. LastPhase'
  <2>1. CASE Drained
    BY <1>1, <1>3, <2>1 DEF Drained, SimInv, Phased, LastPhase
  <2>2. CASE ~Drained
    <3>1. pc \notin {"drain", "done"} /\ pc' \notin {"drain", "done"}
      BY <2>2
         DEF PartEnds, NothingFinishes, NothingStarts, WaitersAdmitted, NoMoreArrive, WaitersRejected
    <3>. QED
      BY <1>1, <3>1 DEF SimInv, Phased, LastPhase
  <2>. QED
    BY <2>1, <2>2
<1>9. Instant'
  <2>1. (\E k \in DOMAIN completed : Instantly(completed[k]))'
          <=> \E k \in DOMAIN completed : Instantly(completed[k])
    BY <1>3 DEF Instantly
  <2>2. CASE NothingFinishes
    <3>1. \A a \in active : ~Instantly(a)
      BY <2>2 DEF NothingFinishes, Instantly
    <3>2. pc = "finish"
      BY <2>2 DEF NothingFinishes
    <3>. QED
      BY <1>2, <2>1, <3>1, <3>2 DEF SimInv, Phased, Instant
  <2>3. CASE ~NothingFinishes
    <3>1. pc # "finish" /\ (pc \in {"reject", "loop", "drain", "done"}
            => pc' \in {"reject", "loop", "drain", "done"})
      BY <2>3 DEF PartEnds, NothingStarts, WaitersAdmitted, NoMoreArrive, WaitersRejected, Drained
    <3>. QED
      BY <1>2, <2>1, <3>1 DEF SimInv, Phased, Instant
  <2>. QED
    BY <2>2, <2>3
<1>. QED
  BY <1>2, <1>6, <1>7, <1>8, <1>9 DEF SimInv, Phased

\* Nothing more is due at this instant.
LEMMA DispatchedKeeps ==
  ASSUME SimInv, Dispatched
  PROVE  SimInv'
<1>1. /\ UNCHANGED Elsewhere /\ sched' = MoveTo(sched, now) /\ NothingDue
      /\ pc \in {"dispatch", "redispatch"}
      /\ pc' = IF pc = "dispatch" THEN "restart" ELSE "reject"
  BY DEF Dispatched, Elsewhere, NothingDue
<1>2. pc' \in Phases /\ pc' \in {"restart", "reject"}
  BY <1>1 DEF Phases
<1>3. SameQueue /\ sched'.closed = sched.closed
  BY <1>1, MovedQueue DEF SimInv, Settled
<1>4. /\ Settled' /\ (MayWait' <=> MayWait) /\ (RejectedNow' <=> RejectedNow) /\ NothingDue'
  BY <1>1, <1>2, <1>3, MovesOn DEF SimInv
<1>5. /\ trace' = trace /\ now' = now /\ index' = index /\ waiters' = waiters
      /\ batches' = batches /\ active' = active /\ completed' = completed /\ life' = life
  BY <1>1 DEF Elsewhere
<1>6. ArrivalsPhase'
  <2>1. Arriving' <=> Arriving
    BY <1>5 DEF Arriving
  <2>. QED
    BY <1>1, <1>2, <1>4, <1>5, <2>1 DEF SimInv, Phased, ArrivalsPhase
<1>7. WorkPhase'
  BY <1>1, <1>2, <1>4, <1>5 DEF SimInv, Phased, WorkPhase
<1>8. LastPhase'
  BY <1>1, <1>2, <1>3 DEF SimInv, Phased, LastPhase
<1>9. Instant'
  <2>1. RejectedNow => \E k \in DOMAIN completed : Instantly(completed[k])
    BY <1>1 DEF SimInv, Phased, Instant
  <2>2. RejectedNow' => (\E k \in DOMAIN completed : Instantly(completed[k]))'
    BY <1>4, <1>5, <2>1 DEF Instantly
  <2>. QED
    BY <2>2 DEF Instant
<1>. QED
  BY <1>4, <1>6, <1>7, <1>8, <1>9 DEF SimInv, Phased

\* When the loop ends, everything has come to its end.
LEMMA CloseKeeps ==
  ASSUME SimInv, Close
  PROVE  SimInv'
<1>1. /\ UNCHANGED Elsewhere /\ sched' = AfterClose(MoveTo(sched, now)) /\ pc' = "drain"
      /\ pc = "loop" /\ next_values = {} /\ sched.queue = <<>>
  BY DEF Close, Elsewhere
<1>2. /\ sched'.queue = sched.queue /\ sched'.policy = sched.policy /\ sched'.closed = TRUE
      /\ sched'.ordinal = sched.ordinal /\ sched'.nextWindow = sched.nextWindow
  BY <1>1 DEF AfterClose, MoveTo
<1>3. sched' \in SchedulerType(Requests)
  BY <1>1 DEF AfterClose, MoveTo, SimInv, Settled, SimTypeOK, SchedulerType
<1>4. Settled' /\ (RejectedNow' <=> RejectedNow)
  <2>1. pc' \in Phases /\ SameQueue
    BY <1>1, <1>2, <1>3 DEF Phases, SameQueue
  <2>. QED
    BY <1>1, <2>1, MovesOn DEF SimInv
<1>5. /\ trace' = trace /\ now' = now /\ index' = index /\ waiters' = waiters
      /\ batches' = batches /\ active' = active /\ completed' = completed /\ life' = life
  BY <1>1 DEF Elsewhere
<1>6. index = Count + 1
  <2>1. index \notin Requests
    BY <1>1 DEF next_values
  <2>2. index \in 1..(Count + 1)
    BY DEF SimInv, Settled, SimTypeOK
  <2>. QED
    BY <2>1, <2>2, Numbers DEF Requests
<1>7. active = {} /\ waiters = <<>>
  <2>1. active = {}
    BY <1>1 DEF next_values
  <2>2. 1 \notin DOMAIN waiters
    BY <1>1 DEF next_values
  <2>3. waiters \in Seq(Patients)
    BY DEF SimInv, Settled, SimTypeOK
  <2>. QED
    BY <2>1, <2>2, <2>3
<1>8. batches = <<>>
  BY <1>1, <1>7 DEF SimInv, Phased, WorkPhase
<1>9. ArrivalsPhase' /\ WorkPhase'
  BY <1>1, <1>5, <1>7 DEF ArrivalsPhase, WorkPhase
<1>10. LastPhase' /\ Instant'
  BY <1>1, <1>2, <1>5, <1>6, <1>7, <1>8 DEF LastPhase, Instant
<1>. QED
  BY <1>4, <1>9, <1>10 DEF SimInv, Phased

-----------------------------------------------------------------------------
(***************************************************************************)
(* The next event                                                          *)
(***************************************************************************)
\* The fields of the waiters.
LEMMA WaiterFields ==
  ASSUME SimTypeOK
  PROVE  /\ \A k \in DOMAIN waiters : /\ waiters[k] \in Patients /\ waiters[k].id \in Requests
                                      /\ waiters[k].deadline \in Nat
         /\ waiters # <<>> => 1 \in DOMAIN waiters
         /\ DOMAIN waiters = 1..Len(waiters) /\ Len(waiters) \in Nat
<1>1. waiters \in Seq(Patients)
  BY DEF SimTypeOK
<1>2. /\ \A k \in DOMAIN waiters : waiters[k] \in Patients
      /\ waiters # <<>> => 1 \in DOMAIN waiters
      /\ DOMAIN waiters = 1..Len(waiters) /\ Len(waiters) \in Nat
  BY <1>1
<1>3. \A w \in Patients : w.id \in Requests /\ w.deadline \in Nat
  BY DEF Patients
<1>. QED
  BY <1>2, <1>3

\* The batch in execution.
LEMMA ActiveFields ==
  ASSUME SimTypeOK, NEW a \in active
  PROVE  /\ a \in Actives /\ a.id \in Nat /\ a.requests \in Seq(Entries) /\ a.dispatch \in Nat
         /\ a.start \in Nat /\ a.first \in Nat /\ a.finish \in Nat /\ a.failed \in BOOLEAN
  BY DEF SimTypeOK, Actives

\* The next event is none of the events that are still to come too late.
LEMMA NextIsSoon ==
  ASSUME SimInv, NextEvent
  PROVE  /\ now' \in Nat /\ now' >= now
         /\ Arriving => now' <= trace[index]
         /\ \A a \in active : now' <= a.finish
         /\ waiters # <<>> => now' <= waiters[1].deadline
         /\ sched.queue # <<>> => now' <= next_wakeup_ns(sched)
<1>. DEFINE n == now'
<1>1. n \in next_values /\ n >= now /\ \A v \in next_values : v >= now => n <= v
  BY DEF NextEvent
<1>2. SimTypeOK /\ HeadDue /\ pc = "loop" /\ now \in Nat
  BY DEF SimInv, Settled, SimTypeOK, NextEvent
<1>3. NothingDue /\ ~sched.closed
  BY <1>2 DEF SimInv, Phased, WorkPhase, LastPhase, SimTypeOK, SchedulerType
<1>4. Arriving => /\ index \in Requests /\ trace[index] \in Nat /\ trace[index] >= now
                  /\ trace[index] \in next_values
  <2>1. Arriving => index \in Requests /\ ~(index < index) /\ trace[index] \in Nat
    BY <1>2, Numbers DEF Arriving, Requests, SimTypeOK
  <2>. QED
    BY <1>2, <2>1 DEF SimInv, Settled, ArrivalsOnTime, next_values
<1>5. \A a \in active : a.finish \in Nat /\ a.finish >= now /\ a.finish \in next_values
  <2>1. \A a \in active : a.finish \in Nat
    BY <1>2, ActiveFields
  <2>. QED
    BY <1>2, <2>1 DEF SimInv, Settled, WorkOnTime, next_values
<1>6. waiters # <<>> => /\ waiters[1].deadline \in Nat /\ waiters[1].deadline >= now
                        /\ waiters[1].deadline \in next_values
  BY <1>2, WaiterFields DEF SimInv, Settled, ArrivalsOnTime, next_values
<1>7. sched.queue # <<>> => /\ next_wakeup_ns(sched) \in Nat /\ next_wakeup_ns(sched) >= now
                            /\ next_wakeup_ns(sched) \in next_values
  BY <1>2, <1>3, WakeupAhead DEF next_values, NoTime
<1>8. n \in Nat
  <2>1. CASE n \in {trace[r] : r \in {index} \cap Requests}
    BY <1>2, <2>1 DEF SimTypeOK
  <2>2. CASE n \in {a.finish : a \in active}
    BY <1>5, <2>2
  <2>3. CASE n \in {next_wakeup_ns(sched)} \ {NoTime}
    <3>1. sched.queue # <<>>
      BY <2>3 DEF next_wakeup_ns
    <3>. QED
      BY <1>7, <2>3, <3>1
  <2>4. CASE n \in {waiters[k].deadline : k \in {1} \cap DOMAIN waiters}
    BY <1>2, <2>4, WaiterFields
  <2>. QED
    BY <1>1, <2>1, <2>2, <2>3, <2>4 DEF next_values
<1>. QED
  BY <1>1, <1>4, <1>5, <1>6, <1>7, <1>8

\* The clock moves to the next event.
LEMMA NextEventKeeps ==
  ASSUME SimInv, NextEvent
  PROVE  SimInv'
<1>1. /\ trace' = trace /\ index' = index /\ waiters' = waiters /\ sched' = sched
      /\ batches' = batches /\ active' = active /\ completed' = completed /\ life' = life
      /\ pc = "loop" /\ pc' = "finish" /\ now \in Nat
  BY DEF NextEvent, SimInv, Settled, SimTypeOK
<1>2. SimTypeOK
  BY DEF SimInv, Settled
<1>3. /\ now' \in Nat /\ now' >= now
      /\ Arriving => now' <= trace[index]
      /\ \A a \in active : now' <= a.finish
      /\ waiters # <<>> => now' <= waiters[1].deadline
      /\ sched.queue # <<>> => now' <= next_wakeup_ns(sched)
  BY NextIsSoon
<1>4. SimTypeOK'
  BY <1>1, <1>2, <1>3 DEF SimTypeOK, Phases
<1>5. InLine' /\ PlacesOK' /\ BatchesOK' /\ OneByOne' /\ InCapacity'
  <2>1. InLine'
    BY <1>1 DEF SimInv, Settled, InLine
  <2>2. Waiting' = Waiting /\ InBatches' = InBatches /\ Running' = Running /\ Served' = Served
    BY <1>1 DEF Waiting, WaitingIn, InBatches, Running, Served
  <2>3. PlacesOK'
    BY <1>1, <2>2 DEF SimInv, Settled, PlacesOK, IsWaiting, IsQueued, IsFormed, IsRunning, IsServed
  <2>4. BatchesOK'
    BY <1>1 DEF SimInv, Settled, BatchesOK, InBatch, Started, Executed
  <2>5. OneByOne'
    BY <1>1 DEF SimInv, Settled, OneByOne, Out
  <2>6. InCapacity'
    BY <2>2 DEF SimInv, Settled, InCapacity
  <2>. QED
    BY <2>1, <2>3, <2>4, <2>5, <2>6
<1>6. HeadDue'
  <2>1. NothingDue /\ ~sched.closed
    BY <1>1 DEF SimInv, Phased, WorkPhase, LastPhase
  <2>2. HeadDue
    BY DEF SimInv, Settled
  <2>3. sched.queue # <<>> =>
          /\ sched.policy = "fixed_window" => WindowOf(sched) >= now'
          /\ sched.policy = "size_or_time" => OldestDeadline(sched) >= now'
    BY <1>2, <1>3, <2>1, <2>2, WakeupAhead
  <2>. QED
    BY <1>1, <2>3 DEF HeadDue
<1>7. ArrivalsOnTime'
  <2>1. ASSUME NEW r \in Requests PROVE IF r < index THEN trace[r] <= now' ELSE now' <= trace[r]
    <3>1. trace[r] \in Nat /\ index \in Nat /\ r \in Nat
      BY <1>2 DEF SimTypeOK, Requests
    <3>2. CASE r < index
      <4>1. trace[r] <= now
        BY <3>2 DEF SimInv, Settled, ArrivalsOnTime
      <4>. QED
        BY <1>1, <1>3, <3>1, <3>2, <4>1
    <3>3. CASE ~(r < index)
      <4>1. index \in Requests /\ index <= r
        BY <1>2, <3>1, <3>3, Numbers DEF SimTypeOK, Requests
      <4>2. trace[index] <= trace[r] /\ trace[index] \in Nat /\ Arriving
        BY <1>2, <4>1, Numbers DEF SimInv, Settled, InLine, SimTypeOK, Arriving, Requests
      <4>. QED
        BY <1>3, <3>1, <3>3, <4>2
    <3>. QED
      BY <3>2, <3>3
  <2>2. ASSUME NEW k \in DOMAIN waiters PROVE now' <= waiters[k].deadline
    <3>1. /\ waiters[k].id \in Requests /\ waiters[1].id \in Requests /\ 1 \in DOMAIN waiters
          /\ waiters # <<>> /\ k \in Nat /\ (k # 1 => 1 < k)
      BY <1>2, WaiterFields
    <3>2. /\ waiters[k].deadline = trace[waiters[k].id] + Timeout
          /\ waiters[1].deadline = trace[waiters[1].id] + Timeout
      BY <3>1 DEF SimInv, Settled, ArrivalsOnTime
    <3>3. k # 1 => waiters[1].id < waiters[k].id
      BY <3>1 DEF SimInv, Settled, InLine, Ascending
    <3>4. trace[waiters[1].id] <= trace[waiters[k].id]
      <4>1. waiters[1].id <= waiters[k].id
        BY <3>1, <3>3 DEF Requests
      <4>. QED
        BY <3>1, <4>1 DEF SimInv, Settled, InLine
    <3>5. trace[waiters[1].id] \in Nat /\ trace[waiters[k].id] \in Nat
      BY <1>2, <3>1 DEF SimTypeOK
    <3>6. now' <= waiters[1].deadline
      BY <1>3, <3>1
    <3>. QED
      BY <1>3, <3>2, <3>4, <3>5, <3>6, Numbers
  <2>. QED
    BY <1>1, <2>1, <2>2 DEF SimInv, Settled, ArrivalsOnTime
<1>8. WorkOnTime'
  <2>1. \A k \in DOMAIN sched.queue : sched.queue[k].admitted \in Nat
    <3>1. sched.queue \in Seq(Entries)
      BY <1>2, SchedulerFields DEF SimTypeOK
    <3>2. \A k \in DOMAIN sched.queue : sched.queue[k] \in Entries
      BY <3>1
    <3>. QED
      BY <3>2 DEF Entries
  <2>2. \A k \in DOMAIN batches : batches[k].dispatch \in Nat
    <3>1. \A k \in DOMAIN batches : batches[k] \in Formeds
      BY <1>2 DEF SimTypeOK
    <3>. QED
      BY <3>1 DEF Formeds
  <2>3. \A k \in DOMAIN completed : completed[k].finish \in Nat
    <3>1. \A k \in DOMAIN completed : completed[k] \in Actives
      BY <1>2 DEF SimTypeOK
    <3>. QED
      BY <3>1 DEF Actives
  <2>4. \A a \in active : a.start \in Nat
    BY <1>2, ActiveFields
  <2>. QED
    BY <1>1, <1>3, <2>1, <2>2, <2>3, <2>4 DEF SimInv, Settled, WorkOnTime
<1>9. RecordsOK'
  <2>1. ASSUME NEW r \in Requests PROVE Past(life[r], now')
    <3>1. life[r] \in StateType /\ Past(life[r], now)
      BY <1>2 DEF SimTypeOK, SimInv, Settled, RecordsOK
    <3>. QED
      BY <1>1, <1>3, <3>1 DEF Past, StateType, NoTime
  <2>. QED
    BY <1>1, <2>1 DEF SimInv, Settled, RecordsOK
<1>10. ArrivalsPhase' /\ WorkPhase'
  BY <1>1 DEF ArrivalsPhase, WorkPhase
<1>11. LastPhase'
  BY <1>1 DEF LastPhase, SimInv, Phased
<1>12. Instant'
  <2>1. SUFFICES ASSUME NEW r \in Requests, life[r].status = "rejected", life[r].terminal = now'
                 PROVE  \E a \in active : a.start = now' /\ a.finish = now'
    BY <1>1 DEF Instant, RejectedNow, Instantly
  <2>2. now' = now
    <3>1. life[r].terminal <= now
      BY DEF SimInv, Settled, RecordsOK, Past
    <3>. QED
      BY <1>1, <1>3, <2>1, <3>1
  <2>3. index # 1
    <3>1. r < index
      <4>1. ~(r >= index)
        BY <2>1 DEF SimInv, Settled, PlacesOK
      <4>. QED
        BY <1>2, <4>1 DEF SimTypeOK, Requests
    <3>. QED
      BY <3>1 DEF Requests
  <2>4. now \in next_values
    BY <2>2 DEF NextEvent
  <2>5. ~(now \in {trace[s] : s \in {index} \cap Requests})
    <3>1. index \in Requests => trace[index] > now /\ trace[index] \in Nat
      BY <1>1, <1>2, <2>3, Numbers DEF SimInv, Phased, ArrivalsPhase, Arriving, Requests, SimTypeOK
    <3>. QED
      BY <1>1, <3>1
  <2>6. ~(now \in {next_wakeup_ns(sched)} \ {NoTime})
    <3>1. NothingDue /\ ~sched.closed /\ HeadDue
      BY <1>1 DEF SimInv, Settled, Phased, WorkPhase, LastPhase
    <3>2. sched.queue # <<>> => next_wakeup_ns(sched) \in Nat /\ next_wakeup_ns(sched) > now
      BY <1>2, <3>1, WakeupAhead
    <3>3. sched.queue = <<>> => next_wakeup_ns(sched) = NoTime
      BY DEF next_wakeup_ns
    <3>. QED
      BY <1>1, <3>2, <3>3
  <2>7. ~(now \in {waiters[k].deadline : k \in {1} \cap DOMAIN waiters})
    <3>1. 1 \in DOMAIN waiters => ~(waiters[1].deadline <= now) /\ waiters[1].deadline \in Nat
      BY <1>1, <1>2, WaiterFields DEF SimInv, Phased, ArrivalsPhase, DeadlineCame
    <3>. QED
      BY <1>1, <3>1
  <2>8. PICK a \in active : a.finish = now
    BY <2>4, <2>5, <2>6, <2>7 DEF next_values
  <2>9. a.start = now
    BY <1>1, <2>8 DEF SimInv, Phased, WorkPhase
  <2>. QED
    BY <2>2, <2>8, <2>9
<1>. QED
  BY <1>4, <1>5, <1>6, <1>7, <1>8, <1>9, <1>10, <1>11, <1>12 DEF SimInv, Settled, Phased

-----------------------------------------------------------------------------
(***************************************************************************)
(* The worker                                                              *)
(***************************************************************************)
\* The requests of a queue are requests.
LEMMA IdsAreRequests ==
  ASSUME NEW queue \in Seq(Entries)
  PROVE  IdsOf(queue) \subseteq Requests /\ (Len(queue) > 0 => IdsOf(queue) # {})
<1>1. \A k \in DOMAIN queue : queue[k] \in Entries
  OBVIOUS
<1>2. \A e \in Entries : e.id \in Requests
  BY DEF Entries
<1>3. Len(queue) > 0 => 1 \in DOMAIN queue
  OBVIOUS
<1>. QED
  BY <1>1, <1>2, <1>3 DEF IdsOf

\* The fields of the batches.
LEMMA BatchFields ==
  ASSUME SimTypeOK
  PROVE  /\ \A k \in DOMAIN batches :
              /\ batches[k] \in Formeds /\ batches[k].id \in Nat /\ batches[k].dispatch \in Nat
              /\ batches[k].requests \in Seq(Entries) /\ WaitingIn(k) \subseteq Requests
         /\ \A k \in DOMAIN completed :
              /\ completed[k] \in Actives /\ completed[k].finish \in Nat /\ completed[k].start \in Nat
              /\ completed[k].requests \in Seq(Entries) /\ IdsOf(completed[k].requests) \subseteq Requests
         /\ \A a \in active : IdsOf(a.requests) \subseteq Requests
         /\ DOMAIN batches = 1..Len(batches) /\ Len(batches) \in Nat
         /\ DOMAIN completed = 1..Len(completed) /\ Len(completed) \in Nat
<1>1. batches \in Seq(Formeds) /\ completed \in Seq(Actives)
  BY DEF SimTypeOK
<1>2. /\ DOMAIN batches = 1..Len(batches) /\ Len(batches) \in Nat
      /\ DOMAIN completed = 1..Len(completed) /\ Len(completed) \in Nat
      /\ \A k \in DOMAIN batches : batches[k] \in Formeds
      /\ \A k \in DOMAIN completed : completed[k] \in Actives
  BY <1>1
<1>3. \A b \in Formeds : b.id \in Nat /\ b.dispatch \in Nat /\ b.requests \in Seq(Entries)
  BY DEF Formeds
<1>4. \A b \in Actives : b.finish \in Nat /\ b.start \in Nat /\ b.requests \in Seq(Entries)
  BY DEF Actives
<1>5. \A k \in DOMAIN batches : WaitingIn(k) \subseteq Requests
  BY <1>2, <1>3, IdsAreRequests DEF WaitingIn
<1>6. \A k \in DOMAIN completed : IdsOf(completed[k].requests) \subseteq Requests
  BY <1>2, <1>4, IdsAreRequests
<1>7. \A a \in active : IdsOf(a.requests) \subseteq Requests
  BY IdsAreRequests, ActiveFields
<1>. QED
  BY <1>2, <1>3, <1>4, <1>5, <1>6, <1>7

\* A request of a batch is in the state of its batch, and of no other.
LEMMA MemberStates ==
  ASSUME Settled
  PROVE  /\ \A k \in DOMAIN batches : \A r \in WaitingIn(k) : r \in Requests /\ IsFormed(r)
         /\ \A a \in active : \A r \in IdsOf(a.requests) : r \in Requests /\ IsRunning(r)
         /\ \A k \in DOMAIN completed :
              \A r \in IdsOf(completed[k].requests) : r \in Requests /\ IsServed(r)
  BY DEF Settled, PlacesOK, InBatches, Running, Served

\* What a place says of the record.
LEMMA PlaceStates ==
  ASSUME Settled, NEW r \in Requests
  PROVE  /\ life[r] \in StateType /\ trace[r] \in Nat
         /\ IsFormed(r) => life[r].status = "pending" /\ life[r].admitted # NoTime
         /\ IsQueued(r) => /\ life[r].status = "pending" /\ life[r].start = NoTime
                           /\ life[r].batch = NoBatchId
         /\ IsRunning(r) => life[r].dispatch # NoTime /\ life[r].admitted # NoTime
         /\ IsServed(r) => /\ life[r].start # NoTime /\ life[r].dispatch # NoTime
                           /\ life[r].admitted # NoTime
         /\ life[r].admitted = NoTime =>
              life[r].dispatch = NoTime /\ life[r].start = NoTime /\ life[r].batch = NoBatchId
<1>1. life[r] \in StateType /\ trace[r] \in Nat
  BY DEF Settled, SimTypeOK
<1>2. StateOK(life[r], trace[r])
  BY DEF Settled, RecordsOK
<1>. QED
  BY <1>1, <1>2 DEF StateType, StateOK, IsFormed, IsQueued, IsRunning, IsServed

\* A batch stays as it is recorded if its requests' records do.
LEMMA BatchStays ==
  ASSUME NEW b,
         \A r \in IdsOf(b.requests) :
           life'[r].batch = life[r].batch /\ life'[r].dispatch = life[r].dispatch
  PROVE  InBatch(b) => InBatch(b)'
  BY DEF InBatch

\* ... and so does an execution.
LEMMA ExecutionStays ==
  ASSUME NEW b, \A r \in IdsOf(b.requests) : life'[r] = life[r]
  PROVE  (Started(b) => Started(b)') /\ (Executed(b) => Executed(b)')
  BY DEF InBatch, Started, Executed

\* finish_worker
LEMMA FinishWorkerKeeps ==
  ASSUME SimInv, FinishWorker
  PROVE  SimInv'
<1>1. PICK a \in active :
        /\ pc = "drain" \/ a.finish = now
        /\ now' = a.finish
        /\ completed' = Append(completed, a)
        /\ record([r \in IdsOf(a.requests) |-> Recorded(life[r], a)])
  BY DEF FinishWorker
<1>2. /\ pc = "finish" /\ pc' = "start" /\ active' = {} /\ trace' = trace /\ index' = index
      /\ sched' = sched /\ waiters' = waiters /\ batches' = batches
      /\ now' = now /\ a.finish = now
  <2>1. pc # "drain"
    BY <1>1 DEF SimInv, Phased, LastPhase
  <2>. QED
    BY <1>1, <2>1 DEF FinishWorker
<1>. DEFINE X == IdsOf(a.requests)
<1>3. SimTypeOK /\ Settled
  BY DEF SimInv, Settled
<1>4. a \in Actives /\ X \subseteq Requests /\ X = Running /\ active = {a}
  BY <1>3, ActiveFields, BatchFields DEF Settled, OneByOne, Running
<1>5. /\ \A r \in Requests : life'[r] = IF r \in X THEN Recorded(life[r], a) ELSE life[r]
      /\ DOMAIN life' = Requests /\ life' = [r \in Requests |-> life'[r]]
  BY <1>1, <1>4 DEF record
<1>. HIDE DEF X
<1>6. /\ completed' = Append(completed, a) /\ completed \in Seq(Actives) /\ completed' \in Seq(Actives)
      /\ Len(completed) \in Nat /\ Len(completed') = Len(completed) + 1
      /\ DOMAIN completed = 1..Len(completed) /\ DOMAIN completed' = 1..(Len(completed) + 1)
      /\ \A k \in 1..Len(completed) : completed'[k] = completed[k]
      /\ completed'[Len(completed) + 1] = a
  BY <1>1, <1>3, <1>4 DEF SimTypeOK
<1>7. \A r \in X : r \in Requests /\ IsRunning(r)
  BY <1>3, <1>4 DEF Settled, PlacesOK
<1>8. /\ Started(a) /\ Len(a.requests) \in 1..MaxBatch
      /\ a.start <= a.first /\ a.first <= a.finish /\ \A r \in X : life[r].start = a.start
  BY <1>3 DEF Settled, BatchesOK, Started, InBatch, X
<1>9. ASSUME NEW r \in Requests
      PROVE  /\ life'[r] \in StateType /\ StateOK(life'[r], trace[r]) /\ Past(life'[r], now)
             /\ life'[r].batch = life[r].batch /\ life'[r].dispatch = life[r].dispatch
             /\ life'[r].admitted = life[r].admitted /\ life'[r].start = life[r].start
             /\ r \in X => /\ life'[r].status = IF a.failed THEN "failed" ELSE "completed"
                           /\ life'[r].terminal = a.finish
                           /\ a.failed => life'[r].reason
                           /\ ~a.failed => /\ life'[r].first = a.first /\ life'[r].finished = a.finish
                                           /\ ~life'[r].reason
             /\ r \notin X => life'[r] = life[r]
  <2>1. life[r] \in StateType /\ trace[r] \in Nat /\ StateOK(life[r], trace[r]) /\ Past(life[r], now)
    BY <1>3 DEF SimTypeOK, Settled, RecordsOK
  <2>2. CASE r \notin X
    BY <1>5, <2>1, <2>2
  <2>3. CASE r \in X
    <3>1. life'[r] = Recorded(life[r], a) /\ life[r].status = "pending" /\ life[r].start = a.start
      BY <1>5, <1>7, <1>8, <2>3 DEF IsRunning
    <3>2. life'[r] \in StateType /\ StateOK(life'[r], trace[r]) /\ Past(life'[r], now)
      BY <1>2, <1>3, <1>4, <1>8, <2>1, <3>1, EndState DEF SimTypeOK
    <3>3. CASE a.failed
      <4>1. life'[r] = [life[r] EXCEPT !.status = "failed", !.reason = TRUE, !.start = a.start,
                                       !.terminal = a.finish]
        BY <3>1, <3>3 DEF Recorded
      <4>. QED
        BY <2>1, <2>3, <3>1, <3>2, <3>3, <4>1 DEF StateType
    <3>4. CASE ~a.failed
      <4>1. life'[r] = [life[r] EXCEPT !.status = "completed", !.start = a.start, !.terminal = a.finish,
                                       !.first = a.first, !.finished = a.finish]
        BY <3>1, <3>4 DEF Recorded
      <4>2. ~life[r].reason
        BY <2>1, <3>1 DEF StateOK
      <4>3. life'[r].reason = life[r].reason
        BY <2>1, <4>1 DEF StateType
      <4>. QED
        BY <2>1, <2>3, <3>1, <3>2, <3>4, <4>1, <4>2, <4>3 DEF StateType
    <3>. QED
      BY <3>3, <3>4
  <2>. QED
    BY <2>2, <2>3
<1>10. SimTypeOK'
  <2>1. life' \in [Requests -> StateType]
    BY <1>5, <1>9
  <2>. QED
    BY <1>2, <1>3, <1>6, <2>1 DEF SimTypeOK, Phases
<1>11. InLine' /\ HeadDue' /\ ArrivalsOnTime' /\ RecordsOK'
  <2>1. InLine' /\ HeadDue'
    BY <1>2, <1>3 DEF Settled, InLine, HeadDue
  <2>2. ArrivalsOnTime'
    BY <1>2, <1>3 DEF Settled, ArrivalsOnTime
  <2>3. RecordsOK'
    BY <1>2, <1>9 DEF RecordsOK
  <2>. QED
    BY <2>1, <2>2, <2>3
<1>12. WorkOnTime'
  <2>1. \A k \in DOMAIN completed' : completed'[k].finish <= now
    BY <1>2, <1>3, <1>4, <1>6 DEF Settled, WorkOnTime, SimTypeOK
  <2>. QED
    BY <1>2, <1>3, <2>1 DEF Settled, WorkOnTime
<1>13. PlacesOK'
  <2>0. \A r \in X : life[r].admitted # NoTime /\ life[r].dispatch # NoTime /\ life[r].start # NoTime
    BY <1>3, <1>7, PlaceStates DEF IsRunning
  <2>1. \A r \in Requests : r \in X => life'[r].status \in {"failed", "completed"}
    BY <1>9
  <2>2. \A r \in Requests : /\ IsWaiting(r)' <=> IsWaiting(r)
                            /\ IsQueued(r)' <=> IsQueued(r)
                            /\ IsFormed(r)' <=> IsFormed(r)
                            /\ ~IsRunning(r)'
                            /\ IsServed(r)' <=> IsServed(r) \/ r \in X
    <3>1. \A r \in Requests : IsRunning(r) <=> r \in X
      BY <1>3, <1>4 DEF Settled, PlacesOK
    <3>2. ASSUME NEW r \in Requests
          PROVE  /\ IsWaiting(r)' <=> IsWaiting(r)
                 /\ IsQueued(r)' <=> IsQueued(r)
                 /\ IsFormed(r)' <=> IsFormed(r)
                 /\ ~IsRunning(r)'
                 /\ IsServed(r)' <=> IsServed(r) \/ r \in X
      <4>1. CASE r \in X
        BY <1>2, <1>9, <2>0, <2>1, <4>1 DEF IsWaiting, IsQueued, IsFormed, IsRunning, IsServed
      <4>2. CASE r \notin X
        <5>1. life'[r] = life[r] /\ ~IsRunning(r)
          BY <1>9, <3>1, <4>2
        <5>. QED
          BY <1>2, <4>2, <5>1 DEF IsWaiting, IsQueued, IsFormed, IsRunning, IsServed
      <4>. QED
        BY <4>1, <4>2
    <3>. QED
      BY <3>2
  <2>3. InBatches' = InBatches /\ Running' = {}
    BY <1>2 DEF InBatches, WaitingIn, Running
  <2>4. Served' = Served \cup X
    BY <1>6 DEF Served, X
  <2>5. \A r \in Requests : r >= index => life'[r].admitted = NoTime /\ life'[r].status = "pending"
    <3>1. \A r \in Requests : r >= index => life[r].admitted = NoTime /\ life[r].status = "pending"
      BY <1>3 DEF Settled, PlacesOK
    <3>2. \A r \in Requests : r >= index => r \notin X
      BY <2>0, <3>1
    <3>. QED
      BY <1>9, <3>1, <3>2
  <2>6. IdsOf(waiters)' = IdsOf(waiters) /\ IdsOf(sched.queue)' = IdsOf(sched.queue)
    BY <1>2
  <2>7. X \subseteq Requests
    BY <1>7
  <2>. QED
    BY <1>2, <1>3, <2>2, <2>3, <2>4, <2>5, <2>6, <2>7 DEF Settled, PlacesOK
<1>14. BatchesOK'
  <2>1. ASSUME NEW k \in DOMAIN batches PROVE InBatch(batches[k])'
    <3>1. InBatch(batches[k]) /\ \A r \in IdsOf(batches[k].requests) : r \in Requests
      BY <1>3, BatchFields DEF Settled, BatchesOK, WaitingIn
    <3>2. \A b : (b = batches[k] => InBatch(b)')
      BY <1>9, <3>1, BatchStays
    <3>. QED
      BY <1>2, <3>2
  <2>2. ASSUME NEW k \in DOMAIN completed PROVE Executed(completed[k])'
    <3>1. Executed(completed[k])
      BY <1>3 DEF Settled, BatchesOK
    <3>2. \A r \in IdsOf(completed[k].requests) : r \in Requests /\ life'[r] = life[r]
      <4>1. \A r \in IdsOf(completed[k].requests) : r \in Requests /\ IsServed(r)
        BY <1>3, MemberStates
      <4>. QED
        BY <1>7, <1>9, <4>1 DEF IsServed, IsRunning
    <3>3. \A b : (b = completed[k] => Executed(b)')
      BY <3>1, <3>2, ExecutionStays
    <3>. QED
      BY <1>6, <3>3
  <2>3. Executed(a)'
    <3>1. \A r \in X : life'[r].batch = a.id /\ life'[r].dispatch = a.dispatch /\ life'[r].start = a.start
      BY <1>7, <1>8, <1>9 DEF Started, InBatch, X
    <3>2. \A r \in X : /\ life'[r].terminal = a.finish
                       /\ life'[r].status = IF a.failed THEN "failed" ELSE "completed"
                       /\ a.failed => life'[r].reason
                       /\ ~a.failed => /\ life'[r].first = a.first /\ life'[r].finished = a.finish
                                       /\ ~life'[r].reason
      BY <1>7, <1>9
    <3>. QED
      BY <1>8, <3>1, <3>2 DEF Executed, Started, InBatch, X
  <2>4. \A k \in DOMAIN completed' : Executed(completed[k])'
    BY <1>6, <2>2, <2>3
  <2>. QED
    BY <1>2, <2>1, <2>4 DEF BatchesOK
<1>15. OneByOne' /\ InCapacity'
  <2>1. Out' = Out /\ Out = Len(completed) + 1 /\ a.id = Len(completed)
    BY <1>2, <1>3, <1>4, <1>6 DEF Out, Settled, OneByOne
  <2>2. \A k \in DOMAIN completed' : completed'[k].id = k - 1
    BY <1>3, <1>6, <2>1 DEF Settled, OneByOne
  <2>3. \A k, l \in DOMAIN completed' : k < l => completed'[k].finish <= completed'[l].start
    BY <1>3, <1>6 DEF Settled, OneByOne
  <2>4. OneByOne'
    BY <1>2, <1>3, <2>1, <2>2, <2>3 DEF Settled, OneByOne
  <2>5. Waiting' = Waiting
    BY <1>2 DEF Waiting, WaitingIn
  <2>. QED
    BY <1>3, <2>4, <2>5 DEF Settled, InCapacity
<1>16. ArrivalsPhase' /\ WorkPhase' /\ LastPhase'
  BY <1>2 DEF ArrivalsPhase, WorkPhase, LastPhase, SimInv, Phased
<1>17. Instant'
  <2>1. RejectedNow' => RejectedNow
    <3>1. ASSUME NEW r \in Requests, life'[r].status = "rejected", life'[r].terminal = now
          PROVE  life[r].status = "rejected" /\ life[r].terminal = now
      <4>1. r \notin X
        BY <1>9, <3>1
      <4>. QED
        BY <1>9, <3>1, <4>1
    <3>. QED
      BY <1>2, <3>1 DEF RejectedNow
  <2>2. CASE \E b \in active : Instantly(b)
    <3>2. Len(completed) + 1 \in DOMAIN completed'
      BY <1>6
    <3>3. \E k \in DOMAIN completed' : completed'[k].start = now' /\ completed'[k].finish = now'
      BY <1>2, <1>4, <1>6, <2>2, <3>2 DEF Instantly
    <3>. QED
      BY <3>3 DEF Instant, Instantly
  <2>3. CASE \E k \in DOMAIN completed : Instantly(completed[k])
    <3>1. \E k \in DOMAIN completed' : completed'[k].start = now' /\ completed'[k].finish = now'
      BY <1>2, <1>6, <2>3 DEF Instantly
    <3>. QED
      BY <3>1 DEF Instant, Instantly
  <2>. QED
    BY <1>2, <2>1, <2>2, <2>3 DEF SimInv, Phased, Instant
<1>. QED
  BY <1>10, <1>11, <1>12, <1>13, <1>14, <1>15, <1>16, <1>17 DEF SimInv, Settled, Phased

\* Two formed batches share no request: they have numbers of their own.
LEMMA BatchesApart ==
  ASSUME Settled, NEW k \in DOMAIN batches, NEW l \in DOMAIN batches, k # l
  PROVE  WaitingIn(k) \cap WaitingIn(l) = {}
<1>1. batches[k].id = Out + k - 1 /\ batches[l].id = Out + l - 1 /\ k \in Nat /\ l \in Nat
  BY BatchFields DEF Settled, OneByOne
<1>2. Out \in Nat
  BY BatchFields DEF Settled, Out
<1>3. \A r \in WaitingIn(k) : life[r].batch = batches[k].id
  BY DEF Settled, BatchesOK, InBatch, WaitingIn
<1>4. \A r \in WaitingIn(l) : life[r].batch = batches[l].id
  BY DEF Settled, BatchesOK, InBatch, WaitingIn
<1>. QED
  BY <1>1, <1>2, <1>3, <1>4

\* What waits for the worker is finite.
LEMMA WaitingFinite ==
  ASSUME SimTypeOK
  PROVE  Waiting \subseteq Requests /\ IsFiniteSet(Waiting) /\ Cardinality(Waiting) \in Nat
<1>1. IsFiniteSet(Requests)
  BY FS_Interval, Numbers DEF Requests
<1>2. Waiting \subseteq Requests
  <2>1. IdsOf(sched.queue) \subseteq Requests
    BY IdsAreRequests, SchedulerFields DEF SimTypeOK
  <2>. QED
    BY <2>1, BatchFields DEF Waiting
<1>. QED
  BY <1>1, <1>2, FS_Subset, FS_CardinalityType

\* start_worker
LEMMA StartWorkerKeeps ==
  ASSUME SimInv, StartWorker
  PROVE  SimInv'
<1>1. /\ pc \in {"start", "restart"} /\ active = {} /\ batches # <<>>
      /\ pc' = IF pc = "start" THEN "admit" ELSE "readmit"
      /\ trace' = trace /\ index' = index /\ now' = now
      /\ sched' = sched /\ waiters' = waiters /\ completed' = completed /\ batches' = Tail(batches)
  <2>1. pc # "drain"
    BY DEF SimInv, Phased, LastPhase, StartWorker, CanStart
  <2>. QED
    BY <2>1 DEF StartWorker, CanStart
<1>2. SimTypeOK /\ Settled /\ now \in Nat
  BY DEF SimInv, Settled, SimTypeOK
<1>3. /\ 1 \in DOMAIN batches /\ Head(batches) = batches[1] /\ Len(batches) \in Nat
      /\ batches' \in Seq(Formeds) /\ Len(batches') = Len(batches) - 1 /\ Len(batches) > 0
      /\ DOMAIN batches = 1..Len(batches) /\ DOMAIN batches' = 1..(Len(batches) - 1)
      /\ \A k \in 1..(Len(batches) - 1) : batches'[k] = batches[k + 1]
  <2>1. batches \in Seq(Formeds)
    BY <1>2 DEF SimTypeOK
  <2>. QED
    BY <1>1, <2>1
<1>4. PICK e \in Executions :
        active' = {[id |-> batches[1].id, requests |-> batches[1].requests,
                    dispatch |-> batches[1].dispatch, start |-> now,
                    first |-> now + e.first, finish |-> now + e.service, failed |-> e.failed]}
  BY <1>3 DEF StartWorker
<1>. DEFINE X == WaitingIn(1)
            a == [id |-> batches[1].id, requests |-> batches[1].requests,
                  dispatch |-> batches[1].dispatch, start |-> now,
                  first |-> now + e.first, finish |-> now + e.service, failed |-> e.failed]
<1>5. /\ a \in Actives /\ active' = {a} /\ IdsOf(a.requests) = X /\ a.requests = batches[1].requests
      /\ a.id = batches[1].id /\ a.dispatch = batches[1].dispatch /\ a.start = now
      /\ now <= a.first /\ a.first <= a.finish /\ a.finish \in Nat
  <2>1. e.first \in Nat /\ e.service \in Nat /\ e.failed \in BOOLEAN /\ e.first <= e.service
    BY SimulationAssumption
  <2>2. batches[1].id \in Nat /\ batches[1].dispatch \in Nat /\ batches[1].requests \in Seq(Entries)
    BY <1>2, <1>3, BatchFields
  <2>3. a \in Actives
    BY <1>2, <2>1, <2>2 DEF Actives
  <2>. QED
    BY <1>2, <1>4, <2>1, <2>3 DEF WaitingIn
<1>. HIDE DEF a
<1>6. /\ \A r \in X : r \in Requests /\ IsFormed(r)
      /\ X \subseteq Requests
  BY <1>2, <1>3, MemberStates
<1>7. /\ \A r \in Requests : life'[r] = IF r \in X THEN [life[r] EXCEPT !.start = now] ELSE life[r]
      /\ DOMAIN life' = Requests /\ life' = [r \in Requests |-> life'[r]]
  BY <1>6 DEF StartWorker, record
<1>. HIDE DEF X
<1>8. ASSUME NEW r \in Requests
      PROVE  /\ life'[r] \in StateType /\ StateOK(life'[r], trace[r]) /\ Past(life'[r], now)
             /\ life'[r].batch = life[r].batch /\ life'[r].dispatch = life[r].dispatch
             /\ life'[r].admitted = life[r].admitted /\ life'[r].status = life[r].status
             /\ life'[r].terminal = life[r].terminal
             /\ r \in X => life'[r].start = now /\ life'[r].status = "pending"
             /\ r \notin X => life'[r] = life[r]
  <2>1. life[r] \in StateType /\ trace[r] \in Nat /\ StateOK(life[r], trace[r]) /\ Past(life[r], now)
    BY <1>2 DEF SimTypeOK, Settled, RecordsOK
  <2>2. CASE r \notin X
    BY <1>7, <2>1, <2>2
  <2>3. CASE r \in X
    <3>1. life'[r] = [life[r] EXCEPT !.start = now]
      BY <1>7, <2>3
    <3>2. life[r].dispatch # NoTime /\ life[r].start = NoTime /\ life[r].status = "pending"
      BY <1>2, <1>6, <2>3, PlaceStates DEF IsFormed
    <3>3. life'[r] \in StateType /\ StateOK(life'[r], trace[r]) /\ Past(life'[r], now)
      BY <1>2, <2>1, <3>1, <3>2, StartState
    <3>. QED
      BY <1>2, <2>1, <2>3, <3>1, <3>2, <3>3 DEF StateType
  <2>. QED
    BY <2>2, <2>3
<1>9. SimTypeOK'
  <2>1. life' \in [Requests -> StateType]
    BY <1>7, <1>8
  <2>. QED
    BY <1>1, <1>2, <1>3, <1>5, <2>1 DEF SimTypeOK, Phases
<1>10. InLine' /\ HeadDue' /\ ArrivalsOnTime' /\ RecordsOK'
  <2>1. InLine' /\ HeadDue'
    BY <1>1, <1>2 DEF Settled, InLine, HeadDue
  <2>2. ArrivalsOnTime'
    BY <1>1, <1>2 DEF Settled, ArrivalsOnTime
  <2>3. RecordsOK'
    BY <1>1, <1>8 DEF RecordsOK
  <2>. QED
    BY <2>1, <2>2, <2>3
<1>11. WorkOnTime'
  <2>1. \A k \in DOMAIN batches' : batches'[k].dispatch <= now
    <3>1. \A k \in DOMAIN batches' : k + 1 \in DOMAIN batches
      BY <1>3
    <3>. QED
      BY <1>2, <1>3, <3>1 DEF Settled, WorkOnTime
  <2>2. \A b \in active' : b.start <= now /\ now <= b.finish
    <3>1. a.start <= now /\ now <= a.finish
      BY <1>2, <1>5 DEF Actives
    <3>. QED
      BY <1>5, <3>1
  <2>. QED
    BY <1>1, <1>2, <2>1, <2>2 DEF Settled, WorkOnTime
<1>12. InBatches' = InBatches \ X /\ X \subseteq InBatches
  <2>1. \A k \in 1..(Len(batches) - 1) : WaitingIn(k)' = WaitingIn(k + 1)
    BY <1>3 DEF WaitingIn
  <2>2. \A k \in 1..(Len(batches) - 1) : WaitingIn(k + 1) \cap X = {}
    BY <1>2, <1>3, BatchesApart DEF X
  <2>3. InBatches' \subseteq InBatches \ X
    <3>1. \A k \in 1..(Len(batches) - 1) : k + 1 \in DOMAIN batches
      BY <1>3
    <3>2. InBatches' = UNION {WaitingIn(k)' : k \in 1..(Len(batches) - 1)}
      BY <1>3 DEF InBatches
    <3>. QED
      BY <2>1, <2>2, <3>1, <3>2 DEF InBatches
  <2>4. InBatches \ X \subseteq InBatches'
    <3>1. SUFFICES ASSUME NEW k \in DOMAIN batches, NEW r \in WaitingIn(k), r \notin X
                   PROVE  r \in InBatches'
      BY DEF InBatches
    <3>2. k - 1 \in 1..(Len(batches) - 1) /\ k = (k - 1) + 1
      BY <1>3, <3>1 DEF X
    <3>3. r \in WaitingIn(k - 1)'
      BY <2>1, <3>1, <3>2
    <3>. QED
      BY <1>3, <3>2, <3>3 DEF InBatches
  <2>5. X \subseteq InBatches
    BY <1>3 DEF InBatches, X
  <2>. QED
    BY <2>3, <2>4, <2>5
<1>13. PlacesOK'
  <2>0. \A r \in X : /\ life[r].admitted # NoTime /\ life[r].dispatch # NoTime
                     /\ life[r].status = "pending"
    BY <1>2, <1>6, PlaceStates DEF IsFormed
  <2>1. \A r \in Requests : ~IsRunning(r)
    BY <1>1, <1>2 DEF Settled, PlacesOK, Running
  <2>2. ASSUME NEW r \in Requests
        PROVE  /\ IsWaiting(r)' <=> IsWaiting(r)
               /\ IsQueued(r)' <=> IsQueued(r)
               /\ IsFormed(r)' <=> IsFormed(r) /\ r \notin X
               /\ IsRunning(r)' <=> r \in X
               /\ IsServed(r)' <=> IsServed(r)
    <3>1. CASE r \in X
      <4>1. now # NoTime
        BY <1>2 DEF NoTime
      <4>. QED
        BY <1>1, <1>8, <2>0, <3>1, <4>1 DEF IsWaiting, IsQueued, IsFormed, IsRunning, IsServed
    <3>2. CASE r \notin X
      <4>1. life'[r] = life[r] /\ ~IsRunning(r)
        BY <1>8, <2>1, <3>2
      <4>. QED
        BY <1>1, <3>2, <4>1 DEF IsWaiting, IsQueued, IsFormed, IsRunning, IsServed
    <3>. QED
      BY <3>1, <3>2
  <2>3. Running' = X /\ Served' = Served
    BY <1>1, <1>5 DEF Running, Served
  <2>4. \A r \in Requests : r >= index => life'[r].admitted = NoTime /\ life'[r].status = "pending"
    BY <1>2, <1>8 DEF Settled, PlacesOK
  <2>5. IdsOf(waiters)' = IdsOf(waiters) /\ IdsOf(sched.queue)' = IdsOf(sched.queue)
    BY <1>1
  <2>. QED
    BY <1>1, <1>2, <1>6, <1>12, <2>2, <2>3, <2>4, <2>5 DEF Settled, PlacesOK
<1>14. BatchesOK'
  <2>1. ASSUME NEW k \in DOMAIN batches PROVE \A b : (b = batches[k] => InBatch(b)')
    <3>1. InBatch(batches[k]) /\ \A r \in IdsOf(batches[k].requests) : r \in Requests
      BY <1>2, BatchFields DEF Settled, BatchesOK, WaitingIn
    <3>. QED
      BY <1>8, <3>1, BatchStays
  <2>2. \A k \in DOMAIN batches' : InBatch(batches[k])'
    <3>1. \A k \in DOMAIN batches' : k + 1 \in DOMAIN batches
      BY <1>3
    <3>. QED
      BY <1>3, <2>1, <3>1
  <2>3. ASSUME NEW k \in DOMAIN completed PROVE Executed(completed[k])'
    <3>1. Executed(completed[k])
      BY <1>2 DEF Settled, BatchesOK
    <3>2. \A r \in IdsOf(completed[k].requests) : r \in Requests /\ life'[r] = life[r]
      <4>1. \A r \in IdsOf(completed[k].requests) : r \in Requests /\ IsServed(r)
        BY <1>2, MemberStates
      <4>2. \A r \in X : ~IsServed(r)
        BY <1>2, <1>6, PlaceStates DEF IsServed
      <4>. QED
        BY <1>8, <4>1, <4>2
    <3>3. \A b : (b = completed[k] => Executed(b)')
      BY <3>1, <3>2, ExecutionStays
    <3>. QED
      BY <1>1, <3>3
  <2>4. \A b : (b = a => Started(b)')
    <3>1. InBatch(batches[1]) /\ batches[1].dispatch <= now
      BY <1>2, <1>3 DEF Settled, BatchesOK, WorkOnTime
    <3>2. \A r \in X : life[r].batch = a.id /\ life[r].dispatch = a.dispatch
      BY <1>5, <3>1 DEF InBatch, WaitingIn, X
    <3>3. Len(a.requests) \in 1..MaxBatch
      BY <1>5, <3>1 DEF InBatch
    <3>4. \A r \in X : life'[r].batch = a.id /\ life'[r].dispatch = a.dispatch /\ life'[r].start = a.start
      BY <1>5, <1>6, <1>8, <3>2
    <3>5. /\ a.dispatch <= a.start /\ a.start <= a.first /\ a.first <= a.finish
          /\ \A r \in IdsOf(a.requests) :
               life'[r].batch = a.id /\ life'[r].dispatch = a.dispatch /\ life'[r].start = a.start
      BY <1>5, <3>1, <3>4
    <3>. QED
      BY <3>3, <3>5 DEF Started, InBatch
  <2>5. \A b \in active' : Started(b)'
    BY <1>5, <2>4
  <2>. QED
    BY <1>1, <2>2, <2>3, <2>5 DEF BatchesOK
<1>15. OneByOne' /\ InCapacity'
  <2>1. Out = Len(completed) /\ Out' = Out + 1 /\ Out \in Nat
    BY <1>1, <1>2, <1>5, BatchFields DEF Out
  <2>2. a.id = Len(completed)
    BY <1>2, <1>3, <1>5, <2>1 DEF Settled, OneByOne
  <2>3. \A k \in DOMAIN batches' : batches'[k].id = Out' + k - 1
    <3>1. \A k \in DOMAIN batches' : k + 1 \in DOMAIN batches /\ k \in Nat
      BY <1>3
    <3>2. \A k \in DOMAIN batches : batches[k].id = Out + k - 1
      BY <1>2 DEF Settled, OneByOne
    <3>3. ASSUME NEW k \in DOMAIN batches' PROVE batches'[k].id = Out' + k - 1
      <4>1. batches'[k].id = batches[k + 1].id /\ batches[k + 1].id = Out + (k + 1) - 1
        BY <1>3, <3>1, <3>2, <3>3
      <4>. QED
        BY <2>1, <3>1, <4>1
    <3>. QED
      BY <3>3
  <2>4. sched'.ordinal = Out' + Len(batches')
    BY <1>1, <1>2, <1>3, <2>1 DEF Settled, OneByOne
  <2>5. \A k \in DOMAIN completed : completed[k].finish <= a.start
    BY <1>2, <1>5 DEF Settled, WorkOnTime
  <2>6. OneByOne'
    BY <1>1, <1>2, <1>5, <2>2, <2>3, <2>4, <2>5 DEF Settled, OneByOne
  <2>7. Waiting' \subseteq Waiting
    BY <1>1, <1>12 DEF Waiting, InBatches
  <2>8. Cardinality(Waiting') <= Cardinality(Waiting) /\ Cardinality(Waiting') \in Nat
    BY <1>2, <2>7, WaitingFinite, FS_Subset, FS_CardinalityType
  <2>9. InCapacity'
    BY <1>2, <2>8, Numbers, WaitingFinite DEF Settled, InCapacity
  <2>. QED
    BY <2>6, <2>9
<1>16. ArrivalsPhase' /\ WorkPhase' /\ LastPhase'
  <2>1. ArrivalsPhase'
    BY <1>1 DEF ArrivalsPhase, SimInv, Phased, Arriving
  <2>2. WorkPhase'
    BY <1>1, <1>5 DEF WorkPhase
  <2>3. LastPhase'
    BY <1>1 DEF LastPhase, SimInv, Phased
  <2>. QED
    BY <2>1, <2>2, <2>3
<1>17. Instant'
  <2>1. RejectedNow' => RejectedNow
    BY <1>1, <1>8 DEF RejectedNow
  <2>2. RejectedNow => \E k \in DOMAIN completed : Instantly(completed[k])
    BY <1>1 DEF SimInv, Phased, Instant
  <2>. QED
    BY <1>1, <2>1, <2>2 DEF Instant, Instantly
<1>. QED
  BY <1>9, <1>10, <1>11, <1>13, <1>14, <1>15, <1>16, <1>17 DEF SimInv, Settled, Phased

-----------------------------------------------------------------------------
(***************************************************************************)
(* Admissions                                                              *)
(***************************************************************************)
\* What the admission of r does to the queue and to what is recorded.
Admitted(r) ==
  /\ sched' \in SchedulerType(Requests) /\ sched'.closed = sched.closed
  /\ life' \in [Requests -> StateType]
  /\ \A s \in Requests : s # r => life'[s] = life[s]
  /\ life'[r].admitted = now /\ life'[r].dispatch = NoTime /\ life'[r].start = NoTime
  /\ life'[r].status = "pending"
  /\ Ascending(sched'.queue) /\ IdsOf(sched'.queue) = IdsOf(sched.queue) \cup {r}
  /\ \A j, k \in DOMAIN sched'.queue :
       j < k => sched'.queue[j].admitted <= sched'.queue[k].admitted
  /\ HeadDue' /\ WorkOnTime' /\ RecordsOK' /\ BatchesOK' /\ OneByOne' /\ InCapacity'

\* A waiter or an arrival that finds a place in time.
LEMMA AdmitKeeps ==
  ASSUME Settled, NEW r \in Requests, admit(r), MayWait,
         life[r].admitted = NoTime, life[r].status = "pending",
         now \in trace[r]..(trace[r] + Timeout), \A s \in IdsOf(sched.queue) : s < r,
         UNCHANGED <<trace, now, batches, active, completed>>
  PROVE  Admitted(r)
<1>. DEFINE e == [id |-> r, admitted |-> now]
            q == sched.queue
<1>1. /\ trace' = trace /\ now' = now /\ batches' = batches /\ active' = active
      /\ completed' = completed /\ now \in Nat /\ r \in Nat
      /\ SimTypeOK /\ sched \in SchedulerType(Requests)
  BY DEF Settled, SimTypeOK, Requests
<1>2. e \in Entries /\ e.id = r /\ e.admitted = now /\ q \in Seq(Entries)
  BY <1>1, SchedulerFields DEF Entries
<1>3. /\ sched'.queue = Append(q, e) /\ sched'.policy = sched.policy
      /\ sched'.ordinal = sched.ordinal /\ sched'.closed = sched.closed
      /\ sched'.nextWindow = sched.nextWindow
  BY DEF admit, Admit
<1>4. sched' \in SchedulerType(Requests)
  <2>1. Append(q, e) \in Seq([id : Requests, admitted : Nat])
    BY <1>2 DEF Entries
  <2>. QED
    BY <1>1, <2>1 DEF admit, Admit, SchedulerType
<1>. HIDE DEF e
<1>. DEFINE p == sched'.queue
<1>5. /\ Len(q) \in Nat /\ DOMAIN q = 1..Len(q) /\ DOMAIN p = 1..(Len(q) + 1)
      /\ \A k \in 1..Len(q) : p[k] = q[k] /\ q[k] \in Entries
      /\ p[Len(q) + 1] = e /\ p # <<>>
  BY <1>2, <1>3
<1>6. IdsOf(p) = IdsOf(q) \cup {r}
  BY <1>2, <1>3, IdsAppend
<1>7. \A k \in 1..Len(q) : /\ q[k].id \in Nat /\ q[k].id < r
                           /\ q[k].admitted \in Nat /\ q[k].admitted <= now
  <2>1. \A k \in 1..Len(q) : q[k].id \in IdsOf(q)
    BY <1>5 DEF IdsOf
  <2>2. \A k \in 1..Len(q) : q[k].id \in Nat /\ q[k].admitted \in Nat
    BY <1>5 DEF Entries, Requests
  <2>3. \A k \in 1..Len(q) : q[k].admitted <= now
    BY <1>5 DEF Settled, WorkOnTime
  <2>. QED
    BY <2>1, <2>2, <2>3
<1>. HIDE DEF q, p
<1>8. Ascending(p) /\ \A j, k \in DOMAIN p : j < k => p[j].admitted <= p[k].admitted
  <2>1. \A j, k \in 1..Len(q) : j < k => q[j].id < q[k].id /\ q[j].admitted <= q[k].admitted
    BY <1>5 DEF Settled, InLine, Ascending, q
  <2>2. ASSUME NEW j \in DOMAIN p, NEW k \in DOMAIN p, j < k
        PROVE  p[j].id < p[k].id /\ p[j].admitted <= p[k].admitted
    <3>1. j \in 1..Len(q) /\ p[j] = q[j]
      BY <1>5, <2>2
    <3>2. CASE k \in 1..Len(q)
      <4>1. p[k] = q[k]
        BY <1>5, <3>2
      <4>. QED
        BY <2>1, <2>2, <3>1, <3>2, <4>1
    <3>3. CASE k = Len(q) + 1
      BY <1>2, <1>5, <1>7, <3>1, <3>3
    <3>. QED
      BY <1>5, <3>2, <3>3
  <2>. QED
    BY <2>2 DEF Ascending
<1>9. /\ life' = [life EXCEPT ![r].admitted = now]
      /\ life[r] \in StateType /\ StateOK(life[r], trace[r]) /\ Past(life[r], now) /\ trace[r] \in Nat
      /\ life \in [Requests -> StateType]
  BY DEF admit, Settled, SimTypeOK, RecordsOK
<1>10. life'[r] = [life[r] EXCEPT !.admitted = now] /\ \A s \in Requests : s # r => life'[s] = life[s]
  BY <1>9
<1>11. life'[r] \in StateType /\ StateOK(life'[r], trace[r]) /\ Past(life'[r], now)
  BY <1>1, <1>9, <1>10, AdmitState
<1>12. life' \in [Requests -> StateType]
  <2>1. DOMAIN life' = Requests /\ life' = [s \in Requests |-> life'[s]]
    BY <1>9
  <2>2. \A s \in Requests : life'[s] \in StateType
    BY <1>9, <1>10, <1>11
  <2>. QED
    BY <2>1, <2>2
<1>13. life[r].dispatch = NoTime /\ life[r].start = NoTime
  BY PlaceStates
<1>14. /\ life'[r].admitted = now /\ life'[r].dispatch = NoTime /\ life'[r].start = NoTime
       /\ life'[r].status = "pending" /\ life'[r].batch = life[r].batch
  BY <1>9, <1>10, <1>13 DEF StateType
<1>15. HeadDue'
  <2>1. CASE q = <<>>
    <3>1. p[1] = e /\ p[1].admitted = now
      BY <1>2, <1>5, <2>1
    <3>2. sched'.policy = "fixed_window" => WindowOf(sched') >= now
      BY <1>4, <1>5, <3>1, WindowLemma DEF p
    <3>3. OldestDeadline(sched') >= now
      BY <1>1, <3>1, Numbers DEF OldestDeadline, p
    <3>4. WindowOf(sched)' = WindowOf(sched') /\ OldestDeadline(sched)' = OldestDeadline(sched')
      BY DEF WindowOf, OldestDeadline
    <3>. QED
      BY <1>1, <3>2, <3>3, <3>4 DEF HeadDue
  <2>2. CASE q # <<>>
    <3>1. p[1] = q[1]
      BY <1>2, <1>5, <2>2
    <3>2. WindowOf(sched)' = WindowOf(sched) /\ OldestDeadline(sched)' = OldestDeadline(sched)
      BY <1>3, <3>1 DEF WindowOf, OldestDeadline, p, q
    <3>. QED
      BY <1>1, <1>3, <2>2, <3>2 DEF Settled, HeadDue, q
  <2>. QED
    BY <2>1, <2>2
<1>16. WorkOnTime'
  <2>1. \A k \in DOMAIN p : p[k].admitted <= now
    BY <1>1, <1>2, <1>5, <1>7
  <2>. QED
    BY <1>1, <2>1 DEF Settled, WorkOnTime, p
<1>17. RecordsOK'
  <2>1. \A s \in Requests : StateOK(life[s], trace[s]) /\ Past(life[s], now)
    BY DEF Settled, RecordsOK
  <2>2. \A s \in Requests : StateOK(life'[s], trace[s]) /\ Past(life'[s], now)
    BY <1>10, <1>11, <2>1
  <2>. QED
    BY <1>1, <2>2 DEF RecordsOK
<1>18. BatchesOK'
  <2>1. \A s \in Requests : IsFormed(s) \/ IsRunning(s) \/ IsServed(s) => life'[s] = life[s]
    <3>1. ~IsFormed(r) /\ ~IsRunning(r) /\ ~IsServed(r)
      BY <1>13 DEF IsFormed, IsRunning, IsServed
    <3>. QED
      BY <1>10, <3>1
  <2>2. ASSUME NEW k \in DOMAIN batches PROVE InBatch(batches[k])'
    <3>1. InBatch(batches[k]) /\ \A s \in IdsOf(batches[k].requests) : life'[s] = life[s]
      BY <2>1, MemberStates DEF Settled, BatchesOK, WaitingIn
    <3>2. \A b : (b = batches[k] => InBatch(b)')
      BY <3>1, BatchStays
    <3>. QED
      BY <1>1, <3>2
  <2>3. ASSUME NEW k \in DOMAIN completed PROVE Executed(completed[k])'
    <3>1. Executed(completed[k]) /\ \A s \in IdsOf(completed[k].requests) : life'[s] = life[s]
      BY <2>1, MemberStates DEF Settled, BatchesOK
    <3>2. \A b : (b = completed[k] => Executed(b)')
      BY <3>1, ExecutionStays
    <3>. QED
      BY <1>1, <3>2
  <2>4. \A a \in active : Started(a)'
    <3>1. ASSUME NEW a \in active PROVE \A b : (b = a => Started(b)')
      <4>1. Started(a) /\ \A s \in IdsOf(a.requests) : life'[s] = life[s]
        BY <2>1, MemberStates DEF Settled, BatchesOK
      <4>. QED
        BY <4>1, ExecutionStays
    <3>. QED
      BY <3>1
  <2>. QED
    BY <1>1, <2>2, <2>3, <2>4 DEF BatchesOK
<1>19. OneByOne'
  <2>1. Out' = Out
    BY <1>1 DEF Out
  <2>. QED
    BY <1>1, <1>3, <2>1 DEF Settled, OneByOne
<1>20. InCapacity'
  <2>1. Waiting' = Waiting \cup {r}
    <3>1. IdsOf(sched.queue)' = IdsOf(sched.queue) \cup {r}
      BY <1>6 DEF p, q
    <3>2. UNION {WaitingIn(k) : k \in DOMAIN batches}' = UNION {WaitingIn(k) : k \in DOMAIN batches}
      BY <1>1 DEF WaitingIn
    <3>. QED
      BY <3>1, <3>2 DEF Waiting
  <2>2. Cardinality(Waiting \cup {r}) <= Cardinality(Waiting) + 1
    BY <1>1, WaitingFinite, FS_AddElement
  <2>3. /\ Cardinality(Waiting) < Capacity /\ Cardinality(Waiting) \in Nat
        /\ Cardinality(Waiting \cup {r}) \in Nat
    BY <1>1, WaitingFinite, FS_AddElement, FS_CardinalityType DEF MayWait
  <2>. QED
    BY <2>1, <2>2, <2>3, Numbers DEF InCapacity
<1>. QED
  BY <1>3, <1>4, <1>6, <1>8, <1>10, <1>12, <1>14, <1>15, <1>16, <1>17, <1>18, <1>19, <1>20
     DEF Admitted, p, q

\* Where everybody is after the admission of r.
LEMMA AdmittedPlaces ==
  ASSUME Settled, NEW r \in Requests, Admitted(r), life[r].admitted = NoTime,
         life[r].status = "pending", UNCHANGED <<now, batches, active, completed>>
  PROVE  /\ IdsOf(sched.queue)' = {s \in Requests : IsQueued(s)'}
         /\ InBatches' = {s \in Requests : IsFormed(s)'}
         /\ Running' = {s \in Requests : IsRunning(s)'}
         /\ Served' = {s \in Requests : IsServed(s)'}
         /\ (RejectedNow' <=> RejectedNow)
<1>1. InBatches' = InBatches /\ Running' = Running /\ Served' = Served
  BY DEF InBatches, WaitingIn, Running, Served
<1>2. life[r].dispatch = NoTime /\ life[r].start = NoTime /\ now # NoTime
  BY PlaceStates DEF Settled, SimTypeOK, NoTime
<1>3. \A s \in Requests : s # r => /\ IsQueued(s)' <=> IsQueued(s)
                                   /\ IsFormed(s)' <=> IsFormed(s)
                                   /\ IsRunning(s)' <=> IsRunning(s)
                                   /\ IsServed(s)' <=> IsServed(s)
  BY DEF Admitted, IsQueued, IsFormed, IsRunning, IsServed
<1>4. /\ IsQueued(r)' /\ ~IsFormed(r)' /\ ~IsRunning(r)' /\ ~IsServed(r)'
      /\ ~IsFormed(r) /\ ~IsRunning(r) /\ ~IsServed(r)
  BY <1>2 DEF Admitted, IsQueued, IsFormed, IsRunning, IsServed
<1>5. IdsOf(sched.queue)' = IdsOf(sched.queue) \cup {r}
  BY DEF Admitted
<1>6. RejectedNow' <=> RejectedNow
  BY DEF Admitted, RejectedNow
<1>. QED
  BY <1>1, <1>3, <1>4, <1>5, <1>6 DEF Settled, PlacesOK

\* admit_waiters
LEMMA AdmitWaiterKeeps ==
  ASSUME SimInv, AdmitWaiter
  PROVE  SimInv'
<1>. DEFINE r == waiters[1].id
<1>1. /\ pc \in {"admit", "readmit"} /\ pc' = pc /\ waiters # <<>> /\ MayWait
      /\ waiters' = Tail(waiters) /\ admit(r)
      /\ trace' = trace /\ now' = now /\ index' = index /\ batches' = batches
      /\ active' = active /\ completed' = completed
  BY DEF AdmitWaiter, CanAdmit
<1>2. Settled /\ SimTypeOK /\ now \in Nat
  BY DEF SimInv, Settled, SimTypeOK
<1>3. /\ 1 \in DOMAIN waiters /\ r \in Requests /\ waiters \in Seq(Patients)
      /\ Ascending(waiters) /\ \A w \in Patients : w.id \in Nat
  BY <1>1, <1>2, WaiterFields DEF Settled, InLine, SimTypeOK, Patients, Requests
<1>4. /\ r \in IdsOf(waiters) /\ IdsOf(Tail(waiters)) = IdsOf(waiters) \ {r}
      /\ Ascending(Tail(waiters))
  BY <1>1, <1>3, IdsTail
<1>5. /\ Len(waiters) \in Nat /\ DOMAIN waiters = 1..Len(waiters)
      /\ waiters' \in Seq(Patients) /\ DOMAIN waiters' = 1..(Len(waiters) - 1)
      /\ \A k \in 1..(Len(waiters) - 1) : waiters'[k] = waiters[k + 1] /\ k + 1 \in DOMAIN waiters
  BY <1>1, <1>3
<1>6. IsWaiting(r)
  BY <1>2, <1>4 DEF Settled, PlacesOK
<1>7. now \in trace[r]..(trace[r] + Timeout)
  <2>1. trace[r] <= now /\ waiters[1].deadline = trace[r] + Timeout /\ now <= waiters[1].deadline
    BY <1>2, <1>3, <1>6 DEF Settled, ArrivalsOnTime, IsWaiting
  <2>2. trace[r] \in Nat
    BY <1>2, <1>3 DEF SimTypeOK
  <2>. QED
    BY <1>2, <2>1, <2>2, Numbers
<1>8. \A s \in IdsOf(sched.queue) : s < r
  BY <1>2, <1>4 DEF Settled, InLine
<1>. HIDE DEF r
<1>9. Admitted(r)
  BY <1>1, <1>2, <1>3, <1>6, <1>7, <1>8, AdmitKeeps DEF IsWaiting
<1>10. /\ IdsOf(sched.queue)' = {s \in Requests : IsQueued(s)'}
       /\ InBatches' = {s \in Requests : IsFormed(s)'}
       /\ Running' = {s \in Requests : IsRunning(s)'}
       /\ Served' = {s \in Requests : IsServed(s)'}
       /\ (RejectedNow' <=> RejectedNow)
  BY <1>1, <1>2, <1>3, <1>6, <1>9, AdmittedPlaces DEF IsWaiting
<1>11. PlacesOK'
  <2>1. ASSUME NEW s \in Requests PROVE IsWaiting(s)' <=> IsWaiting(s) /\ s # r
    <3>1. s = r => ~IsWaiting(s)'
      BY <1>2, <1>9 DEF Admitted, IsWaiting, NoTime
    <3>2. s # r => (IsWaiting(s)' <=> IsWaiting(s))
      BY <1>1, <1>9 DEF Admitted, IsWaiting
    <3>. QED
      BY <3>1, <3>2
  <2>2. IdsOf(waiters)' = {s \in Requests : IsWaiting(s)'}
    BY <1>1, <1>2, <1>4, <2>1 DEF Settled, PlacesOK
  <2>3. \A s \in Requests : s >= index => life'[s].admitted = NoTime /\ life'[s].status = "pending"
    <3>1. ~(r >= index)
      BY <1>2, <1>3, <1>6 DEF IsWaiting, Requests, SimTypeOK
    <3>. QED
      BY <1>2, <1>9, <3>1 DEF Admitted, Settled, PlacesOK
  <2>. QED
    BY <1>1, <1>10, <2>2, <2>3 DEF PlacesOK
<1>12. SimTypeOK'
  BY <1>1, <1>2, <1>5, <1>9 DEF SimTypeOK, Admitted, Phases
<1>13. InLine'
  <2>1. \A s \in IdsOf(sched.queue)', t \in IdsOf(waiters)' : s < t
    <3>1. \A t \in IdsOf(Tail(waiters)) : r < t
      <4>1. ASSUME NEW k \in 1..(Len(waiters) - 1) PROVE r < waiters[k + 1].id
        <5>1. 1 \in DOMAIN waiters /\ k + 1 \in DOMAIN waiters /\ 1 < k + 1
          BY <1>3, <1>5
        <5>. QED
          BY <1>3, <5>1 DEF Ascending, r
      <4>. QED
        BY <1>1, <1>5, <4>1 DEF IdsOf
    <3>2. \A s \in IdsOf(sched.queue), t \in IdsOf(waiters) : s < t
      BY <1>2 DEF Settled, InLine
    <3>. QED
      BY <1>1, <1>4, <1>9, <3>1, <3>2 DEF Admitted
  <2>2. Ascending(waiters)' /\ Ascending(sched.queue)'
    BY <1>1, <1>4, <1>9 DEF Admitted, Ascending
  <2>. QED
    BY <1>1, <1>2, <1>9, <2>1, <2>2 DEF Settled, InLine, Admitted
<1>14. ArrivalsOnTime'
  BY <1>1, <1>2, <1>5 DEF Settled, ArrivalsOnTime
<1>15. ArrivalsPhase' /\ WorkPhase' /\ LastPhase'
  BY <1>1, <1>9 DEF SimInv, Phased, ArrivalsPhase, WorkPhase, LastPhase, Arriving, Admitted
<1>16. Instant'
  BY <1>1, <1>10 DEF SimInv, Phased, Instant, Instantly
<1>. QED
  BY <1>9, <1>11, <1>12, <1>13, <1>14, <1>15, <1>16 DEF SimInv, Settled, Phased, Admitted

\* An arrival finds a place in the queue,
LEMMA ArriveAdmitted ==
  ASSUME SimInv, pc = "arrive", Arriving, trace[index] = now, MayWait, admit(index),
         UNCHANGED waiters, index' = index + 1,
         UNCHANGED <<trace, now, batches, active, completed, pc>>
  PROVE  SimInv'
<1>1. /\ pc' = pc /\ waiters' = waiters /\ trace' = trace /\ now' = now /\ batches' = batches
      /\ active' = active /\ completed' = completed
  OBVIOUS
<1>2. Settled /\ SimTypeOK /\ now \in Nat /\ index \in Requests /\ index \in Nat
  BY Numbers DEF SimInv, Settled, SimTypeOK, Arriving, Requests
<1>3. waiters = <<>> /\ IdsOf(waiters) = {}
  <2>1. waiters = <<>>
    BY DEF SimInv, Phased, ArrivalsPhase
  <2>. QED
    BY <2>1 DEF IdsOf
<1>4. life[index].admitted = NoTime /\ life[index].status = "pending"
  BY <1>2 DEF Settled, PlacesOK
<1>5. now \in trace[index]..(trace[index] + Timeout)
  BY <1>2, Numbers
<1>6. \A s \in IdsOf(sched.queue) : s < index
  <2>1. \A s \in IdsOf(sched.queue) : s \in Requests /\ life[s].admitted # NoTime
    BY <1>2 DEF Settled, PlacesOK, IsQueued
  <2>2. \A s \in Requests : s >= index => life[s].admitted = NoTime
    BY <1>2 DEF Settled, PlacesOK
  <2>. QED
    BY <1>2, <2>1, <2>2 DEF Requests
<1>7. Admitted(index)
  BY <1>2, <1>4, <1>5, <1>6, AdmitKeeps
<1>8. /\ IdsOf(sched.queue)' = {s \in Requests : IsQueued(s)'}
      /\ InBatches' = {s \in Requests : IsFormed(s)'}
      /\ Running' = {s \in Requests : IsRunning(s)'}
      /\ Served' = {s \in Requests : IsServed(s)'}
      /\ (RejectedNow' <=> RejectedNow)
  BY <1>2, <1>4, <1>7, AdmittedPlaces
<1>9. PlacesOK'
  <2>1. ASSUME NEW s \in Requests PROVE ~IsWaiting(s)'
    <3>1. s \in Nat /\ ~IsWaiting(s)
      BY <1>2, <1>3 DEF Settled, PlacesOK, Requests
    <3>2. s = index => ~IsWaiting(s)'
      BY <1>2, <1>7 DEF Admitted, IsWaiting, NoTime
    <3>3. s # index => life'[s] = life[s] /\ (s < index' => s < index)
      BY <1>2, <1>7, <3>1 DEF Admitted
    <3>. QED
      BY <3>1, <3>2, <3>3 DEF IsWaiting
  <2>2. IdsOf(waiters)' = {s \in Requests : IsWaiting(s)'}
    BY <1>1, <1>3, <2>1
  <2>3. \A s \in Requests : s >= index' => life'[s].admitted = NoTime /\ life'[s].status = "pending"
    <3>1. \A s \in Requests : s >= index + 1 => s >= index /\ s # index
      BY <1>2 DEF Requests
    <3>. QED
      BY <1>2, <1>7, <3>1 DEF Admitted, Settled, PlacesOK
  <2>. QED
    BY <1>8, <2>2, <2>3 DEF PlacesOK
<1>10. SimTypeOK'
  <2>1. index' \in 1..(Count + 1)
    BY <1>2, Numbers DEF Requests
  <2>. QED
    BY <1>1, <1>2, <1>7, <2>1 DEF SimTypeOK, Admitted
<1>11. InLine'
  <2>1. Ascending(waiters)' /\ Ascending(sched.queue)'
    BY <1>1, <1>2, <1>7 DEF Admitted, Ascending, Settled, InLine
  <2>. QED
    BY <1>1, <1>2, <1>3, <1>7, <2>1 DEF Settled, InLine, Admitted
<1>12. ArrivalsOnTime'
  <2>1. \A s \in Requests : IF s < index' THEN trace[s] <= now ELSE now <= trace[s]
    <3>1. \A s \in Requests : (s < index' <=> s < index \/ s = index)
      BY <1>2 DEF Requests
    <3>. QED
      BY <1>2, <3>1 DEF Settled, ArrivalsOnTime
  <2>. QED
    BY <1>1, <1>3, <2>1 DEF ArrivalsOnTime
<1>13. ArrivalsPhase' /\ WorkPhase' /\ LastPhase'
  BY <1>1, <1>3, <1>7 DEF SimInv, Phased, ArrivalsPhase, WorkPhase, LastPhase, Admitted
<1>14. Instant'
  BY <1>1, <1>8 DEF SimInv, Phased, Instant, Instantly
<1>. QED
  BY <1>7, <1>9, <1>10, <1>11, <1>12, <1>13, <1>14 DEF SimInv, Settled, Phased, Admitted

\* ... or joins the waiters.
LEMMA ArriveWaits ==
  ASSUME SimInv, pc = "arrive", Arriving, trace[index] = now, ~MayWait,
         waiters' = Append(waiters, [id |-> index, deadline |-> now + Timeout]),
         index' = index + 1, UNCHANGED <<sched, life>>,
         UNCHANGED <<trace, now, batches, active, completed, pc>>
  PROVE  SimInv'
<1>. DEFINE w == [id |-> index, deadline |-> now + Timeout]
<1>1. /\ pc' = pc /\ sched' = sched /\ life' = life /\ trace' = trace /\ now' = now
      /\ batches' = batches /\ active' = active /\ completed' = completed
  OBVIOUS
<1>2. Settled /\ SimTypeOK /\ now \in Nat /\ index \in Requests /\ index \in Nat
  BY Numbers DEF SimInv, Settled, SimTypeOK, Arriving, Requests
<1>3. w \in Patients /\ w.id = index /\ w.deadline = now + Timeout
  BY <1>2, Numbers DEF Patients
<1>. HIDE DEF w
<1>4. /\ waiters \in Seq(Patients) /\ waiters' \in Seq(Patients) /\ Len(waiters) \in Nat
      /\ DOMAIN waiters = 1..Len(waiters) /\ DOMAIN waiters' = 1..(Len(waiters) + 1)
      /\ \A k \in 1..Len(waiters) : waiters'[k] = waiters[k]
      /\ waiters'[Len(waiters) + 1] = w
      /\ IdsOf(waiters') = IdsOf(waiters) \cup {index}
  <2>1. waiters \in Seq(Patients) /\ waiters' = Append(waiters, w)
    BY <1>2 DEF SimTypeOK, w
  <2>2. IdsOf(waiters') = IdsOf(waiters) \cup {index}
    BY <1>3, <2>1, IdsAppend
  <2>. QED
    BY <1>3, <2>1, <2>2
<1>5. \A s \in IdsOf(sched.queue) : s < index
  <2>1. \A s \in IdsOf(sched.queue) : s \in Requests /\ life[s].admitted # NoTime
    BY <1>2 DEF Settled, PlacesOK, IsQueued
  <2>2. \A s \in Requests : s >= index => life[s].admitted = NoTime
    BY <1>2 DEF Settled, PlacesOK
  <2>. QED
    BY <1>2, <2>1, <2>2 DEF Requests
<1>6. \A k \in 1..Len(waiters) : waiters[k].id < index
  BY <1>2, <1>4 DEF Settled, ArrivalsOnTime
<1>7. PlacesOK'
  <2>1. /\ InBatches' = InBatches /\ Running' = Running /\ Served' = Served
        /\ \A s \in Requests : /\ IsQueued(s)' <=> IsQueued(s)
                               /\ IsFormed(s)' <=> IsFormed(s)
                               /\ IsRunning(s)' <=> IsRunning(s)
                               /\ IsServed(s)' <=> IsServed(s)
    BY <1>1 DEF InBatches, WaitingIn, Running, Served, IsQueued, IsFormed, IsRunning, IsServed
  <2>2. \A s \in Requests : (s < index' <=> s < index \/ s = index) /\ (s >= index' => s >= index)
    BY <1>2 DEF Requests
  <2>3. life[index].admitted = NoTime /\ life[index].status = "pending"
    BY <1>2 DEF Settled, PlacesOK
  <2>4. \A s \in Requests : IsWaiting(s)' <=> IsWaiting(s) \/ s = index
    BY <1>1, <2>2, <2>3 DEF IsWaiting
  <2>5. IdsOf(sched.queue)' = IdsOf(sched.queue) /\ IdsOf(waiters)' = IdsOf(waiters) \cup {index}
    BY <1>1, <1>4
  <2>. QED
    BY <1>1, <1>2, <2>1, <2>2, <2>4, <2>5 DEF Settled, PlacesOK
<1>8. SimTypeOK'
  <2>1. index' \in 1..(Count + 1)
    BY <1>2, Numbers DEF Requests
  <2>. QED
    BY <1>1, <1>2, <1>4, <2>1 DEF SimTypeOK
<1>9. InLine'
  <2>1. Ascending(waiters')
    <3>1. ASSUME NEW j \in 1..(Len(waiters) + 1), NEW k \in 1..(Len(waiters) + 1), j < k
          PROVE  waiters'[j].id < waiters'[k].id
      <4>1. j \in 1..Len(waiters)
        BY <1>4, <3>1
      <4>2. CASE k \in 1..Len(waiters)
        BY <1>2, <1>4, <3>1, <4>1, <4>2 DEF Settled, InLine, Ascending
      <4>3. CASE k = Len(waiters) + 1
        BY <1>3, <1>4, <1>6, <4>1, <4>3
      <4>. QED
        BY <1>4, <4>2, <4>3
    <3>. QED
      BY <1>4, <3>1 DEF Ascending
  <2>2. \A s \in IdsOf(sched.queue), t \in IdsOf(waiters') : s < t
    BY <1>2, <1>4, <1>5 DEF Settled, InLine
  <2>3. Ascending(waiters)' /\ Ascending(sched.queue)'
    BY <1>1, <1>2, <2>1 DEF Settled, InLine, Ascending
  <2>. QED
    BY <1>1, <1>2, <2>2, <2>3 DEF Settled, InLine
<1>10. HeadDue' /\ WorkOnTime' /\ RecordsOK' /\ BatchesOK' /\ OneByOne' /\ InCapacity' /\ (MayWait' <=> MayWait)
  <2>1. HeadDue' /\ WorkOnTime' /\ RecordsOK'
    BY <1>1, <1>2 DEF Settled, HeadDue, WorkOnTime, RecordsOK
  <2>2. BatchesOK'
    BY <1>1, <1>2 DEF Settled, BatchesOK, InBatch, Started, Executed
  <2>3. OneByOne'
    BY <1>1, <1>2 DEF Settled, OneByOne, Out
  <2>4. Waiting' = Waiting
    BY <1>1 DEF Waiting, WaitingIn
  <2>. QED
    BY <1>2, <2>1, <2>2, <2>3, <2>4 DEF Settled, InCapacity, MayWait
<1>11. ArrivalsOnTime'
  <2>1. \A s \in Requests : IF s < index' THEN trace[s] <= now ELSE now <= trace[s]
    <3>1. \A s \in Requests : (s < index' <=> s < index \/ s = index)
      BY <1>2 DEF Requests
    <3>. QED
      BY <1>2, <3>1 DEF Settled, ArrivalsOnTime
  <2>2. ASSUME NEW k \in DOMAIN waiters'
        PROVE  /\ waiters'[k].id < index' /\ now <= waiters'[k].deadline
               /\ waiters'[k].deadline = trace[waiters'[k].id] + Timeout
    <3>1. CASE k \in 1..Len(waiters)
      <4>1. /\ waiters[k].id < index /\ now <= waiters[k].deadline
            /\ waiters[k].deadline = trace[waiters[k].id] + Timeout
            /\ waiters[k].id \in Nat
        BY <1>2, <1>4, <3>1, WaiterFields DEF Settled, ArrivalsOnTime, Requests
      <4>. QED
        BY <1>2, <1>4, <3>1, <4>1
    <3>2. CASE k = Len(waiters) + 1
      BY <1>2, <1>3, <1>4, <3>2, Numbers
    <3>. QED
      BY <1>4, <2>2, <3>1, <3>2
  <2>. QED
    BY <1>1, <2>1, <2>2 DEF ArrivalsOnTime
<1>12. ArrivalsPhase' /\ WorkPhase' /\ LastPhase'
  BY <1>1, <1>10 DEF SimInv, Phased, ArrivalsPhase, WorkPhase, LastPhase
<1>13. Instant'
  BY <1>1 DEF SimInv, Phased, Instant, Instantly, RejectedNow
<1>. QED
  BY <1>7, <1>8, <1>9, <1>10, <1>11, <1>12, <1>13 DEF SimInv, Settled, Phased

-----------------------------------------------------------------------------
(***************************************************************************)
(* Rejections                                                              *)
(***************************************************************************)
\* A waiter is rejected at its deadline.
LEMMA RejectWaiterKeeps ==
  ASSUME SimInv, RejectWaiter
  PROVE  SimInv'
<1>. DEFINE r == waiters[1].id
<1>1. /\ pc = "reject" /\ pc' = pc /\ waiters # <<>> /\ waiters[1].deadline <= now
      /\ waiters' = Tail(waiters)
      /\ life' = [life EXCEPT ![r] = [life[r] EXCEPT !.status = "rejected", !.reason = TRUE,
                                                     !.terminal = now]]
      /\ trace' = trace /\ now' = now /\ index' = index /\ batches' = batches
      /\ active' = active /\ completed' = completed /\ sched' = sched
  BY DEF RejectWaiter, DeadlineCame
<1>2. Settled /\ SimTypeOK /\ now \in Nat
  BY DEF SimInv, Settled, SimTypeOK
<1>3. /\ 1 \in DOMAIN waiters /\ r \in Requests /\ waiters \in Seq(Patients)
      /\ Ascending(waiters) /\ \A w \in Patients : w.id \in Nat
  BY <1>1, <1>2, WaiterFields DEF Settled, InLine, SimTypeOK, Patients, Requests
<1>4. /\ r \in IdsOf(waiters) /\ IdsOf(Tail(waiters)) = IdsOf(waiters) \ {r}
      /\ Ascending(Tail(waiters))
  BY <1>1, <1>3, IdsTail
<1>5. /\ Len(waiters) \in Nat /\ DOMAIN waiters = 1..Len(waiters)
      /\ waiters' \in Seq(Patients) /\ DOMAIN waiters' = 1..(Len(waiters) - 1)
      /\ \A k \in 1..(Len(waiters) - 1) : waiters'[k] = waiters[k + 1] /\ k + 1 \in DOMAIN waiters
  BY <1>1, <1>3
<1>6. /\ r < index /\ life[r].admitted = NoTime /\ life[r].status = "pending"
      /\ life[r].dispatch = NoTime /\ life[r].start = NoTime /\ life[r].batch = NoBatchId
  <2>1. IsWaiting(r)
    BY <1>2, <1>4 DEF Settled, PlacesOK
  <2>. QED
    BY <1>2, <1>3, <2>1, PlaceStates DEF IsWaiting
<1>7. now = trace[r] + Timeout /\ trace[r] \in Nat /\ trace[r] <= now
  <2>1. waiters[1].deadline = trace[r] + Timeout /\ now <= waiters[1].deadline
    BY <1>2, <1>3 DEF Settled, ArrivalsOnTime
  <2>2. trace[r] \in Nat
    BY <1>2, <1>3 DEF SimTypeOK
  <2>3. waiters[1].deadline <= now /\ Timeout \in Nat
    BY <1>1, Numbers
  <2>. HIDE DEF r
  <2>. QED
    BY <1>2, <2>1, <2>2, <2>3
<1>. HIDE DEF r
<1>. DEFINE y == [life[r] EXCEPT !.status = "rejected", !.reason = TRUE, !.terminal = now]
<1>8. y \in StateType /\ StateOK(y, trace[r]) /\ Past(y, now)
  <2>1. life[r] \in StateType /\ StateOK(life[r], trace[r]) /\ Past(life[r], now)
    BY <1>2, <1>3 DEF SimTypeOK, Settled, RecordsOK
  <2>. QED
    BY <1>2, <1>6, <1>7, <2>1, RejectState
<1>9. /\ y.status = "rejected" /\ y.terminal = now /\ y.admitted = NoTime /\ y.dispatch = NoTime
      /\ y.start = NoTime
  BY <1>2, <1>3, <1>6 DEF SimTypeOK, StateType
<1>10. /\ life' \in [Requests -> StateType] /\ life'[r] = y
       /\ \A s \in Requests : s # r => life'[s] = life[s]
  <2>1. life \in [Requests -> StateType] /\ life' = [life EXCEPT ![r] = y]
    BY <1>1, <1>2 DEF SimTypeOK
  <2>. HIDE DEF y
  <2>. QED
    BY <1>3, <1>8, <2>1
<1>. HIDE DEF y
<1>11. SimTypeOK'
  BY <1>1, <1>2, <1>5, <1>10 DEF SimTypeOK
<1>12. InLine'
  <2>1. \A s \in IdsOf(sched.queue), t \in IdsOf(Tail(waiters)) : s < t
    BY <1>2, <1>4 DEF Settled, InLine
  <2>2. Ascending(waiters)' /\ Ascending(sched.queue)'
    BY <1>1, <1>2, <1>4 DEF Settled, InLine, Ascending
  <2>. QED
    BY <1>1, <1>2, <2>1, <2>2 DEF Settled, InLine
<1>13. HeadDue' /\ WorkOnTime' /\ ArrivalsOnTime'
  <2>1. HeadDue' /\ WorkOnTime'
    BY <1>1, <1>2 DEF Settled, HeadDue, WorkOnTime
  <2>2. ArrivalsOnTime'
    BY <1>1, <1>2, <1>5 DEF Settled, ArrivalsOnTime
  <2>. QED
    BY <2>1, <2>2
<1>14. RecordsOK'
  BY <1>1, <1>2, <1>8, <1>10 DEF Settled, RecordsOK
<1>15. PlacesOK'
  <2>1. InBatches' = InBatches /\ Running' = Running /\ Served' = Served
    BY <1>1 DEF InBatches, WaitingIn, Running, Served
  <2>2. \A s \in Requests : s # r => /\ IsWaiting(s)' <=> IsWaiting(s)
                                     /\ IsQueued(s)' <=> IsQueued(s)
                                     /\ IsFormed(s)' <=> IsFormed(s)
                                     /\ IsRunning(s)' <=> IsRunning(s)
                                     /\ IsServed(s)' <=> IsServed(s)
    BY <1>1, <1>10 DEF IsWaiting, IsQueued, IsFormed, IsRunning, IsServed
  <2>3. \A s \in Requests : s = r =>
          /\ ~IsWaiting(s)' /\ ~IsQueued(s)' /\ ~IsFormed(s)' /\ ~IsRunning(s)' /\ ~IsServed(s)'
          /\ ~IsQueued(s) /\ ~IsFormed(s) /\ ~IsRunning(s) /\ ~IsServed(s)
    <3>1. /\ life'[r].status = "rejected" /\ life'[r].admitted = NoTime
          /\ life'[r].dispatch = NoTime /\ life'[r].start = NoTime
      BY <1>9, <1>10
    <3>2. \A s \in Requests : s = r =>
            ~IsWaiting(s)' /\ ~IsQueued(s)' /\ ~IsFormed(s)' /\ ~IsRunning(s)' /\ ~IsServed(s)'
      BY <3>1 DEF IsWaiting, IsQueued, IsFormed, IsRunning, IsServed
    <3>3. ~IsQueued(r) /\ ~IsFormed(r) /\ ~IsRunning(r) /\ ~IsServed(r)
      BY <1>6 DEF IsQueued, IsFormed, IsRunning, IsServed
    <3>. QED
      BY <3>2, <3>3
  <2>4. IdsOf(waiters)' = {s \in Requests : IsWaiting(s)'}
    <3>1. \A s \in Requests : IsWaiting(s)' <=> IsWaiting(s) /\ s # r
      BY <2>2, <2>3
    <3>2. IdsOf(waiters)' = IdsOf(waiters) \ {r}
      BY <1>1, <1>4
    <3>. QED
      BY <1>2, <3>1, <3>2 DEF Settled, PlacesOK
  <2>5. \A s \in Requests : s >= index => life'[s].admitted = NoTime /\ life'[s].status = "pending"
    <3>1. ~(r >= index)
      BY <1>2, <1>3, <1>6 DEF Requests, SimTypeOK
    <3>. QED
      BY <1>2, <1>10, <3>1 DEF Settled, PlacesOK
  <2>6. IdsOf(sched.queue)' = IdsOf(sched.queue) /\ index' = index
    BY <1>1
  <2>7. ASSUME NEW s \in Requests
        PROVE  /\ IsQueued(s)' <=> IsQueued(s)
               /\ IsFormed(s)' <=> IsFormed(s)
               /\ IsRunning(s)' <=> IsRunning(s)
               /\ IsServed(s)' <=> IsServed(s)
    <3>1. CASE s = r
      BY <2>3, <3>1
    <3>2. CASE s # r
      BY <2>2, <3>2
    <3>. QED
      BY <3>1, <3>2
  <2>8. /\ IdsOf(sched.queue)' = {s \in Requests : IsQueued(s)'}
        /\ InBatches' = {s \in Requests : IsFormed(s)'}
        /\ Running' = {s \in Requests : IsRunning(s)'}
        /\ Served' = {s \in Requests : IsServed(s)'}
    BY <1>2, <2>1, <2>6, <2>7 DEF Settled, PlacesOK
  <2>. QED
    BY <2>4, <2>5, <2>6, <2>8 DEF PlacesOK
<1>16. BatchesOK'
  <2>1. \A k \in DOMAIN batches : \A s \in IdsOf(batches[k].requests) : life'[s] = life[s]
    BY <1>2, <1>6, <1>10, MemberStates DEF IsFormed, WaitingIn
  <2>2. \A a \in active : \A s \in IdsOf(a.requests) : life'[s] = life[s]
    BY <1>2, <1>6, <1>10, MemberStates DEF IsRunning
  <2>3. \A k \in DOMAIN completed : \A s \in IdsOf(completed[k].requests) : life'[s] = life[s]
    <3>1. ~IsServed(r)
      BY <1>6 DEF IsServed
    <3>. QED
      BY <1>2, <1>10, <3>1, MemberStates
  <2>4. ASSUME NEW k \in DOMAIN batches PROVE \A b : (b = batches[k] => InBatch(b)')
    BY <1>2, <2>1, BatchStays DEF Settled, BatchesOK
  <2>5. \A a \in active : Started(a)'
    BY <1>2, <2>2, ExecutionStays DEF Settled, BatchesOK
  <2>6. ASSUME NEW k \in DOMAIN completed PROVE \A b : (b = completed[k] => Executed(b)')
    BY <1>2, <2>3, ExecutionStays DEF Settled, BatchesOK
  <2>7. \A k \in DOMAIN batches' : InBatch(batches[k])'
    BY <1>1, <2>4
  <2>8. \A k \in DOMAIN completed' : Executed(completed[k])'
    BY <1>1, <2>6
  <2>. QED
    BY <1>1, <2>5, <2>7, <2>8 DEF BatchesOK
<1>17. OneByOne' /\ InCapacity' /\ (MayWait' <=> MayWait)
  <2>1. OneByOne'
    BY <1>1, <1>2 DEF Settled, OneByOne, Out
  <2>2. Waiting' = Waiting
    BY <1>1 DEF Waiting, WaitingIn
  <2>. QED
    BY <1>2, <2>1, <2>2 DEF Settled, InCapacity, MayWait
<1>18. ArrivalsPhase' /\ WorkPhase' /\ LastPhase'
  <2>1. NothingDue' <=> NothingDue
    BY <1>1 DEF NothingDue
  <2>. QED
    BY <1>1, <1>17, <2>1 DEF SimInv, Phased, ArrivalsPhase, WorkPhase, LastPhase, Arriving
<1>19. Instant'
  BY <1>1 DEF Instant
<1>. QED
  BY <1>11, <1>12, <1>13, <1>14, <1>15, <1>16, <1>17, <1>18, <1>19 DEF SimInv, Settled, Phased

-----------------------------------------------------------------------------
(***************************************************************************)
(* Dispatches                                                              *)
(***************************************************************************)
\* What a dispatch takes off the queue, and when the next one is due.
LEMMA PopKeeps ==
  ASSUME Settled, ~sched.closed, NEW d \in eligible_dispatch(sched, now),
         sched' = AfterPop(MoveTo(sched, now), d), now' = now
  PROVE  LET front == PoppedBatch(sched, d).requests
         IN  /\ sched' \in SchedulerType(Requests) /\ sched'.closed = sched.closed
             /\ sched'.ordinal = sched.ordinal + 1 /\ d.at = now
             /\ front \in Seq(Entries) /\ Len(front) \in 1..MaxBatch
             /\ IdsOf(front) \cup IdsOf(sched'.queue) = IdsOf(sched.queue)
             /\ IdsOf(front) \cap IdsOf(sched'.queue) = {}
             /\ \A r \in IdsOf(front), s \in IdsOf(sched'.queue) : r < s
             /\ Ascending(sched'.queue)
             /\ \A j, k \in DOMAIN sched'.queue :
                  j < k => sched'.queue[j].admitted <= sched'.queue[k].admitted
             /\ \A k \in DOMAIN sched'.queue : sched'.queue[k].admitted <= now
             /\ HeadDue'
<1>. DEFINE q == sched.queue
            n == BatchCount(sched)
            front == SubSeq(q, 1, n)
            back == SubSeq(q, n + 1, Len(q))
            t == sched'
<1>1. /\ SimTypeOK /\ HeadDue /\ now \in Nat /\ sched \in SchedulerType(Requests)
      /\ MaxBatch \in Nat \ {0} /\ Window \in Nat /\ MaxWait \in Nat
  BY Numbers DEF Settled, SimTypeOK
<1>2. /\ q # <<>> /\ d.at = now
      /\ sched.policy = "size_or_time" /\ ~Full(sched) => OldestDeadline(sched) = now
  BY <1>1, DueNow
<1>3. /\ q \in Seq(Entries) /\ Len(q) \in Nat /\ Len(q) > 0 /\ DOMAIN q = 1..Len(q)
      /\ Ascending(q) /\ \A e \in Entries : e.id \in Nat
      /\ \A k \in 1..Len(q) : q[k] \in Entries
  <2>1. q \in Seq(Entries) /\ Ascending(q)
    BY <1>1, SchedulerFields DEF Settled, InLine
  <2>2. Len(q) \in Nat /\ Len(q) > 0 /\ DOMAIN q = 1..Len(q) /\ \A k \in 1..Len(q) : q[k] \in Entries
    BY <1>2, <2>1
  <2>. QED
    BY <2>1, <2>2 DEF Entries, Requests
<1>4. n \in 1..Len(q) /\ n <= MaxBatch /\ n \in Nat /\ (~(Len(q) >= MaxBatch) => n = Len(q))
  BY <1>1, <1>3 DEF BatchCount, Fewer
<1>. HIDE DEF n
<1>5. /\ front \in Seq(Entries) /\ back \in Seq(Entries)
      /\ Len(front) = n /\ Len(back) = Len(q) - n
      /\ \A k \in 1..n : front[k] = q[k]
      /\ \A k \in 1..(Len(q) - n) : back[k] = q[n + k]
      /\ Ascending(front) /\ Ascending(back)
      /\ IdsOf(front) \cup IdsOf(back) = IdsOf(q)
      /\ \A r \in IdsOf(front), s \in IdsOf(back) : r < s
  BY <1>3, <1>4, IdsSplit
<1>6. DOMAIN back = 1..(Len(q) - n) /\ (back # <<>> => 1 \in DOMAIN back)
  BY <1>3, <1>4, <1>5
<1>7. PoppedBatch(sched, d).requests = front
  BY DEF PoppedBatch, n
<1>8. /\ t.queue = back /\ t.policy = sched.policy /\ t.closed = sched.closed /\ t.now = now
      /\ t.ordinal = sched.ordinal + 1
      /\ t.nextWindow = IF sched.policy = "fixed_window" THEN d.at + Window ELSE sched.nextWindow
  BY DEF AfterPop, MoveTo, BatchCount, n
<1>9. t \in SchedulerType(Requests)
  <2>1. /\ sched.policy \in Policies /\ sched.ordinal \in Nat /\ sched.closed \in BOOLEAN
        /\ sched.nextWindow \in Nat \cup {NoTime}
    BY <1>1, SchedulerFields
  <2>2. t = [policy |-> t.policy, queue |-> t.queue, now |-> t.now, ordinal |-> t.ordinal,
             closed |-> t.closed, nextWindow |-> t.nextWindow]
    BY DEF AfterPop, MoveTo
  <2>3. t.queue \in Seq([id : Requests, admitted : Nat])
    BY <1>5, <1>8 DEF Entries
  <2>4. t.nextWindow \in Nat \cup {NoTime} /\ t.ordinal \in Nat
    BY <1>1, <1>2, <1>8, <2>1
  <2>. HIDE DEF t
  <2>. QED
    BY <1>1, <1>8, <2>1, <2>2, <2>3, <2>4 DEF SchedulerType
<1>10. IdsOf(front) \cap IdsOf(back) = {}
  <2>1. \A r \in IdsOf(front) : r \in Nat
    <3>1. IdsOf(front) \subseteq Requests
      BY <1>5, IdsAreRequests
    <3>. QED
      BY <3>1 DEF Requests
  <2>. QED
    BY <1>5, <2>1
<1>11. ASSUME NEW j \in 1..(Len(q) - n)
       PROVE  /\ n + j \in 1..Len(q) /\ back[j] = q[n + j] /\ back[j].admitted <= now
              /\ q[1].admitted \in Nat /\ back[j].admitted \in Nat
              /\ q[1].admitted <= back[j].admitted
  <2>1. n + j \in 1..Len(q) /\ back[j] = q[n + j] /\ 1 \in 1..Len(q) /\ 1 < n + j
    BY <1>3, <1>4, <1>5
  <2>2. q[n + j].admitted <= now /\ q[1].admitted <= q[n + j].admitted
    BY <1>3, <2>1 DEF Settled, WorkOnTime, InLine
  <2>3. \A k \in 1..Len(q) : q[k].admitted \in Nat
    BY <1>3 DEF Entries
  <2>. QED
    BY <2>1, <2>2, <2>3
<1>12. ASSUME NEW j \in 1..(Len(q) - n), NEW k \in 1..(Len(q) - n), j < k
       PROVE  back[j].admitted <= back[k].admitted
  <2>1. n + j \in 1..Len(q) /\ n + k \in 1..Len(q) /\ n + j < n + k
    BY <1>3, <1>4, <1>12
  <2>2. q[n + j].admitted <= q[n + k].admitted
    BY <1>3, <2>1 DEF Settled, InLine
  <2>. QED
    BY <1>11, <2>2
<1>. HIDE DEF t, back, front
<1>13. ASSUME back # <<>>
       PROVE  /\ t.policy = "fixed_window" => WindowOf(t) >= now
              /\ t.policy = "size_or_time" => OldestDeadline(t) >= now
  <2>1. CASE t.policy = "fixed_window"
    <3>1. WindowOf(t) >= t.nextWindow /\ t.nextWindow = now + Window /\ WindowOf(t) \in Nat
      BY <1>2, <1>8, <1>9, <1>13, <2>1, WindowLemma
    <3>. QED
      BY <1>1, <2>1, <3>1
  <2>2. CASE t.policy = "size_or_time"
    <3>1. Len(q) >= MaxBatch
      BY <1>1, <1>3, <1>4, <1>6, <1>13
    <3>2. OldestDeadline(sched) >= now
      BY <1>1, <1>2, <1>8, <2>2 DEF HeadDue
    <3>3. OldestDeadline(t) = back[1].admitted + MaxWait /\ 1 \in 1..(Len(q) - n)
      BY <1>6, <1>8, <1>13 DEF OldestDeadline
    <3>4. q[1].admitted <= back[1].admitted /\ q[1].admitted \in Nat /\ back[1].admitted \in Nat
      BY <1>11, <3>3
    <3>. QED
      BY <1>1, <2>2, <3>2, <3>3, <3>4 DEF OldestDeadline
  <2>. QED
    BY <2>1, <2>2
<1>14. HeadDue'
  <2>1. HeadDue' <=> (t.queue # <<>> => /\ t.policy = "fixed_window" => WindowOf(t) >= now'
                                        /\ t.policy = "size_or_time" => OldestDeadline(t) >= now')
    BY DEF HeadDue, t, WindowOf, OldestDeadline
  <2>. QED
    BY <1>8, <1>13, <2>1
<1>15. n \in 1..MaxBatch
  BY <1>1, <1>4
<1>16. /\ t \in SchedulerType(Requests) /\ t.closed = sched.closed /\ t.ordinal = sched.ordinal + 1
       /\ front \in Seq(Entries) /\ Len(front) \in 1..MaxBatch
       /\ IdsOf(front) \cup IdsOf(t.queue) = IdsOf(sched.queue)
       /\ IdsOf(front) \cap IdsOf(t.queue) = {}
       /\ \A r \in IdsOf(front), s \in IdsOf(t.queue) : r < s
       /\ Ascending(t.queue)
  BY <1>5, <1>8, <1>9, <1>10, <1>15
<1>17. /\ \A j, k \in DOMAIN t.queue : j < k => t.queue[j].admitted <= t.queue[k].admitted
       /\ \A k \in DOMAIN t.queue : t.queue[k].admitted <= now
  BY <1>6, <1>8, <1>11, <1>12
<1>. QED
  BY <1>2, <1>7, <1>14, <1>16, <1>17 DEF t

\* dispatch_ready
LEMMA DispatchReadyKeeps ==
  ASSUME SimInv, DispatchReady
  PROVE  SimInv'
<1>1. /\ pc \in {"dispatch", "redispatch"} /\ pc' = pc /\ ~sched.closed
      /\ trace' = trace /\ now' = now /\ index' = index /\ waiters' = waiters
      /\ active' = active /\ completed' = completed
  BY DEF DispatchReady, SimInv, Phased, LastPhase
<1>2. Settled /\ SimTypeOK /\ now \in Nat /\ sched.ordinal \in Nat
  BY SchedulerFields DEF SimInv, Settled, SimTypeOK
<1>3. PICK d \in eligible_dispatch(sched, now) :
        /\ sched' = AfterPop(MoveTo(sched, now), d)
        /\ batches' = Append(batches, Formed(PoppedBatch(sched, d)))
        /\ record([r \in IdsOf(Formed(PoppedBatch(sched, d)).requests) |->
                     [life[r] EXCEPT !.dispatch = Formed(PoppedBatch(sched, d)).dispatch,
                                     !.batch = Formed(PoppedBatch(sched, d)).id]])
  BY DEF DispatchReady
<1>. DEFINE front == PoppedBatch(sched, d).requests
            b == Formed(PoppedBatch(sched, d))
            X == IdsOf(front)
            t == sched'
<1>4. /\ t \in SchedulerType(Requests) /\ t.closed = sched.closed
      /\ t.ordinal = sched.ordinal + 1 /\ d.at = now
      /\ front \in Seq(Entries) /\ Len(front) \in 1..MaxBatch
      /\ X \cup IdsOf(t.queue) = IdsOf(sched.queue)
      /\ X \cap IdsOf(t.queue) = {}
      /\ Ascending(t.queue)
      /\ \A j, k \in DOMAIN t.queue : j < k => t.queue[j].admitted <= t.queue[k].admitted
      /\ \A k \in DOMAIN t.queue : t.queue[k].admitted <= now
      /\ HeadDue'
  BY <1>1, <1>2, <1>3, PopKeeps
<1>5. /\ b \in Formeds /\ b.id = sched.ordinal /\ b.requests = front /\ b.dispatch = now
  <2>1. b = [id |-> sched.ordinal, requests |-> front, dispatch |-> now]
    BY <1>4 DEF Formed, PoppedBatch
  <2>. HIDE DEF b, front
  <2>. QED
    BY <1>2, <1>4, <2>1 DEF Formeds
<1>. HIDE DEF front
<1>6. batches' = Append(batches, b)
      /\ record([r \in X |-> [life[r] EXCEPT !.dispatch = now, !.batch = sched.ordinal]])
  BY <1>3, <1>5
<1>. HIDE DEF b
<1>7. /\ batches \in Seq(Formeds) /\ batches' \in Seq(Formeds) /\ Len(batches) \in Nat
      /\ DOMAIN batches = 1..Len(batches) /\ DOMAIN batches' = 1..(Len(batches) + 1)
      /\ Len(batches') = Len(batches) + 1
      /\ \A k \in 1..Len(batches) : batches'[k] = batches[k]
      /\ batches'[Len(batches) + 1] = b
  <2>1. batches \in Seq(Formeds)
    BY <1>2 DEF SimTypeOK
  <2>2. batches' = Append(batches, b) /\ b \in Formeds
    BY <1>5, <1>6
  <2>. QED
    BY <2>1, <2>2
<1>8. \A r \in X : r \in Requests /\ IsQueued(r)
  BY <1>2, <1>4 DEF Settled, PlacesOK
<1>9. /\ \A r \in Requests : life'[r] = IF r \in X THEN [life[r] EXCEPT !.dispatch = now, !.batch = sched.ordinal]
                                       ELSE life[r]
      /\ DOMAIN life' = Requests /\ life' = [r \in Requests |-> life'[r]]
  BY <1>6, <1>8 DEF record
<1>. HIDE DEF X
<1>10. ASSUME NEW r \in Requests
       PROVE  /\ life'[r] \in StateType /\ StateOK(life'[r], trace[r]) /\ Past(life'[r], now)
              /\ life'[r].admitted = life[r].admitted /\ life'[r].start = life[r].start
              /\ life'[r].status = life[r].status /\ life'[r].terminal = life[r].terminal
              /\ r \in X => /\ life'[r].dispatch = now /\ life'[r].batch = sched.ordinal
                            /\ life'[r].status = "pending" /\ life'[r].start = NoTime
                            /\ life'[r].admitted # NoTime
              /\ r \notin X => life'[r] = life[r]
  <2>1. life[r] \in StateType /\ trace[r] \in Nat /\ StateOK(life[r], trace[r]) /\ Past(life[r], now)
    BY <1>2 DEF SimTypeOK, Settled, RecordsOK
  <2>2. CASE r \notin X
    BY <1>9, <2>1, <2>2
  <2>3. CASE r \in X
    <3>1. life'[r] = [life[r] EXCEPT !.dispatch = now, !.batch = sched.ordinal]
      BY <1>9, <2>3
    <3>2. /\ life[r].dispatch = NoTime /\ life[r].start = NoTime /\ life[r].status = "pending"
          /\ life[r].admitted # NoTime
      BY <1>2, <1>8, <2>3, PlaceStates DEF IsQueued
    <3>3. life'[r] \in StateType /\ StateOK(life'[r], trace[r]) /\ Past(life'[r], now)
      <4>. DEFINE o == sched.ordinal
                  x == life[r]
                  u == trace[r]
      <4>1. o \in Nat /\ life'[r] = [x EXCEPT !.dispatch = now, !.batch = o]
        BY <1>2, <3>1
      <4>2. /\ x \in StateType /\ StateOK(x, u) /\ Past(x, now) /\ u \in Nat
            /\ x.admitted # NoTime /\ x.dispatch = NoTime
        BY <2>1, <3>2
      <4>. DEFINE y == [x EXCEPT !.dispatch = now, !.batch = o]
      <4>. HIDE DEF o, x, u
      <4>3. y \in StateType /\ StateOK(y, u) /\ Past(y, now)
        BY <1>2, <4>1, <4>2, FormState
      <4>. QED
        BY <4>1, <4>3 DEF u
    <3>. QED
      BY <1>2, <2>1, <2>3, <3>1, <3>2, <3>3 DEF StateType
  <2>. QED
    BY <2>2, <2>3
<1>11. SimTypeOK'
  <2>1. life' \in [Requests -> StateType]
    BY <1>9, <1>10
  <2>. QED
    BY <1>1, <1>2, <1>4, <1>7, <2>1 DEF SimTypeOK
<1>12. InLine'
  <2>1. IdsOf(t.queue) \subseteq IdsOf(sched.queue)
    BY <1>4
  <2>2. Ascending(waiters)' /\ Ascending(sched.queue)'
    BY <1>1, <1>2, <1>4 DEF Settled, InLine, Ascending
  <2>. QED
    BY <1>1, <1>2, <1>4, <2>1, <2>2 DEF Settled, InLine
<1>13. HeadDue' /\ ArrivalsOnTime' /\ RecordsOK'
  <2>1. ArrivalsOnTime'
    BY <1>1, <1>2 DEF Settled, ArrivalsOnTime
  <2>2. RecordsOK'
    BY <1>1, <1>10 DEF RecordsOK
  <2>. QED
    BY <1>4, <2>1, <2>2
<1>14. WorkOnTime'
  <2>1. \A k \in DOMAIN batches' : batches'[k].dispatch <= now
    BY <1>2, <1>5, <1>7 DEF Settled, WorkOnTime
  <2>. QED
    BY <1>1, <1>2, <1>4, <2>1 DEF Settled, WorkOnTime
<1>15. InBatches' = InBatches \cup X
  <2>1. \A k \in 1..Len(batches) : WaitingIn(k)' = WaitingIn(k)
    BY <1>7 DEF WaitingIn
  <2>2. \A k \in DOMAIN batches' : k = Len(batches) + 1 => WaitingIn(k)' = X
    BY <1>5, <1>7 DEF WaitingIn, X
  <2>3. InBatches' = UNION {WaitingIn(k)' : k \in 1..(Len(batches) + 1)}
    BY <1>7 DEF InBatches
  <2>4. \A k : k \in 1..(Len(batches) + 1) <=> k \in 1..Len(batches) \/ k = Len(batches) + 1
    BY <1>7
  <2>. QED
    BY <1>7, <2>1, <2>2, <2>3, <2>4 DEF InBatches
<1>16. Waiting' = Waiting
  BY <1>4, <1>15 DEF Waiting, InBatches
<1>17. PlacesOK'
  <2>1. ASSUME NEW r \in Requests
        PROVE  /\ IsWaiting(r)' <=> IsWaiting(r)
               /\ IsQueued(r)' <=> IsQueued(r) /\ r \notin X
               /\ IsFormed(r)' <=> IsFormed(r) \/ r \in X
               /\ IsRunning(r)' <=> IsRunning(r)
               /\ IsServed(r)' <=> IsServed(r)
    <3>1. CASE r \in X
      <4>1. now # NoTime
        BY <1>2 DEF NoTime
      <4>2. life[r].admitted # NoTime /\ life[r].start = NoTime /\ life[r].status = "pending"
        BY <1>10, <3>1
      <4>. QED
        BY <1>1, <1>10, <3>1, <4>1, <4>2 DEF IsWaiting, IsQueued, IsFormed, IsRunning, IsServed
    <3>2. CASE r \notin X
      <4>1. life'[r] = life[r]
        BY <1>10, <3>2
      <4>. QED
        BY <1>1, <3>2, <4>1 DEF IsWaiting, IsQueued, IsFormed, IsRunning, IsServed
    <3>. QED
      BY <3>1, <3>2
  <2>2. Running' = Running /\ Served' = Served /\ IdsOf(waiters)' = IdsOf(waiters)
    BY <1>1 DEF Running, Served
  <2>3. IdsOf(t.queue) = IdsOf(sched.queue) \ X
    BY <1>4
  <2>4. \A r \in Requests : r >= index => life'[r].admitted = NoTime /\ life'[r].status = "pending"
    BY <1>2, <1>10 DEF Settled, PlacesOK
  <2>5. /\ IdsOf(waiters)' = {r \in Requests : IsWaiting(r)'}
        /\ Running' = {r \in Requests : IsRunning(r)'}
        /\ Served' = {r \in Requests : IsServed(r)'}
    BY <1>2, <2>1, <2>2 DEF Settled, PlacesOK
  <2>6. IdsOf(sched.queue)' = {r \in Requests : IsQueued(r)'}
    BY <1>2, <2>1, <2>3 DEF Settled, PlacesOK
  <2>7. InBatches' = {r \in Requests : IsFormed(r)'}
    BY <1>2, <1>8, <1>15, <2>1 DEF Settled, PlacesOK
  <2>. QED
    BY <1>1, <2>4, <2>5, <2>6, <2>7 DEF PlacesOK
<1>18. BatchesOK'
  <2>1. \A r \in X : ~IsFormed(r) /\ ~IsRunning(r) /\ ~IsServed(r)
    BY <1>2, <1>8, PlaceStates DEF IsQueued, IsFormed, IsRunning, IsServed
  <2>2. /\ \A k \in DOMAIN batches : \A r \in IdsOf(batches[k].requests) : life'[r] = life[r]
        /\ \A a \in active : \A r \in IdsOf(a.requests) : life'[r] = life[r]
        /\ \A k \in DOMAIN completed : \A r \in IdsOf(completed[k].requests) : life'[r] = life[r]
    BY <1>2, <1>10, <2>1, MemberStates DEF WaitingIn
  <2>3. ASSUME NEW k \in DOMAIN batches PROVE \A c : (c = batches[k] => InBatch(c)')
    BY <1>2, <2>2, BatchStays DEF Settled, BatchesOK
  <2>4. \A a \in active : Started(a)'
    BY <1>2, <2>2, ExecutionStays DEF Settled, BatchesOK
  <2>5. ASSUME NEW k \in DOMAIN completed PROVE \A c : (c = completed[k] => Executed(c)')
    BY <1>2, <2>2, ExecutionStays DEF Settled, BatchesOK
  <2>6. \A c : (c = b => InBatch(c)')
    <3>1. \A r \in X : life'[r].batch = b.id /\ life'[r].dispatch = b.dispatch
      BY <1>5, <1>8, <1>10
    <3>2. Len(b.requests) \in 1..MaxBatch /\ IdsOf(b.requests) = X
      BY <1>4, <1>5 DEF X
    <3>. QED
      BY <3>1, <3>2 DEF InBatch
  <2>7. \A k \in DOMAIN batches' : InBatch(batches[k])'
    BY <1>7, <2>3, <2>6
  <2>8. \A k \in DOMAIN completed' : Executed(completed[k])'
    BY <1>1, <2>5
  <2>. QED
    BY <1>1, <2>4, <2>7, <2>8 DEF BatchesOK
<1>19. OneByOne' /\ InCapacity' /\ (MayWait' <=> MayWait)
  <2>1. Out' = Out /\ Out \in Nat
    BY <1>1, <1>2, BatchFields DEF Out
  <2>2. sched.ordinal = Out + Len(batches)
    BY <1>2 DEF Settled, OneByOne
  <2>3. \A k \in DOMAIN batches' : batches'[k].id = Out' + k - 1
    <3>1. \A k \in 1..Len(batches) : batches[k].id = Out + k - 1
      BY <1>2, <1>7 DEF Settled, OneByOne
    <3>2. b.id = Out + (Len(batches) + 1) - 1
      BY <1>5, <1>7, <2>1, <2>2
    <3>. QED
      BY <1>7, <2>1, <3>1, <3>2
  <2>4. sched'.ordinal = Out' + Len(batches')
    BY <1>4, <1>7, <2>1, <2>2
  <2>5. OneByOne'
    BY <1>1, <1>2, <2>3, <2>4 DEF Settled, OneByOne
  <2>. QED
    BY <1>2, <1>16, <2>5 DEF Settled, InCapacity, MayWait
<1>20. ArrivalsPhase' /\ WorkPhase' /\ LastPhase'
  BY <1>1, <1>4, <1>19 DEF SimInv, Phased, ArrivalsPhase, WorkPhase, LastPhase, Arriving
<1>21. Instant'
  <2>1. RejectedNow' <=> RejectedNow
    BY <1>1, <1>10 DEF RejectedNow
  <2>. QED
    BY <1>1, <2>1 DEF SimInv, Phased, Instant, Instantly
<1>. QED
  BY <1>11, <1>12, <1>13, <1>14, <1>17, <1>18, <1>19, <1>20, <1>21 DEF SimInv, Settled, Phased

-----------------------------------------------------------------------------
(***************************************************************************)
(* The inductive invariant                                                 *)
(***************************************************************************)
\* Before the first event nothing has happened.
LEMMA SimInvInit == SimInit => SimInv
<1>. SUFFICES ASSUME SimInit PROVE SimInv
  OBVIOUS
<1>1. /\ trace \in [Requests -> 0..LastArrival] /\ \A r, s \in Requests : r <= s => trace[r] <= trace[s]
      /\ now = 0 /\ index = 1 /\ waiters = <<>> /\ batches = <<>> /\ active = {} /\ completed = <<>>
      /\ life = [r \in Requests |-> FreshState(trace[r])] /\ pc = "loop"
      /\ \E policy \in Policies : sched = NewScheduler(policy)
  BY DEF SimInit
<1>2. PICK policy \in Policies : sched = NewScheduler(policy)
  BY <1>1
<1>3. /\ sched \in SchedulerType(Requests) /\ sched.queue = <<>> /\ sched.ordinal = 0
      /\ sched.closed = FALSE
  <2>1. (IF Window > 0 THEN Window ELSE NoTime) \in Nat \cup {NoTime}
    BY Numbers
  <2>. QED
    BY <1>2, <2>1 DEF NewScheduler, SchedulerType
<1>4. \A r \in Requests : trace[r] \in Nat
  <2>1. LastArrival \in Nat
    BY SimulationAssumption
  <2>. QED
    BY <1>1, <2>1
<1>5. \A r \in Requests :
        /\ life[r].observed = trace[r] /\ life[r].status = "pending" /\ life[r].reason = FALSE
        /\ life[r].batch = NoBatchId /\ life[r].admitted = NoTime /\ life[r].dispatch = NoTime
        /\ life[r].start = NoTime /\ life[r].first = NoTime /\ life[r].finished = NoTime
        /\ life[r].terminal = NoTime /\ life[r] \in StateType
  BY <1>1, <1>4 DEF FreshState, StateType
<1>6. life \in [Requests -> StateType]
  BY <1>1, <1>5
<1>7. SimTypeOK
  <2>1. trace \in [Requests -> Nat]
    BY <1>1, <1>4
  <2>2. index \in 1..(Count + 1)
    BY <1>1, Numbers
  <2>3. waiters \in Seq(Patients) /\ batches \in Seq(Formeds) /\ completed \in Seq(Actives)
    BY <1>1
  <2>. QED
    BY <1>1, <1>3, <1>6, <2>1, <2>2, <2>3 DEF SimTypeOK, Phases
<1>8. /\ IdsOf(waiters) = {} /\ IdsOf(sched.queue) = {} /\ DOMAIN waiters = {} /\ DOMAIN batches = {}
      /\ DOMAIN completed = {} /\ DOMAIN sched.queue = {} /\ Len(batches) = 0 /\ Len(completed) = 0
  BY <1>1, <1>3 DEF IdsOf
<1>9. InLine /\ HeadDue /\ WorkOnTime /\ BatchesOK
  <2>1. InLine
    BY <1>1, <1>8 DEF InLine, Ascending
  <2>. QED
    BY <1>1, <1>3, <1>8, <2>1 DEF HeadDue, WorkOnTime, BatchesOK
<1>10. ArrivalsOnTime
  <2>1. \A r \in Requests : ~(r < index) /\ now <= trace[r]
    BY <1>1, <1>4 DEF Requests
  <2>. QED
    BY <1>8, <2>1 DEF ArrivalsOnTime
<1>11. RecordsOK
  <2>1. ASSUME NEW r \in Requests PROVE StateOK(life[r], trace[r])
    BY <1>5 DEF StateOK
  <2>2. ASSUME NEW r \in Requests PROVE Past(life[r], now)
    BY <1>1, <1>5 DEF Past, NoTime
  <2>. QED
    BY <2>1, <2>2 DEF RecordsOK
<1>12. PlacesOK
  <2>1. \A r \in Requests : ~IsWaiting(r) /\ ~IsQueued(r) /\ ~IsFormed(r) /\ ~IsRunning(r) /\ ~IsServed(r)
    <3>1. \A r \in Requests : ~(r < index)
      BY <1>1 DEF Requests
    <3>. QED
      BY <1>5, <3>1 DEF IsWaiting, IsQueued, IsFormed, IsRunning, IsServed
  <2>2. InBatches = {} /\ Running = {} /\ Served = {}
    BY <1>1, <1>8 DEF InBatches, Running, Served
  <2>. QED
    BY <1>5, <1>8, <2>1, <2>2 DEF PlacesOK
<1>13. OneByOne
  <2>1. Out = 0
    BY <1>1, <1>8 DEF Out
  <2>. QED
    BY <1>1, <1>3, <1>8, <2>1 DEF OneByOne
<1>14. InCapacity
  <2>1. Waiting = {}
    BY <1>8 DEF Waiting
  <2>. QED
    BY <2>1, Numbers, FS_EmptySet DEF InCapacity
<1>15. Phased
  <2>1. NothingDue
    BY <1>3 DEF NothingDue, eligible_dispatch
  <2>2. ArrivalsPhase
    BY <1>1, <1>8 DEF ArrivalsPhase, DeadlineCame
  <2>3. WorkPhase /\ LastPhase
    BY <1>1, <1>3, <2>1 DEF WorkPhase, LastPhase
  <2>4. Instant
    BY <1>1 DEF Instant
  <2>. QED
    BY <2>2, <2>3, <2>4 DEF Phased
<1>. QED
  BY <1>7, <1>9, <1>10, <1>11, <1>12, <1>13, <1>14, <1>15 DEF SimInv, Settled

\* One step at a time.
LEMMA SimInvNext == SimInv /\ [SimNext]_simVars => SimInv'
<1>. SUFFICES ASSUME SimInv, [SimNext]_simVars PROVE SimInv'
  OBVIOUS
<1>1. CASE NextEvent
  BY <1>1, NextEventKeeps
<1>2. CASE FinishWorker
  BY <1>2, FinishWorkerKeeps
<1>3. CASE StartWorker
  BY <1>3, StartWorkerKeeps
<1>4. CASE AdmitWaiter
  BY <1>4, AdmitWaiterKeeps
<1>5. CASE Arrive
  <2>1. CASE MayWait
    BY <1>5, <2>1, ArriveAdmitted DEF Arrive
  <2>2. CASE ~MayWait
    BY <1>5, <2>2, ArriveWaits DEF Arrive
  <2>. QED
    BY <2>1, <2>2
<1>6. CASE DispatchReady
  BY <1>6, DispatchReadyKeeps
<1>7. CASE Dispatched
  BY <1>7, DispatchedKeeps
<1>8. CASE RejectWaiter
  BY <1>8, RejectWaiterKeeps
<1>9. CASE Close
  BY <1>9, CloseKeeps
<1>10. CASE PartEnds
  BY <1>10, PartEndsKeeps
<1>11. CASE UNCHANGED simVars
  <2>1. UNCHANGED Elsewhere /\ sched' = sched /\ pc' = pc
    BY <1>11 DEF simVars, Elsewhere
  <2>2. SameQueue /\ sched' = sched /\ pc' = pc /\ SimTypeOK
    BY <2>1, SameScheduler DEF SimInv, Settled
  <2>3. Settled' /\ (MayWait' <=> MayWait) /\ (RejectedNow' <=> RejectedNow) /\ (NothingDue' <=> NothingDue)
    BY <2>1, <2>2, MovesOn DEF SimInv, SimTypeOK
  <2>4. Phased'
    BY <2>1, <2>2, <2>3 DEF Elsewhere, SimInv, Phased, ArrivalsPhase, WorkPhase, LastPhase, Instant,
       Arriving, DeadlineCame, Instantly
  <2>. QED
    BY <2>3, <2>4 DEF SimInv
<1>. QED
  BY <1>1, <1>2, <1>3, <1>4, <1>5, <1>6, <1>7, <1>8, <1>9, <1>10, <1>11 DEF SimNext, PartEnds

\* The invariant holds throughout a simulation.
THEOREM SimulationInvariant == SimSpec => []SimInv
<1>. QED
  BY SimInvInit, SimInvNext, PTL DEF SimSpec

-----------------------------------------------------------------------------
(***************************************************************************)
(* What the artifacts say                                                  *)
(***************************************************************************)
\* A queue has at least as many entries as it has requests.
LEMMA IdsCount ==
  ASSUME NEW queue \in Seq(Entries), Len(queue) > 0
  PROVE  /\ IsFiniteSet(IdsOf(queue)) /\ IdsOf(queue) # {}
         /\ Cardinality(IdsOf(queue)) \in 1..Len(queue)
<1>. DEFINE n == Len(queue)
            f == [k \in 1..n |-> queue[k].id]
<1>1. n \in Nat /\ n > 0 /\ DOMAIN queue = 1..n
  OBVIOUS
<1>2. IdsOf(queue) \subseteq Requests /\ IdsOf(queue) # {}
  BY IdsAreRequests
<1>3. IsFiniteSet(IdsOf(queue))
  <2>1. IsFiniteSet(Requests)
    BY FS_Interval, Numbers DEF Requests
  <2>. QED
    BY <1>2, <2>1, FS_Subset
<1>4. f \in Surjection(1..n, IdsOf(queue))
  <2>1. \A k \in 1..n : f[k] \in IdsOf(queue)
    BY <1>1 DEF IdsOf
  <2>2. \A r \in IdsOf(queue) : \E k \in 1..n : f[k] = r
    BY <1>1 DEF IdsOf
  <2>3. f \in [1..n -> IdsOf(queue)]
    BY <2>1
  <2>. HIDE DEF f, n
  <2>. QED
    BY <2>2, <2>3 DEF Surjection
<1>5. ExistsSurjection(1..n, IdsOf(queue))
  BY <1>4 DEF ExistsSurjection
<1>6. Cardinality(IdsOf(queue)) <= n
  BY <1>1, <1>5, FS_SurjCardinalityBound
<1>7. Cardinality(IdsOf(queue)) \in Nat /\ Cardinality(IdsOf(queue)) # 0
  BY <1>2, <1>3, FS_CardinalityType, FS_EmptySet
<1>. HIDE DEF n
<1>8. Cardinality(IdsOf(queue)) \in 1..n
  BY <1>1, <1>6, <1>7
<1>. QED
  BY <1>2, <1>3, <1>8 DEF n

\* A request that came to its end has a row that the validator accepts.
LEMMA RowAccepted ==
  ASSUME NEW r \in Requests, NEW t \in Nat, NEW x \in StateType, StateOK(x, t), x.status # "pending"
  PROVE  EventAccepted(EventRow(r, t, x))
<1>. DEFINE event == EventRow(r, t, x)
            chain == LifecycleOf(event)
            present == {k \in 1..5 : chain[k] # NoTime}
<1>1. /\ event.scheduled = t /\ event.observed = x.observed /\ event.terminal = x.terminal
      /\ event.status = x.status /\ event.reason = x.reason /\ event.batch = x.batch
      /\ event.admitted = x.admitted /\ event.finished = x.finished
      /\ chain[1] = x.admitted /\ chain[2] = x.dispatch /\ chain[3] = x.start
      /\ chain[4] = x.first /\ chain[5] = x.finished
  BY DEF EventRow, LifecycleOf
<1>2. /\ x.admitted \in Nat \cup {NoTime} /\ x.dispatch \in Nat \cup {NoTime}
      /\ x.start \in Nat \cup {NoTime} /\ x.first \in Nat \cup {NoTime}
      /\ x.finished \in Nat \cup {NoTime} /\ x.terminal \in Nat \cup {NoTime}
      /\ x.batch \in Nat \cup {NoBatchId} /\ x.reason \in BOOLEAN
      /\ x.status \in {"completed", "failed", "rejected"}
  BY DEF StateType
<1>3. \A k \in 1..5 : k = 1 \/ k = 2 \/ k = 3 \/ k = 4 \/ k = 5
  OBVIOUS
<1>. SUFFICES /\ event.scheduled <= event.observed /\ event.observed <= event.terminal
              /\ \A k \in present : 1..k \subseteq present
              /\ \A k, l \in present : k <= l => chain[k] <= chain[l]
              /\ 1 \in present => event.observed <= event.admitted
              /\ \/ /\ event.status = "completed"
                    /\ present = 1..5 /\ event.finished = event.terminal
                    /\ event.batch # NoBatchId /\ ~event.reason
                 \/ /\ event.status = "rejected"
                    /\ present = {} /\ event.batch = NoBatchId /\ event.reason
                 \/ event.status = "failed" /\ event.reason
  BY DEF EventAccepted
<1>. HIDE DEF event, chain
<1>4. x.observed = t /\ (x.admitted # NoTime => x.admitted \in t..(t + Timeout))
  BY DEF StateOK
<1>5. CASE x.status = "completed"
  <2>1. /\ x.admitted \in Nat /\ x.dispatch \in Nat /\ x.start \in Nat /\ x.first \in Nat
        /\ x.finished \in Nat /\ x.batch # NoBatchId /\ ~x.reason
        /\ t <= x.admitted /\ x.admitted <= x.dispatch /\ x.dispatch <= x.start
        /\ x.start <= x.first /\ x.first <= x.finished /\ x.finished = x.terminal
    BY <1>2, <1>5, Numbers DEF StateOK, NoTime
  <2>2. present = 1..5
    BY <1>1, <1>3, <2>1 DEF NoTime
  <2>3. \A k, l \in 1..5 : k <= l => chain[k] <= chain[l]
    BY <1>1, <1>3, <2>1
  <2>4. \A k \in 1..5 : 1..k \subseteq 1..5
    OBVIOUS
  <2>5. t <= x.terminal
    BY <2>1
  <2>. HIDE DEF present
  <2>. QED
    BY <1>1, <1>4, <1>5, <2>1, <2>2, <2>3, <2>4, <2>5
<1>6. CASE x.status = "rejected"
  <2>1. /\ x.admitted = NoTime /\ x.dispatch = NoTime /\ x.start = NoTime /\ x.first = NoTime
        /\ x.finished = NoTime /\ x.batch = NoBatchId /\ x.reason /\ x.terminal = t + Timeout
    BY <1>2, <1>6 DEF StateOK
  <2>2. present = {}
    BY <1>1, <1>3, <2>1
  <2>3. t <= x.terminal
    BY <2>1, Numbers
  <2>. HIDE DEF present
  <2>. QED
    BY <1>1, <1>4, <1>6, <2>1, <2>2, <2>3
<1>7. CASE x.status = "failed"
  <2>1. /\ x.admitted \in Nat /\ x.dispatch \in Nat /\ x.start \in Nat /\ x.first = NoTime
        /\ x.finished = NoTime /\ x.reason
        /\ t <= x.admitted /\ x.admitted <= x.dispatch /\ x.dispatch <= x.start
        /\ x.start <= x.terminal
    BY <1>2, <1>7, Numbers DEF StateOK, NoTime
  <2>2. present = 1..3
    BY <1>1, <1>3, <2>1 DEF NoTime
  <2>3. \A k, l \in 1..3 : k <= l => chain[k] <= chain[l]
    BY <1>1, <1>3, <2>1
  <2>4. \A k \in 1..3 : 1..k \subseteq 1..3
    OBVIOUS
  <2>5. t <= x.terminal
    BY <1>2, <2>1 DEF NoTime
  <2>. HIDE DEF present
  <2>. QED
    BY <1>1, <1>4, <1>7, <2>1, <2>2, <2>3, <2>4, <2>5
<1>. QED
  BY <1>2, <1>5, <1>6, <1>7

\* Once the loop is done nothing is pending.
LEMMA NothingPending ==
  ASSUME Settled, LastPhase, pc = "done", NEW r \in Requests
  PROVE  life[r].status # "pending"
<1>1. index = Count + 1 /\ waiters = <<>> /\ sched.queue = <<>> /\ batches = <<>> /\ active = {}
  BY DEF LastPhase
<1>2. IdsOf(waiters) = {} /\ IdsOf(sched.queue) = {} /\ InBatches = {} /\ Running = {}
  BY <1>1 DEF IdsOf, InBatches, Running
<1>3. ~IsWaiting(r) /\ ~IsQueued(r) /\ ~IsFormed(r) /\ ~IsRunning(r)
  BY <1>2 DEF Settled, PlacesOK
<1>4. r < index
  BY <1>1, Numbers DEF Requests
<1>. QED
  BY <1>3, <1>4 DEF IsWaiting, IsQueued, IsFormed, IsRunning

\* The row of a batch is accepted,
LEMMA BatchRowAccepted ==
  ASSUME Settled, NEW k \in DOMAIN completed
  PROVE  BatchAccepted(BatchRow(completed[k]))
<1>. DEFINE b == completed[k]
            row == BatchRow(b)
<1>1. /\ b \in Actives /\ Executed(b)
  BY BatchFields DEF Settled, BatchesOK
<1>2. /\ b.requests \in Seq(Entries) /\ b.dispatch \in Nat /\ b.start \in Nat /\ b.first \in Nat
      /\ b.finish \in Nat /\ b.failed \in BOOLEAN /\ Len(b.requests) \in 1..MaxBatch
      /\ b.dispatch <= b.start /\ b.start <= b.first /\ b.first <= b.finish
  BY <1>1 DEF Actives, Executed, Started, InBatch
<1>. HIDE DEF b
<1>3. /\ row.members = IdsOf(b.requests) /\ row.dispatch = b.dispatch /\ row.start = b.start
      /\ row.first = (IF b.failed THEN NoTime ELSE b.first) /\ row.finished = b.finish
      /\ row.status = (IF b.failed THEN "failed" ELSE "completed") /\ row.reason = b.failed
  BY DEF BatchRow
<1>. HIDE DEF row
<1>4. Cardinality(row.members) \in 1..MaxBatch
  <2>1. Len(b.requests) > 0 /\ Len(b.requests) \in Nat
    BY <1>2
  <2>2. Cardinality(IdsOf(b.requests)) \in 1..Len(b.requests)
    BY <1>2, <2>1, IdsCount
  <2>. QED
    BY <1>2, <1>3, <2>1, <2>2, Numbers
<1>5. row.dispatch <= row.start /\ row.start <= row.finished
  BY <1>2, <1>3
<1>6. row.first # NoTime => row.first \in row.start..row.finished
  BY <1>2, <1>3
<1>7. \/ row.status = "completed" /\ ~row.reason /\ row.first # NoTime
      \/ row.status = "failed" /\ row.reason
  BY <1>2, <1>3 DEF NoTime
<1>8. BatchAccepted(row)
  BY <1>4, <1>5, <1>6, <1>7 DEF BatchAccepted
<1>. QED
  BY <1>8 DEF row, b

\* ... two batches share neither a number nor a request,
LEMMA CompletedApart ==
  ASSUME Settled, NEW k \in DOMAIN completed, NEW l \in DOMAIN completed, k # l
  PROVE  /\ completed[k].id # completed[l].id
         /\ IdsOf(completed[k].requests) \cap IdsOf(completed[l].requests) = {}
<1>1. completed[k].id # completed[l].id
  BY BatchFields DEF Settled, OneByOne
<1>2. \A r \in IdsOf(completed[k].requests) : life[r].batch = completed[k].id
  BY DEF Settled, BatchesOK, Executed, Started, InBatch
<1>3. \A r \in IdsOf(completed[l].requests) : life[r].batch = completed[l].id
  BY DEF Settled, BatchesOK, Executed, Started, InBatch
<1>. QED
  BY <1>1, <1>2, <1>3

\* ... and the rows of its requests agree with it.
LEMMA MembersAgree ==
  ASSUME Settled, NEW k \in DOMAIN completed
  PROVE  \A r \in IdsOf(completed[k].requests) :
           /\ r \in Requests
           /\ Agree(EventRow(r, trace[r], life[r]), BatchRow(completed[k]))
           /\ life[r].terminal = completed[k].finish /\ completed[k].finish \in Nat
<1>. DEFINE b == completed[k]
            row == BatchRow(b)
<1>1. /\ b \in Actives /\ Executed(b) /\ b.failed \in BOOLEAN
      /\ IdsOf(b.requests) \subseteq Requests /\ b.finish \in Nat
  BY BatchFields DEF Settled, BatchesOK, Actives
<1>. HIDE DEF b
<1>2. /\ row.id = b.id /\ row.dispatch = b.dispatch /\ row.start = b.start
      /\ row.first = (IF b.failed THEN NoTime ELSE b.first) /\ row.finished = b.finish
      /\ row.status = (IF b.failed THEN "failed" ELSE "completed") /\ row.reason = b.failed
  BY DEF BatchRow
<1>. HIDE DEF row
<1>3. ASSUME NEW r \in IdsOf(b.requests)
      PROVE  r \in Requests /\ Agree(EventRow(r, trace[r], life[r]), row) /\ life[r].terminal = b.finish
  <2>. DEFINE event == EventRow(r, trace[r], life[r])
  <2>1. /\ event.batch = life[r].batch /\ event.dispatch = life[r].dispatch
        /\ event.start = life[r].start /\ event.status = life[r].status
        /\ event.reason = life[r].reason /\ event.first = life[r].first
        /\ event.finished = life[r].finished
    BY DEF EventRow
  <2>2. /\ life[r].batch = b.id /\ life[r].dispatch = b.dispatch /\ life[r].start = b.start
        /\ life[r].terminal = b.finish
        /\ life[r].status = IF b.failed THEN "failed" ELSE "completed"
        /\ ~b.failed => life[r].first = b.first /\ life[r].finished = b.finish
        /\ b.failed => life[r].reason
        /\ ~b.failed => ~life[r].reason
    BY <1>1 DEF Executed, Started, InBatch
  <2>3. life[r].reason \in BOOLEAN
    BY <1>1 DEF Settled, SimTypeOK, StateType
  <2>. HIDE DEF event
  <2>4. event.reason = row.reason
    BY <1>1, <1>2, <2>1, <2>2, <2>3
  <2>5. row.status = "completed" => ~b.failed
    BY <1>2
  <2>6. Agree(event, row)
    BY <1>2, <2>1, <2>2, <2>4, <2>5 DEF Agree
  <2>. QED
    BY <1>1, <2>2, <2>6 DEF event
<1>. QED
  BY <1>1, <1>3 DEF row, b

\* Every artifact of a finished simulation is accepted.
LEMMA RowsConsistent == SimInv => SimRowsConsistent
<1>. SUFFICES ASSUME SimInv, pc = "done"
              PROVE  /\ \A r \in Requests : life[r].status # "pending"
                     /\ validate_case_artifacts(
                          {EventRow(r, trace[r], life[r]) : r \in Requests},
                          {BatchRow(completed[k]) : k \in DOMAIN completed})
                     /\ \A k, l \in DOMAIN completed : k < l => completed[k].finish <= completed[l].start
  BY DEF SimRowsConsistent
<1>. DEFINE events == {EventRow(r, trace[r], life[r]) : r \in Requests}
            rows == {BatchRow(completed[k]) : k \in DOMAIN completed}
            batched == UNION {batch.members : batch \in rows}
<1>1. Settled /\ LastPhase
  BY DEF SimInv, Phased
<1>2. \A r \in Requests : life[r].status # "pending"
  BY <1>1, NothingPending
<1>3. \A event \in events : EventAccepted(event)
  <2>1. ASSUME NEW r \in Requests PROVE EventAccepted(EventRow(r, trace[r], life[r]))
    <3>1. life[r] \in StateType /\ trace[r] \in Nat /\ StateOK(life[r], trace[r])
      BY <1>1 DEF Settled, SimTypeOK, RecordsOK
    <3>. QED
      BY <1>2, <3>1, RowAccepted
  <2>. QED
    BY <2>1
<1>4. \A k \in DOMAIN completed : /\ BatchRow(completed[k]).members = IdsOf(completed[k].requests)
                                  /\ BatchRow(completed[k]).id = completed[k].id
                                  /\ BatchRow(completed[k]).finished = completed[k].finish
  BY DEF BatchRow
<1>5. BatchesAccepted(rows)
  <2>1. \A batch \in rows : BatchAccepted(batch)
    BY <1>1, BatchRowAccepted
  <2>2. ASSUME NEW a \in rows, NEW b \in rows, a # b
        PROVE  a.id # b.id /\ a.members \cap b.members = {}
    <3>1. PICK k \in DOMAIN completed : a = BatchRow(completed[k])
      OBVIOUS
    <3>2. PICK l \in DOMAIN completed : b = BatchRow(completed[l])
      OBVIOUS
    <3>3. k # l
      BY <2>2, <3>1, <3>2
    <3>. QED
      BY <1>1, <1>4, <3>1, <3>2, <3>3, CompletedApart
  <2>. QED
    BY <2>1, <2>2 DEF BatchesAccepted
<1>6. batched = {event.id : event \in {e \in events : e.status # "rejected"}}
  <2>1. batched = Served
    BY <1>4 DEF Served
  <2>2. \A r \in Requests : /\ EventRow(r, trace[r], life[r]).id = r
                            /\ EventRow(r, trace[r], life[r]).status = life[r].status
    BY DEF EventRow
  <2>3. \A r \in Requests : IsServed(r) <=> life[r].status # "rejected"
    BY <1>1, <1>2 DEF Settled, SimTypeOK, StateType, IsServed
  <2>4. Served = {r \in Requests : life[r].status # "rejected"}
    BY <1>1, <2>3 DEF Settled, PlacesOK
  <2>. QED
    BY <2>1, <2>2, <2>4
<1>7. ASSUME NEW batch \in rows
      PROVE  LET members == {e \in events : e.id \in batch.members}
             IN  /\ \A event \in members : Agree(event, batch)
                 /\ batch.finished \in {e.terminal : e \in members}
                 /\ \A event \in members : event.terminal <= batch.finished
  <2>. DEFINE members == {e \in events : e.id \in batch.members}
  <2>1. PICK k \in DOMAIN completed : batch = BatchRow(completed[k])
    OBVIOUS
  <2>2. batch.members = IdsOf(completed[k].requests) /\ batch.finished = completed[k].finish
    BY <1>4, <2>1
  <2>3. \A r \in batch.members :
          /\ r \in Requests /\ Agree(EventRow(r, trace[r], life[r]), batch)
          /\ life[r].terminal = batch.finished /\ batch.finished \in Nat
    BY <1>1, <2>1, <2>2, MembersAgree
  <2>4. \A r \in Requests : /\ EventRow(r, trace[r], life[r]).id = r
                            /\ EventRow(r, trace[r], life[r]).terminal = life[r].terminal
    BY DEF EventRow
  <2>5. ASSUME NEW event \in members
        PROVE  Agree(event, batch) /\ event.terminal <= batch.finished
    <3>1. PICK r \in Requests : event = EventRow(r, trace[r], life[r])
      OBVIOUS
    <3>2. r \in batch.members
      BY <2>4, <3>1
    <3>. QED
      BY <2>3, <2>4, <3>1, <3>2
  <2>6. \E r \in batch.members : TRUE
    <3>1. completed[k].requests \in Seq(Entries) /\ Len(completed[k].requests) > 0
      BY <1>1, BatchFields, Numbers DEF Settled, BatchesOK, Executed, Started, InBatch
    <3>. QED
      BY <2>2, <3>1, IdsAreRequests
  <2>7. batch.finished \in {e.terminal : e \in members}
    <3>1. PICK r \in batch.members : TRUE
      BY <2>6
    <3>2. EventRow(r, trace[r], life[r]) \in members
      BY <2>3, <2>4, <3>1
    <3>. QED
      BY <2>3, <2>4, <3>1, <3>2
  <2>. QED
    BY <2>5, <2>7
<1>8. validate_case_artifacts(events, rows)
  <2>. HIDE DEF events, rows
  <2>. QED
    BY <1>3, <1>5, <1>6, <1>7 DEF validate_case_artifacts
<1>9. \A k, l \in DOMAIN completed : k < l => completed[k].finish <= completed[l].start
  BY <1>1 DEF Settled, OneByOne
<1>. QED
  BY <1>2, <1>8, <1>9

\* What SimHonest says follows from the invariant.
LEMMA HonestByInvariant == SimInv => SimHonest
<1>. SUFFICES ASSUME SimInv PROVE SimHonest
  OBVIOUS
<1>1. Settled /\ Phased
  BY DEF SimInv
<1>2. CapacityHeld
  <2>1. ASSUME NEW k \in DOMAIN batches PROVE WaitingIn(k) \cap IdsOf(sched.queue) = {}
    <3>1. \A r \in WaitingIn(k) : IsFormed(r)
      BY <1>1, MemberStates
    <3>2. \A r \in IdsOf(sched.queue) : IsQueued(r)
      BY <1>1 DEF Settled, PlacesOK
    <3>. QED
      BY <3>1, <3>2 DEF IsFormed, IsQueued
  <2>. QED
    BY <1>1, <2>1, BatchesApart DEF Settled, InCapacity, CapacityHeld
<1>3. WorkConserving
  BY <1>1 DEF Phased, ArrivalsPhase, WorkPhase, LastPhase, WorkConserving
<1>4. SimOwnDeadline
  BY <1>1 DEF Settled, RecordsOK, StateOK, SimOwnDeadline
<1>. QED
  BY <1>2, <1>3, <1>4, RowsConsistent DEF SimHonest

\* What the artifacts of a simulated case say is true, whatever the trace, the
\* policy and the service times: the capacity and every waiter's own deadline were
\* kept, the worker was never idle beside a batch, and the rows agree.
THEOREM SimulationHonest == SimSpec => []SimHonest
<1>. QED
  BY SimulationInvariant, HonestByInvariant, PTL

\* A slot that becomes free exactly at a deadline goes to the waiter: after a
\* rejection the worker starts no batch at the same instant, unless it follows one
\* that took no time.
THEOREM SlotWinsAtDeadline == SimSpec => DeadlineSlotWins
<1>1. SimInv /\ [SimNext]_simVars =>
        [ /\ \E r \in Requests : life[r].status = "rejected" /\ life[r].terminal = now
          /\ active = {} /\ active' # {}
          => \E k \in DOMAIN completed :
               completed[k].start = now /\ completed[k].finish = now ]_simVars
  <2>. SUFFICES ASSUME SimInv, SimNext, RejectedNow, active = {}, active' # {}
                PROVE  \E k \in DOMAIN completed : Instantly(completed[k])
    BY DEF RejectedNow, Instantly, simVars
  <2>1. StartWorker
    <3>1. active' # active
      OBVIOUS
    <3>2. ~NextEvent /\ ~NothingFinishes /\ ~NothingStarts /\ ~AdmitWaiter /\ ~WaitersAdmitted
      BY <3>1 DEF NextEvent, NothingFinishes, NothingStarts, AdmitWaiter, WaitersAdmitted
    <3>3. ~Arrive /\ ~NoMoreArrive /\ ~DispatchReady /\ ~Dispatched /\ ~RejectWaiter
      BY <3>1 DEF Arrive, NoMoreArrive, DispatchReady, Dispatched, RejectWaiter
    <3>4. ~FinishWorker /\ ~WaitersRejected /\ ~Close /\ ~Drained
      BY <3>1 DEF FinishWorker, WaitersRejected, Close, Drained
    <3>. QED
      BY <3>2, <3>3, <3>4 DEF SimNext
  <2>2. pc \in {"start", "restart"}
    BY <2>1 DEF StartWorker, CanStart, SimInv, Phased, LastPhase
  <2>. QED
    BY <2>2 DEF SimInv, Phased, Instant
<1>. QED
  BY <1>1, SimulationInvariant, PTL DEF SimSpec, DeadlineSlotWins

-----------------------------------------------------------------------------
(***************************************************************************)
(* The simulation implements the service                                   *)
(***************************************************************************)
\* The stage that the record of a request says it is in.
StageOf(x) ==
  IF x.status # "pending" THEN x.status
  ELSE IF x.start # NoTime THEN "running"
  ELSE IF x.dispatch # NoTime THEN "formed"
  ELSE IF x.admitted # NoTime THEN "queued"
  ELSE "scheduled"

\* ... is the one it is in:
StagesRecorded == \A r \in Requests : Stage(r) = StageOf(life[r])

\* ... which the places of the requests bear out,
LEMMA StageByRecord == Settled => StagesRecorded
<1>. SUFFICES ASSUME Settled, NEW r \in Requests PROVE Stage(r) = StageOf(life[r])
  BY DEF StagesRecorded
<1>1. /\ r \in IdsOf(sched.queue) <=> IsQueued(r)
      /\ r \in UNION {WaitingIn(k) : k \in DOMAIN batches} <=> IsFormed(r)
      /\ r \in UNION {IdsOf(a.requests) : a \in active} <=> IsRunning(r)
  BY DEF Settled, PlacesOK, InBatches, Running
<1>2. /\ IsFormed(r) => life[r].status = "pending" /\ life[r].admitted # NoTime
      /\ IsRunning(r) => life[r].dispatch # NoTime /\ life[r].admitted # NoTime
      /\ life[r].admitted = NoTime => life[r].dispatch = NoTime /\ life[r].start = NoTime
  BY PlaceStates
<1>3. life[r].start # NoTime => life[r].dispatch # NoTime
  BY DEF Settled, RecordsOK, StateOK
<1>. QED
  BY <1>1, <1>2, <1>3 DEF Stage, StageOf, IsQueued, IsFormed, IsRunning

\* ... now and after a step.
LEMMA StagesNext == Settled' => StagesRecorded'
  BY StageByRecord, PTL

\* The service counts as the simulation does.
LEMMA SameCardinality == \A S : Service!Cardinality(S) = Cardinality(S)
  BY DEF Service!Cardinality, Cardinality

\* Who is at a stage, the places say.
LEMMA AtPlaces ==
  ASSUME Settled
  PROVE  /\ Service!At("queued") = IdsOf(sched.queue)
         /\ Service!At("running") = Running
         /\ \A r \in Service!At("scheduled") :
              r \in Requests /\ (r < index => r \in IdsOf(waiters))
         /\ \A r \in Requests : life[r].admitted = NoTime /\ life[r].status = "pending" =>
              r \in Service!At("scheduled")
<1>1. \A r \in Requests : Stage(r) = StageOf(life[r])
  BY StageByRecord DEF StagesRecorded
<1>2. \A s : Service!At(s) = {r \in Requests : Stage(r) = s}
  BY DEF Service!At
<1>3. ASSUME NEW r \in Requests
      PROVE  /\ Stage(r) = "queued" <=> IsQueued(r)
             /\ Stage(r) = "running" <=> IsRunning(r)
             /\ Stage(r) = "scheduled" <=> life[r].admitted = NoTime /\ life[r].status = "pending"
  <2>1. life[r].status \in {"pending", "completed", "failed", "rejected"}
    BY DEF Settled, SimTypeOK, StateType
  <2>2. /\ IsQueued(r) => life[r].status = "pending" /\ life[r].start = NoTime
        /\ IsRunning(r) => life[r].dispatch # NoTime /\ life[r].admitted # NoTime
        /\ life[r].admitted = NoTime => life[r].dispatch = NoTime /\ life[r].start = NoTime
    BY PlaceStates
  <2>. QED
    BY <1>1, <2>1, <2>2 DEF StageOf, IsQueued, IsRunning
<1>4. \A r \in Requests :
        r < index /\ life[r].admitted = NoTime /\ life[r].status = "pending" => r \in IdsOf(waiters)
  BY DEF Settled, PlacesOK, IsWaiting
<1>. QED
  BY <1>2, <1>3, <1>4 DEF Settled, PlacesOK

\* The requests of X move to another stage, if the other records stay.
LEMMA MoveByRecord ==
  ASSUME Settled, Settled', NEW X \in SUBSET Requests, NEW to,
         \A r \in X : StageOf(life'[r]) = to,
         \A r \in Requests \ X : StageOf(life'[r]) = StageOf(life[r])
  PROVE  Service!Move(X, to)
<1>1. \A r \in Requests : Stage(r) = StageOf(life[r]) /\ Stage(r)' = StageOf(life'[r])
  BY StageByRecord, StagesNext DEF StagesRecorded
<1>2. \A r \in Requests : Stage(r)' = IF r \in X THEN to ELSE Stage(r)
  BY <1>1
<1>. QED
  BY <1>2 DEF Service!Move

\* Nobody moves.
LEMMA StagesStay ==
  ASSUME UNCHANGED <<life, batches, active>>, sched'.queue = sched.queue
  PROVE  [Service!ServiceNext]_Service!serviceVars
<1>1. life' = life /\ batches' = batches /\ active' = active
  OBVIOUS
<1>2. \A r \in Requests : Stage(r)' = Stage(r)
  BY <1>1 DEF Stage, WaitingIn
<1>3. \A k \in DOMAIN batches : WaitingIn(k)' = WaitingIn(k)
  BY <1>1 DEF WaitingIn
<1>. QED
  BY <1>1, <1>2, <1>3 DEF Service!serviceVars

\* The formed batches stay.
LEMMA ReadyStays ==
  ASSUME UNCHANGED batches
  PROVE  [k \in DOMAIN batches |-> WaitingIn(k)]' = [k \in DOMAIN batches |-> WaitingIn(k)]
  BY DEF WaitingIn

\* The formed batches, as sets of requests.
LEMMA ReadySequence ==
  ASSUME SimTypeOK
  PROVE  LET formed == [k \in DOMAIN batches |-> WaitingIn(k)]
         IN  formed \in Seq(SUBSET Requests) /\ Len(formed) = Len(batches)
<1>1. /\ DOMAIN batches = 1..Len(batches) /\ Len(batches) \in Nat
      /\ \A k \in DOMAIN batches : WaitingIn(k) \in SUBSET Requests
  BY BatchFields
<1>. QED
  BY <1>1

\* The waiter at the head has waited longest.
LEMMA HeadIsOldest ==
  ASSUME Settled, waiters # <<>>
  PROVE  /\ waiters[1].id \in Requests /\ Service!Oldest(waiters[1].id)
         /\ life[waiters[1].id].admitted = NoTime /\ life[waiters[1].id].status = "pending"
<1>1. /\ SimTypeOK /\ Ascending(waiters) /\ 1 \in DOMAIN waiters /\ index \in Nat
      /\ waiters[1].id \in Requests /\ waiters[1].id \in Nat
  BY WaiterFields, Numbers DEF Settled, SimTypeOK, InLine, Requests
<1>2. waiters[1].id \in IdsOf(waiters)
  BY <1>1 DEF IdsOf
<1>3. IsWaiting(waiters[1].id)
  BY <1>2 DEF Settled, PlacesOK
<1>4. waiters[1].id \in Service!At("scheduled")
  BY <1>1, <1>3, AtPlaces DEF IsWaiting
<1>5. ASSUME NEW s \in Service!At("scheduled") PROVE waiters[1].id <= s
  <2>1. s \in Requests /\ s \in Nat /\ (s < index => s \in IdsOf(waiters))
    BY AtPlaces DEF Requests
  <2>2. CASE s < index
    <3>1. PICK k \in DOMAIN waiters : s = waiters[k].id
      BY <2>1, <2>2 DEF IdsOf
    <3>2. k = 1 \/ 1 < k
      BY <1>1, <3>1 DEF SimTypeOK
    <3>3. 1 < k => waiters[1].id < waiters[k].id
      BY <1>1, <3>1 DEF Ascending
    <3>. QED
      BY <1>1, <2>1, <3>1, <3>2, <3>3
  <2>3. CASE ~(s < index)
    BY <1>1, <1>3, <2>1, <2>3 DEF IsWaiting
  <2>. QED
    BY <2>2, <2>3
<1>. QED
  BY <1>1, <1>3, <1>4, <1>5 DEF Service!Oldest, IsWaiting

\* An admission is an Enqueue of the service,
LEMMA AdmitServes ==
  ASSUME Settled, Settled', NEW r \in Requests, Service!Oldest(r), admit(r), MayWait,
         life[r].admitted = NoTime, life[r].status = "pending", UNCHANGED batches
  PROVE  [Service!ServiceNext]_Service!serviceVars
<1>1. life \in [Requests -> StateType] /\ now \in Nat /\ life' = [life EXCEPT ![r].admitted = now]
  BY DEF Settled, SimTypeOK, admit
<1>2. /\ life'[r] = [life[r] EXCEPT !.admitted = now] /\ life[r] \in StateType
      /\ \A s \in Requests \ {r} : life'[s] = life[s]
  BY <1>1
<1>3. life[r].start = NoTime /\ life[r].dispatch = NoTime
  BY PlaceStates
<1>4. StageOf(life'[r]) = "queued"
  BY <1>1, <1>2, <1>3 DEF StageOf, StateType, NoTime
<1>5. Service!Move({r}, "queued")
  BY <1>2, <1>4, MoveByRecord
<1>6. Cardinality(Service!At("queued")) < Capacity
  <2>1. IdsOf(sched.queue) \subseteq Waiting /\ Service!At("queued") = IdsOf(sched.queue)
    BY AtPlaces DEF Waiting
  <2>2. IsFiniteSet(Waiting) /\ Cardinality(Waiting) \in Nat /\ Cardinality(Waiting) < Capacity
    BY WaitingFinite DEF Settled, MayWait
  <2>3. Cardinality(IdsOf(sched.queue)) <= Cardinality(Waiting) /\ Cardinality(IdsOf(sched.queue)) \in Nat
    BY <2>1, <2>2, FS_Subset, FS_CardinalityType
  <2>. QED
    BY <2>1, <2>2, <2>3, Numbers
<1>7. Service!Enqueue(r)
  BY <1>5, <1>6, ReadyStays, SameCardinality DEF Service!Enqueue
<1>. QED
  BY <1>7 DEF Service!ServiceNext

\* ... a rejection is a Reject,
LEMMA RejectServes ==
  ASSUME Settled, Settled', RejectWaiter
  PROVE  [Service!ServiceNext]_Service!serviceVars
<1>1. PICK r \in Requests : r = waiters[1].id
  BY HeadIsOldest DEF RejectWaiter, DeadlineCame
<1>2. Service!Oldest(r)
  BY <1>1, HeadIsOldest DEF RejectWaiter, DeadlineCame
<1>3. /\ life \in [Requests -> StateType] /\ batches' = batches
      /\ life' = [life EXCEPT ![r] = [life[r] EXCEPT !.status = "rejected", !.reason = TRUE,
                                                     !.terminal = now]]
  BY <1>1 DEF Settled, SimTypeOK, RejectWaiter
<1>4. /\ life'[r] = [life[r] EXCEPT !.status = "rejected", !.reason = TRUE, !.terminal = now]
      /\ \A s \in Requests \ {r} : life'[s] = life[s] /\ life[r] \in StateType
  BY <1>3
<1>5. StageOf(life'[r]) = "rejected"
  BY <1>3, <1>4 DEF StageOf, StateType
<1>6. Service!Move({r}, "rejected")
  BY <1>4, <1>5, MoveByRecord
<1>7. Service!Reject(r)
  BY <1>2, <1>3, <1>6, ReadyStays DEF Service!Reject
<1>. QED
  BY <1>7 DEF Service!ServiceNext

\* ... the end of a batch is a Finish,
LEMMA FinishServes ==
  ASSUME Settled, Settled', FinishWorker
  PROVE  [Service!ServiceNext]_Service!serviceVars
<1>1. PICK a \in active : record([r \in IdsOf(a.requests) |-> Recorded(life[r], a)])
  BY DEF FinishWorker
<1>2. a \in Actives /\ Started(a) /\ active = {a} /\ batches' = batches
  BY ActiveFields DEF Settled, OneByOne, BatchesOK, FinishWorker
<1>3. PICK X \in SUBSET Requests : X = IdsOf(a.requests)
  BY <1>2, BatchFields DEF Settled
<1>4. X = Running /\ X # {}
  <2>1. X = Running
    BY <1>2, <1>3 DEF Running
  <2>2. a.requests \in Seq(Entries) /\ Len(a.requests) > 0
    BY <1>2, Numbers DEF Started, InBatch, Actives
  <2>. QED
    BY <1>3, <2>1, <2>2, IdsAreRequests
<1>5. PICK outcome \in Service!Outcomes : outcome = IF a.failed THEN "failed" ELSE "completed"
  BY DEF Service!Outcomes
<1>6. /\ \A r \in X : life'[r] = Recorded(life[r], a)
      /\ \A r \in Requests \ X : life'[r] = life[r]
  BY <1>1, <1>3 DEF record
<1>7. ASSUME NEW r \in X PROVE StageOf(life'[r]) = outcome
  <2>1. life[r] \in StateType /\ life'[r] = Recorded(life[r], a)
    BY <1>6 DEF Settled, SimTypeOK
  <2>2. Recorded(life[r], a).status = outcome
    BY <1>5, <2>1 DEF Recorded, StateType
  <2>3. outcome # "pending"
    BY <1>5
  <2>. QED
    BY <2>1, <2>2, <2>3 DEF StageOf
<1>8. Service!Move(X, outcome)
  BY <1>6, <1>7, MoveByRecord
<1>9. Service!At("running") = X
  BY <1>4, AtPlaces
<1>10. Service!Finish(outcome)
  BY <1>2, <1>4, <1>8, <1>9, ReadyStays DEF Service!Finish
<1>. QED
  BY <1>10 DEF Service!ServiceNext

\* ... the start of a batch is a Start,
LEMMA StartServes ==
  ASSUME Settled, Settled', StartWorker
  PROVE  [Service!ServiceNext]_Service!serviceVars
<1>. DEFINE formed == [k \in DOMAIN batches |-> WaitingIn(k)]
<1>1. /\ active = {} /\ batches # <<>> /\ batches' = Tail(batches) /\ SimTypeOK /\ now \in Nat
      /\ record([r \in WaitingIn(1) |-> [life[r] EXCEPT !.start = now]])
  BY DEF StartWorker, CanStart, Settled, SimTypeOK
<1>2. /\ batches \in Seq(Formeds) /\ Len(batches) \in Nat /\ Len(batches) > 0 /\ 1 \in DOMAIN batches
      /\ DOMAIN batches = 1..Len(batches) /\ DOMAIN batches' = 1..(Len(batches) - 1)
      /\ \A k \in 1..(Len(batches) - 1) : batches'[k] = batches[k + 1]
  BY <1>1 DEF SimTypeOK
<1>3. PICK X \in SUBSET Requests : X = WaitingIn(1)
  BY <1>1, <1>2, BatchFields
<1>4. /\ \A r \in X : life'[r] = [life[r] EXCEPT !.start = now]
      /\ \A r \in Requests \ X : life'[r] = life[r]
  BY <1>1, <1>3 DEF record
<1>5. ASSUME NEW r \in X PROVE StageOf(life'[r]) = "running"
  <2>1. life[r] \in StateType /\ life'[r] = [life[r] EXCEPT !.start = now]
    BY <1>1, <1>4 DEF SimTypeOK
  <2>2. life[r].status = "pending"
    BY <1>2, <1>3, MemberStates, PlaceStates
  <2>. QED
    BY <1>1, <2>1, <2>2 DEF StageOf, StateType, NoTime
<1>6. Service!Move(X, "running")
  BY <1>4, <1>5, MoveByRecord
<1>7. /\ formed \in Seq(SUBSET Requests) /\ Len(formed) = Len(batches) /\ DOMAIN formed = 1..Len(batches)
      /\ \A k \in 1..Len(batches) : formed[k] = WaitingIn(k)
  BY <1>1, <1>2, ReadySequence
<1>8. formed' = [k \in 1..(Len(batches) - 1) |-> WaitingIn(k + 1)]
  <2>1. \A k \in DOMAIN batches' : WaitingIn(k)' = WaitingIn(k + 1)
    BY <1>2 DEF WaitingIn
  <2>. QED
    BY <1>2, <2>1
<1>9. formed' = Tail(formed)
  <2>. DEFINE next == formed'
              rest == Tail(formed)
  <2>1. \A k \in 1..(Len(batches) - 1) : k + 1 \in 1..Len(batches) /\ WaitingIn(k + 1) \in SUBSET Requests
    BY <1>1, <1>2, BatchFields
  <2>2. /\ next \in Seq(SUBSET Requests) /\ Len(next) = Len(batches) - 1
        /\ \A k \in 1..(Len(batches) - 1) : next[k] = WaitingIn(k + 1)
    BY <1>2, <1>8, <2>1
  <2>3. /\ rest \in Seq(SUBSET Requests) /\ Len(rest) = Len(batches) - 1
        /\ \A k \in 1..(Len(batches) - 1) : rest[k] = WaitingIn(k + 1)
    <3>. HIDE DEF formed
    <3>1. /\ Tail(formed) \in Seq(SUBSET Requests) /\ Len(Tail(formed)) = Len(batches) - 1
          /\ \A k \in 1..(Len(batches) - 1) : Tail(formed)[k] = formed[k + 1]
      BY <1>2, <1>7
    <3>. QED
      BY <1>7, <2>1, <3>1
  <2>. HIDE DEF next, rest
  <2>4. next = rest
    BY <2>2, <2>3, SeqEqual
  <2>. QED
    BY <2>4 DEF next, rest
<1>10. formed # <<>> /\ Head(formed) = X /\ Service!At("running") = {}
  <2>1. Running = {}
    BY <1>1 DEF Running
  <2>2. Service!At("running") = {}
    BY <2>1, AtPlaces
  <2>. HIDE DEF formed
  <2>3. formed # <<>> /\ Head(formed) = formed[1]
    BY <1>2, <1>7
  <2>. QED
    BY <1>2, <1>3, <1>7, <2>2, <2>3
<1>11. Service!Start
  BY <1>6, <1>9, <1>10 DEF Service!Start
<1>. QED
  BY <1>11 DEF Service!ServiceNext

\* ... and a dispatch is a Form.
LEMMA DispatchServes ==
  ASSUME SimInv, Settled', DispatchReady
  PROVE  [Service!ServiceNext]_Service!serviceVars
<1>. DEFINE formed == [k \in DOMAIN batches |-> WaitingIn(k)]
<1>1. Settled /\ SimTypeOK /\ ~sched.closed /\ now \in Nat /\ now' = now
  BY DEF SimInv, Settled, SimTypeOK, Phased, LastPhase, DispatchReady
<1>2. PICK d \in eligible_dispatch(sched, now) :
        /\ sched' = AfterPop(MoveTo(sched, now), d)
        /\ batches' = Append(batches, Formed(PoppedBatch(sched, d)))
        /\ record([r \in IdsOf(Formed(PoppedBatch(sched, d)).requests) |->
                     [life[r] EXCEPT !.dispatch = Formed(PoppedBatch(sched, d)).dispatch,
                                     !.batch = Formed(PoppedBatch(sched, d)).id]])
  BY DEF DispatchReady
<1>. DEFINE front == PoppedBatch(sched, d).requests
            t == sched'
<1>3. /\ d.at = now /\ front \in Seq(Entries) /\ Len(front) \in 1..MaxBatch
      /\ IdsOf(front) \cup IdsOf(t.queue) = IdsOf(sched.queue)
      /\ \A r \in IdsOf(front), s \in IdsOf(t.queue) : r < s
  BY <1>1, <1>2, PopKeeps
<1>. DEFINE b == Formed(PoppedBatch(sched, d))
<1>4. b.id = sched.ordinal /\ b.requests = front /\ b.dispatch = now
  BY <1>3 DEF Formed, PoppedBatch
<1>. HIDE DEF b, front, t
<1>5. PICK X \in SUBSET Requests : X = IdsOf(front)
  BY <1>3, IdsAreRequests
<1>6. batches' = Append(batches, b)
      /\ record([r \in X |-> [life[r] EXCEPT !.dispatch = now, !.batch = sched.ordinal]])
  BY <1>2, <1>4, <1>5 DEF b
<1>7. /\ \A r \in X : life'[r] = [life[r] EXCEPT !.dispatch = now, !.batch = sched.ordinal]
      /\ \A r \in Requests \ X : life'[r] = life[r]
  BY <1>6 DEF record
<1>8. /\ DOMAIN batches = 1..Len(batches) /\ Len(batches) \in Nat
      /\ DOMAIN batches' = 1..(Len(batches) + 1)
      /\ \A k \in 1..Len(batches) : batches'[k] = batches[k]
      /\ batches'[Len(batches) + 1] = b
  <2>1. batches \in Seq(Formeds) /\ batches' = Append(batches, b)
    BY <1>1, <1>6 DEF SimTypeOK
  <2>. QED
    BY <2>1
<1>9. \A r \in X : IsQueued(r)
  BY <1>1, <1>3, <1>5 DEF Settled, PlacesOK
<1>10. ASSUME NEW r \in X PROVE StageOf(life'[r]) = "formed"
  <2>1. life[r] \in StateType /\ life'[r] = [life[r] EXCEPT !.dispatch = now, !.batch = sched.ordinal]
    BY <1>1, <1>7 DEF SimTypeOK
  <2>2. life[r].status = "pending" /\ life[r].start = NoTime
    BY <1>1, <1>9, PlaceStates
  <2>. QED
    BY <1>1, <2>1, <2>2 DEF StageOf, StateType, NoTime
<1>11. Service!Move(X, "formed")
  BY <1>1, <1>7, <1>10, MoveByRecord
<1>12. formed' = [k \in 1..(Len(batches) + 1) |-> IF k \in 1..Len(batches) THEN WaitingIn(k) ELSE X]
  <2>1. \A k \in DOMAIN batches' : WaitingIn(k)' = IF k \in 1..Len(batches) THEN WaitingIn(k) ELSE X
    BY <1>4, <1>5, <1>8 DEF WaitingIn
  <2>. QED
    BY <1>8, <2>1
<1>13. formed' = Append(formed, X)
  <2>. DEFINE next == formed'
              old == formed
  <2>1. \A k \in 1..Len(batches) : WaitingIn(k) \in SUBSET Requests
    BY <1>1, <1>8, BatchFields
  <2>2. /\ next \in Seq(SUBSET Requests) /\ Len(next) = Len(batches) + 1
        /\ \A k \in 1..(Len(batches) + 1) :
             next[k] = IF k \in 1..Len(batches) THEN WaitingIn(k) ELSE X
    BY <1>8, <1>12, <2>1
  <2>3. /\ old \in Seq(SUBSET Requests) /\ Len(old) = Len(batches)
        /\ \A k \in 1..Len(batches) : old[k] = WaitingIn(k)
    BY <1>1, <1>8, ReadySequence
  <2>. HIDE DEF next, old
  <2>4. /\ Append(old, X) \in Seq(SUBSET Requests) /\ Len(Append(old, X)) = Len(batches) + 1
        /\ \A k \in 1..(Len(batches) + 1) :
             Append(old, X)[k] = IF k \in 1..Len(batches) THEN WaitingIn(k) ELSE X
    <3>1. X \in SUBSET Requests
      OBVIOUS
    <3>2. /\ Append(old, X) \in Seq(SUBSET Requests) /\ Len(Append(old, X)) = Len(batches) + 1
          /\ \A k \in 1..Len(batches) : Append(old, X)[k] = old[k]
          /\ Append(old, X)[Len(batches) + 1] = X
      BY <1>8, <2>3, <3>1
    <3>3. \A k \in 1..(Len(batches) + 1) : k \in 1..Len(batches) \/ k = Len(batches) + 1
      BY <1>8
    <3>4. ~(Len(batches) + 1 \in 1..Len(batches))
      BY <1>8
    <3>. QED
      BY <2>3, <3>2, <3>3, <3>4
  <2>5. next = Append(old, X)
    BY <2>2, <2>4, SeqEqual
  <2>. QED
    BY <2>5 DEF next, old
<1>14. X # {} /\ X \subseteq Service!At("queued") /\ Cardinality(X) <= MaxBatch
  <2>1. Len(front) > 0 /\ Len(front) <= MaxBatch /\ Len(front) \in Nat
    BY <1>3, Numbers
  <2>2. X # {} /\ Cardinality(X) \in 1..Len(front)
    BY <1>3, <1>5, <2>1, IdsCount
  <2>3. X \subseteq Service!At("queued")
    BY <1>1, <1>3, <1>5, AtPlaces
  <2>. QED
    BY <2>1, <2>2, <2>3, Numbers
<1>15. \A r \in X, s \in Service!At("queued") \ X : r < s
  BY <1>1, <1>3, <1>5, AtPlaces
<1>16. Service!Form(X)
  BY <1>11, <1>13, <1>14, <1>15, SameCardinality DEF Service!Form
<1>. QED
  BY <1>16 DEF Service!ServiceNext

\* Before the first event everybody is still to come.
LEMMA InitServes == SimInit => Service!ServiceInit
<1>. SUFFICES ASSUME SimInit PROVE Service!ServiceInit
  OBVIOUS
<1>1. life = [r \in Requests |-> FreshState(trace[r])] /\ batches = <<>>
  BY DEF SimInit
<1>2. \A r \in Requests : Stage(r) = StageOf(life[r])
  BY SimInvInit, StageByRecord DEF SimInv, StagesRecorded
<1>3. \A r \in Requests : StageOf(life[r]) = "scheduled"
  BY <1>1 DEF FreshState, StageOf
<1>4. [r \in Requests |-> Stage(r)] = [r \in Requests |-> "scheduled"]
  BY <1>2, <1>3
<1>5. [k \in DOMAIN batches |-> WaitingIn(k)] = <<>>
  BY <1>1
<1>. QED
  BY <1>4, <1>5 DEF Service!ServiceInit

\* Every step of the simulation is one of the service, or none.
LEMMA StepServes ==
  SimInv /\ SimInv' /\ [SimNext]_simVars => [Service!ServiceNext]_Service!serviceVars
<1>. SUFFICES ASSUME SimInv, SimInv', [SimNext]_simVars
              PROVE  [Service!ServiceNext]_Service!serviceVars
  OBVIOUS
<1>0. Settled /\ Settled'
  BY DEF SimInv
<1>1. CASE NextEvent
  <2>1. UNCHANGED <<life, batches, active>> /\ sched'.queue = sched.queue
    BY <1>1 DEF NextEvent
  <2>. QED
    BY <2>1, StagesStay
<1>2. CASE FinishWorker
  BY <1>0, <1>2, FinishServes
<1>3. CASE StartWorker
  BY <1>0, <1>3, StartServes
<1>4. CASE AdmitWaiter
  <2>1. waiters # <<>> /\ MayWait /\ admit(waiters[1].id) /\ UNCHANGED batches
    BY <1>4 DEF AdmitWaiter, CanAdmit
  <2>2. PICK r \in Requests : r = waiters[1].id
    BY <1>0, <2>1, HeadIsOldest
  <2>3. Service!Oldest(r) /\ life[r].admitted = NoTime /\ life[r].status = "pending"
    BY <1>0, <2>1, <2>2, HeadIsOldest
  <2>4. admit(r)
    BY <2>1, <2>2
  <2>. QED
    BY <1>0, <2>1, <2>3, <2>4, AdmitServes
<1>5. CASE Arrive
  <2>1. CASE MayWait
    <3>1. /\ pc = "arrive" /\ index <= Count /\ admit(index) /\ UNCHANGED batches
          /\ index \in 1..(Count + 1)
      BY <1>0, <1>5, <2>1 DEF Arrive, Arriving, Settled, SimTypeOK
    <3>2. PICK r \in Requests : r = index
      BY <3>1, Numbers DEF Requests
    <3>3. waiters = <<>>
      BY <2>1, <3>1 DEF SimInv, Phased, ArrivalsPhase
    <3>4. IdsOf(waiters) = {}
      BY <3>3 DEF IdsOf
    <3>5. life[r].admitted = NoTime /\ life[r].status = "pending"
      BY <1>0, <3>1, <3>2 DEF Settled, PlacesOK
    <3>6. Service!Oldest(r)
      <4>1. r \in Service!At("scheduled")
        BY <1>0, <3>5, AtPlaces
      <4>2. \A s \in Service!At("scheduled") : s \in Requests /\ ~(s < index)
        BY <1>0, <3>4, AtPlaces
      <4>3. \A s \in Service!At("scheduled") : r <= s
        BY <3>1, <3>2, <4>2 DEF Requests
      <4>. QED
        BY <4>1, <4>3 DEF Service!Oldest
    <3>7. admit(r)
      BY <3>1, <3>2
    <3>. QED
      BY <1>0, <2>1, <3>1, <3>5, <3>6, <3>7, AdmitServes
  <2>2. CASE ~MayWait
    <3>1. UNCHANGED <<life, batches, active>> /\ sched'.queue = sched.queue
      BY <1>5, <2>2 DEF Arrive
    <3>. QED
      BY <3>1, StagesStay
  <2>. QED
    BY <2>1, <2>2
<1>6. CASE DispatchReady
  BY <1>0, <1>6, DispatchServes
<1>7. CASE Dispatched
  <2>1. UNCHANGED <<life, batches, active>> /\ sched'.queue = sched.queue
    BY <1>7 DEF Dispatched, MoveTo
  <2>. QED
    BY <2>1, StagesStay
<1>8. CASE RejectWaiter
  BY <1>0, <1>8, RejectServes
<1>9. CASE Close
  <2>1. UNCHANGED <<life, batches, active>> /\ sched'.queue = sched.queue
    BY <1>9 DEF Close, MoveTo, AfterClose
  <2>. QED
    BY <2>1, StagesStay
<1>10. CASE PartEnds
  <2>1. UNCHANGED <<life, batches, active, sched>>
    BY <1>10 DEF PartEnds, NothingFinishes, NothingStarts, WaitersAdmitted, NoMoreArrive,
       WaitersRejected, Drained
  <2>. QED
    BY <2>1, StagesStay
<1>11. CASE UNCHANGED simVars
  <2>1. UNCHANGED <<life, batches, active, sched>>
    BY <1>11 DEF simVars
  <2>. QED
    BY <2>1, StagesStay
<1>. QED
  BY <1>1, <1>2, <1>3, <1>4, <1>5, <1>6, <1>7, <1>8, <1>9, <1>10, <1>11 DEF SimNext, PartEnds

\* simulate_case implements the batching service: for every trace, policy and backend
\* its requests pass the bounded queue in arrival order, leave it in batches of bounded
\* size, and are executed one batch at a time, each exactly once.
THEOREM SimulationServes == SimSpec => Serves
<1>. QED
  BY InitServes, SimulationInvariant, StepServes, PTL DEF SimSpec, Serves, Service!ServiceSpec
=============================================================================
