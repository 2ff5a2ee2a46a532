------------------------- MODULE TraceReplayProofs --------------------------
(***************************************************************************)
(* The capacity of the replay client and what it publishes, for any number *)
(* of workers, requests, traces, client runs, server starts and changes of *)
(* Week 3, wherever it is killed.                                          *)
(***************************************************************************)
EXTENDS TraceReplay, FiniteSetTheorems, WellFoundedInduction, TLAPS

USE ReplayAssumption

Stages == {"waiting", "submitted", "running", "finished", "counted out", "released"}

Pcs == {"idle", "case", "gate", "submit", "drain", "unwind"}

Replaying == {"submit", "drain", "unwind"}

USE DEF Replaying

PoolTypeOK ==
  /\ main \in [pc: Pcs, all: BOOLEAN, ident: Nat, planned: Nat, trace: Nat, rows: Nat,
               case: Nat, i: Nat]
  /\ pool \in [permits: Nat, count: Nat, peak: Nat]
  /\ req \in [Requests -> [st: Stages, at: Nat, by: Nat, raised: BOOLEAN]]
  /\ now \in Nat /\ attempt \in Nat
  /\ week03 \in [run: Nat, whole: BOOLEAN, trace: Nat, receipt: Nat, files: Nat]

\* Who holds a permit: until it is released, which is after the request is counted out.
Holding == {r \in Requests : req[r].st \in {"submitted", "running", "finished", "counted out"}}

\* No permit is lost or made, and the counter is exact.
PermitsAddUp ==
  /\ pool.permits + Cardinality(Holding) = Workers
  /\ pool.count = Cardinality(InFlight)
  /\ pool.count <= pool.peak /\ pool.peak <= Workers

\* The requests are submitted in order, each of them once, and outside of a replay none is.
InOrder ==
  /\ main.i \in Requests
  /\ main.pc = "submit" => \A r \in Requests : r >= main.i => req[r].st = "waiting"
  /\ main.pc \notin Replaying => req = NoRequests /\ pool = FullPool

PoolInv == PoolTypeOK /\ PermitsAddUp /\ InOrder

LEMMA RequestsFinite == IsFiniteSet(Requests) /\ 1 \in Requests /\ Requests \subseteq Nat
<1>1. IsFiniteSet(1..Cardinality(Requests))
  BY FS_Interval
<1>. QED
  BY <1>1

LEMMA MaxLemma ==
  ASSUME NEW a \in Nat, NEW b \in Nat
  PROVE  Max({a, b}) \in {a, b} /\ a <= Max({a, b}) /\ b <= Max({a, b})
<1>1. \E x \in {a, b} : \A y \in {a, b} : x >= y
  OBVIOUS
<1>. QED
  BY <1>1 DEF Max

LEMMA CountsAreFinite ==
  ASSUME PoolTypeOK
  PROVE  /\ IsFiniteSet(Holding) /\ IsFiniteSet(InFlight)
         /\ Cardinality(Holding) \in Nat /\ Cardinality(InFlight) \in Nat
         /\ Cardinality(InFlight) <= Cardinality(Holding)
<1>1. Holding \subseteq Requests /\ InFlight \subseteq Holding
  BY DEF Holding, InFlight
<1>2. IsFiniteSet(Holding) /\ IsFiniteSet(InFlight)
  BY <1>1, RequestsFinite, FS_Subset
<1>3. Cardinality(InFlight) <= Cardinality(Holding)
  BY <1>1, <1>2, FS_Subset
<1>. QED
  BY <1>2, <1>3, FS_CardinalityType

\* A client that is not in a replay has all of its capacity.
LEMMA FreshPool ==
  ASSUME req = NoRequests, pool = FullPool
  PROVE  PermitsAddUp
<1>1. Holding = {} /\ InFlight = {}
  BY DEF Holding, InFlight, NoRequests, NoRequest
<1>2. Cardinality({}) = 0
  BY FS_EmptySet
<1>. QED
  BY <1>1, <1>2 DEF PermitsAddUp, FullPool

LEMMA FreshTypes == /\ NoRequests \in [Requests -> [st: Stages, at: Nat, by: Nat, raised: BOOLEAN]]
                    /\ FullPool \in [permits: Nat, count: Nat, peak: Nat]
                    /\ Idle \in [pc: Pcs, all: BOOLEAN, ident: Nat, planned: Nat, trace: Nat,
                                 rows: Nat, case: Nat, i: Nat]
BY DEF NoRequests, NoRequest, FullPool, Idle, Stages, Pcs

LEMMA PoolInitHolds == ReplayInit => PoolInv
<1>. SUFFICES ASSUME ReplayInit PROVE PoolInv
  OBVIOUS
<1>1. req = NoRequests /\ pool = FullPool /\ main = Idle
  BY DEF ReplayInit
<1>2. PoolTypeOK
  BY <1>1, FreshTypes DEF ReplayInit, PoolTypeOK
<1>3. InOrder
  BY <1>1, RequestsFinite DEF InOrder, Idle
<1>. QED
  BY <1>1, <1>2, <1>3, FreshPool DEF PoolInv

\* The steps that put the pool and the requests back to their beginning.
LEMMA Emptied ==
  ASSUME PoolInv, pool' = FullPool, req' = NoRequests, now' = 0, attempt' = attempt,
         week03' = week03, main'.pc \notin Replaying, main'.i \in Requests,
         main' \in [pc: Pcs, all: BOOLEAN, ident: Nat, planned: Nat, trace: Nat, rows: Nat,
                    case: Nat, i: Nat]
  PROVE  PoolInv'
<1>1. PoolTypeOK'
  BY FreshTypes DEF PoolInv, PoolTypeOK
<1>2. InOrder'
  BY DEF InOrder
<1>3. Holding' = {} /\ InFlight' = {}
  BY DEF Holding, InFlight, NoRequests, NoRequest
<1>4. PermitsAddUp'
  BY <1>3, FS_EmptySet DEF PermitsAddUp, FullPool
<1>. QED
  BY <1>1, <1>2, <1>4 DEF PoolInv

\* A step that leaves the capacity, the requests and the Week 3 files alone.
LEMMA Aside ==
  ASSUME PoolInv, UNCHANGED <<pool, req, now>>, attempt' \in Nat,
         week03' \in [run: Nat, whole: BOOLEAN, trace: Nat, receipt: Nat, files: Nat],
         main' \in [pc: Pcs, all: BOOLEAN, ident: Nat, planned: Nat, trace: Nat, rows: Nat,
                    case: Nat, i: Nat],
         InOrder'
  PROVE  PoolInv'
<1>1. PoolTypeOK'
  BY DEF PoolInv, PoolTypeOK
<1>2. Holding' = Holding /\ InFlight' = InFlight
  BY DEF Holding, InFlight
<1>3. PermitsAddUp'
  BY <1>2 DEF PoolInv, PermitsAddUp
<1>. QED
  BY <1>1, <1>3 DEF PoolInv

\* The client at another place of its program.
LEMMA MainsLemma ==
  ASSUME PoolInv, NEW pc \in Pcs
  PROVE  /\ [main EXCEPT !.pc = pc] \in [pc: Pcs, all: BOOLEAN, ident: Nat, planned: Nat,
                                         trace: Nat, rows: Nat, case: Nat, i: Nat]
         /\ [main EXCEPT !.pc = pc].pc = pc /\ [main EXCEPT !.pc = pc].i = main.i
BY DEF PoolInv, PoolTypeOK

\* A record of a request with another stage.
LEMMA WithStage ==
  ASSUME NEW rec \in [st: Stages, at: Nat, by: Nat, raised: BOOLEAN], NEW s \in Stages
  PROVE  /\ [rec EXCEPT !.st = s] \in [st: Stages, at: Nat, by: Nat, raised: BOOLEAN]
         /\ [rec EXCEPT !.st = s].st = s
OBVIOUS

\* A worker's step on its request, which is not waiting and waits no more.
LEMMA OnRequest ==
  ASSUME PoolInv, NEW r \in Requests, NEW new \in [st: Stages, at: Nat, by: Nat, raised: BOOLEAN],
         req[r].st # "waiting", req' = [req EXCEPT ![r] = new],
         UNCHANGED <<main, now, week03, attempt>>,
         pool' \in [permits: Nat, count: Nat, peak: Nat]
  PROVE  /\ PoolTypeOK' /\ InOrder'
         /\ \A q \in Requests : q # r => req'[q] = req[q]
         /\ req'[r] = new
<1>1. req \in [Requests -> [st: Stages, at: Nat, by: Nat, raised: BOOLEAN]]
  BY DEF PoolInv, PoolTypeOK
<1>2. PoolTypeOK'
  BY <1>1 DEF PoolInv, PoolTypeOK
<1>3. main.pc \in Replaying
  BY DEF PoolInv, InOrder, NoRequests, NoRequest
<1>4. /\ \A q \in Requests : q # r => req'[q] = req[q]
      /\ req'[r] = new
  BY <1>1
<1>5. InOrder'
  BY <1>3, <1>4, RequestsFinite DEF PoolInv, InOrder
<1>. QED
  BY <1>2, <1>4, <1>5

\* A request keeps its permit and stays in flight.
LEMMA StaysInFlight ==
  ASSUME PoolInv, NEW r \in Requests, NEW new \in [st: Stages, at: Nat, by: Nat, raised: BOOLEAN],
         req[r].st \in {"submitted", "running"}, new.st \in {"running", "finished"},
         req' = [req EXCEPT ![r] = new], UNCHANGED <<main, pool, now, week03, attempt>>
  PROVE  PoolInv'
<1>1. pool' \in [permits: Nat, count: Nat, peak: Nat]
  BY DEF PoolInv, PoolTypeOK
<1>2. /\ PoolTypeOK' /\ InOrder'
      /\ \A q \in Requests : q # r => req'[q] = req[q]
      /\ req'[r] = new
  BY <1>1, OnRequest
<1>3. Holding' = Holding /\ InFlight' = InFlight
  BY <1>2 DEF Holding, InFlight
<1>4. PermitsAddUp'
  BY <1>3 DEF PoolInv, PermitsAddUp
<1>. QED
  BY <1>2, <1>4 DEF PoolInv

LEMMA StartKeeps ==
  ASSUME PoolInv, NEW r \in Requests, StartRequest(r)
  PROVE  PoolInv'
<1>. DEFINE new == [st |-> "running", at |-> now, raised |-> FALSE, by |-> attempt]
<1>1. new \in [st: Stages, at: Nat, by: Nat, raised: BOOLEAN] /\ new.st = "running"
  BY DEF PoolInv, PoolTypeOK, Stages
<1>2. /\ req[r].st = "submitted" /\ req' = [req EXCEPT ![r] = new]
      /\ UNCHANGED <<main, pool, now, week03, attempt>>
  BY DEF StartRequest
<1>. QED
  BY <1>1, <1>2, StaysInFlight

LEMMA FinishKeeps ==
  ASSUME PoolInv, NEW r \in Requests, FinishRequest(r)
  PROVE  PoolInv'
<1>. DEFINE Record == [st: Stages, at: Nat, by: Nat, raised: BOOLEAN]
<1>1. req \in [Requests -> Record] /\ req[r] \in Record
  BY DEF PoolInv, PoolTypeOK
<1>2. /\ req[r].st = "running" /\ UNCHANGED <<main, pool, now, week03, attempt>>
  BY DEF FinishRequest
<1>3. \E new \in Record : new.st = "finished" /\ req' = [req EXCEPT ![r] = new]
  <2>1. CASE req' = [req EXCEPT ![r].st = "finished"]
    <3>1. [req[r] EXCEPT !.st = "finished"] \in Record
      BY <1>1 DEF Stages
    <3>2. req' = [req EXCEPT ![r] = [req[r] EXCEPT !.st = "finished"]]
      BY <2>1
    <3>3. [req[r] EXCEPT !.st = "finished"].st = "finished"
      BY <1>1
    <3>. QED
      BY <3>1, <3>2, <3>3
  <2>2. CASE req' = [req EXCEPT ![r] = [@ EXCEPT !.st = "finished", !.by = 0]]
    <3>1. [req[r] EXCEPT !.st = "finished", !.by = 0] \in Record
      BY <1>1 DEF Stages
    <3>2. req' = [req EXCEPT ![r] = [req[r] EXCEPT !.st = "finished", !.by = 0]]
      BY <2>2
    <3>3. [req[r] EXCEPT !.st = "finished", !.by = 0].st = "finished"
      BY <1>1
    <3>. QED
      BY <3>1, <3>2, <3>3
  <2>3. CASE req' = [req EXCEPT ![r] = [NoRequest EXCEPT !.st = "finished", !.raised = TRUE]]
    <3>1. /\ [NoRequest EXCEPT !.st = "finished", !.raised = TRUE] \in Record
          /\ [NoRequest EXCEPT !.st = "finished", !.raised = TRUE].st = "finished"
      BY DEF NoRequest, Stages
    <3>. QED
      BY <2>3, <3>1
  <2>. QED
    BY <2>1, <2>2, <2>3 DEF FinishRequest
<1>. QED
  BY <1>2, <1>3, StaysInFlight

LEMMA UncountKeeps ==
  ASSUME PoolInv, NEW r \in Requests, Uncount(r)
  PROVE  PoolInv'
<1>. DEFINE new == [req[r] EXCEPT !.st = "counted out"]
<1>1. /\ req \in [Requests -> [st: Stages, at: Nat, by: Nat, raised: BOOLEAN]]
      /\ pool \in [permits: Nat, count: Nat, peak: Nat]
  BY DEF PoolInv, PoolTypeOK
<1>2. /\ req[r].st = "finished" /\ UNCHANGED <<main, now, week03, attempt>>
      /\ req' = [req EXCEPT ![r].st = "counted out"] /\ pool' = [pool EXCEPT !.count = @ - 1]
  BY DEF Uncount, Counted
<1>3. /\ new \in [st: Stages, at: Nat, by: Nat, raised: BOOLEAN]
      /\ new.st = "counted out" /\ req' = [req EXCEPT ![r] = new]
  <2>1. "counted out" \in Stages /\ req[r] \in [st: Stages, at: Nat, by: Nat, raised: BOOLEAN]
    BY <1>1 DEF Stages
  <2>2. req' = [req EXCEPT ![r] = new]
    BY <1>2
  <2>. QED
    BY <2>1, <2>2, WithStage
<1>4. r \in InFlight /\ InFlight \subseteq Holding
  BY <1>2 DEF InFlight, Holding
<1>5. IsFiniteSet(InFlight) /\ Cardinality(InFlight) \in Nat
  BY CountsAreFinite DEF PoolInv
<1>6. Cardinality(InFlight \ {r}) = Cardinality(InFlight) - 1 /\ Cardinality(InFlight \ {r}) \in Nat
  <2>1. Cardinality(InFlight \ {r}) = Cardinality(InFlight) - 1
    BY <1>4, <1>5, FS_RemoveElement
  <2>2. IsFiniteSet(InFlight \ {r})
    BY <1>5, FS_RemoveElement
  <2>. QED
    BY <2>1, <2>2, FS_CardinalityType
<1>7. pool.count = Cardinality(InFlight)
  BY DEF PoolInv, PermitsAddUp
<1>8. /\ pool'.permits = pool.permits /\ pool'.peak = pool.peak /\ pool'.count = pool.count - 1
      /\ pool' \in [permits: Nat, count: Nat, peak: Nat]
  BY <1>1, <1>2, <1>6, <1>7
<1>9. /\ PoolTypeOK' /\ InOrder'
      /\ \A q \in Requests : q # r => req'[q] = req[q]
      /\ req'[r].st = "counted out"
  <2>. HIDE DEF new
  <2>1. req[r].st # "waiting"
    BY <1>2
  <2>. QED
    BY <1>2, <1>3, <1>8, <2>1, OnRequest
<1>10. Holding' = Holding /\ InFlight' = InFlight \ {r}
  BY <1>2, <1>9 DEF Holding, InFlight
<1>11. PermitsAddUp'
  BY <1>1, <1>6, <1>7, <1>8, <1>10 DEF PoolInv, PermitsAddUp
<1>. QED
  BY <1>9, <1>11 DEF PoolInv

LEMMA ReleaseKeeps ==
  ASSUME PoolInv, NEW r \in Requests, Release(r)
  PROVE  PoolInv'
<1>. DEFINE new == [req[r] EXCEPT !.st = "released"]
<1>1. /\ req \in [Requests -> [st: Stages, at: Nat, by: Nat, raised: BOOLEAN]]
      /\ pool \in [permits: Nat, count: Nat, peak: Nat]
  BY DEF PoolInv, PoolTypeOK
<1>2. /\ req[r].st = "counted out" /\ UNCHANGED <<main, now, week03, attempt>>
      /\ req' = [req EXCEPT ![r].st = "released"] /\ pool' = [pool EXCEPT !.permits = @ + 1]
  BY DEF Release
<1>3. /\ new \in [st: Stages, at: Nat, by: Nat, raised: BOOLEAN]
      /\ new.st = "released" /\ req' = [req EXCEPT ![r] = new]
  <2>1. "released" \in Stages /\ req[r] \in [st: Stages, at: Nat, by: Nat, raised: BOOLEAN]
    BY <1>1 DEF Stages
  <2>2. req' = [req EXCEPT ![r] = new]
    BY <1>2
  <2>. QED
    BY <2>1, <2>2, WithStage
<1>4. r \in Holding /\ r \notin InFlight
  BY <1>2 DEF InFlight, Holding
<1>5. IsFiniteSet(Holding) /\ Cardinality(Holding) \in Nat
  BY CountsAreFinite DEF PoolInv
<1>6. Cardinality(Holding \ {r}) = Cardinality(Holding) - 1
  BY <1>4, <1>5, FS_RemoveElement
<1>7. /\ pool'.permits = pool.permits + 1 /\ pool'.peak = pool.peak /\ pool'.count = pool.count
      /\ pool' \in [permits: Nat, count: Nat, peak: Nat]
  <2>1. pool' = [permits |-> pool.permits + 1, count |-> pool.count, peak |-> pool.peak]
    BY <1>1, <1>2
  <2>. QED
    BY <1>1, <2>1
<1>8. /\ PoolTypeOK' /\ InOrder'
      /\ \A q \in Requests : q # r => req'[q] = req[q]
      /\ req'[r].st = "released"
  <2>. HIDE DEF new
  <2>1. req[r].st # "waiting"
    BY <1>2
  <2>. QED
    BY <1>2, <1>3, <1>7, <2>1, OnRequest
<1>9. Holding' = Holding \ {r} /\ InFlight' = InFlight
  BY <1>2, <1>8 DEF Holding, InFlight
<1>10. PermitsAddUp'
  BY <1>1, <1>5, <1>6, <1>7, <1>9 DEF PoolInv, PermitsAddUp
<1>. QED
  BY <1>8, <1>10 DEF PoolInv

\* The permit that is taken was free, so that one more request may be in flight.
LEMMA SubmitKeeps ==
  ASSUME PoolInv, Submit
  PROVE  PoolInv'
<1>. DEFINE r   == main.i
            new == [req[r] EXCEPT !.st = "submitted"]
            Mains == [pc: Pcs, all: BOOLEAN, ident: Nat, planned: Nat, trace: Nat, rows: Nat,
                      case: Nat, i: Nat]
<1>1. /\ req \in [Requests -> [st: Stages, at: Nat, by: Nat, raised: BOOLEAN]]
      /\ pool \in [permits: Nat, count: Nat, peak: Nat]
      /\ main \in Mains /\ now \in Nat /\ attempt \in Nat
  BY DEF PoolInv, PoolTypeOK
<1>2. /\ main.pc = "submit" /\ r \in Requests
      /\ \A q \in Requests : q >= r => req[q].st = "waiting"
  BY DEF Submit, At, PoolInv, InOrder
<1>3. req[r].st = "waiting" /\ r \in Nat
  BY <1>2, RequestsFinite
<1>4. /\ new \in [st: Stages, at: Nat, by: Nat, raised: BOOLEAN]
      /\ new.st = "submitted" /\ req' = [req EXCEPT ![r] = new]
  <2>1. "submitted" \in Stages /\ req[r] \in [st: Stages, at: Nat, by: Nat, raised: BOOLEAN]
    BY <1>1, <1>2 DEF Stages
  <2>2. req' = [req EXCEPT ![r] = new]
    BY DEF Submit
  <2>. QED
    BY <2>1, <2>2, WithStage
<1>5. /\ \A q \in Requests : q # r => req'[q] = req[q]
      /\ req'[r].st = "submitted"
  <2>. HIDE DEF new
  <2>. QED
    BY <1>1, <1>2, <1>4
<1>6. r \notin Holding /\ r \notin InFlight
  BY <1>3 DEF InFlight, Holding
<1>7. Holding' = Holding \cup {r} /\ InFlight' = InFlight \cup {r}
  BY <1>2, <1>3, <1>5 DEF Holding, InFlight
<1>8. /\ IsFiniteSet(Holding) /\ IsFiniteSet(InFlight)
      /\ Cardinality(Holding) \in Nat /\ Cardinality(InFlight) \in Nat
      /\ Cardinality(InFlight) <= Cardinality(Holding)
  BY CountsAreFinite DEF PoolInv
<1>9. /\ Cardinality(Holding \cup {r}) = Cardinality(Holding) + 1
      /\ Cardinality(InFlight \cup {r}) = Cardinality(InFlight) + 1
  BY <1>6, <1>8, FS_AddElement
<1>10. /\ pool.permits > 0
       /\ pool' = [permits |-> pool.permits - 1, count |-> pool.count + 1,
                   peak |-> Max({pool.peak, pool.count + 1})]
  BY DEF Submit
<1>11. /\ Max({pool.peak, pool.count + 1}) \in {pool.peak, pool.count + 1}
       /\ pool.count + 1 <= Max({pool.peak, pool.count + 1})
  <2>1. pool.peak \in Nat /\ pool.count + 1 \in Nat
    BY <1>1
  <2>. QED
    BY <2>1, MaxLemma
<1>12. PermitsAddUp /\ Workers \in Nat
  BY DEF PoolInv
<1>13. PermitsAddUp'
  <2>. DEFINE top == Max({pool.peak, pool.count + 1})
  <2>1. pool'.permits = pool.permits - 1 /\ pool'.count = pool.count + 1 /\ pool'.peak = top
    BY <1>10
  <2>. HIDE DEF top
  <2>2. top \in {pool.peak, pool.count + 1} /\ pool.count + 1 <= top
    BY <1>11 DEF top
  <2>3. pool.permits \in Nat /\ pool.count \in Nat /\ pool.peak \in Nat
    BY <1>1
  <2>4. /\ pool.permits + Cardinality(Holding) = Workers /\ pool.count = Cardinality(InFlight)
        /\ pool.peak <= Workers
    BY <1>12 DEF PermitsAddUp
  <2>5. pool.count + 1 <= Workers
    BY <1>8, <1>10, <1>12, <2>3, <2>4
  <2>6. pool'.peak <= Workers /\ pool'.count <= pool'.peak
    BY <2>1, <2>2, <2>4, <2>5
  <2>7. Cardinality(Holding') = Cardinality(Holding) + 1 /\ Cardinality(InFlight') = Cardinality(InFlight) + 1
    BY <1>7, <1>9
  <2>8. pool'.permits + Cardinality(Holding') = Workers /\ pool'.count = Cardinality(InFlight')
    BY <1>8, <1>12, <2>1, <2>3, <2>4, <2>7
  <2>. QED
    BY <2>6, <2>8 DEF PermitsAddUp
<1>14. /\ main' \in Mains /\ main'.pc \in {"submit", "drain"} /\ main'.i \in Requests
       /\ main'.pc = "submit" => main'.i = r + 1
  <2>1. main' = IF r + 1 \in Requests THEN [main EXCEPT !.i = @ + 1]
                ELSE [main EXCEPT !.pc = "drain"]
    BY DEF Submit
  <2>2. CASE r + 1 \in Requests
    <3>1. main' = [pc |-> "submit", all |-> main.all, ident |-> main.ident,
                   planned |-> main.planned, trace |-> main.trace, rows |-> main.rows,
                   case |-> main.case, i |-> r + 1]
      BY <1>1, <1>2, <2>1, <2>2
    <3>2. "submit" \in Pcs /\ r + 1 \in Nat
      BY <1>3 DEF Pcs
    <3>. QED
      BY <1>1, <2>2, <3>1, <3>2
  <2>3. CASE r + 1 \notin Requests
    <3>1. "drain" \in Pcs
      BY DEF Pcs
    <3>. QED
      BY <1>2, <2>1, <2>3, <3>1, MainsLemma
  <2>. QED
    BY <2>2, <2>3
<1>15. PoolTypeOK'
  <2>1. pool' \in [permits: Nat, count: Nat, peak: Nat]
    BY <1>1, <1>10, <1>11
  <2>2. UNCHANGED <<now, attempt, week03>>
    BY DEF Submit
  <2>3. req' \in [Requests -> [st: Stages, at: Nat, by: Nat, raised: BOOLEAN]]
    <3>. HIDE DEF new
    <3>. QED
      BY <1>1, <1>4
  <2>. QED
    BY <1>14, <2>1, <2>2, <2>3 DEF PoolInv, PoolTypeOK
<1>16. InOrder'
  <2>1. \A q \in Requests : q >= r + 1 => q # r /\ q >= r
    BY <1>3, RequestsFinite
  <2>. QED
    BY <1>2, <1>5, <1>14, <2>1 DEF InOrder
<1>. QED
  BY <1>13, <1>15, <1>16 DEF PoolInv

\* Outside of a replay the capacity is whole, whatever the client does next.
LEMMA AtRest ==
  ASSUME PoolInv, main.pc \notin Replaying, UNCHANGED <<pool, req>>,
         main'.pc \notin {"drain", "unwind"}, main'.i \in Requests
  PROVE  InOrder'
<1>1. req = NoRequests /\ pool = FullPool
  BY DEF PoolInv, InOrder
<1>2. \A r \in Requests : req'[r].st = "waiting"
  BY <1>1 DEF NoRequests, NoRequest
<1>. QED
  BY <1>1, <1>2 DEF InOrder

LEMMA BeginKeeps == PoolInv /\ Begin => PoolInv'
<1>. SUFFICES ASSUME PoolInv, Begin PROVE PoolInv'
  OBVIOUS
<1>1. /\ main.pc = "idle" /\ UNCHANGED <<pool, req, now, week03, attempt>>
      /\ attempt \in Nat /\ CaseCount \in Nat /\ 1 \in Requests
      /\ week03 \in [run: Nat, whole: BOOLEAN, trace: Nat, receipt: Nat, files: Nat]
  BY RequestsFinite DEF Begin, At, PoolInv, PoolTypeOK
<1>2. /\ main' \in [pc: Pcs, all: BOOLEAN, ident: Nat, planned: Nat, trace: Nat, rows: Nat,
                     case: Nat, i: Nat]
      /\ main'.pc \notin {"drain", "unwind"} /\ main'.i \in Requests
  <2>1. CASE main' = [Idle EXCEPT !.pc = "case", !.all = TRUE, !.ident = attempt, !.case = 1,
                                  !.planned = week03.files, !.trace = week03.trace]
    BY <1>1, <2>1 DEF Idle, Pcs
  <2>2. CASE \E c \in Cases : main' = [Idle EXCEPT !.pc = "submit", !.ident = attempt, !.case = c,
                                                   !.rows = week03.trace]
    <3>1. PICK c \in Cases : main' = [Idle EXCEPT !.pc = "submit", !.ident = attempt, !.case = c,
                                                 !.rows = week03.trace]
      BY <2>2
    <3>2. c \in Nat
      BY DEF Cases
    <3>. QED
      BY <1>1, <3>1, <3>2 DEF Idle, Pcs
  <2>. QED
    BY <2>1, <2>2 DEF Begin
<1>3. InOrder'
  BY <1>1, <1>2, AtRest
<1>. QED
  BY <1>1, <1>2, <1>3, Aside

\* The steps of run_all_configured between two replays.
LEMMA BetweenKeeps == PoolInv /\ (NextCase \/ PublishManifest \/ Gate) => PoolInv'
<1>. DEFINE Mains == [pc: Pcs, all: BOOLEAN, ident: Nat, planned: Nat, trace: Nat, rows: Nat,
                      case: Nat, i: Nat]
<1>. SUFFICES ASSUME PoolInv, NextCase \/ PublishManifest \/ Gate PROVE PoolInv'
  OBVIOUS
<1>1. /\ main.pc \notin Replaying /\ UNCHANGED <<pool, req, now, week03, attempt>>
      /\ main \in Mains /\ main.i \in Requests /\ 1 \in Requests
      /\ attempt \in Nat
      /\ week03 \in [run: Nat, whole: BOOLEAN, trace: Nat, receipt: Nat, files: Nat]
  BY RequestsFinite DEF NextCase, PublishManifest, Gate, At, PoolInv, PoolTypeOK, InOrder
<1>2. Idle \in Mains /\ Idle.pc = "idle" /\ Idle.i \in Requests
  BY <1>1, FreshTypes DEF Idle
<1>3. main' \in Mains /\ main'.pc \notin {"drain", "unwind"} /\ main'.i \in Requests
  <2>1. CASE main' = Idle
    BY <1>2, <2>1
  <2>2. CASE main' = [main EXCEPT !.pc = "gate"]
    <3>1. "gate" \in Pcs
      BY DEF Pcs
    <3>. QED
      BY <1>1, <2>2, <3>1, MainsLemma
  <2>3. CASE main' = [main EXCEPT !.pc = "submit", !.i = 1, !.rows = week03.trace]
    <3>1. main' = [pc |-> "submit", all |-> main.all, ident |-> main.ident,
                   planned |-> main.planned, trace |-> main.trace, rows |-> week03.trace,
                   case |-> main.case, i |-> 1]
      BY <1>1, <2>3
    <3>2. "submit" \in Pcs
      BY DEF Pcs
    <3>. QED
      BY <1>1, <3>1, <3>2
  <2>4. CASE main' = [main EXCEPT !.pc = "case", !.case = @ + 1]
    <3>1. main' = [pc |-> "case", all |-> main.all, ident |-> main.ident,
                   planned |-> main.planned, trace |-> main.trace, rows |-> main.rows,
                   case |-> main.case + 1, i |-> main.i]
      BY <1>1, <2>4
    <3>2. "case" \in Pcs
      BY DEF Pcs
    <3>. QED
      BY <1>1, <3>1, <3>2
  <2>. QED
    BY <2>1, <2>2, <2>3, <2>4 DEF NextCase, PublishManifest, Gate, Goto
<1>4. InOrder'
  BY <1>1, <1>3, AtRest
<1>. QED
  BY <1>1, <1>3, <1>4, Aside

LEMMA CollectKeeps == PoolInv /\ Collect => PoolInv'
<1>. DEFINE Mains == [pc: Pcs, all: BOOLEAN, ident: Nat, planned: Nat, trace: Nat, rows: Nat,
                      case: Nat, i: Nat]
<1>. SUFFICES ASSUME PoolInv, Collect PROVE PoolInv'
  OBVIOUS
<1>1. Idle \in Mains /\ Idle.pc = "idle" /\ Idle.i \in Requests
  BY FreshTypes, RequestsFinite DEF Idle
<1>2. main' = Idle \/ main' = [main EXCEPT !.pc = "gate"]
  BY DEF Collect
<1>3. main' \in Mains /\ main'.pc \notin Replaying /\ main'.i \in Requests
  <2>1. "gate" \in Pcs /\ main.i \in Requests
    BY DEF Pcs, PoolInv, InOrder
  <2>. QED
    BY <1>1, <1>2, <2>1, MainsLemma
<1>4. pool' = FullPool /\ req' = NoRequests /\ now' = 0 /\ UNCHANGED <<week03, attempt>>
  BY DEF Collect
<1>. QED
  BY <1>3, <1>4, Emptied

LEMMA KilledKeeps == PoolInv /\ (Killed \/ Unwind) => PoolInv'
<1>1. /\ Idle.pc = "idle" /\ Idle.i \in Requests
      /\ Idle \in [pc: Pcs, all: BOOLEAN, ident: Nat, planned: Nat, trace: Nat, rows: Nat,
                   case: Nat, i: Nat]
  BY FreshTypes, RequestsFinite DEF Idle
<1>. QED
  BY <1>1, Emptied DEF Killed, Unwind, Replaying

\* The client is interrupted, or cannot submit: what was submitted keeps its permits.
LEMMA InterruptedKeeps == PoolInv /\ Interrupted => PoolInv'
<1>. SUFFICES ASSUME PoolInv, Interrupted PROVE PoolInv'
  OBVIOUS
<1>1. /\ main' = [Idle EXCEPT !.pc = "unwind"] /\ UNCHANGED <<pool, req, now, week03, attempt>>
      /\ attempt \in Nat
      /\ week03 \in [run: Nat, whole: BOOLEAN, trace: Nat, receipt: Nat, files: Nat]
  BY DEF Interrupted, PoolInv, PoolTypeOK
<1>2. /\ main' \in [pc: Pcs, all: BOOLEAN, ident: Nat, planned: Nat, trace: Nat, rows: Nat,
                    case: Nat, i: Nat]
      /\ main'.pc = "unwind" /\ main'.i \in Requests
  BY <1>1, RequestsFinite DEF Idle, Pcs
<1>3. InOrder'
  BY <1>1, <1>2 DEF InOrder, Replaying
<1>. QED
  BY <1>1, <1>2, <1>3, Aside

\* Time, the server and Week 3 do not touch the pool.
LEMMA AroundKeeps ==
  PoolInv /\ (Tick \/ Restart \/ RunWeek03 \/ VerifyWeek03 \/ UNCHANGED replayVars) => PoolInv'
<1>. DEFINE Records == [run: Nat, whole: BOOLEAN, trace: Nat, receipt: Nat, files: Nat]
<1>. SUFFICES ASSUME PoolInv, Tick \/ Restart \/ RunWeek03 \/ VerifyWeek03 \/ UNCHANGED replayVars
              PROVE  PoolInv'
  OBVIOUS
<1>1. UNCHANGED <<main, pool, req>> /\ PoolTypeOK /\ PermitsAddUp /\ InOrder
  BY DEF Tick, Restart, RunWeek03, VerifyWeek03, replayVars, PoolInv
<1>2. week03 \in Records /\ now \in Nat /\ attempt \in Nat
  BY <1>1 DEF PoolTypeOK
<1>3. now' \in Nat /\ attempt' \in Nat
  <2>1. now' \in {now, now + 1} /\ attempt' \in {attempt, attempt + 1}
    BY DEF Tick, Restart, RunWeek03, VerifyWeek03, replayVars
  <2>. QED
    BY <1>2, <2>1
<1>4. week03' \in Records
  <2>1. CASE RunWeek03
    <3>1. PICK t \in {week03.trace, week03.run + 1}, whole \in BOOLEAN :
            week03' = [week03 EXCEPT !.run = @ + 1, !.whole = whole, !.trace = t, !.files = @ + 1]
      BY <2>1 DEF RunWeek03
    <3>2. week03' = [run |-> week03.run + 1, whole |-> whole, trace |-> t,
                     receipt |-> week03.receipt, files |-> week03.files + 1]
      BY <1>2, <3>1
    <3>. QED
      BY <1>2, <3>2
  <2>2. CASE VerifyWeek03
    <3>1. week03' = [run |-> week03.run, whole |-> week03.whole, trace |-> week03.trace,
                     receipt |-> week03.run, files |-> week03.files + 1]
      BY <1>2, <2>2 DEF VerifyWeek03
    <3>. QED
      BY <1>2, <3>1
  <2>3. CASE week03' = week03
    BY <1>2, <2>3
  <2>. QED
    BY <2>1, <2>2, <2>3 DEF Tick, Restart, replayVars
<1>5. PoolTypeOK'
  BY <1>1, <1>3, <1>4 DEF PoolTypeOK
<1>6. Holding' = Holding /\ InFlight' = InFlight
  BY <1>1 DEF Holding, InFlight
<1>7. PermitsAddUp' /\ InOrder'
  BY <1>1, <1>6 DEF PermitsAddUp, InOrder
<1>. QED
  BY <1>5, <1>7 DEF PoolInv

LEMMA PoolStep == PoolInv /\ [ReplayNext]_replayVars => PoolInv'
<1>. SUFFICES ASSUME PoolInv, [ReplayNext]_replayVars PROVE PoolInv'
  OBVIOUS
<1>1. CASE \E r \in Requests : WorkerStep(r)
  <2>1. PICK r \in Requests : WorkerStep(r)
    BY <1>1
  <2>. QED
    BY <2>1, StartKeeps, FinishKeeps, UncountKeeps, ReleaseKeeps DEF WorkerStep
<1>2. CASE MainStep
  BY <1>2, BetweenKeeps, SubmitKeeps, CollectKeeps, KilledKeeps DEF MainStep
<1>3. CASE Begin \/ Killed \/ Interrupted
  BY <1>3, BeginKeeps, KilledKeeps, InterruptedKeeps
<1>. QED
  BY <1>1, <1>2, <1>3, AroundKeeps DEF ReplayNext

\* execute_trace: however the requests end (run_one may raise), whatever the threads'
\* interleaving, and wherever the client is killed and run again, the requests that were
\* submitted and not yet counted out are never more than max_workers, and the counter and
\* the maximum that is published are exact.
THEOREM CapacityIsExact == ReplaySpec => []InFlightBounded
<1>1. PoolInv => InFlightBounded
  BY DEF PoolInv, PermitsAddUp, InFlightBounded
<1>. QED
  BY <1>1, PoolInitHolds, PoolStep, PTL DEF ReplaySpec

(***************************************************************************)
(* The lag gate                                                            *)
(***************************************************************************)
\* A function on a finite set has a least value.
LEMMA LeastExists ==
  ASSUME NEW S, IsFiniteSet(S), S # {}, NEW f \in [S -> Int]
  PROVE  \E x \in S : \A y \in S : f[x] <= f[y]
<1>. DEFINE Down(x) == {y \in S : f[y] <= f[x]}
            T == {Down(x) : x \in S}
            R == StrictSubsetOrdering(S)
<1>1. IsWellFoundedOn(R, FiniteSubsetsOf(S))
  BY FS_StrictSubsetOrderingWellFounded
<1>2. FiniteSubsetsOf(S) = SUBSET S
  BY FS_FiniteSubsetsOfFinite
<1>3. T \subseteq FiniteSubsetsOf(S) /\ T # {}
  <2>1. \A x \in S : Down(x) \in SUBSET S
    OBVIOUS
  <2>2. \A D \in T : D \in SUBSET S
    <3>. HIDE DEF Down
    <3>. QED
      BY <2>1
  <2>3. T # {}
    <3>1. PICK x \in S : TRUE
      OBVIOUS
    <3>2. Down(x) \in T
      BY <3>1
    <3>. HIDE DEF T
    <3>. QED
      BY <3>2
  <2>. HIDE DEF T
  <2>. QED
    BY <1>2, <2>2, <2>3
<1>4. PICK D \in T : \A E \in T : <<E, D>> \notin R
  <2>. HIDE DEF T, R
  <2>. QED
    BY <1>1, <1>3, WFMin
<1>5. PICK x \in S : D = Down(x)
  BY <1>4
<1>6. ASSUME NEW y \in S PROVE f[x] <= f[y]
  <2>. SUFFICES ASSUME f[y] < f[x] PROVE FALSE
    OBVIOUS
  <2>1. Down(y) \subseteq Down(x)
    OBVIOUS
  <2>2. x \in Down(x) /\ x \notin Down(y)
    OBVIOUS
  <2>3. <<Down(y), Down(x)>> \in R
    <3>1. Down(y) \in SUBSET S /\ Down(x) \in SUBSET S
      OBVIOUS
    <3>2. Down(y) \subseteq Down(x) /\ Down(y) # Down(x)
      BY <2>1, <2>2
    <3>. HIDE DEF Down
    <3>. QED
      BY <3>1, <3>2 DEF StrictSubsetOrdering
  <2>. QED
    BY <1>4, <1>5, <2>3
<1>. QED
  BY <1>6

\* The gate: when the p99 of the lags is within the limit, not more than one in a hundred of
\* the requests is not.
LEMMA GateLemma ==
  ASSUME PoolTypeOK, P99Lag <= LagLimit
  PROVE  OnTime
<1>. DEFINE n == Cardinality(Measured)
            UpTo(v) == {s \in Measured : Lag(s) <= v}
            Ranked == {r \in Measured : 100 * Cardinality(UpTo(Lag(r))) >= 99 * n}
            Late == {r \in Measured : Lag(r) > LagLimit}
<1>1. IsFiniteSet(Measured) /\ n \in Nat
  <2>1. IsFiniteSet(1..Cardinality(Requests))
    BY FS_Interval
  <2>2. IsFiniteSet(Measured)
    BY <2>1, FS_Subset
  <2>. QED
    BY <2>2, FS_CardinalityType
<1>2. \A r \in Measured : Lag(r) \in Int
  BY DEF Lag, PoolTypeOK
<1>3. /\ Late \subseteq Measured /\ IsFiniteSet(Late) /\ Cardinality(Late) \in Nat
  <2>1. Late \subseteq Measured
    OBVIOUS
  <2>. QED
    BY <1>1, <2>1, FS_Subset, FS_CardinalityType
<1>4. CASE Measured = {}
  <2>1. Late = {} /\ n = 0 /\ Cardinality(Late) = 0
    BY <1>4, FS_EmptySet
  <2>. QED
    BY <2>1 DEF OnTime
<1>5. CASE Measured # {}
  <2>1. Ranked # {}
    <3>1. PICK r \in Measured : \A s \in Measured : -Lag(r) <= -Lag(s)
      <4>. DEFINE f == [r \in Measured |-> -Lag(r)]
      <4>1. f \in [Measured -> Int]
        BY <1>2
      <4>2. \E r \in Measured : \A s \in Measured : f[r] <= f[s]
        <5>. HIDE DEF f
        <5>. QED
          BY <1>1, <1>5, <4>1, LeastExists
      <4>. QED
        BY <4>2
    <3>2. UpTo(Lag(r)) = Measured
      BY <1>2, <3>1
    <3>3. 100 * Cardinality(UpTo(Lag(r))) >= 99 * n
      <4>1. 100 * n >= 99 * n
        <5>. HIDE DEF n
        <5>. QED
          BY <1>1
      <4>. QED
        BY <3>2, <4>1
    <3>4. r \in Ranked
      BY <3>3
    <3>. QED
      BY <3>4
  <2>2. PICK r \in Ranked : \A s \in Ranked : Lag(r) <= Lag(s)
    <3>. DEFINE f == [s \in Ranked |-> Lag(s)]
    <3>1. IsFiniteSet(Ranked) /\ Ranked \subseteq Measured
      BY <1>1, FS_Subset
    <3>2. f \in [Ranked -> Int]
      BY <1>2
    <3>3. \E s \in Ranked : \A q \in Ranked : f[s] <= f[q]
      <4>. HIDE DEF f, Ranked
      <4>. QED
        BY <2>1, <3>1, <3>2, LeastExists
    <3>. QED
      BY <3>3
  <2>3. P99Lag \in {Lag(s) : s \in Ranked}
    <3>1. P99Lag = Min({Lag(s) : s \in Ranked})
      BY DEF P99Lag, Rank
    <3>2. \E v \in {Lag(s) : s \in Ranked} : \A w \in {Lag(s) : s \in Ranked} : v =< w
      BY <2>2
    <3>. QED
      BY <3>1, <3>2 DEF Min
  <2>4. PICK q \in Ranked : P99Lag = Lag(q)
    BY <2>3
  <2>5. UpTo(Lag(q)) \subseteq Measured \ Late
    BY <1>2, <2>4
  <2>6. Cardinality(Measured \ Late) = n - Cardinality(Late)
    <3>1. /\ IsFiniteSet(Measured \ Late)
          /\ Cardinality(Measured \ Late) = n - Cardinality(Measured \cap Late)
      BY <1>1, FS_Difference
    <3>2. Measured \cap Late = Late
      OBVIOUS
    <3>. QED
      BY <3>1, <3>2
  <2>7. /\ Cardinality(UpTo(Lag(q))) <= Cardinality(Measured \ Late)
        /\ Cardinality(UpTo(Lag(q))) \in Nat
    <3>1. IsFiniteSet(Measured \ Late)
      BY <1>1, FS_Difference
    <3>. QED
      BY <2>5, <3>1, FS_Subset, FS_CardinalityType
  <2>8. 100 * Cardinality(UpTo(Lag(q))) >= 99 * n
    OBVIOUS
  <2>9. 100 * Cardinality(Late) <= n
    <3>. HIDE DEF n, UpTo, Late
    <3>. QED
      BY <1>1, <1>3, <2>6, <2>7, <2>8
  <2>. QED
    BY <2>9 DEF OnTime
<1>. QED
  BY <1>4, <1>5

(***************************************************************************)
(* The inductive invariant                                                 *)
(***************************************************************************)
Artifacts == [replay: Nat, attempt: Nat, trace: Nat, passed: BOOLEAN, own: BOOLEAN, onTime: BOOLEAN]

Manifests == [attempt: Nat, week03: Nat, planned: Nat, artifact: [Cases -> Artifacts]]

DiskTypeOK == /\ disk \in [artifact: [Cases -> Artifacts], manifest: Manifests]
              /\ attempt \in Nat \ {0} /\ runs \in Nat

\* Whatever answers a request, answers it between the reading of the attempt and now.
Answers ==
  /\ main.ident <= attempt
  /\ \A r \in Requests : req[r].by = 0 \/ (main.ident <= req[r].by /\ req[r].by <= attempt)

\* The server of the present attempt may only have been restarted before a replay under it.
Honest(a) ==
  /\ a.passed => a.onTime
  /\ a.attempt <= attempt
  /\ a.attempt = attempt => a.own

AllHonest == \A c \in Cases : Honest(disk.artifact[c]) /\ Honest(disk.manifest.artifact[c])

Where ==
  /\ main.pc \notin {"idle", "unwind"} => main.ident # 0 /\ main.case \in 1..(CaseCount + 1)
  /\ main.pc \in {"gate", "submit", "drain"} => main.case \in Cases
  /\ main.pc \in {"case", "gate"} => main.all

\* The cases that this run of the client has an artifact of.
Replayed == {c \in Cases : c < main.case \/ (c = main.case /\ main.pc = "gate")}

ReplayedHere ==
  (main.pc # "idle" /\ main.all) =>
    \A c \in Replayed : /\ disk.artifact[c].attempt = main.ident
                        /\ c < main.case => disk.artifact[c].passed

\* As long as Week 3 is what was planned from, what is replayed is what is verified.
AsPlanned ==
  (main.pc # "idle" /\ main.all) =>
    /\ main.planned <= week03.files
    /\ main.planned = week03.files =>
         /\ Verified /\ main.trace = week03.trace
         /\ main.pc \in {"submit", "drain"} => main.rows = main.trace
         /\ \A c \in Replayed : disk.artifact[c].trace = main.trace

ManifestAsPlanned ==
  disk.manifest.attempt # 0 =>
    /\ disk.manifest.planned <= disk.manifest.week03 /\ disk.manifest.week03 <= week03.files
    /\ \A c \in Cases : /\ disk.manifest.artifact[c].attempt = disk.manifest.attempt
                        /\ disk.manifest.artifact[c].passed
    /\ disk.manifest.planned = week03.files =>
         /\ Verified
         /\ \A c \in Cases : disk.manifest.artifact[c].trace = week03.trace

EvidenceInv ==
  /\ DiskTypeOK /\ Answers /\ AllHonest /\ Where /\ ReplayedHere /\ AsPlanned
  /\ ManifestAsPlanned /\ (disk.manifest.attempt = 0 => disk.manifest = NoManifest)

LEMMA EvidenceInitHolds == ReplayInit => EvidenceInv
<1>. SUFFICES ASSUME ReplayInit PROVE EvidenceInv
  OBVIOUS
<1>1. /\ main = Idle /\ req = NoRequests /\ attempt = 1 /\ runs = 0
      /\ disk = [artifact |-> Nothing, manifest |-> NoManifest]
  BY DEF ReplayInit
<1>2. /\ Nothing \in [Cases -> Artifacts] /\ \A c \in Cases : Nothing[c] = NoArtifact
      /\ NoManifest \in Manifests /\ NoManifest.artifact = Nothing /\ NoManifest.attempt = 0
  BY DEF Nothing, NoArtifact, NoManifest, Artifacts, Manifests
<1>3. DiskTypeOK
  BY <1>1, <1>2 DEF DiskTypeOK
<1>4. main.pc = "idle" /\ main.ident = 0 /\ \A r \in Requests : req[r].by = 0
  BY <1>1 DEF Idle, NoRequests, NoRequest
<1>5. Answers /\ Where /\ ReplayedHere /\ AsPlanned
  BY <1>1, <1>4 DEF Answers, Where, ReplayedHere, AsPlanned
<1>6. AllHonest
  BY <1>1, <1>2 DEF AllHonest, Honest, NoArtifact
<1>7. disk.manifest = NoManifest /\ disk.manifest.attempt = 0
  BY <1>1, <1>2
<1>. QED
  BY <1>3, <1>5, <1>6, <1>7 DEF EvidenceInv, ManifestAsPlanned

\* The client goes on with a replay, or time passes.
LEMMA GoesOn ==
  ASSUME EvidenceInv, UNCHANGED <<disk, week03, attempt, runs>>, Answers',
         main'.all = main.all, main'.ident = main.ident, main'.planned = main.planned,
         main'.trace = main.trace, main'.rows = main.rows, main'.case = main.case,
         main'.pc = main.pc \/ (main.pc = "submit" /\ main'.pc = "drain")
  PROVE  EvidenceInv'
<1>1. DiskTypeOK' /\ AllHonest'
  BY DEF EvidenceInv, DiskTypeOK, AllHonest, Honest
<1>2. Verified' = Verified /\ Replayed' = Replayed
  BY DEF Verified, Verifies, Replayed
<1>3. Where' /\ ReplayedHere'
  BY <1>2 DEF EvidenceInv, Where, ReplayedHere
<1>4. AsPlanned' /\ ManifestAsPlanned'
  BY <1>2 DEF EvidenceInv, AsPlanned, ManifestAsPlanned
<1>. QED
  BY <1>1, <1>3, <1>4 DEF EvidenceInv

\* The client ends, without a manifest.
LEMMA Ends ==
  ASSUME EvidenceInv, UNCHANGED <<disk, week03, attempt, runs>>, main' = Idle,
         \A r \in Requests : req'[r].by = 0
  PROVE  EvidenceInv'
<1>1. DiskTypeOK' /\ AllHonest'
  BY DEF EvidenceInv, DiskTypeOK, AllHonest, Honest
<1>2. Verified' = Verified /\ main'.pc = "idle" /\ main'.ident = 0
  BY DEF Verified, Verifies, Idle
<1>3. Answers' /\ Where' /\ ReplayedHere' /\ AsPlanned'
  BY <1>1, <1>2 DEF Answers, Where, ReplayedHere, AsPlanned, DiskTypeOK
<1>4. ManifestAsPlanned'
  BY <1>2 DEF EvidenceInv, ManifestAsPlanned
<1>. QED
  BY <1>1, <1>3, <1>4 DEF EvidenceInv

(***************************************************************************)
(* Every step keeps it                                                     *)
(***************************************************************************)
LEMMA AnswersStart ==
  ASSUME PoolInv, EvidenceInv, NEW r \in Requests, StartRequest(r)
  PROVE  EvidenceInv'
<1>. DEFINE new == [st |-> "running", at |-> now, raised |-> FALSE, by |-> attempt]
<1>1. /\ req' = [req EXCEPT ![r] = new] /\ UNCHANGED <<main, disk, week03, attempt, runs>>
  BY DEF StartRequest
<1>2. \A q \in Requests : req'[q].by \in {req[q].by, attempt}
  <2>1. req \in [Requests -> [st: Stages, at: Nat, by: Nat, raised: BOOLEAN]] /\ new.by = attempt
    BY DEF PoolInv, PoolTypeOK
  <2>. HIDE DEF new
  <2>. QED
    BY <1>1, <2>1
<1>3. attempt \in Nat /\ main.ident \in Nat /\ Answers
  BY DEF EvidenceInv, PoolInv, PoolTypeOK
<1>4. Answers'
  BY <1>1, <1>2, <1>3 DEF Answers
<1>. QED
  BY <1>1, <1>4, GoesOn

\* The other steps of the workers leave the server of a request, or take it back.
LEMMA AnswersKept ==
  ASSUME PoolInv, EvidenceInv, NEW r \in Requests, FinishRequest(r) \/ Uncount(r) \/ Release(r)
  PROVE  EvidenceInv'
<1>1. req \in [Requests -> [st: Stages, at: Nat, by: Nat, raised: BOOLEAN]]
  BY DEF PoolInv, PoolTypeOK
<1>2. UNCHANGED <<main, disk, week03, attempt, runs>>
  BY DEF FinishRequest, Uncount, Release
<1>3. \A q \in Requests : req'[q].by \in {req[q].by, 0}
  <2>1. CASE \E stage \in Stages : req' = [req EXCEPT ![r].st = stage]
    <3>1. PICK stage \in Stages : req' = [req EXCEPT ![r] = [req[r] EXCEPT !.st = stage]]
      BY <2>1
    <3>2. [req[r] EXCEPT !.st = stage].by = req[r].by
      BY <1>1
    <3>. QED
      BY <1>1, <3>1, <3>2
  <2>2. CASE req' = [req EXCEPT ![r] = [@ EXCEPT !.st = "finished", !.by = 0]]
    <3>1. [req[r] EXCEPT !.st = "finished", !.by = 0].by = 0
      BY <1>1
    <3>. QED
      BY <1>1, <2>2, <3>1
  <2>3. CASE req' = [req EXCEPT ![r] = [NoRequest EXCEPT !.st = "finished", !.raised = TRUE]]
    <3>1. [NoRequest EXCEPT !.st = "finished", !.raised = TRUE].by = 0
      BY DEF NoRequest
    <3>. QED
      BY <1>1, <2>3, <3>1
  <2>. QED
    BY <2>1, <2>2, <2>3 DEF FinishRequest, Uncount, Release, Stages
<1>4. Answers'
  BY <1>2, <1>3 DEF EvidenceInv, Answers
<1>. QED
  BY <1>2, <1>4, GoesOn

LEMMA SubmitGoesOn ==
  ASSUME PoolInv, EvidenceInv, Submit
  PROVE  EvidenceInv'
<1>1. UNCHANGED <<disk, week03, attempt, runs>> /\ main.pc = "submit"
  BY DEF Submit, At
<1>2. /\ main'.all = main.all /\ main'.ident = main.ident /\ main'.planned = main.planned
      /\ main'.trace = main.trace /\ main'.rows = main.rows /\ main'.case = main.case
      /\ main'.pc \in {main.pc, "drain"}
  <2>1. main \in [pc: Pcs, all: BOOLEAN, ident: Nat, planned: Nat, trace: Nat, rows: Nat,
                  case: Nat, i: Nat]
    BY DEF PoolInv, PoolTypeOK
  <2>2. CASE main' = [main EXCEPT !.i = @ + 1]
    BY <2>1, <2>2
  <2>3. CASE main' = [main EXCEPT !.pc = "drain"]
    BY <2>1, <2>3
  <2>. QED
    BY <2>2, <2>3 DEF Submit
<1>3. \A q \in Requests : req'[q].by = req[q].by
  <2>1. /\ req \in [Requests -> [st: Stages, at: Nat, by: Nat, raised: BOOLEAN]]
        /\ main.i \in Requests
    BY DEF PoolInv, PoolTypeOK, InOrder
  <2>2. [req[main.i] EXCEPT !.st = "submitted"].by = req[main.i].by
    BY <2>1
  <2>3. req' = [req EXCEPT ![main.i] = [req[main.i] EXCEPT !.st = "submitted"]]
    BY DEF Submit
  <2>. QED
    BY <2>1, <2>2, <2>3
<1>4. Answers'
  BY <1>1, <1>2, <1>3 DEF EvidenceInv, Answers
<1>. QED
  BY <1>1, <1>2, <1>4, GoesOn

LEMMA KilledEnds ==
  ASSUME EvidenceInv, Killed \/ Unwind
  PROVE  EvidenceInv'
<1>1. UNCHANGED <<disk, week03, attempt, runs>> /\ main' = Idle /\ req' = NoRequests
  BY DEF Killed, Unwind
<1>2. \A r \in Requests : req'[r].by = 0
  BY <1>1 DEF NoRequests, NoRequest
<1>. QED
  BY <1>1, <1>2, Ends

LEMMA InterruptedGoesOn ==
  ASSUME PoolInv, EvidenceInv, Interrupted
  PROVE  EvidenceInv'
<1>1. /\ UNCHANGED <<req, disk, week03, attempt, runs>> /\ Verified' = Verified
      /\ main'.pc = "unwind" /\ ~main'.all /\ main'.ident = 0
  BY DEF Interrupted, Idle, Verified, Verifies
<1>2. DiskTypeOK' /\ AllHonest'
  BY <1>1 DEF EvidenceInv, DiskTypeOK, AllHonest, Honest
<1>3. Answers'
  <2>1. attempt \in Nat /\ \A r \in Requests : req[r].by \in Nat
    BY DEF PoolInv, PoolTypeOK
  <2>. QED
    BY <1>1, <2>1 DEF EvidenceInv, Answers
<1>4. Where' /\ ReplayedHere' /\ AsPlanned'
  BY <1>1 DEF Where, ReplayedHere, AsPlanned
<1>5. ManifestAsPlanned'
  BY <1>1 DEF EvidenceInv, ManifestAsPlanned
<1>. QED
  BY <1>1, <1>2, <1>3, <1>4, <1>5 DEF EvidenceInv

\* A new attempt is later than whatever is on disk.
LEMMA RestartKeeps ==
  ASSUME PoolInv, EvidenceInv, Restart
  PROVE  EvidenceInv'
<1>1. attempt' = attempt + 1 /\ UNCHANGED <<main, pool, req, now, disk, week03, runs>>
  BY DEF Restart
<1>2. /\ attempt \in Nat \ {0} /\ main.ident \in Nat
      /\ disk.artifact \in [Cases -> Artifacts] /\ disk.manifest.artifact \in [Cases -> Artifacts]
      /\ req \in [Requests -> [st: Stages, at: Nat, by: Nat, raised: BOOLEAN]]
  BY DEF EvidenceInv, DiskTypeOK, Manifests, PoolInv, PoolTypeOK
<1>3. DiskTypeOK'
  BY <1>1, <1>2 DEF EvidenceInv, DiskTypeOK
<1>4. Answers'
  <2>1. Answers /\ \A r \in Requests : req[r].by \in Nat
    BY <1>2 DEF EvidenceInv
  <2>. QED
    BY <1>1, <1>2, <2>1 DEF Answers
<1>5. AllHonest'
  <2>1. ASSUME NEW a \in Artifacts, Honest(a) PROVE Honest(a)'
    <3>1. a.attempt \in Nat /\ a.attempt <= attempt
      BY <2>1 DEF Artifacts, Honest
    <3>2. a.attempt <= attempt + 1 /\ a.attempt # attempt + 1
      BY <1>2, <3>1
    <3>. QED
      BY <1>1, <2>1, <3>2 DEF Honest
  <2>. QED
    BY <1>1, <1>2, <2>1 DEF EvidenceInv, AllHonest
<1>6. Verified' = Verified /\ Replayed' = Replayed
  BY <1>1 DEF Verified, Verifies, Replayed
<1>7. Where' /\ ReplayedHere'
  BY <1>1, <1>6 DEF EvidenceInv, Where, ReplayedHere
<1>8. AsPlanned' /\ ManifestAsPlanned'
  BY <1>1, <1>6 DEF EvidenceInv, AsPlanned, ManifestAsPlanned
<1>. QED
  BY <1>1, <1>3, <1>4, <1>5, <1>7, <1>8 DEF EvidenceInv

\* Week 3's files are other ones than those that anything was planned from.
LEMMA Week03Keeps ==
  ASSUME PoolInv, EvidenceInv, RunWeek03 \/ VerifyWeek03
  PROVE  EvidenceInv'
<1>1. week03 \in [run: Nat, whole: BOOLEAN, trace: Nat, receipt: Nat, files: Nat]
  BY DEF PoolInv, PoolTypeOK
<1>2. UNCHANGED <<main, pool, req, now, disk, attempt, runs>>
  BY DEF RunWeek03, VerifyWeek03
<1>3. week03'.files = week03.files + 1
  <2>1. CASE RunWeek03
    <3>1. PICK t \in {week03.trace, week03.run + 1}, whole \in BOOLEAN :
            week03' = [week03 EXCEPT !.run = @ + 1, !.whole = whole, !.trace = t, !.files = @ + 1]
      BY <2>1 DEF RunWeek03
    <3>. QED
      BY <1>1, <3>1
  <2>2. CASE VerifyWeek03
    BY <1>1, <2>2 DEF VerifyWeek03
  <2>. QED
    BY <2>1, <2>2
<1>4. DiskTypeOK' /\ Answers' /\ AllHonest' /\ Where' /\ ReplayedHere'
  <2>1. DiskTypeOK' /\ Answers' /\ AllHonest'
    BY <1>2 DEF EvidenceInv, DiskTypeOK, Answers, AllHonest, Honest
  <2>2. Replayed' = Replayed
    BY <1>2 DEF Replayed
  <2>. QED
    BY <1>2, <2>1, <2>2 DEF EvidenceInv, Where, ReplayedHere
<1>5. AsPlanned'
  <2>1. main.planned \in Nat /\ week03.files \in Nat
    BY <1>1 DEF PoolInv, PoolTypeOK
  <2>. QED
    BY <1>2, <1>3, <2>1 DEF EvidenceInv, AsPlanned
<1>6. ManifestAsPlanned'
  <2>1. /\ week03.files \in Nat /\ disk.manifest.planned \in Nat /\ disk.manifest.week03 \in Nat
    BY <1>1 DEF EvidenceInv, DiskTypeOK, Manifests
  <2>. QED
    BY <1>2, <1>3, <2>1 DEF EvidenceInv, ManifestAsPlanned
<1>. QED
  BY <1>2, <1>4, <1>5, <1>6 DEF EvidenceInv

LEMMA TickGoesOn ==
  ASSUME PoolInv, EvidenceInv, Tick \/ UNCHANGED replayVars
  PROVE  EvidenceInv'
<1>1. UNCHANGED <<main, req, disk, week03, attempt, runs>>
  BY DEF Tick, replayVars
<1>2. Answers'
  BY <1>1 DEF EvidenceInv, Answers
<1>. QED
  BY <1>1, <1>2, GoesOn

\* Outside of a replay no request is answered.
LEMMA NobodyAnswers ==
  ASSUME PoolInv, main.pc \notin Replaying
  PROVE  req = NoRequests /\ \A r \in Requests : req[r].by = 0
BY DEF PoolInv, InOrder, NoRequests, NoRequest

LEMMA BeginKeepsEvidence ==
  ASSUME PoolInv, EvidenceInv, Begin
  PROVE  EvidenceInv'
<1>1. /\ main.pc = "idle" /\ UNCHANGED <<pool, req, now, disk, week03, attempt>>
      /\ runs' = runs + 1 /\ attempt \in Nat \ {0} /\ week03.files \in Nat
  BY DEF Begin, At, PoolInv, PoolTypeOK, EvidenceInv, DiskTypeOK
<1>2. \A r \in Requests : req'[r].by = 0
  BY <1>1, NobodyAnswers
<1>3. DiskTypeOK' /\ AllHonest'
  BY <1>1 DEF EvidenceInv, DiskTypeOK, AllHonest, Honest
<1>4. Verified' = Verified
  BY <1>1 DEF Verified, Verifies
<1>5. ManifestAsPlanned'
  BY <1>1, <1>4 DEF EvidenceInv, ManifestAsPlanned
<1>6. CASE /\ Verified
           /\ main' = [Idle EXCEPT !.pc = "case", !.all = TRUE, !.ident = attempt, !.case = 1,
                                   !.planned = week03.files, !.trace = week03.trace]
  <2>1. /\ main'.pc = "case" /\ main'.all /\ main'.ident = attempt /\ main'.case = 1
        /\ main'.planned = week03.files /\ main'.trace = week03.trace
    BY <1>6 DEF Idle
  <2>2. Replayed' = {} /\ 1 \in 1..(CaseCount + 1)
    BY <2>1 DEF Replayed, Cases
  <2>3. Answers' /\ Where'
    BY <1>1, <1>2, <2>1, <2>2 DEF Answers, Where
  <2>4. ReplayedHere' /\ AsPlanned'
    BY <1>1, <1>4, <1>6, <2>1, <2>2 DEF ReplayedHere, AsPlanned
  <2>. QED
    BY <1>1, <1>3, <1>5, <2>3, <2>4 DEF EvidenceInv
<1>7. CASE \E c \in Cases : main' = [Idle EXCEPT !.pc = "submit", !.ident = attempt, !.case = c,
                                                 !.rows = week03.trace]
  <2>1. PICK c \in Cases : main' = [Idle EXCEPT !.pc = "submit", !.ident = attempt, !.case = c,
                                               !.rows = week03.trace]
    BY <1>7
  <2>2. main'.pc = "submit" /\ main'.all = FALSE /\ main'.ident = attempt /\ main'.case = c
    BY <2>1 DEF Idle
  <2>3. Answers' /\ Where'
    BY <1>1, <1>2, <2>2 DEF Answers, Where, Cases
  <2>4. ReplayedHere' /\ AsPlanned'
    BY <2>2 DEF ReplayedHere, AsPlanned
  <2>. QED
    BY <1>1, <1>3, <1>5, <2>3, <2>4 DEF EvidenceInv
<1>. QED
  BY <1>6, <1>7 DEF Begin

\* An artifact that is reused is of the attempt and of the trace that were planned.
LEMMA NextCaseKeeps ==
  ASSUME PoolInv, EvidenceInv, NextCase
  PROVE  EvidenceInv'
<1>1. /\ main.pc = "case" /\ main.case \in Cases /\ main.all
      /\ UNCHANGED <<pool, req, now, disk, week03, attempt, runs>>
      /\ main \in [pc: Pcs, all: BOOLEAN, ident: Nat, planned: Nat, trace: Nat, rows: Nat,
                   case: Nat, i: Nat]
  BY DEF NextCase, At, EvidenceInv, Where, PoolInv, PoolTypeOK
<1>2. \A r \in Requests : req'[r].by = 0 /\ req[r].by = 0
  BY <1>1, NobodyAnswers
<1>3. DiskTypeOK' /\ AllHonest'
  BY <1>1 DEF EvidenceInv, DiskTypeOK, AllHonest, Honest
<1>4. Verified' = Verified
  BY <1>1 DEF Verified, Verifies
<1>5. ManifestAsPlanned'
  BY <1>1, <1>4 DEF EvidenceInv, ManifestAsPlanned
<1>6. CASE main' = Idle
  BY <1>1, <1>2, <1>6, Ends
<1>7. CASE Reusable /\ main' = [main EXCEPT !.pc = "gate"]
  <2>1. /\ main'.pc = "gate" /\ main'.all = main.all /\ main'.ident = main.ident
        /\ main'.planned = main.planned /\ main'.trace = main.trace /\ main'.case = main.case
    BY <1>1, <1>7
  <2>2. Answers' /\ Where'
    BY <1>1, <1>2, <2>1 DEF EvidenceInv, Answers, Where
  <2>3. /\ disk.artifact[main.case].attempt = main.ident
        /\ disk.artifact[main.case].trace = main.trace
    BY <1>7 DEF Reusable
  <2>4. \A c \in Replayed' : c \in Replayed \/ c = main.case
    BY <1>1, <2>1 DEF Replayed
  <2>5. main.case \in Nat
    BY <1>1
  <2>6. ReplayedHere'
    BY <1>1, <2>1, <2>3, <2>4, <2>5 DEF EvidenceInv, ReplayedHere
  <2>7. AsPlanned'
    BY <1>1, <1>4, <2>1, <2>3, <2>4 DEF EvidenceInv, AsPlanned
  <2>. QED
    BY <1>1, <1>3, <1>5, <2>2, <2>6, <2>7 DEF EvidenceInv
<1>8. CASE main' = [main EXCEPT !.pc = "submit", !.i = 1, !.rows = week03.trace]
  <2>1. /\ main'.pc = "submit" /\ main'.all = main.all /\ main'.ident = main.ident
        /\ main'.planned = main.planned /\ main'.trace = main.trace /\ main'.case = main.case
        /\ main'.rows = week03.trace
    BY <1>1, <1>8
  <2>2. Answers' /\ Where'
    BY <1>1, <1>2, <2>1 DEF EvidenceInv, Answers, Where
  <2>3. Replayed' = Replayed
    BY <1>1, <2>1 DEF Replayed
  <2>4. ReplayedHere' /\ AsPlanned'
    BY <1>1, <1>4, <2>1, <2>3 DEF EvidenceInv, ReplayedHere, AsPlanned
  <2>. QED
    BY <1>1, <1>3, <1>5, <2>2, <2>4 DEF EvidenceInv
<1>. QED
  BY <1>6, <1>7, <1>8 DEF NextCase, Goto

\* What has passed the gate is counted as replayed.
LEMMA GateKeeps ==
  ASSUME PoolInv, EvidenceInv, Gate
  PROVE  EvidenceInv'
<1>1. /\ main.pc = "gate" /\ main.case \in Cases /\ main.case \in Nat
      /\ UNCHANGED <<pool, req, now, disk, week03, attempt, runs>>
      /\ main \in [pc: Pcs, all: BOOLEAN, ident: Nat, planned: Nat, trace: Nat, rows: Nat,
                   case: Nat, i: Nat]
  BY DEF Gate, At, EvidenceInv, Where, PoolInv, PoolTypeOK
<1>2. \A r \in Requests : req'[r].by = 0 /\ req[r].by = 0
  BY <1>1, NobodyAnswers
<1>3. CASE main' = Idle
  BY <1>1, <1>2, <1>3, Ends
<1>4. CASE GatePassed /\ main' = [main EXCEPT !.pc = "case", !.case = @ + 1]
  <2>1. /\ main'.pc = "case" /\ main'.all = main.all /\ main'.ident = main.ident
        /\ main'.planned = main.planned /\ main'.trace = main.trace
        /\ main'.case = main.case + 1
    BY <1>1, <1>4
  <2>2. DiskTypeOK' /\ AllHonest'
    BY <1>1 DEF EvidenceInv, DiskTypeOK, AllHonest, Honest
  <2>3. Verified' = Verified
    BY <1>1 DEF Verified, Verifies
  <2>4. ManifestAsPlanned'
    BY <1>1, <2>3 DEF EvidenceInv, ManifestAsPlanned
  <2>5. Answers' /\ Where'
    BY <1>1, <1>2, <2>1 DEF EvidenceInv, Answers, Where, Cases
  <2>6. Replayed' = Replayed /\ \A c \in Replayed : c < main.case \/ c = main.case
    BY <1>1, <2>1 DEF Replayed, Cases
  <2>7. disk.artifact[main.case].passed
    BY <1>4 DEF GatePassed
  <2>8. ReplayedHere'
    BY <1>1, <2>1, <2>6, <2>7 DEF EvidenceInv, ReplayedHere
  <2>9. AsPlanned'
    BY <1>1, <2>1, <2>3, <2>6 DEF EvidenceInv, AsPlanned
  <2>. QED
    BY <1>1, <2>2, <2>4, <2>5, <2>8, <2>9 DEF EvidenceInv
<1>. QED
  BY <1>3, <1>4 DEF Gate

\* Every case has been replayed here, and Week 3's files may have changed since the plan.
LEMMA PublishKeeps ==
  ASSUME PoolInv, EvidenceInv, PublishManifest
  PROVE  EvidenceInv'
<1>. DEFINE m == [attempt |-> main.ident, week03 |-> week03.files, planned |-> main.planned,
                  artifact |-> disk.artifact]
<1>1. /\ main.pc = "case" /\ main.case \notin Cases /\ main.all /\ main' = Idle
      /\ UNCHANGED <<pool, req, now, week03, attempt, runs>>
      /\ main \in [pc: Pcs, all: BOOLEAN, ident: Nat, planned: Nat, trace: Nat, rows: Nat,
                   case: Nat, i: Nat]
      /\ week03.files \in Nat
      /\ main.case \in 1..(CaseCount + 1)
  BY DEF PublishManifest, At, EvidenceInv, Where, PoolInv, PoolTypeOK
<1>2. Replayed = Cases /\ \A c \in Cases : c < main.case
  BY <1>1 DEF Replayed, Cases
<1>3. disk' = [disk EXCEPT !.manifest = m] /\ DiskTypeOK
  BY DEF PublishManifest, EvidenceInv
<1>4. disk'.artifact = disk.artifact /\ disk'.manifest = m /\ m \in Manifests
  BY <1>1, <1>3 DEF DiskTypeOK, Manifests
<1>5. DiskTypeOK'
  <2>1. disk' = [artifact |-> disk.artifact, manifest |-> m]
    BY <1>3 DEF DiskTypeOK
  <2>. HIDE DEF m
  <2>. QED
    BY <1>1, <1>3, <1>4, <2>1 DEF DiskTypeOK
<1>6. AllHonest'
  BY <1>1, <1>4 DEF EvidenceInv, AllHonest, Honest
<1>7. \A r \in Requests : req'[r].by = 0
  BY <1>1, NobodyAnswers
<1>8. main'.pc = "idle" /\ main'.ident = 0
  BY <1>1 DEF Idle
<1>9. Answers' /\ Where' /\ ReplayedHere' /\ AsPlanned'
  BY <1>5, <1>7, <1>8 DEF Answers, Where, ReplayedHere, AsPlanned, DiskTypeOK
<1>10. Verified' = Verified
  BY <1>1 DEF Verified, Verifies
<1>11. ManifestAsPlanned'
  <2>1. \A c \in Cases : disk.artifact[c].attempt = main.ident /\ disk.artifact[c].passed
    BY <1>1, <1>2 DEF EvidenceInv, ReplayedHere
  <2>2. main.planned <= week03.files
    BY <1>1 DEF EvidenceInv, AsPlanned
  <2>3. main.planned = week03.files =>
          Verified /\ \A c \in Cases : disk.artifact[c].trace = week03.trace
    BY <1>1, <1>2 DEF EvidenceInv, AsPlanned
  <2>. QED
    BY <1>1, <1>4, <1>10, <2>1, <2>2, <2>3 DEF ManifestAsPlanned
<1>12. m.attempt # 0
  BY <1>1 DEF EvidenceInv, Where
<1>. QED
  BY <1>4, <1>5, <1>6, <1>9, <1>11, <1>12 DEF EvidenceInv

\* The new artifact: of the attempt that was read, and of the trace that is replayed.
LEMMA CollectKeepsEvidence ==
  ASSUME PoolInv, EvidenceInv, Collect
  PROVE  EvidenceInv'
<1>. DEFINE new == [replay |-> runs, attempt |-> main.ident, trace |-> main.rows,
                    passed  |-> P99Lag <= LagLimit,
                    onTime  |-> OnTime,
                    own     |-> \A r \in Requests : req[r].by \in {0, main.ident}]
<1>1. /\ main.pc = "drain" /\ main.case \in Cases /\ main.case \in Nat /\ main.ident # 0
      /\ UNCHANGED <<week03, attempt, runs>> /\ req' = NoRequests
      /\ main \in [pc: Pcs, all: BOOLEAN, ident: Nat, planned: Nat, trace: Nat, rows: Nat,
                   case: Nat, i: Nat]
      /\ DiskTypeOK /\ runs \in Nat /\ PoolTypeOK
  BY DEF Collect, At, EvidenceInv, DiskTypeOK, Where, PoolInv, PoolTypeOK
<1>2. \A r \in Requests : req'[r].by = 0
  BY <1>1 DEF NoRequests, NoRequest
<1>3. CASE main' = Idle /\ UNCHANGED disk
  BY <1>1, <1>2, <1>3, Ends
<1>4. CASE /\ disk' = [disk EXCEPT !.artifact[main.case] = new]
           /\ main' = IF main.all THEN [main EXCEPT !.pc = "gate"] ELSE Idle
  <2>1. /\ new \in Artifacts /\ new.attempt = main.ident /\ new.trace = main.rows
        /\ new.passed = (P99Lag <= LagLimit) /\ new.onTime = OnTime
        /\ new.own = (\A r \in Requests : req[r].by \in {0, main.ident})
    BY <1>1 DEF Artifacts, OnTime
  <2>2. Honest(new)
    <3>1. new.passed => new.onTime
      BY <1>1, <2>1, GateLemma
    <3>2. main.ident <= attempt /\ (main.ident = attempt => new.own)
      <4>1. attempt \in Nat /\ main.ident \in Nat /\ \A r \in Requests : req[r].by \in Nat
        BY <1>1 DEF PoolTypeOK
      <4>. QED
        BY <2>1, <4>1 DEF EvidenceInv, Answers
    <3>. QED
      BY <2>1, <3>1, <3>2 DEF Honest
  <2>. HIDE DEF new
  <2>3. /\ disk'.manifest = disk.manifest
        /\ disk'.artifact = [disk.artifact EXCEPT ![main.case] = new]
        /\ disk.artifact \in [Cases -> Artifacts]
    BY <1>1, <1>4 DEF DiskTypeOK
  <2>4. /\ disk'.artifact \in [Cases -> Artifacts] /\ disk'.artifact[main.case] = new
        /\ \A c \in Cases : c # main.case => disk'.artifact[c] = disk.artifact[c]
    BY <1>1, <2>1, <2>3
  <2>5. DiskTypeOK'
    <3>1. disk' = [artifact |-> disk'.artifact, manifest |-> disk.manifest]
      BY <1>1, <1>4, <2>3 DEF DiskTypeOK
    <3>. QED
      BY <1>1, <2>4, <3>1 DEF DiskTypeOK
  <2>6. AllHonest'
    <3>1. \A c \in Cases : Honest(disk'.artifact[c]) /\ Honest(disk.manifest.artifact[c])
      BY <2>2, <2>4 DEF EvidenceInv, AllHonest
    <3>. QED
      BY <1>1, <2>3, <3>1 DEF AllHonest, Honest
  <2>7. Verified' = Verified
    BY <1>1 DEF Verified, Verifies
  <2>8. ManifestAsPlanned'
    BY <1>1, <2>3, <2>7 DEF EvidenceInv, ManifestAsPlanned
  <2>9. CASE ~main.all
    <3>1. main'.pc = "idle" /\ main'.ident = 0
      BY <1>4, <2>9 DEF Idle
    <3>2. Answers' /\ Where' /\ ReplayedHere' /\ AsPlanned'
      BY <1>2, <2>5, <3>1 DEF Answers, Where, ReplayedHere, AsPlanned, DiskTypeOK
    <3>. QED
      BY <2>3, <2>5, <2>6, <2>8, <3>2 DEF EvidenceInv
  <2>10. CASE main.all
    <3>1. /\ main'.pc = "gate" /\ main'.all /\ main'.ident = main.ident
          /\ main'.planned = main.planned /\ main'.trace = main.trace /\ main'.case = main.case
      BY <1>1, <1>4, <2>10
    <3>2. Answers' /\ Where'
      BY <1>1, <1>2, <2>10, <3>1 DEF EvidenceInv, Answers, Where
    <3>3. \A c \in Replayed' : (c \in Replayed /\ c # main.case) \/ c = main.case
      BY <1>1, <3>1 DEF Replayed, Cases
    <3>4. ReplayedHere'
      BY <1>1, <2>1, <2>4, <2>10, <3>1, <3>3 DEF EvidenceInv, ReplayedHere, Replayed
    <3>5. AsPlanned'
      BY <1>1, <2>1, <2>4, <2>7, <2>10, <3>1, <3>3 DEF EvidenceInv, AsPlanned, Replayed
    <3>. QED
      BY <2>3, <2>5, <2>6, <2>8, <3>2, <3>4, <3>5 DEF EvidenceInv
  <2>. QED
    BY <2>9, <2>10
<1>. QED
  BY <1>3, <1>4 DEF Collect

LEMMA EvidenceStep == PoolInv /\ EvidenceInv /\ [ReplayNext]_replayVars => EvidenceInv'
<1>. SUFFICES ASSUME PoolInv, EvidenceInv, [ReplayNext]_replayVars PROVE EvidenceInv'
  OBVIOUS
<1>1. CASE \E r \in Requests : WorkerStep(r)
  <2>1. PICK r \in Requests : WorkerStep(r)
    BY <1>1
  <2>. QED
    BY <2>1, AnswersStart, AnswersKept DEF WorkerStep
<1>2. CASE MainStep
  BY <1>2, NextCaseKeeps, PublishKeeps, GateKeeps, SubmitGoesOn, CollectKeepsEvidence, KilledEnds DEF MainStep
<1>3. CASE Begin \/ Killed \/ Interrupted
  BY <1>3, BeginKeepsEvidence, KilledEnds, InterruptedGoesOn
<1>4. CASE Tick \/ Restart \/ RunWeek03 \/ VerifyWeek03 \/ UNCHANGED replayVars
  BY <1>4, TickGoesOn, RestartKeeps, Week03Keeps
<1>. QED
  BY <1>1, <1>2, <1>3, <1>4 DEF ReplayNext

(***************************************************************************)
(* What follows from it                                                    *)
(***************************************************************************)
LEMMA InvIsHonest == EvidenceInv => EvidenceHonest
<1>. SUFFICES ASSUME EvidenceInv PROVE EvidenceHonest
  OBVIOUS
<1>1. /\ attempt # 0 /\ AllHonest /\ ManifestAsPlanned
      /\ disk.manifest.attempt = 0 => disk.manifest = NoManifest
  BY DEF EvidenceInv, DiskTypeOK
<1>2. NoManifest.attempt = 0
  BY DEF NoManifest
<1>3. ManifestHonest
  BY <1>1 DEF ManifestHonest, ManifestAsPlanned, AllHonest, Honest
<1>4. AcceptedIsOneServer
  <2>. SUFFICES ASSUME Accepted(disk.manifest), NEW c \in Cases
                PROVE  /\ disk.manifest.artifact[c].own /\ disk.manifest.artifact[c].onTime
                       /\ disk.manifest.artifact[c].trace = week03.trace
    BY DEF AcceptedIsOneServer
  <2>1. /\ disk.manifest.artifact[c].attempt = attempt /\ disk.manifest.artifact[c].passed
        /\ disk.manifest.artifact[c].trace = week03.trace
    BY DEF Accepted, RecordsAccepted
  <2>. QED
    BY <1>1, <2>1 DEF AllHonest, Honest
<1>5. PublishedIsAccepted
  <2>. SUFFICES ASSUME disk.manifest # NoManifest, disk.manifest.attempt = attempt,
                       disk.manifest.planned = week03.files,
                       disk.manifest.artifact = disk.artifact
                PROVE  Accepted(disk.manifest)
    BY DEF PublishedIsAccepted
  <2>1. disk.manifest.week03 = week03.files
    <3>1. disk.manifest.week03 \in Nat /\ disk.manifest.planned \in Nat
      BY DEF EvidenceInv, DiskTypeOK, Manifests
    <3>. QED
      BY <1>1, <3>1 DEF ManifestAsPlanned
  <2>2. RecordsAccepted(disk.manifest)
    BY <1>1, <2>1 DEF ManifestAsPlanned, RecordsAccepted
  <2>3. ArtifactsAccepted(disk.manifest)
    BY <1>1 DEF ManifestAsPlanned, ArtifactsAccepted
  <2>. QED
    BY <2>2, <2>3 DEF Accepted
<1>. QED
  BY <1>3, <1>4, <1>5 DEF EvidenceHonest

\* run_all_configured, _verify_comparison_manifest: whatever is restarted, run again, verified
\* again or killed, and whenever, a manifest names the attempt of all of its artifacts, and at
\* most one in a hundred of the measured requests of each was late; one that verification
\* accepts holds answers of the present server to the traces of the verified evidence only;
\* and what is published from evidence that has not changed is accepted.
THEOREM EvidenceIsHonest == ReplaySpec => []EvidenceHonest
<1>1. ReplayInit => PoolInv /\ EvidenceInv
  BY PoolInitHolds, EvidenceInitHolds
<1>2. (PoolInv /\ EvidenceInv) /\ [ReplayNext]_replayVars => (PoolInv /\ EvidenceInv)'
  BY PoolStep, EvidenceStep
<1>. QED
  BY <1>1, <1>2, InvIsHonest, PTL DEF ReplaySpec
=============================================================================
