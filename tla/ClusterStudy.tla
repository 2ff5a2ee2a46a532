---------------------------- MODULE ClusterStudy ----------------------------
(***************************************************************************)
(* scripts/run_cluster_study.py on the same lab, week 15: it applies a     *)
(* case, measures its cells one after the other, or restarts the engines   *)
(* while they are watched; its record is session.json.  With it the        *)
(* sessions of both scripts, one at a time, and what they promise.         *)
(***************************************************************************)
EXTENDS PlatformStudy

CONSTANTS
  ClusterPlans,   (* The command lines.                                    *)
  Cells           (* Repetitions times workloads.                          *)

ASSUME ClusterAssumption ==
  /\ Cells \in Nat \ {0} /\ MaxSessions \in Nat /\ MaxTrouble \in Nat
  /\ ClusterPlans \subseteq [script: {"cluster"}, week: {15}, action: {"apply", "run", "rollout"},
                             mode: {"fixed_1", "fixed_2", "cpu"}, fault: {"none"}]

Cluster == Plan.script = "cluster"

\* An exception while the namespace is watched, and before.
Fallen == [session EXCEPT !.pc = IF session.pc \in {"change", "before"} THEN "ended" ELSE "after",
                          !.failing = TRUE]

Fall == session' = Fallen /\ UNCHANGED <<lab, budget>>

OpenCluster ==
  /\ Idle /\ budget.sessions < MaxSessions
  /\ \E p \in ClusterPlans :
       session' = [NoSession EXCEPT !.plan = p,
                     !.pc       = IF p.action = "apply" THEN "change" ELSE "before",
                     !.recorded = IF p.action = "apply" THEN "none" ELSE "started"]
  /\ budget' = [budget EXCEPT !.sessions = @ + 1]
  /\ UNCHANGED lab

\* Only a cell of fixed replicas is refused where there is an autoscaler.
ChangeCase ==
  /\ At("change")
  /\ IF Plan.mode # "cpu" /\ lab.hpas # {} THEN Fall
     ELSE Kubectl([lab EXCEPT !.replicas = IF Plan.mode = "fixed_2" THEN 2 ELSE 1,
                              !.rolled = FALSE, !.args = "cluster",
                              !.hpas = IF Plan.mode = "cpu" THEN @ \cup {"cpu"} ELSE @],
                  To("ended"), Fallen)

Before ==
  /\ At("before")
  /\ session' = To(IF Plan.action = "run" THEN "gate" ELSE "disturb")
  /\ UNCHANGED <<lab, budget>>

\* rollout and fail_pod: the change is made and watched.
Disturb == At("disturb") /\ Kubectl(Restarted, To("after"), Fallen)

\* Any one autoscaler of one to two replicas will do for the CPU's. The Ready replicas are
\* counted, those of an earlier generation with them.
StatusGate(counted) ==
  /\ lab.args = "cluster"
  /\ IF Plan.mode = "cpu" THEN Cardinality(lab.hpas) = 1
     ELSE /\ counted /\ lab.replicas = (IF Plan.mode = "fixed_2" THEN 2 ELSE 1)
          /\ lab.hpas = {}

Pass(holds, next) == IF holds THEN session' = next /\ UNCHANGED <<lab, budget>> ELSE Fall

Gate == At("gate") /\ \E counted \in {lab.rolled, TRUE} : Pass(StatusGate(counted), To("cell"))

\* The caches are left as they are, or the engines are restarted first.
BeginCell ==
  /\ At("cell")
  /\ \/ session' = To("load") /\ UNCHANGED <<lab, budget>>
     \/ Kubectl(Restarted, To("restarted"), Fallen)

\* Waits for the engines, warms each of them, and looks again.
Restarts == At("restarted") /\ Pass(lab.rolled /\ StatusGate(TRUE), To("load"))

Rejected == Fallen

\* One cell is measured: every request has succeeded, or the cell is rejected.
Load ==
  /\ At("load")
  /\ \/ session' = [session EXCEPT !.cells = @ + 1,
                       !.pc = IF session.cells = Cells - 1 THEN "after" ELSE "cell"]
     \/ session' = Rejected
  /\ UNCHANGED <<lab, budget>>

\* The last snapshot, and session.json, unless the snapshot raises.
After ==
  /\ At("after")
  /\ session' = [session EXCEPT !.pc = "ended",
                   !.recorded = IF session.failing THEN "failed" ELSE "collected"]
  /\ UNCHANGED <<lab, budget>>

ClusterFails ==
  /\ ~Idle /\ Trouble
  /\ session' = IF At("after") THEN To("ended") ELSE Fallen
  /\ UNCHANGED lab

ClusterStep ==
  /\ Cluster
  /\ \/ ChangeCase \/ Before \/ Disturb \/ Gate \/ BeginCell \/ Restarts \/ Load \/ After
     \/ ClusterFails

SessionStep == PlatformStep \/ ClusterStep

LabNext == Open \/ OpenCluster \/ SessionStep \/ Killed \/ Controllers

\* A script goes on, if only to give up; the controllers may take for ever.
LabSpec == LabInit /\ [][LabNext]_labVars /\ WF_labVars(SessionStep)

(***************************************************************************)
(* Properties                                                              *)
(***************************************************************************)
\* Who writes the target's replicas: a ScaledObject and its HPA are one.
Writers == (lab.hpas \ {"keda"}) \cup (IF lab.scaled = "live" \/ "keda" \in lab.hpas THEN {"keda"} ELSE {})

\* writer_check, switch_scaler: whatever is interrupted or fails half-way in a handoff, and
\* however late KEDA and the garbage collector are, the platform's two autoscalers and one
\* that somebody else made never act on the target at once.
OneChain == Cardinality(Writers \ {"cpu"}) <= 1

\* switch_scaler: an apply or a restore that is recorded as completed has left its own
\* writer and no other, or no writer and its number of replicas.
HandoffHonest ==
  (session.pc = "ended" /\ session.recorded = "completed" /\ Plan.week = 20
     /\ Plan.action \in {"apply", "restore"}) =>
    IF Mode = "hpa" THEN lab.hpas = {"pressure"} /\ lab.scaled = "none"
    ELSE IF Mode = "keda" THEN lab.hpas \subseteq {"keda"} /\ lab.scaled = "live"
    ELSE Writers = {} /\ lab.replicas = (IF Mode = "fixed_1" THEN 1 ELSE 2)

\* injected_fault, run_cell: a fault session that ends by itself, well or with any exception,
\* has put back what it changed, unless a call of the restoration itself failed; and one that
\* is recorded as completed has restored everything and seen a generation succeed.
FaultIsUndone ==
  (session.pc = "ended" /\ Plan.action = "fault") =>
    /\ (session.prior # <<>> /\ session.stuck = "no") =>
         /\ session.prior = <<lab.selector, lab.port, lab.epp>>
         /\ (Plan.fault = "membership" => ~lab.member) /\ (Plan.fault = "artifact" => ~lab.patched)
    /\ session.recorded = "completed" => session.smoke /\ session.stuck = "no"

\* run_cell: a summary is eligible as a performance result only when its traffic began on the
\* pool's own selector and port, with the picker's one replica and, in week 20, metrics that
\* were served, whatever a fault of an earlier session left behind, and with no autoscaler
\* but the case's own: there, unless it was KEDA's and already being deleted.
EligibleIsClean == session.eligible => session.clean

\* switch_scaler: while somebody else's autoscaler is on the target, no session makes or
\* removes one of the platform's.
ForeignStays ==
  [][("foreign" \in lab.hpas) =>
       lab'.hpas \ {"cpu"} = lab.hpas \ {"cpu"} /\ lab'.scaled = lab.scaled]_labVars

\* benchmark: a run of week 15 is recorded as collected only when every one of its cells is.
CollectedIsWhole ==
  (session.recorded = "collected" /\ Plan.action = "run") => session.cells = Cells

\* What a session records: a handoff, an eligible summary, a whole run.
ResultsHonest == HandoffHonest /\ EligibleIsClean /\ CollectedIsWhole

\* Every loop that waits for the cluster has a deadline: a session comes to its end, even if
\* no controller ever answers.
SessionEnds == (~Idle) ~> Idle
=============================================================================
