---------------------------- MODULE PlatformStudy ----------------------------
(***************************************************************************)
(* One session after the other of scripts/run_platform_study.py, weeks 17  *)
(* to 20: it applies resources, hands the replicas from one autoscaler to  *)
(* another, measures a cell, injects a fault while it measures and undoes  *)
(* it, and leaves a run.json.  Any call may fail, before or after it took  *)
(* effect, and the script may be interrupted or killed at any point.       *)
(***************************************************************************)
EXTENDS LabCluster

CONSTANTS PlatformPlans   (* The command lines.                            *)

\* The patches of an object, the two of membership and a release's artifacts are undone.
Undone == {"epp_unavailable", "wrong_port", "no_endpoints", "membership", "artifact"}

Actions == {"preflight", "dry_run", "apply", "snapshot", "run", "fault", "conformance", "mutate",
            "delete", "restore"}

\* What the parser accepts. The fault of a case is for the action fault, which needs one.
ASSUME PlansAssumption ==
  \A p \in PlatformPlans :
    /\ p \in [script: {"platform"}, week: 17..20, action: Actions,
              mode: {"fixed_1", "fixed_2", "hpa", "keda"},
              fault: Undone \cup {"pod_replacement", "none"}]
    /\ p.action = "fault" <=> p.fault # "none"
    /\ p.week # 20 => p.mode = "fixed_2"

Plan == session.plan

(***************************************************************************)
(* Where an exception, or a KeyboardInterrupt, goes                        *)
(***************************************************************************)
InFault == session.pc \in {"label", "inject", "drain", "traffic"} /\ Plan.fault \in Undone

InCell == session.pc \in {"warm", "rollout", "fetch", "label", "inject", "drain", "traffic",
                          "restore", "unlabel", "summary", "recover", "smoke"}

Handler == IF InFault THEN "restore" ELSE IF InCell THEN "closing" ELSE "finish"

Raised == [session EXCEPT !.pc = Handler, !.failing = TRUE,
                          !.stuck = IF session.pc \in {"restore", "unlabel"} THEN session.pc ELSE @]

Raise == session' = Raised /\ UNCHANGED <<lab, budget>>

Patch(new, pc) == Kubectl(new, To(pc), Raised)

(***************************************************************************)
(* main                                                                    *)
(***************************************************************************)
Idle == session.pc \in {"ended", "killed"}

First(p) ==
  IF p.action \in {"run", "fault"} THEN "ready"
  ELSE IF p.action = "restore" \/ (p.action = "apply" /\ p.week = 20) THEN "list"
  ELSE IF p.action = "apply" THEN "apply"
  ELSE IF p.action \in {"mutate", "delete"} THEN "parent"
  ELSE IF p.action \in {"conformance", "dry_run"} THEN "job"
  ELSE "finish"               \* preflight, snapshot

Open ==
  /\ Idle /\ budget.sessions < MaxSessions
  /\ \E p \in PlatformPlans :
       session' = [NoSession EXCEPT !.plan = p, !.pc = "preflight", !.recorded = "running"]
  /\ budget' = [budget EXCEPT !.sessions = @ + 1]
  /\ UNCHANGED lab

\* The versions, the schemas and the Gateway's conditions are checked; a snapshot is taken.
Preflight == At("preflight") /\ session' = To(First(Plan)) /\ UNCHANGED <<lab, budget>>

Verdict == IF session.failing THEN "failed" ELSE "completed"

\* The last snapshot may fail: that is noted, and the session is recorded all the same.
Finish ==
  /\ At("finish")
  /\ session' = [session EXCEPT !.pc = "ended", !.recorded = Verdict]
  /\ UNCHANGED <<lab, budget>>

\* A call that fails without effect, a check that fails, an interrupt.
Fails ==
  /\ ~Idle /\ session.pc # "finish" /\ Trouble
  /\ session' = IF At("closing") THEN [session EXCEPT !.pc = "finish", !.failing = TRUE] ELSE Raised
  /\ UNCHANGED lab

\* SIGKILL, or an interrupt in the last snapshot: the record says running for good.
Killed == ~Idle /\ Trouble /\ session' = To("killed") /\ UNCHANGED lab

(***************************************************************************)
(* apply, server-dry-run, conformance, mutate and delete                   *)
(***************************************************************************)
\* One chain of writers, or none. A collected HPA is not made again, so that the two
\* lists, which are read one after the other, are as good as one.
WriterCheck(mode) ==
  \/ mode \in {"fixed_1", "fixed_2"} /\ lab.hpas = {} /\ lab.scaled = "none"
  \/ mode = "hpa"  /\ Cardinality(lab.hpas) = 1 /\ "keda" \notin lab.hpas /\ lab.scaled = "none"
  \/ mode = "keda" /\ lab.hpas = {"keda"} /\ lab.scaled # "none"

\* What week 17 and 18 apply; a field that another manager changed is a conflict.
Desired == [lab EXCEPT !.selector = "target", !.port = "right", !.epp = 1, !.replicas = 2,
                       !.args = "platform"]

\* Week 19 applies the LLMInferenceService, and looks for no other writer.
ApplyBundle ==
  /\ At("apply")
  /\ IF Plan.week = 19
     THEN Patch([lab EXCEPT !.parent = IF @ = "going" THEN @ ELSE "changing"], "finish")
     ELSE IF WriterCheck("fixed_2") /\ lab = Desired
     THEN \E rolled \in BOOLEAN : Patch([lab EXCEPT !.rolled = rolled /\ @], "finish")
     ELSE Raise

\* A Job that succeeds, fails or is late; a dry run that the server refuses.
RunJob == At("job") /\ ((session' = To("finish") /\ UNCHANGED <<lab, budget>>) \/ Raise)

ChangeParent ==
  /\ At("parent")
  /\ IF lab.parent = "gone" THEN Raise
     ELSE IF Plan.action = "delete" THEN Patch([lab EXCEPT !.parent = "going"], "converge")
     ELSE IF lab.parent = "going" THEN Raise
     ELSE Patch([lab EXCEPT !.parent = "changing"], "converge")

Converges ==
  /\ At("converge")
  /\ IF lab.parent = (IF Plan.action = "delete" THEN "gone" ELSE "ready")
     THEN session' = To("finish") /\ UNCHANGED <<lab, budget>>
     ELSE Raise

(***************************************************************************)
(* switch_scaler                                                           *)
(***************************************************************************)
\* Mutant: the owner of an autoscaler is not asked for.
Known_Any == TRUE

\* The lab's own, by label, or made by a ScaledObject that is.
Known == "foreign" \notin lab.hpas /\ ("keda" \in lab.hpas => lab.scaled # "none")

ListWriters ==
  /\ At("list")
  /\ IF Known THEN /\ session' = [To("unscale") EXCEPT !.listed = lab.hpas,
                                                       !.scaled = lab.scaled # "none"]
                   /\ UNCHANGED <<lab, budget>>
              ELSE Raise

\* A ScaledObject that has gone since it was listed is not found.
DeleteScaledObject ==
  /\ At("unscale")
  /\ IF ~session.scaled THEN session' = To("unhpa") /\ UNCHANGED <<lab, budget>>
     ELSE IF lab.scaled = "none" THEN Raise
     ELSE Patch([lab EXCEPT !.scaled = "going"], "unhpa")

\* Those that were listed, one by one, whether they are still there or not.
DeleteHpas ==
  /\ At("unhpa")
  /\ \/ session.listed = {} /\ session' = To("handoff") /\ UNCHANGED <<lab, budget>>
     \/ \E h \in session.listed :
          Kubectl([lab EXCEPT !.hpas = @ \ {h}], [session EXCEPT !.listed = @ \ {h}], Raised)

\* Mutant: the new writer does not wait for the old.
HandedOff_Now == TRUE

HandedOff == WriterCheck("fixed_2")

\* Waits, or gives up.
AwaitHandoff ==
  /\ At("handoff")
  /\ IF HandedOff THEN session' = To("install") /\ UNCHANGED <<lab, budget>> ELSE Raise

Mode == IF Plan.action = "restore" THEN "fixed_2" ELSE Plan.mode

Installed ==
  IF Mode = "hpa" THEN [lab EXCEPT !.hpas = @ \cup {"pressure"}]
  ELSE IF Mode = "keda" THEN [lab EXCEPT !.scaled = "live"]
  ELSE LET n == IF Mode = "fixed_1" THEN 1 ELSE 2
       IN  [lab EXCEPT !.replicas = n, !.rolled = @ /\ lab.replicas = n]

Install == At("install") /\ Patch(Installed, "finish")

(***************************************************************************)
(* run_cell: ready, verify_live_case and metric_sample; warmup             *)
(***************************************************************************)
PoolAsDeclared == lab.selector = "target" /\ lab.port = "right"

Ready ==
  IF Plan.week = 19 THEN lab.parent = "ready"
  ELSE /\ WriterCheck(Plan.mode) /\ PoolAsDeclared
       /\ lab.rolled /\ lab.args = "platform"
       /\ (Plan.mode = "fixed_1" => lab.replicas = 1)
       /\ (Plan.mode = "fixed_2" => lab.replicas = 2)

\* Mutant: the picker is not looked at.
AsRendered_NoPicker == (Plan.mode = "hpa"  => "pressure" \in lab.hpas)
                    /\ (Plan.mode = "keda" => lab.scaled # "none")

\* Each object of the case, the autoscaler of the case by its name, is there as rendered:
\* a ScaledObject that is being deleted too.
AsRendered == /\ lab.epp = 1
              /\ (Plan.mode = "hpa"  => "pressure" \in lab.hpas)
              /\ (Plan.mode = "keda" => lab.scaled # "none")

\* And the picker is Ready.
Verified == Plan.week # 19 => AsRendered /\ lab.eppUp

\* A metric is missing, stale or malformed while its fault is in place.
MetricValue == ~lab.patched

Measurable == Plan.week = 20 => MetricValue

Check(holds, pc) ==
  IF holds THEN session' = To(pc) /\ UNCHANGED <<lab, budget>> ELSE Raise

\* The sampler starts.
CheckReady ==
  /\ At("ready")
  /\ Check(Ready /\ Verified /\ Measurable,
           IF Plan.week # 19 THEN "warm" ELSE IF Plan.action = "fault" THEN "fetch" ELSE "traffic")

\* New Pods: a label of an old one is gone.
Restarted == [lab EXCEPT !.rolled = FALSE, !.member = FALSE]

Warm == At("warm") /\ Patch(Restarted, "rollout")

\* Waits for the rollout, or gives up; each Pod then answers a few requests.
AwaitRollout ==
  At("rollout") /\ Check(Ready, IF Plan.action = "fault" THEN "fetch" ELSE "traffic")

(***************************************************************************)
(* injected_fault                                                          *)
(***************************************************************************)
\* What is to be restored is read, outside of the try.
Fetch ==
  /\ At("fetch")
  /\ IF Plan.fault = "pod_replacement" THEN Patch(Restarted, "traffic")
     ELSE IF Plan.fault = "membership" /\ lab.replicas # 2 THEN Raise
     ELSE /\ session' = [To(IF Plan.fault = "membership" THEN "label" ELSE "inject")
                           EXCEPT !.prior = <<lab.selector, lab.port, lab.epp>>]
          /\ UNCHANGED <<lab, budget>>

Label == At("label") /\ Patch([lab EXCEPT !.member = TRUE], "inject")

Injected ==
  IF Plan.fault = "membership" THEN [lab EXCEPT !.selector = "member"]
  ELSE IF Plan.fault = "no_endpoints" THEN [lab EXCEPT !.selector = "nobody"]
  ELSE IF Plan.fault = "wrong_port" THEN [lab EXCEPT !.port = "wrong"]
  ELSE IF Plan.fault = "epp_unavailable" THEN [lab EXCEPT !.epp = 0]
  ELSE [lab EXCEPT !.patched = TRUE]      \* artifact

Inject ==
  At("inject") /\ Patch(Injected, IF Plan.fault = "epp_unavailable" THEN "drain" ELSE "traffic")

\* Mutant: waits for as long as the picker's Pods stay.
Drain_Forever ==
  At("drain") /\ ~lab.eppUp /\ session' = To("traffic") /\ UNCHANGED <<lab, budget>>

\* Waits until the picker's Pods have gone, or gives up.
Drain == At("drain") /\ Check(~lab.eppUp, "traffic")

\* The autoscaler of the case and no other, or one of KEDA's that is on its way out.
CaseWriter ==
  \/ WriterCheck(Plan.mode)
  \/ Plan.mode = "keda" /\ lab.hpas \subseteq {"keda"} /\ lab.scaled # "live"

\* What the traffic of a measured cell should meet. Nothing looks for what a release's own
\* fault left behind in weeks 17 and 18, nor for a ScaledObject that has begun to go.
Declared == /\ lab.selector = "target" /\ lab.port = "right" /\ lab.epp = 1
            /\ CaseWriter /\ Measurable

\* The requests are sent, when they are due, those that find no slot recorded as overload.
Traffic ==
  /\ At("traffic")
  /\ \E saturated \in BOOLEAN :
       session' = [session EXCEPT
         !.pc = IF Plan.fault \in Undone THEN "restore" ELSE "summary",
         !.saturated = saturated, !.clean = Declared]
  /\ UNCHANGED <<lab, budget>>

\* Once the fault is undone.
Summary ==
  /\ At("summary")
  /\ session' = [session EXCEPT
       !.pc       = IF Plan.action = "fault" THEN "recover" ELSE "closing",
       !.eligible = Plan.week # 19 /\ Plan.action # "fault" /\ ~session.saturated]
  /\ UNCHANGED <<lab, budget>>

AfterUndo == IF session.failing THEN "closing" ELSE "summary"

\* Mutant: what is restored is what is there.
Restored_Live == lab

Restored ==
  IF Plan.fault = "artifact" THEN [lab EXCEPT !.patched = FALSE]
  ELSE [lab EXCEPT !.selector = session.prior[1], !.port = session.prior[2],
                   !.epp = session.prior[3]]

\* The finally; for membership the selector is first, and the label only after it.
Restore ==
  At("restore") /\ Patch(Restored, IF Plan.fault = "membership" THEN "unlabel" ELSE AfterUndo)

Unlabel == At("unlabel") /\ Patch([lab EXCEPT !.member = FALSE], AfterUndo)

Recover == At("recover") /\ Check(Ready /\ Verified, "smoke")

Smoke ==
  /\ At("smoke")
  /\ \/ session' = [To("closing") EXCEPT !.smoke = TRUE] /\ UNCHANGED <<lab, budget>>
     \/ Raise

\* The sampler is stopped and waited for.
Closing == At("closing") /\ session' = To("finish") /\ UNCHANGED <<lab, budget>>

(***************************************************************************)
(* Specification                                                           *)
(***************************************************************************)
PlatformStep ==
  /\ Plan.script = "platform"
  /\ \/ Preflight \/ Finish \/ Fails
     \/ ApplyBundle \/ RunJob \/ ChangeParent \/ Converges
     \/ ListWriters \/ DeleteScaledObject \/ DeleteHpas \/ AwaitHandoff \/ Install
     \/ CheckReady \/ Warm \/ AwaitRollout \/ Fetch \/ Label \/ Inject \/ Drain \/ Traffic \/ Summary
     \/ Restore \/ Unlabel \/ Recover \/ Smoke \/ Closing
=============================================================================
