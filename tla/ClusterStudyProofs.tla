------------------------- MODULE ClusterStudyProofs -------------------------
(***************************************************************************)
(* The sessions of the two scripts, for any command lines in any order,    *)
(* any number of sessions, failures, interrupts and kills, and controllers *)
(* that answer whenever they like.                                         *)
(***************************************************************************)
EXTENDS ClusterStudy, FiniteSetTheorems, TLAPS

USE PlansAssumption, ClusterAssumption

(***************************************************************************)
(* What the records are                                                    *)
(***************************************************************************)
SessionFields == {"plan", "pc", "failing", "recorded", "listed", "scaled", "prior", "stuck",
                  "saturated", "eligible", "clean", "smoke", "cells"}

LabFields == {"selector", "port", "epp", "eppUp", "member", "patched", "hpas", "scaled",
              "replicas", "rolled", "args", "parent"}

Shape ==
  /\ DOMAIN session = SessionFields /\ DOMAIN lab = LabFields
  /\ session.plan \in PlatformPlans \cup ClusterPlans \cup {Nobody}

\* Apart from where a session is, and whether it fails.
SameButPlace(t) ==
  /\ DOMAIN t = SessionFields
  /\ t.plan = session.plan /\ t.recorded = session.recorded /\ t.listed = session.listed
  /\ t.scaled = session.scaled /\ t.prior = session.prior /\ t.saturated = session.saturated
  /\ t.eligible = session.eligible /\ t.clean = session.clean /\ t.smoke = session.smoke
  /\ t.cells = session.cells

LEMMA ToLemma ==
  ASSUME Shape, NEW pc
  PROVE  /\ SameButPlace(To(pc)) /\ To(pc).pc = pc /\ To(pc).failing = session.failing
         /\ To(pc).stuck = session.stuck
BY DEF Shape, SessionFields, To, SameButPlace

LEMMA RaisedLemma ==
  ASSUME Shape
  PROVE  /\ SameButPlace(Raised) /\ Raised.pc = Handler /\ Raised.failing = TRUE
         /\ Raised.stuck = IF session.pc \in {"restore", "unlabel"} THEN session.pc ELSE session.stuck
<1>. DEFINE stuck == IF session.pc \in {"restore", "unlabel"} THEN session.pc ELSE session.stuck
            handler == Handler
<1>1. Raised = [session EXCEPT !.pc = handler, !.failing = TRUE, !.stuck = stuck]
  BY DEF Raised
<1>. HIDE DEF stuck, handler
<1>2. /\ SameButPlace(Raised) /\ Raised.pc = handler /\ Raised.failing = TRUE
      /\ Raised.stuck = stuck
  BY <1>1 DEF Shape, SessionFields, SameButPlace
<1>. QED
  BY <1>2 DEF stuck, handler

LEMMA FallenLemma ==
  ASSUME Shape
  PROVE  /\ SameButPlace(Fallen) /\ Fallen.failing = TRUE /\ Fallen.stuck = session.stuck
         /\ Fallen.pc = IF session.pc \in {"change", "before"} THEN "ended" ELSE "after"
<1>. DEFINE place == IF session.pc \in {"change", "before"} THEN "ended" ELSE "after"
<1>1. Fallen = [session EXCEPT !.pc = place, !.failing = TRUE]
  BY DEF Fallen
<1>. HIDE DEF place
<1>2. /\ SameButPlace(Fallen) /\ Fallen.failing = TRUE /\ Fallen.stuck = session.stuck
      /\ Fallen.pc = place
  BY <1>1 DEF Shape, SessionFields, SameButPlace
<1>. QED
  BY <1>2 DEF place

(***************************************************************************)
(* Who writes the replicas                                                 *)
(***************************************************************************)
Scalers == {"cpu", "foreign", "pressure", "keda"}

Handover == {"unscale", "unhpa", "handoff", "install"}

\* KEDA's chain is there from its ScaledObject until its HPA is collected.
KedaChain == lab.scaled # "none" \/ "keda" \in lab.hpas

\* At most one of the three; and a handover is begun only where nobody else's autoscaler is,
\* and installs only where there is none.
ChainInv ==
  /\ lab.hpas \subseteq Scalers
  /\ ~("foreign" \in lab.hpas /\ "pressure" \in lab.hpas)
  /\ ~("foreign" \in lab.hpas /\ KedaChain)
  /\ ~("pressure" \in lab.hpas /\ KedaChain)
  /\ "foreign" \in lab.hpas => session.pc \notin Handover
  /\ session.pc = "install" => lab.hpas = {} /\ lab.scaled = "none"

\* A step within a session.
SameSession ==
  DOMAIN session' = SessionFields /\ DOMAIN lab' = LabFields /\ session'.plan = session.plan

\* The steps that are no part of a handover, and of no controller.
Elsewhere ==
  /\ SameSession
  /\ lab'.hpas = lab.hpas /\ lab'.scaled = lab.scaled /\ session'.pc \notin Handover

LEMMA HandlerIsElsewhere == Handler \in {"restore", "closing", "finish"}
BY DEF Handler

LEMMA PlatformElsewhere ==
  ASSUME Shape, PlatformStep
  PROVE  \/ Elsewhere
         \/ ListWriters \/ DeleteScaledObject \/ DeleteHpas \/ AwaitHandoff \/ Install
<1>. USE DEF Handover, Elsewhere, SameSession
<1>0. /\ \A pc : To(pc).pc = pc /\ DOMAIN To(pc) = SessionFields /\ To(pc).plan = session.plan
      /\ DOMAIN Raised = SessionFields /\ Raised.plan = session.plan
      /\ Raised.pc \in {"restore", "closing", "finish"}
      /\ DOMAIN lab = LabFields /\ DOMAIN session = SessionFields
  BY ToLemma, RaisedLemma, HandlerIsElsewhere DEF SameButPlace, Shape
<1>1. CASE Preflight \/ Finish \/ Fails
  <2>1. CASE Preflight
    BY <1>0, <2>1 DEF Preflight, First
  <2>2. CASE Finish
    BY <1>0, <2>2 DEF Finish, SessionFields
  <2>3. CASE Fails
    BY <1>0, <2>3 DEF Fails, SessionFields
  <2>. QED
    BY <1>1, <2>1, <2>2, <2>3
<1>2. CASE ApplyBundle \/ RunJob \/ ChangeParent \/ Converges
  <2>1. CASE ApplyBundle
    <3>1. CASE UNCHANGED lab
      BY <1>0, <2>1, <3>1 DEF ApplyBundle, Patch, Kubectl, Raise
    <3>2. CASE \E rolled \in BOOLEAN : Patch([lab EXCEPT !.rolled = rolled /\ @], "finish")
      BY <1>0, <3>2 DEF Patch, Kubectl, LabFields
    <3>3. CASE Patch([lab EXCEPT !.parent = IF @ = "going" THEN @ ELSE "changing"], "finish")
      BY <1>0, <3>3 DEF Patch, Kubectl, LabFields
    <3>. QED
      BY <1>0, <2>1, <3>1, <3>2, <3>3 DEF ApplyBundle, Raise
  <2>2. CASE RunJob
    BY <1>0, <2>2 DEF RunJob, Raise
  <2>3. CASE ChangeParent
    BY <1>0, <2>3 DEF ChangeParent, Patch, Kubectl, Raise, LabFields
  <2>4. CASE Converges
    BY <1>0, <2>4 DEF Converges, Raise
  <2>. QED
    BY <1>2, <2>1, <2>2, <2>3, <2>4
<1>3. CASE CheckReady \/ Warm \/ AwaitRollout \/ Fetch
  <2>1. CASE CheckReady
    BY <1>0, <2>1 DEF CheckReady, Check, Raise
  <2>2. CASE Warm
    BY <1>0, <2>2 DEF Warm, Patch, Kubectl, Restarted, LabFields
  <2>3. CASE AwaitRollout
    BY <1>0, <2>3 DEF AwaitRollout, Check, Raise
  <2>4. CASE Fetch
    <3>1. CASE Patch(Restarted, "traffic")
      BY <1>0, <3>1 DEF Patch, Kubectl, Restarted, LabFields
    <3>2. CASE Raise
      BY <1>0, <3>2 DEF Raise
    <3>3. CASE /\ session' = [To(IF Plan.fault = "membership" THEN "label" ELSE "inject")
                               EXCEPT !.prior = <<lab.selector, lab.port, lab.epp>>]
               /\ UNCHANGED <<lab, budget>>
      BY <1>0, <3>3 DEF SessionFields
    <3>. QED
      BY <1>0, <2>4, <3>1, <3>2, <3>3 DEF Fetch
  <2>. QED
    BY <1>3, <2>1, <2>2, <2>3, <2>4
<1>4. CASE Label \/ Inject \/ Drain \/ Traffic \/ Summary
  <2>1. CASE Label
    BY <1>0, <2>1 DEF Label, Patch, Kubectl, LabFields
  <2>2. CASE Inject
    BY <1>0, <2>2 DEF Inject, Injected, Patch, Kubectl, LabFields
  <2>3. CASE Drain
    BY <1>0, <2>3 DEF Drain, Check, Raise
  <2>4. CASE Traffic
    BY <1>0, <2>4 DEF Traffic, SessionFields
  <2>5. CASE Summary
    BY <1>0, <2>5 DEF Summary, SessionFields
  <2>. QED
    BY <1>4, <2>1, <2>2, <2>3, <2>4, <2>5
<1>5. CASE Restore \/ Unlabel \/ Recover \/ Smoke \/ Closing
  <2>1. CASE Restore
    BY <1>0, <2>1 DEF Restore, Restored, AfterUndo, Patch, Kubectl, LabFields
  <2>2. CASE Unlabel
    BY <1>0, <2>2 DEF Unlabel, AfterUndo, Patch, Kubectl, LabFields
  <2>3. CASE Recover
    BY <1>0, <2>3 DEF Recover, Check, Raise
  <2>4. CASE Smoke
    BY <1>0, <2>4 DEF Smoke, Raise, SessionFields
  <2>5. CASE Closing
    BY <1>0, <2>5 DEF Closing
  <2>. QED
    BY <1>5, <2>1, <2>2, <2>3, <2>4, <2>5
<1>. QED
  BY <1>1, <1>2, <1>3, <1>4, <1>5 DEF PlatformStep

LEMMA ClusterElsewhere ==
  ASSUME Shape, ClusterStep
  PROVE  Elsewhere \/ ChangeCase
<1>. USE DEF Handover, Elsewhere, SameSession
<1>0. /\ \A pc : To(pc).pc = pc /\ DOMAIN To(pc) = SessionFields /\ To(pc).plan = session.plan
      /\ DOMAIN Fallen = SessionFields /\ Fallen.plan = session.plan
      /\ DOMAIN Restarted = LabFields
      /\ Fallen.pc \in {"ended", "after"}
      /\ Restarted.hpas = lab.hpas /\ Restarted.scaled = lab.scaled
      /\ DOMAIN lab = LabFields /\ DOMAIN session = SessionFields
  <2>1. /\ Restarted.hpas = lab.hpas /\ Restarted.scaled = lab.scaled
        /\ DOMAIN Restarted = LabFields
    BY DEF Restarted, Shape, LabFields
  <2>. QED
    BY <2>1, ToLemma, FallenLemma DEF SameButPlace, Shape
<1>1. CASE Before \/ Disturb \/ Gate \/ BeginCell \/ Restarts
  <2>1. CASE Before
    BY <1>0, <2>1 DEF Before
  <2>2. CASE Disturb
    BY <1>0, <2>2 DEF Disturb, Kubectl
  <2>3. CASE Gate
    BY <1>0, <2>3 DEF Gate, Pass, Fall
  <2>4. CASE BeginCell
    BY <1>0, <2>4 DEF BeginCell, Kubectl
  <2>5. CASE Restarts
    <3>1. session' \in {To("load"), Fallen} /\ UNCHANGED lab
      BY <2>5 DEF Restarts, Pass, Fall
    <3>. QED
      BY <1>0, <3>1
  <2>. QED
    BY <1>1, <2>1, <2>2, <2>3, <2>4, <2>5
<1>2. CASE Load \/ After \/ ClusterFails
  <2>1. CASE Load
    BY <1>0, <2>1 DEF Load, Rejected, SessionFields
  <2>2. CASE After
    BY <1>0, <2>2 DEF After, SessionFields
  <2>3. CASE ClusterFails
    BY <1>0, <2>3 DEF ClusterFails
  <2>. QED
    BY <1>2, <2>1, <2>2, <2>3
<1>. QED
  BY <1>1, <1>2 DEF ClusterStep

\* A step within a session that leaves the writers alone and begins no handover.
LEMMA ElsewhereKeeps ==
  ASSUME Shape, ChainInv, Elsewhere
  PROVE  (Shape /\ ChainInv)'
<1>1. Shape'
  BY DEF Shape, Elsewhere, SameSession
<1>2. ChainInv'
  BY DEF ChainInv, Elsewhere, KedaChain, Handover
<1>. QED
  BY <1>1, <1>2

\* switch_scaler, call by call.
LEMMA HandoverKeeps ==
  ASSUME Shape, ChainInv,
         ListWriters \/ DeleteScaledObject \/ DeleteHpas \/ AwaitHandoff \/ Install
  PROVE  (Shape /\ ChainInv)'
<1>0. /\ \A pc : To(pc).pc = pc /\ DOMAIN To(pc) = SessionFields /\ To(pc).plan = session.plan
      /\ DOMAIN Raised = SessionFields /\ Raised.plan = session.plan
      /\ Raised.pc \in {"restore", "closing", "finish"}
      /\ DOMAIN lab = LabFields /\ DOMAIN session = SessionFields
  BY ToLemma, RaisedLemma, HandlerIsElsewhere DEF SameButPlace, Shape
<1>1. SameSession => Shape'
  BY DEF Shape, SameSession
<1>2. CASE session' = Raised /\ UNCHANGED lab
  <2>1. Elsewhere
    BY <1>0, <1>2 DEF Elsewhere, SameSession, Handover
  <2>. QED
    BY <2>1, ElsewhereKeeps
<1>3. CASE ListWriters /\ Known
  <2>1. /\ "foreign" \notin lab.hpas /\ UNCHANGED lab
        /\ session' = [To("unscale") EXCEPT !.listed = lab.hpas, !.scaled = lab.scaled # "none"]
    BY <1>3 DEF ListWriters, Known
  <2>2. SameSession /\ session'.pc = "unscale"
    BY <1>0, <2>1 DEF SameSession, SessionFields
  <2>3. ChainInv'
    BY <2>1, <2>2 DEF ChainInv, KedaChain
  <2>. QED
    BY <1>1, <2>2, <2>3
<1>4. CASE DeleteScaledObject /\ session' # Raised
  <2>1. /\ session.pc = "unscale" /\ session' = To("unhpa")
        /\ UNCHANGED lab \/ (lab' = [lab EXCEPT !.scaled = "going"] /\ lab.scaled # "none")
    BY <1>4 DEF DeleteScaledObject, At, Patch, Kubectl, Raise
  <2>2. /\ SameSession /\ session'.pc = "unhpa" /\ lab'.hpas = lab.hpas
        /\ lab.scaled = "none" => lab'.scaled = "none"
    BY <1>0, <2>1 DEF SameSession, LabFields
  <2>3. ChainInv'
    BY <2>1, <2>2 DEF ChainInv, KedaChain, Handover
  <2>. QED
    BY <1>1, <2>2, <2>3
<1>5. CASE DeleteScaledObject /\ session' = Raised /\ lab' # lab
  <2>1. lab' = [lab EXCEPT !.scaled = "going"] /\ lab.scaled # "none"
    BY <1>5 DEF DeleteScaledObject, Patch, Kubectl, Raise
  <2>2. SameSession /\ session'.pc \notin Handover /\ lab'.hpas = lab.hpas
    BY <1>0, <1>5, <2>1 DEF SameSession, LabFields, Handover
  <2>3. ChainInv'
    BY <2>1, <2>2 DEF ChainInv, KedaChain, Handover
  <2>. QED
    BY <1>1, <2>2, <2>3
<1>6. CASE DeleteHpas
  <2>1. /\ session.pc = "unhpa"
        /\ \/ session' = To("handoff") /\ UNCHANGED lab
           \/ \E h \in session.listed :
                /\ lab' = [lab EXCEPT !.hpas = @ \ {h}]
                /\ session' \in {[session EXCEPT !.listed = @ \ {h}], Raised}
    BY <1>6 DEF DeleteHpas, At, Kubectl
  <2>2. /\ SameSession /\ session'.pc \in {"unhpa", "handoff", "restore", "closing", "finish"}
        /\ lab'.hpas \subseteq lab.hpas /\ lab'.scaled = lab.scaled
    BY <1>0, <2>1 DEF SameSession, LabFields, SessionFields
  <2>3. ChainInv'
    BY <2>1, <2>2 DEF ChainInv, KedaChain, Handover
  <2>. QED
    BY <1>1, <2>2, <2>3
<1>7. CASE AwaitHandoff /\ HandedOff
  <2>1. /\ session.pc = "handoff" /\ session' = To("install") /\ UNCHANGED lab
        /\ lab.hpas = {} /\ lab.scaled = "none"
    BY <1>7 DEF AwaitHandoff, At, HandedOff, WriterCheck
  <2>2. SameSession /\ session'.pc = "install"
    BY <1>0, <2>1 DEF SameSession
  <2>3. ChainInv'
    BY <2>1, <2>2 DEF ChainInv, KedaChain, Handover
  <2>. QED
    BY <1>1, <2>2, <2>3
<1>8. CASE Install
  <2>1. /\ lab.hpas = {} /\ lab.scaled = "none"
        /\ session' \in {To("finish"), Raised} /\ lab' = Installed
    BY <1>8 DEF Install, At, Patch, Kubectl, ChainInv
  <2>2. /\ DOMAIN Installed = LabFields
        /\ \/ Installed.hpas = {"pressure"} /\ Installed.scaled = "none"
           \/ Installed.hpas = {}
    BY <1>0, <2>1 DEF Installed, LabFields
  <2>3. SameSession /\ session'.pc \notin Handover
    BY <1>0, <2>1, <2>2 DEF SameSession, Handover
  <2>4. ChainInv'
    BY <2>1, <2>2, <2>3 DEF ChainInv, KedaChain, Handover, Scalers
  <2>. QED
    BY <1>1, <2>3, <2>4
<1>9. CASE (ListWriters /\ ~Known) \/ (AwaitHandoff /\ ~HandedOff)
  BY <1>2, <1>9 DEF ListWriters, AwaitHandoff, Raise
<1>. QED
  BY <1>2, <1>3, <1>4, <1>5, <1>6, <1>7, <1>8, <1>9

LEMMA ChangeCaseKeeps ==
  ASSUME Shape, ChainInv, ChangeCase
  PROVE  (Shape /\ ChainInv)'
<1>0. /\ \A pc : To(pc).pc = pc /\ DOMAIN To(pc) = SessionFields /\ To(pc).plan = session.plan
      /\ DOMAIN Fallen = SessionFields /\ Fallen.plan = session.plan
      /\ Fallen.pc \in {"ended", "after"}
      /\ DOMAIN lab = LabFields
  BY ToLemma, FallenLemma DEF SameButPlace, Shape
<1>1. session' \in {To("ended"), Fallen}
  BY DEF ChangeCase, Fall, Kubectl
<1>2. /\ DOMAIN lab' = LabFields /\ lab'.hpas \in {lab.hpas, lab.hpas \cup {"cpu"}}
      /\ lab'.scaled = lab.scaled
  <2>1. CASE UNCHANGED lab
    BY <1>0, <2>1
  <2>2. CASE lab' = [lab EXCEPT !.replicas = IF Plan.mode = "fixed_2" THEN 2 ELSE 1,
                                !.rolled = FALSE, !.args = "cluster",
                                !.hpas = IF Plan.mode = "cpu" THEN @ \cup {"cpu"} ELSE @]
    BY <1>0, <2>2 DEF LabFields
  <2>. QED
    BY <2>1, <2>2 DEF ChangeCase, Fall, Kubectl
<1>3. Shape' /\ session'.pc \notin Handover
  BY <1>0, <1>1, <1>2 DEF Shape, Handover
<1>4. ChainInv'
  BY <1>2, <1>3 DEF ChainInv, KedaChain, Scalers, Handover
<1>. QED
  BY <1>3, <1>4

LEMMA OpensKeep ==
  ASSUME Shape, ChainInv, Open \/ OpenCluster
  PROVE  (Shape /\ ChainInv)'
<1>1. DOMAIN NoSession = SessionFields
  BY DEF NoSession, SessionFields
<1>2. /\ DOMAIN session' = SessionFields /\ session'.plan \in PlatformPlans \cup ClusterPlans
      /\ session'.pc \in {"preflight", "change", "before"}
  <2>1. CASE Open
    <3>1. PICK p \in PlatformPlans :
            session' = [NoSession EXCEPT !.plan = p, !.pc = "preflight", !.recorded = "running"]
      BY <2>1 DEF Open
    <3>. QED
      BY <1>1, <3>1 DEF SessionFields
  <2>2. CASE OpenCluster
    <3>1. PICK p \in ClusterPlans :
            session' = [NoSession EXCEPT !.plan = p,
                          !.pc       = IF p.action = "apply" THEN "change" ELSE "before",
                          !.recorded = IF p.action = "apply" THEN "none" ELSE "started"]
      BY <2>2 DEF OpenCluster
    <3>. QED
      BY <1>1, <3>1 DEF SessionFields
  <2>. QED
    BY <2>1, <2>2
<1>3. UNCHANGED lab
  BY DEF Open, OpenCluster
<1>4. Shape'
  BY <1>2, <1>3 DEF Shape
<1>5. ChainInv'
  BY <1>2, <1>3 DEF ChainInv, KedaChain, Handover
<1>. QED
  BY <1>4, <1>5

\* The controllers: KEDA's object makes its HPA, and both go.
LEMMA ControllersKeep ==
  ASSUME Shape, ChainInv, Controllers
  PROVE  (Shape /\ ChainInv)'
<1>1. UNCHANGED session /\ DOMAIN lab = LabFields
  BY DEF Controllers, Shape
<1>2. /\ DOMAIN lab' = LabFields
      /\ lab'.hpas \ {"keda"} = lab.hpas \ {"keda"}
      /\ lab.scaled = "none" => lab'.scaled = "none" /\ lab'.hpas \subseteq lab.hpas
      /\ "keda" \in lab'.hpas => KedaChain
  <2>1. CASE Rolls \/ Scales \/ PickerFollows \/ ParentFollows
    BY <1>1, <2>1 DEF Rolls, Scales, PickerFollows, ParentFollows, LabFields, KedaChain
  <2>2. CASE KedaMakesHpa
    BY <1>1, <2>2 DEF KedaMakesHpa, LabFields, KedaChain
  <2>3. CASE ScaledObjectGoes
    BY <1>1, <2>3 DEF ScaledObjectGoes, LabFields, KedaChain
  <2>4. CASE HpaIsCollected
    BY <1>1, <2>4 DEF HpaIsCollected, LabFields, KedaChain
  <2>. QED
    BY <2>1, <2>2, <2>3, <2>4 DEF Controllers
<1>3. Shape'
  BY <1>1, <1>2 DEF Shape
<1>4. KedaChain' => KedaChain
  BY <1>2 DEF KedaChain
<1>5. ChainInv'
  BY <1>1, <1>2, <1>4 DEF ChainInv, Scalers
<1>. QED
  BY <1>3, <1>5

LEMMA KilledKeeps ==
  ASSUME Shape, ChainInv, Killed
  PROVE  (Shape /\ ChainInv)'
<1>1. Elsewhere
  BY ToLemma DEF Killed, Elsewhere, SameSession, SameButPlace, Shape, Handover
<1>. QED
  BY <1>1, ElsewhereKeeps

LEMMA ChainStep == Shape /\ ChainInv /\ [LabNext]_labVars => (Shape /\ ChainInv)'
<1>. SUFFICES ASSUME Shape, ChainInv, [LabNext]_labVars PROVE (Shape /\ ChainInv)'
  OBVIOUS
<1>1. CASE PlatformStep
  BY <1>1, PlatformElsewhere, ElsewhereKeeps, HandoverKeeps
<1>2. CASE ClusterStep
  BY <1>2, ClusterElsewhere, ElsewhereKeeps, ChangeCaseKeeps
<1>3. CASE UNCHANGED labVars
  BY <1>3 DEF labVars, Shape, ChainInv, KedaChain
<1>. QED
  BY <1>1, <1>2, <1>3, OpensKeep, ControllersKeep, KilledKeeps DEF LabNext, SessionStep

LEMMA ChainInitHolds == LabInit => Shape /\ ChainInv
<1>. SUFFICES ASSUME LabInit PROVE Shape /\ ChainInv
  OBVIOUS
<1>1. PICK args \in {"platform", "cluster"}, hpas \in {{}, {"cpu"}, {"foreign"}} :
        session = NoSession /\ lab = [Fresh EXCEPT !.args = args, !.hpas = hpas]
  BY DEF LabInit
<1>2. Shape /\ session.pc = "ended"
  BY <1>1 DEF Shape, NoSession, Fresh, SessionFields, LabFields
<1>3. lab.hpas = hpas /\ lab.scaled = "none"
  BY <1>1 DEF Fresh
<1>. QED
  BY <1>1, <1>2, <1>3 DEF ChainInv, KedaChain, Handover, Scalers

LEMMA ChainIsOne == ChainInv => OneChain
<1>. SUFFICES ASSUME ChainInv PROVE Cardinality(Writers \ {"cpu"}) <= 1
  BY DEF OneChain
<1>1. \E w : Writers \ {"cpu"} \subseteq {w}
  <2>1. Writers \ {"cpu"} \subseteq {"foreign", "pressure", "keda"}
    BY DEF Writers, ChainInv, Scalers
  <2>2. "keda" \in Writers => KedaChain
    BY DEF Writers, KedaChain
  <2>3. "foreign" \in Writers => "foreign" \in lab.hpas
    BY DEF Writers
  <2>4. "pressure" \in Writers => "pressure" \in lab.hpas
    BY DEF Writers
  <2>. QED
    BY <2>1, <2>2, <2>3, <2>4 DEF ChainInv
<1>2. PICK w : Writers \ {"cpu"} \subseteq {w}
  BY <1>1
<1>3. IsFiniteSet({w}) /\ Cardinality({w}) = 1
  BY FS_Singleton
<1>. QED
  BY <1>2, <1>3, FS_Subset

\* writer_check, switch_scaler: however the sessions fail and whatever they are asked for,
\* and however late the controllers are, the platform's two autoscalers and one that
\* somebody else made never act on the target at once.
THEOREM OneWriter == LabSpec => []OneChain
BY ChainInitHolds, ChainStep, ChainIsOne, PTL DEF LabSpec

LEMMA ForeignStep ==
  ASSUME Shape, ChainInv, [LabNext]_labVars, "foreign" \in lab.hpas
  PROVE  lab'.hpas \ {"cpu"} = lab.hpas \ {"cpu"} /\ lab'.scaled = lab.scaled
<1>1. ~KedaChain /\ session.pc \notin Handover /\ DOMAIN lab = LabFields
  BY DEF ChainInv, Shape
<1>2. CASE Elsewhere
  BY <1>2 DEF Elsewhere
<1>3. CASE ListWriters \/ DeleteScaledObject \/ DeleteHpas \/ AwaitHandoff \/ Install
  <2>1. ListWriters
    BY <1>1, <1>3 DEF DeleteScaledObject, DeleteHpas, AwaitHandoff, Install, At, Handover
  <2>2. UNCHANGED lab
    BY <2>1 DEF ListWriters, Known, Raise
  <2>. QED
    BY <2>2
<1>4. CASE ChangeCase
  <2>1. CASE UNCHANGED lab
    BY <2>1
  <2>2. CASE lab' = [lab EXCEPT !.replicas = IF Plan.mode = "fixed_2" THEN 2 ELSE 1,
                                !.rolled = FALSE, !.args = "cluster",
                                !.hpas = IF Plan.mode = "cpu" THEN @ \cup {"cpu"} ELSE @]
    BY <1>1, <2>2 DEF LabFields
  <2>. QED
    BY <1>4, <2>1, <2>2 DEF ChangeCase, Fall, Kubectl
<1>5. CASE Controllers
  <2>1. lab.scaled = "none" /\ "keda" \notin lab.hpas
    BY <1>1 DEF KedaChain
  <2>2. Rolls \/ Scales \/ PickerFollows \/ ParentFollows
    BY <1>5, <2>1 DEF Controllers, KedaMakesHpa, ScaledObjectGoes, HpaIsCollected
  <2>. QED
    BY <1>1, <2>2 DEF Rolls, Scales, PickerFollows, ParentFollows, LabFields
<1>6. CASE Open \/ OpenCluster \/ Killed \/ UNCHANGED labVars
  <2>1. UNCHANGED lab
    BY <1>6 DEF Open, OpenCluster, Killed, labVars
  <2>. QED
    BY <2>1
<1>. QED
  BY <1>2, <1>3, <1>4, <1>5, <1>6, PlatformElsewhere, ClusterElsewhere DEF LabNext, SessionStep

\* switch_scaler: while somebody else's autoscaler is on the target, no session of any kind,
\* and no controller, makes or removes one of the platform's.
THEOREM ForeignIsKept == LabSpec => ForeignStays
<1>1. Shape /\ ChainInv /\ [LabNext]_labVars =>
        [("foreign" \in lab.hpas) =>
           lab'.hpas \ {"cpu"} = lab.hpas \ {"cpu"} /\ lab'.scaled = lab.scaled]_labVars
  BY ForeignStep
<1>. QED
  BY <1>1, ChainInitHolds, ChainStep, PTL DEF LabSpec, ForeignStays

(***************************************************************************)
(* What a session promises                                                 *)
(***************************************************************************)
Ends == {"ended", "killed"}

\* Where a session of the command line p may be.
Places(p) ==
  IF p.script = "cluster"
  THEN IF p.action = "run" THEN {"before", "gate", "cell", "restarted", "load", "after"}
       ELSE {"change", "before", "disturb", "after"}
  ELSE {"preflight", "finish"} \cup
       (IF p.action = "fault"
        THEN {"ready", "warm", "rollout", "fetch", "label", "inject", "drain", "traffic", "restore",
              "unlabel", "summary", "recover", "smoke", "closing"}
        ELSE IF p.action = "run" THEN {"ready", "warm", "rollout", "traffic", "summary", "closing"}
        ELSE IF p.action = "restore" \/ (p.action = "apply" /\ p.week = 20)
             THEN {"list", "unscale", "unhpa", "handoff", "install"}
        ELSE IF p.action = "apply" THEN {"apply"}
        ELSE IF p.action \in {"mutate", "delete"} THEN {"parent", "converge"}
        ELSE {"job"})

\* Once the fault has been read, and once it is undone.
AfterFetch == {"label", "inject", "drain", "traffic", "restore", "unlabel", "summary", "recover",
               "smoke", "closing", "finish"} \cup Ends

AfterRestore == {"unlabel", "summary", "recover", "smoke", "closing", "finish", "ended"}

PlaceOK == session.pc \in Places(Plan) \cup Ends

\* A restoration that failed has raised, and what is to be restored was read for a fault.
FaultRead ==
  /\ session.stuck # "no" => session.failing
  /\ session.prior # <<>> =>
       /\ session.prior = <<session.prior[1], session.prior[2], session.prior[3]>>
       /\ Plan.fault \in Undone /\ session.pc \in AfterFetch

\* Only a session that raised nothing is completed, or collected.
RecordOK ==
  /\ session.recorded \in {"completed", "collected"} => session.pc = "ended" /\ ~session.failing
  /\ session.recorded = "collected" => Cluster
  /\ (Plan.action = "fault" /\ ~session.failing
        /\ (session.pc \in {"closing", "finish"} \/ session.recorded = "completed")) => session.smoke

SummaryOK ==
  /\ session.eligible => session.pc \in {"closing", "finish"} \cup Ends /\ session.clean
  /\ (session.pc = "summary" /\ Plan.action = "run" /\ Plan.week # 19) => session.clean

CellsOK ==
  (Cluster /\ Plan.action = "run") =>
    /\ session.cells \in 0..Cells
    /\ session.pc \notin {"after"} \cup Ends => session.cells < Cells
    /\ (session.pc = "after" /\ ~session.failing) \/ session.recorded = "collected" => session.cells = Cells

SessionInv == PlaceOK /\ FaultRead /\ RecordOK /\ SummaryOK /\ CellsOK

\* The fields that a fault may change are what they were read as, until it is injected.
Fields == <<lab.selector, lab.port, lab.epp>>

AsFound ==
  (session.prior # <<>> /\ (session.pc \in {"label", "inject"} \/ Plan.fault = "artifact")) =>
    session.prior = Fields

\* ... and are that again once it is undone.
PutBack ==
  (session.prior # <<>> /\ session.stuck = "no" /\ session.pc \in AfterRestore) =>
    /\ session.prior = Fields
    /\ Plan.fault = "artifact" => ~lab.patched
    /\ (Plan.fault = "membership" /\ session.pc # "unlabel") => ~lab.member

\* A handoff that has raised nothing has installed its writer.
OwnWriter ==
  IF Mode = "hpa" THEN lab.hpas = {"pressure"} /\ lab.scaled = "none"
  ELSE IF Mode = "keda" THEN lab.hpas \subseteq {"keda"} /\ lab.scaled = "live"
  ELSE lab.hpas = {} /\ lab.scaled = "none" /\ lab.replicas = (IF Mode = "fixed_1" THEN 1 ELSE 2)

HandedOver ==
  (Plan.script = "platform" /\ Plan.week = 20 /\ Plan.action \in {"apply", "restore"}
     /\ ((session.pc = "finish" /\ ~session.failing) \/ session.recorded = "completed")) => OwnWriter

\* What the readiness check saw of a measured cell stays until its traffic.
Steady ==
  /\ lab.selector = "target" /\ lab.port = "right" /\ lab.epp = 1 /\ Measurable
  /\ CaseWriter

CellIsClean ==
  (Plan.action = "run" /\ Plan.week # 19 /\ session.pc \in {"warm", "rollout", "traffic"}) => Steady

LabInv == AsFound /\ PutBack /\ HandedOver /\ CellIsClean

\* What is promised of the session, and of the lab.
Promises == SessionInv /\ LabInv

\* What a place says of the command line.
LEMMA PlanLemma ==
  ASSUME Shape
  PROVE  /\ Cluster => Plan.action \in {"apply", "run", "rollout"} /\ Plan.week = 15 /\ Plan.fault = "none"
         /\ Plan.script = "platform" =>
              /\ Plan.week \in 17..20 /\ Plan.action \in Actions
              /\ Plan.action = "fault" <=> Plan.fault # "none"
         /\ ~Cluster /\ Plan.script # "platform" => Plan = Nobody
<1>1. CASE Plan \in PlatformPlans
  BY <1>1 DEF Cluster
<1>2. CASE Plan \in ClusterPlans
  BY <1>2 DEF Cluster
<1>3. CASE Plan = Nobody
  BY <1>3 DEF Cluster, Nobody
<1>. QED
  BY <1>1, <1>2, <1>3 DEF Shape, Plan

\* What the place of a session of weeks 17 to 20 says of its command line.
LEMMA PlaceLemma ==
  ASSUME PlaceOK, Plan.script = "platform"
  PROVE  /\ session.pc \in {"ready", "warm", "rollout", "traffic", "summary", "closing"} =>
              Plan.action \in {"run", "fault"}
         /\ session.pc \in {"fetch", "label", "inject", "drain", "restore", "unlabel", "recover", "smoke"} =>
              Plan.action = "fault"
         /\ session.pc \in {"list", "unscale", "unhpa", "handoff", "install"} =>
              Plan.action = "restore" \/ (Plan.action = "apply" /\ Plan.week = 20)
         /\ session.pc = "apply" => Plan.action = "apply" /\ Plan.week # 20
         /\ session.pc \in {"parent", "converge"} => Plan.action \in {"mutate", "delete"}
         /\ session.pc = "job" => Plan.action \notin {"run", "fault", "apply", "restore"}
BY DEF PlaceOK, Places, Ends

\* ... and the places that its command line allows.
LEMMA PlatformPlaces ==
  ASSUME Plan.script = "platform"
  PROVE  /\ {"preflight", "finish"} \subseteq Places(Plan)
         /\ Plan.action \in {"run", "fault"} =>
              {"ready", "warm", "rollout", "traffic", "summary", "closing"} \subseteq Places(Plan)
         /\ Plan.action = "fault" =>
              {"fetch", "label", "inject", "drain", "restore", "unlabel", "recover", "smoke"} \subseteq Places(Plan)
         /\ Plan.action = "restore" \/ (Plan.action = "apply" /\ Plan.week = 20) =>
              {"list", "unscale", "unhpa", "handoff", "install"} \subseteq Places(Plan)
         /\ Plan.action = "apply" /\ Plan.week # 20 => "apply" \in Places(Plan)
         /\ Plan.action \in {"mutate", "delete"} => {"parent", "converge"} \subseteq Places(Plan)
         /\ Plan.action \in {"conformance", "dry_run"} => "job" \in Places(Plan)
BY DEF Places

\* What the promises read of a session, but for where it is and whether it has raised.
SameResults(t) ==
  /\ DOMAIN t = SessionFields
  /\ t.plan = session.plan /\ t.recorded = session.recorded /\ t.prior = session.prior
  /\ t.eligible = session.eligible /\ t.clean = session.clean /\ t.smoke = session.smoke
  /\ t.cells = session.cells

\* A session that goes on to the place p, and nothing else.
GoesTo(p) ==
  /\ SameResults(session') /\ session'.pc = p
  /\ session'.failing = session.failing /\ session'.stuck = session.stuck

\* An exception: the finally of the fault, of the cell, or of the session.
Throws ==
  /\ SameResults(session') /\ session'.pc = Handler /\ session'.failing = TRUE
  /\ session'.stuck = IF session.pc \in {"restore", "unlabel"} THEN session.pc ELSE session.stuck

FieldsKept == lab'.selector = lab.selector /\ lab'.port = lab.port /\ lab'.epp = lab.epp

\* Going on keeps what is promised of the session.
LEMMA GoesSession ==
  ASSUME Shape, SessionInv, Plan.script = "platform", session.pc \notin Ends,
         NEW p, GoesTo(p), p \in Places(Plan), p \notin Ends,
         session.prior # <<>> => p \in AfterFetch,
         (Plan.action = "fault" /\ ~session.failing /\ p \in {"closing", "finish"}) => session.smoke,
         session.eligible => p \in {"closing", "finish"},
         (p = "summary" /\ Plan.action = "run" /\ Plan.week # 19) => session.clean
  PROVE  SessionInv'
<1>1. /\ session'.plan = session.plan /\ session'.recorded = session.recorded
      /\ session'.prior = session.prior /\ session'.eligible = session.eligible
      /\ session'.clean = session.clean /\ session'.smoke = session.smoke /\ session'.pc = p
      /\ session'.failing = session.failing /\ session'.stuck = session.stuck
  BY DEF GoesTo, SameResults
<1>2. session.recorded \notin {"completed", "collected"}
  BY DEF SessionInv, RecordOK, Ends
<1>3. PlaceOK'
  BY <1>1 DEF PlaceOK, Plan
<1>4. FaultRead'
  BY <1>1 DEF SessionInv, FaultRead, Plan
<1>5. RecordOK'
  BY <1>1, <1>2 DEF RecordOK, Plan
<1>6. SummaryOK'
  BY <1>1 DEF SessionInv, SummaryOK, Plan
<1>7. CellsOK'
  BY <1>1 DEF CellsOK, Cluster, Plan
<1>. QED
  BY <1>3, <1>4, <1>5, <1>6, <1>7 DEF SessionInv

\* ... and so does an exception.
LEMMA ThrowsSession ==
  ASSUME Shape, SessionInv, Plan.script = "platform", session.pc \notin Ends \cup {"finish"}, Throws
  PROVE  SessionInv'
<1>1. /\ session'.plan = session.plan /\ session'.recorded = session.recorded
      /\ session'.prior = session.prior /\ session'.eligible = session.eligible
      /\ session'.clean = session.clean /\ session'.smoke = session.smoke /\ session'.pc = Handler
      /\ session'.failing = TRUE
  BY DEF Throws, SameResults
<1>2. session.recorded \notin {"completed", "collected"}
  BY DEF SessionInv, RecordOK, Ends
<1>3. Handler \in Places(Plan) /\ Handler \in {"restore", "closing", "finish"}
  BY PlaceLemma, PlatformPlaces, PlanLemma DEF Handler, InFault, InCell, SessionInv, Undone
<1>4. PlaceOK'
  BY <1>1, <1>3 DEF PlaceOK, Plan
<1>5. FaultRead'
  BY <1>1, <1>3 DEF SessionInv, FaultRead, AfterFetch, Plan
<1>6. RecordOK'
  BY <1>1, <1>2 DEF RecordOK, Plan
<1>7. SummaryOK'
  <2>1. session.eligible => session.pc = "closing"
    BY DEF SessionInv, SummaryOK, Ends
  <2>2. session.pc = "closing" => Handler = "finish"
    BY DEF Handler, InFault, InCell
  <2>. QED
    BY <1>1, <1>3, <2>1, <2>2 DEF SessionInv, SummaryOK, Plan
<1>8. CellsOK'
  BY <1>1 DEF CellsOK, Cluster, Plan
<1>. QED
  BY <1>4, <1>5, <1>6, <1>7, <1>8 DEF SessionInv

\* An exception keeps the promises whatever the call that raised it did, if it spares what a
\* fault that is undone has put back.
LEMMA ThrowsKeeps ==
  ASSUME Shape, Promises, Plan.script = "platform", session.pc \notin Ends \cup {"finish"}, Throws,
         Plan.fault = "artifact" => FieldsKept,
         session.pc \in {"summary", "recover", "smoke", "closing"} => UNCHANGED lab
  PROVE  Promises'
<1>1. /\ session'.plan = session.plan /\ session'.recorded = session.recorded
      /\ session'.prior = session.prior /\ session'.pc = Handler
      /\ session'.failing = TRUE
      /\ session'.stuck = IF session.pc \in {"restore", "unlabel"} THEN session.pc ELSE session.stuck
  BY DEF Throws, SameResults
<1>2. session.recorded \notin {"completed", "collected"}
  BY DEF Promises, SessionInv, RecordOK, Ends
<1>3. Handler \in {"restore", "closing", "finish"}
  BY HandlerIsElsewhere
<1>4. AsFound'
  BY <1>1, <1>3 DEF Promises, LabInv, AsFound, Fields, FieldsKept, Plan
<1>5. PutBack'
  <2>. SUFFICES ASSUME session.prior # <<>>, session'.stuck = "no", Handler \in {"closing", "finish"}
                PROVE  PutBack'
    BY <1>1, <1>3 DEF PutBack, AfterRestore
  <2>1. session.pc \in AfterFetch \ Ends /\ Plan.fault \in Undone
    BY DEF Promises, SessionInv, FaultRead
  <2>2. session.pc \notin {"restore", "unlabel"} /\ session.stuck = "no"
    BY <1>1
  <2>3. session.pc \in {"summary", "recover", "smoke", "closing"}
    BY <2>1, <2>2 DEF AfterFetch, Ends, Handler, InFault
  <2>. QED
    BY <1>1, <2>2, <2>3 DEF Promises, LabInv, PutBack, AfterRestore, Fields, Plan
<1>6. HandedOver'
  BY <1>1, <1>2 DEF HandedOver
<1>7. CellIsClean'
  BY <1>1, <1>3 DEF CellIsClean
<1>. QED
  BY <1>4, <1>5, <1>6, <1>7, ThrowsSession DEF Promises, LabInv

\* A step before the fault has been read.
LEMMA EarlyKeeps ==
  ASSUME Shape, Promises, Plan.script = "platform", session.pc \notin AfterFetch,
         NEW p, GoesTo(p), p \in Places(Plan), p \notin Ends \cup {"summary"},
         Plan.action = "fault" => p \notin {"closing", "finish"},
         (p = "finish" /\ Plan.week = 20 /\ Plan.action \in {"apply", "restore"}) => OwnWriter',
         (Plan.action = "run" /\ Plan.week # 19 /\ p \in {"warm", "rollout", "traffic"}) => Steady'
  PROVE  Promises'
<1>1. /\ session'.plan = session.plan /\ session'.recorded = session.recorded
      /\ session'.prior = session.prior /\ session'.pc = p
  BY DEF GoesTo, SameResults
<1>2. session.prior = <<>> /\ session.pc \notin Ends
  BY DEF Promises, SessionInv, FaultRead, AfterFetch
<1>3. ~session.eligible /\ session.recorded \notin {"completed", "collected"}
  BY DEF Promises, SessionInv, SummaryOK, RecordOK, AfterFetch, Ends
<1>4. SessionInv'
  BY <1>2, <1>3, GoesSession DEF Promises
<1>5. AsFound' /\ PutBack'
  BY <1>1, <1>2 DEF AsFound, PutBack
<1>6. HandedOver'
  BY <1>1, <1>3 DEF HandedOver, Plan
<1>7. CellIsClean'
  BY <1>1 DEF CellIsClean, Plan
<1>. QED
  BY <1>4, <1>5, <1>6, <1>7 DEF Promises, LabInv

\* A step of a fault or of a measured cell.
LEMMA LateKeeps ==
  ASSUME Shape, Promises, Plan.script = "platform", Plan.action \in {"run", "fault"},
         session.pc \notin Ends, NEW p, GoesTo(p), p \in Places(Plan), p \in AfterFetch \ Ends,
         (Plan.action = "fault" /\ ~session.failing /\ p \in {"closing", "finish"}) => session.smoke,
         session.eligible => p \in {"closing", "finish"},
         (p = "summary" /\ Plan.action = "run" /\ Plan.week # 19) => session.clean,
         (session.prior # <<>> /\ (p \in {"label", "inject"} \/ Plan.fault = "artifact")) => session.prior = Fields',
         (session.prior # <<>> /\ session.stuck = "no" /\ p \in AfterRestore) =>
           /\ session.prior = Fields'
           /\ Plan.fault = "artifact" => ~lab'.patched
           /\ (Plan.fault = "membership" /\ p # "unlabel") => ~lab'.member,
         (Plan.action = "run" /\ Plan.week # 19 /\ p \in {"warm", "rollout", "traffic"}) => Steady'
  PROVE  Promises'
<1>1. /\ session'.plan = session.plan /\ session'.recorded = session.recorded
      /\ session'.prior = session.prior /\ session'.pc = p /\ session'.stuck = session.stuck
  BY DEF GoesTo, SameResults
<1>2. SessionInv'
  BY GoesSession DEF Promises
<1>3. AsFound'
  BY <1>1 DEF AsFound, Plan
<1>4. PutBack'
  BY <1>1 DEF PutBack, Plan
<1>5. HandedOver'
  BY <1>1 DEF HandedOver, Plan
<1>6. CellIsClean'
  BY <1>1 DEF CellIsClean, Plan
<1>. QED
  BY <1>2, <1>3, <1>4, <1>5, <1>6 DEF Promises, LabInv

\* What the two helpers make of the session.
LEMMA GoesLemma ==
  ASSUME Shape
  PROVE  /\ \A p : session' = To(p) => GoesTo(p)
         /\ session' = Raised => Throws
         /\ DOMAIN lab = LabFields /\ DOMAIN session = SessionFields
<1>1. ASSUME NEW p, session' = To(p) PROVE GoesTo(p)
  <2>1. /\ SameButPlace(To(p)) /\ To(p).pc = p /\ To(p).failing = session.failing
        /\ To(p).stuck = session.stuck
    BY ToLemma
  <2>. QED
    BY <1>1, <2>1 DEF GoesTo, SameButPlace, SameResults
<1>2. session' = Raised => Throws
  BY RaisedLemma DEF Throws, SameButPlace, SameResults
<1>. QED
  BY <1>1, <1>2 DEF Shape

\* A call or a check that fails and leaves the lab as it is.
LEMMA RaiseKeeps ==
  ASSUME Shape, Promises, Plan.script = "platform", session.pc \notin Ends \cup {"finish"},
         session' = Raised, UNCHANGED lab
  PROVE  Promises'
BY GoesLemma, ThrowsKeeps DEF FieldsKept

\* The beginning and the end of a session.
LEMMA SessionsKeep ==
  ASSUME Shape, Promises, Plan.script = "platform", Preflight \/ Fails \/ Finish
  PROVE  Promises'
<1>1. CASE Preflight
  <2>. DEFINE p == First(Plan)
  <2>1. GoesTo(p) /\ session.pc = "preflight" /\ UNCHANGED lab
    BY <1>1, GoesLemma DEF Preflight, At
  <2>2. /\ p \in Places(Plan) /\ p \notin Ends \cup {"summary", "closing", "warm", "rollout", "traffic"}
        /\ p = "finish" => Plan.action \in {"preflight", "snapshot"}
    BY PlanLemma, PlatformPlaces DEF First, Actions, Ends
  <2>3. "preflight" \notin AfterFetch
    BY DEF AfterFetch, Ends
  <2>. HIDE DEF p
  <2>. QED
    BY <2>1, <2>2, <2>3, EarlyKeeps
<1>2. CASE Fails
  <2>1. UNCHANGED lab /\ session.pc \notin Ends \cup {"finish"}
    BY <1>2 DEF Fails, Idle, Ends
  <2>2. CASE At("closing")
    <3>1. session' = [session EXCEPT !.pc = "finish", !.failing = TRUE] /\ session.pc = "closing"
      BY <1>2, <2>2 DEF Fails, At
    <3>2. Handler = "finish"
      BY <3>1 DEF Handler, InFault, InCell
    <3>3. Throws
      BY <3>1, <3>2 DEF Throws, SameResults, Shape, SessionFields
    <3>. QED
      BY <2>1, <3>3, ThrowsKeeps DEF FieldsKept
  <2>3. CASE ~At("closing")
    <3>1. session' = Raised
      BY <1>2, <2>3 DEF Fails
    <3>. QED
      BY <2>1, <3>1, RaiseKeeps
  <2>. QED
    BY <2>2, <2>3
<1>3. CASE Finish
  <2>1. /\ session' = [session EXCEPT !.pc = "ended", !.recorded = Verdict] /\ session.pc = "finish"
        /\ UNCHANGED lab
    BY <1>3 DEF Finish, At
  <2>2. /\ session'.plan = session.plan /\ session'.recorded = Verdict /\ session'.pc = "ended"
        /\ session'.prior = session.prior /\ session'.eligible = session.eligible
        /\ session'.clean = session.clean /\ session'.smoke = session.smoke
        /\ session'.failing = session.failing /\ session'.stuck = session.stuck
    BY <2>1 DEF Shape, SessionFields
  <2>3. PlaceOK' /\ FaultRead' /\ SummaryOK' /\ CellsOK'
    BY <2>1, <2>2
       DEF Promises, SessionInv, PlaceOK, FaultRead, SummaryOK, CellsOK, Ends, AfterFetch, Cluster,
           Plan
  <2>4. RecordOK'
    BY <2>1, <2>2 DEF Promises, SessionInv, RecordOK, Verdict, Plan
  <2>5. AsFound' /\ PutBack' /\ CellIsClean'
    BY <2>1, <2>2 DEF Promises, LabInv, AsFound, PutBack, CellIsClean, Fields, AfterRestore, Plan
  <2>6. HandedOver'
    BY <2>1, <2>2 DEF Promises, LabInv, HandedOver, OwnWriter, Mode, Verdict, Plan
  <2>. QED
    BY <2>3, <2>4, <2>5, <2>6 DEF Promises, SessionInv, LabInv
<1>. QED
  BY <1>1, <1>2, <1>3

\* apply, server-dry-run, conformance, mutate and delete.
LEMMA ResourcesKeep ==
  ASSUME Shape, Promises, Plan.script = "platform", ApplyBundle \/ RunJob \/ ChangeParent \/ Converges
  PROVE  Promises'
<1>1. session.pc \in {"apply", "job", "parent", "converge"}
  BY DEF ApplyBundle, RunJob, ChangeParent, Converges, At
<1>2. session.pc \notin AfterFetch /\ session.pc \notin Ends \cup {"finish"}
      /\ session.pc \notin {"summary", "recover", "smoke", "closing"}
      /\ Plan.action \notin {"run", "fault", "restore"} /\ ~(Plan.action = "apply" /\ Plan.week = 20)
  BY <1>1, PlaceLemma DEF AfterFetch, Ends, Promises, SessionInv
<1>3. CASE session' = Raised
  <2>1. Plan.fault # "artifact"
    BY <1>2, PlanLemma
  <2>. QED
    BY <1>2, <1>3, <2>1, GoesLemma, ThrowsKeeps
<1>4. CASE session' = To("finish")
  BY <1>2, <1>4, GoesLemma, EarlyKeeps, PlatformPlaces DEF Ends
<1>5. CASE session' = To("converge")
  <2>1. session.pc = "parent"
    <3>1. To("converge").pc = "converge" /\ To("finish").pc = "finish" /\ Raised.pc \in {"restore", "closing", "finish"}
      BY ToLemma, RaisedLemma, HandlerIsElsewhere
    <3>. QED
      BY <1>5, <3>1 DEF ApplyBundle, RunJob, ChangeParent, Converges, At, Patch, Kubectl, Raise
  <2>2. Plan.action \in {"mutate", "delete"}
    BY <2>1, PlaceLemma DEF Promises, SessionInv
  <2>. QED
    BY <1>2, <1>5, <2>2, GoesLemma, EarlyKeeps, PlatformPlaces DEF Ends
<1>6. session' \in {Raised, To("finish"), To("converge")}
  <2>1. CASE ApplyBundle
    BY <2>1 DEF ApplyBundle, Patch, Kubectl, Raise
  <2>2. CASE RunJob
    BY <2>2 DEF RunJob, Raise
  <2>3. CASE ChangeParent
    BY <2>3 DEF ChangeParent, Patch, Kubectl, Raise
  <2>4. CASE Converges
    BY <2>4 DEF Converges, Raise
  <2>. QED
    BY <2>1, <2>2, <2>3, <2>4
<1>. QED
  BY <1>3, <1>4, <1>5, <1>6

\* switch_scaler.
LEMMA SwitchKeeps ==
  ASSUME Shape, ChainInv, Promises, Plan.script = "platform",
         ListWriters \/ DeleteScaledObject \/ DeleteHpas \/ AwaitHandoff \/ Install
  PROVE  Promises'
<1>1. session.pc \in {"list", "unscale", "unhpa", "handoff", "install"}
  BY DEF ListWriters, DeleteScaledObject, DeleteHpas, AwaitHandoff, Install, At
<1>2. session.pc \notin AfterFetch /\ session.pc \notin Ends \cup {"finish"}
      /\ session.pc \notin {"summary", "recover", "smoke", "closing"}
      /\ Plan.action \notin {"run", "fault"}
      /\ (Plan.action = "restore" \/ (Plan.action = "apply" /\ Plan.week = 20))
  BY <1>1, PlaceLemma DEF AfterFetch, Ends, Promises, SessionInv
<1>3. CASE session' = Raised
  <2>1. Plan.fault # "artifact"
    BY <1>2, PlanLemma
  <2>. QED
    BY <1>2, <1>3, <2>1, GoesLemma, ThrowsKeeps
<1>4. ASSUME NEW p \in {"unscale", "unhpa", "handoff", "install"}, GoesTo(p) PROVE Promises'
  <2>1. p \in Places(Plan) /\ p \notin Ends \cup {"summary", "closing", "finish", "warm", "rollout", "traffic"}
    BY <1>2, <1>4, PlatformPlaces DEF Ends
  <2>. QED
    BY <1>2, <1>4, <2>1, EarlyKeeps
<1>5. CASE session' = [To("unscale") EXCEPT !.listed = lab.hpas, !.scaled = lab.scaled # "none"]
  <2>1. GoesTo("unscale")
    <3>1. SameButPlace(To("unscale")) /\ To("unscale").pc = "unscale" /\ To("unscale").failing = session.failing
          /\ To("unscale").stuck = session.stuck
      BY ToLemma
    <3>. QED
      BY <1>5, <3>1 DEF GoesTo, SameButPlace, SameResults, SessionFields
  <2>. QED
    BY <1>4, <2>1
<1>6. CASE session' \in {To("unhpa"), To("handoff"), To("install")}
  BY <1>4, <1>6, GoesLemma
<1>7. CASE Install /\ session' = To("finish")
  <2>1. lab' = Installed /\ lab.hpas = {} /\ lab.scaled = "none"
    BY <1>7 DEF Install, Patch, Kubectl, ChainInv, At
  <2>2. session'.plan = session.plan /\ DOMAIN lab = LabFields
    BY <1>7, GoesLemma DEF GoesTo, SameResults
  <2>3. OwnWriter'
    <3>1. CASE Mode = "hpa"
      BY <2>1, <2>2, <3>1 DEF OwnWriter, Installed, Mode, Plan, LabFields
    <3>2. CASE Mode = "keda"
      BY <2>1, <2>2, <3>2 DEF OwnWriter, Installed, Mode, Plan, LabFields
    <3>3. CASE Mode \notin {"hpa", "keda"}
      BY <2>1, <2>2, <3>3 DEF OwnWriter, Installed, Mode, Plan, LabFields
    <3>. QED
      BY <3>1, <3>2, <3>3
  <2>. QED
    BY <1>2, <1>7, <2>3, GoesLemma, EarlyKeeps, PlatformPlaces DEF Ends
<1>8. CASE ListWriters
  BY <1>3, <1>5, <1>8 DEF ListWriters, Raise
<1>9. CASE DeleteScaledObject \/ AwaitHandoff
  BY <1>3, <1>6, <1>9 DEF DeleteScaledObject, AwaitHandoff, Patch, Kubectl, Raise
<1>11. CASE DeleteHpas
  <2>1. CASE session' \in {To("handoff"), Raised}
    BY <1>3, <1>6, <2>1
  <2>2. CASE \E h \in session.listed : session' = [session EXCEPT !.listed = @ \ {h}]
    <3>1. PICK h : session' = [session EXCEPT !.listed = @ \ {h}]
      BY <2>2
    <3>2. GoesTo("unhpa")
      BY <1>11, <3>1 DEF DeleteHpas, At, GoesTo, SameResults, SessionFields, Shape
    <3>. QED
      BY <1>4, <3>2
  <2>. QED
    BY <1>11, <2>1, <2>2 DEF DeleteHpas, Kubectl
<1>10. CASE Install
  BY <1>3, <1>7, <1>10 DEF Install, Patch, Kubectl
<1>. QED
  BY <1>8, <1>9, <1>10, <1>11

\* run_cell up to the fault: the readiness checks, the warmup and the rollout.
LEMMA CellKeeps ==
  ASSUME Shape, Promises, Plan.script = "platform", CheckReady \/ Warm \/ AwaitRollout
  PROVE  Promises'
<1>1. session.pc \in {"ready", "warm", "rollout"}
  BY DEF CheckReady, Warm, AwaitRollout, At
<1>2. /\ session.pc \notin AfterFetch /\ session.pc \notin Ends \cup {"finish"}
      /\ session.pc \notin {"summary", "recover", "smoke", "closing"}
      /\ Plan.action \in {"run", "fault"} /\ Plan.week \in 17..20 /\ DOMAIN lab = LabFields
  BY <1>1, PlaceLemma, PlanLemma DEF AfterFetch, Ends, Promises, SessionInv, Shape
<1>3. CASE session' = Raised /\ FieldsKept
  BY <1>2, <1>3, GoesLemma, ThrowsKeeps
<1>4. ASSUME NEW p \in {"warm", "rollout", "fetch", "traffic"}, session' = To(p),
             p = "fetch" => Plan.action = "fault", UNCHANGED Plan,
             (Plan.action = "run" /\ Plan.week # 19 /\ p \in {"warm", "rollout", "traffic"}) => Steady'
      PROVE  Promises'
  <2>1. p \in Places(Plan) /\ p \notin Ends \cup {"summary", "closing", "finish"}
    BY <1>2, <1>4, PlatformPlaces DEF Ends
  <2>2. GoesTo(p)
    BY <1>4, GoesLemma
  <2>. QED
    BY <1>2, <1>4, <2>1, <2>2, EarlyKeeps
<1>5. \A p : session' = To(p) => UNCHANGED Plan
  BY GoesLemma DEF GoesTo, SameResults, Plan
<1>6. CASE CheckReady
  <2>1. CASE UNCHANGED lab /\ session' = Raised
    BY <1>3, <2>1 DEF FieldsKept
  <2>. DEFINE p == IF Plan.week # 19 THEN "warm" ELSE IF Plan.action = "fault" THEN "fetch" ELSE "traffic"
  <2>2. CASE Ready /\ Verified /\ Measurable /\ session' = To(p) /\ UNCHANGED lab
    <3>1. UNCHANGED Plan
      BY <1>5, <2>2
    <3>2. (Plan.action = "run" /\ Plan.week # 19) => Steady
      BY <2>2 DEF Steady, Ready, Verified, AsRendered, PoolAsDeclared, CaseWriter
    <3>3. (Plan.action = "run" /\ Plan.week # 19) => Steady'
      BY <2>2, <3>1, <3>2 DEF Steady, CaseWriter, WriterCheck, Measurable, MetricValue
    <3>. QED
      BY <1>4, <2>2, <3>1, <3>3
  <2>. QED
    BY <1>6, <2>1, <2>2 DEF CheckReady, Check, Raise
<1>7. CASE Warm
  <2>1. lab' = Restarted /\ session' \in {To("rollout"), Raised} /\ session.pc = "warm"
    BY <1>7 DEF Warm, Patch, Kubectl, At
  <2>2. /\ lab'.selector = lab.selector /\ lab'.port = lab.port /\ lab'.epp = lab.epp
        /\ lab'.patched = lab.patched /\ lab'.hpas = lab.hpas /\ lab'.scaled = lab.scaled
    BY <1>2, <2>1 DEF Restarted, LabFields
  <2>3. CASE session' = Raised
    BY <1>3, <2>2, <2>3 DEF FieldsKept
  <2>4. CASE session' = To("rollout")
    <3>1. UNCHANGED Plan
      BY <1>5, <2>4
    <3>2. (Plan.action = "run" /\ Plan.week # 19) => Steady'
      BY <2>1, <2>2, <3>1 DEF Promises, LabInv, CellIsClean, Steady, CaseWriter, WriterCheck, Measurable, MetricValue
    <3>. QED
      BY <1>4, <2>4, <3>1, <3>2
  <2>. QED
    BY <2>1, <2>3, <2>4
<1>8. CASE AwaitRollout
  <2>. DEFINE p == IF Plan.action = "fault" THEN "fetch" ELSE "traffic"
  <2>1. UNCHANGED lab /\ session' \in {To(p), Raised} /\ session.pc = "rollout"
    BY <1>8 DEF AwaitRollout, Check, Raise, At
  <2>2. CASE session' = Raised
    BY <1>3, <2>1, <2>2 DEF FieldsKept
  <2>3. CASE session' = To(p)
    <3>1. UNCHANGED Plan
      BY <1>5, <2>3
    <3>2. (Plan.action = "run" /\ Plan.week # 19) => Steady'
      BY <2>1, <3>1 DEF Promises, LabInv, CellIsClean, Steady, CaseWriter, WriterCheck, Measurable, MetricValue
    <3>. QED
      BY <1>4, <2>3, <3>1, <3>2
  <2>. QED
    BY <2>1, <2>2, <2>3
<1>. QED
  BY <1>6, <1>7, <1>8

\* injected_fault, up to the traffic.
LEMMA InjectKeeps ==
  ASSUME Shape, Promises, Plan.script = "platform", Fetch \/ Label \/ Inject \/ Drain
  PROVE  Promises'
<1>1. session.pc \in {"fetch", "label", "inject", "drain"}
  BY DEF Fetch, Label, Inject, Drain, At
<1>2. /\ session.pc \notin Ends \cup {"finish"}
      /\ session.pc \notin {"summary", "recover", "smoke", "closing"}
      /\ Plan.action = "fault" /\ Plan.fault # "none" /\ DOMAIN lab = LabFields /\ DOMAIN session = SessionFields
      /\ ~session.eligible /\ session.recorded \notin {"completed", "collected"}
      /\ {"label", "inject", "drain", "traffic"} \subseteq Places(Plan)
      /\ {"label", "inject", "drain", "traffic"} \subseteq AfterFetch \ Ends
  BY <1>1, PlaceLemma, PlanLemma, PlatformPlaces
     DEF AfterFetch, Ends, Promises, SessionInv, SummaryOK, RecordOK, Shape
<1>3. CASE session' = Raised /\ (Plan.fault = "artifact" => FieldsKept)
  BY <1>2, <1>3, GoesLemma, ThrowsKeeps
<1>4. ASSUME NEW p \in {"inject", "drain", "traffic"}, session' = To(p), session.pc # "fetch",
             (p = "inject" \/ Plan.fault = "artifact") => Fields' = Fields,
             p = "inject" => session.pc = "label"
      PROVE  Promises'
  <2>1. GoesTo(p)
    BY <1>4, GoesLemma
  <2>2. (session.prior # <<>> /\ (p \in {"label", "inject"} \/ Plan.fault = "artifact")) => session.prior = Fields'
    BY <1>1, <1>4 DEF Promises, LabInv, AsFound
  <2>3. p \notin AfterRestore /\ p \notin {"closing", "finish", "summary"}
    BY DEF AfterRestore
  <2>. QED
    BY <1>2, <2>1, <2>2, <2>3, LateKeeps
<1>5. CASE Fetch
  <2>0. session.prior = <<>> /\ session.pc = "fetch"
    BY <1>5 DEF Promises, SessionInv, FaultRead, AfterFetch, Ends, Fetch, At
  <2>1. CASE Patch(Restarted, "traffic")
    <3>1. FieldsKept
      BY <1>2, <2>1 DEF Patch, Kubectl, Restarted, FieldsKept, LabFields
    <3>2. CASE session' = To("traffic")
      <4>1. GoesTo("traffic") /\ session.pc \notin AfterFetch
        BY <2>0, <3>2, GoesLemma DEF AfterFetch, Ends
      <4>. QED
        BY <1>2, <4>1, EarlyKeeps DEF Ends
    <3>. QED
      BY <1>3, <2>1, <3>1, <3>2 DEF Patch, Kubectl
  <2>2. CASE Raise
    BY <1>3, <2>2 DEF Raise, FieldsKept
  <2>. DEFINE p == IF Plan.fault = "membership" THEN "label" ELSE "inject"
  <2>3. CASE /\ session' = [To(p) EXCEPT !.prior = <<lab.selector, lab.port, lab.epp>>]
             /\ UNCHANGED <<lab, budget>> /\ Plan.fault # "pod_replacement"
    <3>. DEFINE fields == <<lab.selector, lab.port, lab.epp>>
    <3>1. SameButPlace(To(p)) /\ To(p).pc = p /\ To(p).failing = session.failing /\ To(p).stuck = session.stuck
      BY ToLemma
    <3>2. /\ session'.plan = session.plan /\ session'.recorded = session.recorded
          /\ session'.prior = fields /\ session'.eligible = session.eligible
          /\ session'.clean = session.clean /\ session'.smoke = session.smoke /\ session'.pc = p
          /\ session'.failing = session.failing /\ session'.stuck = session.stuck
      BY <2>3, <3>1 DEF SameButPlace, SessionFields
    <3>3. p \in {"label", "inject"} /\ Plan.fault \in Undone
      <4>1. Plan \in PlatformPlans
        BY DEF Shape, Plan, Nobody
      <4>. QED
        BY <1>2, <2>3, <4>1
    <3>. HIDE DEF p
    <3>4. PlaceOK' /\ FaultRead'
      BY <1>2, <3>2, <3>3 DEF Promises, SessionInv, PlaceOK, FaultRead, Plan
    <3>5. RecordOK' /\ SummaryOK' /\ CellsOK'
      BY <1>2, <3>2, <3>3 DEF Promises, SessionInv, RecordOK, SummaryOK, CellsOK, Plan, Cluster
    <3>6. AsFound' /\ PutBack' /\ HandedOver' /\ CellIsClean'
      BY <1>2, <2>3, <3>2, <3>3 DEF AsFound, PutBack, AfterRestore, HandedOver, CellIsClean, Fields, Plan
    <3>. QED
      BY <3>4, <3>5, <3>6 DEF Promises, SessionInv, LabInv
  <2>. QED
    BY <1>5, <2>1, <2>2, <2>3 DEF Fetch, Undone
<1>6. CASE Label
  <2>1. /\ lab' = [lab EXCEPT !.member = TRUE] /\ session' \in {To("inject"), Raised} /\ session.pc = "label"
    BY <1>6 DEF Label, Patch, Kubectl, At
  <2>2. FieldsKept /\ Fields' = Fields
    BY <1>2, <2>1 DEF FieldsKept, Fields, LabFields
  <2>. QED
    BY <1>3, <1>4, <2>1, <2>2
<1>7. CASE Inject
  <2>. DEFINE p == IF Plan.fault = "epp_unavailable" THEN "drain" ELSE "traffic"
  <2>1. lab' = Injected /\ session' \in {To(p), Raised} /\ session.pc = "inject"
    BY <1>7 DEF Inject, Patch, Kubectl, At
  <2>2. Plan.fault = "artifact" => FieldsKept /\ Fields' = Fields
    BY <1>2, <2>1 DEF FieldsKept, Fields, Injected, LabFields
  <2>. QED
    BY <1>3, <1>4, <2>1, <2>2
<1>8. CASE Drain
  <2>1. UNCHANGED lab /\ session' \in {To("traffic"), Raised} /\ session.pc = "drain"
    BY <1>8 DEF Drain, Check, Raise, At
  <2>. QED
    BY <1>3, <1>4, <2>1 DEF FieldsKept, Fields
<1>. QED
  BY <1>5, <1>6, <1>7, <1>8

\* The traffic and the summary.
LEMMA TrafficKeeps ==
  ASSUME Shape, Promises, Plan.script = "platform", Traffic \/ Summary
  PROVE  Promises'
<1>1. CASE Traffic
  <2>1. PICK saturated \in BOOLEAN :
          session' = [session EXCEPT
            !.pc = IF Plan.fault \in Undone THEN "restore" ELSE "summary",
            !.saturated = saturated, !.clean = Declared]
    BY <1>1 DEF Traffic
  <2>. DEFINE p == IF Plan.fault \in Undone THEN "restore" ELSE "summary"
              clean == Declared
  <2>2. session.pc = "traffic" /\ UNCHANGED lab /\ Plan.action \in {"run", "fault"}
    BY <1>1, PlaceLemma DEF Traffic, At, Promises, SessionInv
  <2>3. /\ session'.plan = session.plan /\ session'.recorded = session.recorded
        /\ session'.prior = session.prior /\ session'.eligible = session.eligible
        /\ session'.clean = clean /\ session'.smoke = session.smoke /\ session'.pc = p
        /\ session'.failing = session.failing /\ session'.stuck = session.stuck
    BY <2>1 DEF Shape, SessionFields
  <2>4. (Plan.action = "run" /\ Plan.week # 19) => clean
    BY <2>2 DEF Promises, LabInv, CellIsClean, Steady, Declared
  <2>5. /\ p \in Places(Plan) /\ p \in AfterFetch \ Ends
        /\ p = "restore" => Plan.action = "fault"
        /\ p = "summary" => Plan.fault \notin Undone
    <3>1. Plan.fault \in Undone => Plan.action = "fault"
      BY PlanLemma DEF Undone
    <3>. QED
      BY <2>2, <3>1, PlatformPlaces DEF AfterFetch, Ends
  <2>6. ~session.eligible /\ session.recorded \notin {"completed", "collected"}
        /\ (session.prior # <<>> => Plan.fault \in Undone)
    BY <2>2 DEF Promises, SessionInv, SummaryOK, RecordOK, FaultRead, Ends
  <2>. HIDE DEF clean
  <2>7. PlaceOK' /\ FaultRead'
    BY <2>3, <2>5 DEF Promises, SessionInv, PlaceOK, FaultRead, Plan
  <2>8. RecordOK' /\ SummaryOK' /\ CellsOK'
    BY <2>3, <2>4, <2>5, <2>6 DEF Promises, SessionInv, RecordOK, SummaryOK, CellsOK, Plan, Cluster
  <2>9. AsFound'
    BY <2>2, <2>3, <2>5 DEF Promises, LabInv, AsFound, Fields, Plan
  <2>10. PutBack' /\ HandedOver' /\ CellIsClean'
    BY <2>2, <2>3, <2>5, <2>6 DEF PutBack, AfterRestore, HandedOver, CellIsClean, Plan
  <2>. QED
    BY <2>7, <2>8, <2>9, <2>10 DEF Promises, SessionInv, LabInv
<1>2. CASE Summary
  <2>. DEFINE p == IF Plan.action = "fault" THEN "recover" ELSE "closing"
              eligible == Plan.week # 19 /\ Plan.action # "fault" /\ ~session.saturated
  <2>1. /\ session' = [session EXCEPT !.pc = p, !.eligible = eligible]
        /\ session.pc = "summary" /\ UNCHANGED lab
    BY <1>2 DEF Summary, At
  <2>2. Plan.action \in {"run", "fault"}
    BY <2>1, PlaceLemma DEF Promises, SessionInv
  <2>3. eligible => session.clean
    BY <2>1, <2>2 DEF Promises, SessionInv, SummaryOK
  <2>4. p \in Places(Plan) /\ p \in AfterFetch \ Ends /\ (p = "closing" => Plan.action = "run")
    BY <2>2, PlatformPlaces DEF AfterFetch, Ends
  <2>5. eligible => p = "closing"
    OBVIOUS
  <2>. HIDE DEF p, eligible
  <2>6. /\ session'.plan = session.plan /\ session'.recorded = session.recorded
        /\ session'.prior = session.prior /\ session'.eligible = eligible
        /\ session'.clean = session.clean /\ session'.smoke = session.smoke /\ session'.pc = p
        /\ session'.failing = session.failing /\ session'.stuck = session.stuck
    BY <2>1 DEF Shape, SessionFields
  <2>7. p \in {"recover", "closing"} /\ session.recorded \notin {"completed", "collected"}
    BY <2>1 DEF p, Promises, SessionInv, RecordOK
  <2>8. PlaceOK' /\ FaultRead'
    BY <2>1, <2>4, <2>6 DEF Promises, SessionInv, PlaceOK, FaultRead, Plan
  <2>9. RecordOK' /\ SummaryOK' /\ CellsOK'
    BY <2>3, <2>4, <2>5, <2>6, <2>7 DEF RecordOK, SummaryOK, CellsOK, Plan, Cluster
  <2>10. AsFound' /\ PutBack' /\ HandedOver' /\ CellIsClean'
    BY <2>1, <2>6, <2>7
       DEF Promises, LabInv, AsFound, PutBack, AfterRestore, HandedOver, CellIsClean, Fields, Plan
  <2>. QED
    BY <2>8, <2>9, <2>10 DEF Promises, SessionInv, LabInv
<1>. QED
  BY <1>1, <1>2

\* The finally of a fault, the recovery, and the end of the sampler.
LEMMA UndoKeeps ==
  ASSUME Shape, Promises, Plan.script = "platform", Restore \/ Unlabel \/ Recover \/ Smoke \/ Closing
  PROVE  Promises'
<1>1. session.pc \in {"restore", "unlabel", "recover", "smoke", "closing"}
  BY DEF Restore, Unlabel, Recover, Smoke, Closing, At
<1>2. /\ session.pc \notin Ends \cup {"finish"} /\ DOMAIN lab = LabFields /\ DOMAIN session = SessionFields
      /\ session.pc # "closing" => Plan.action = "fault" /\ ~session.eligible
      /\ Plan.action \in {"run", "fault"}
      /\ session.recorded \notin {"completed", "collected"}
  BY <1>1, PlaceLemma DEF Ends, Promises, SessionInv, SummaryOK, RecordOK, Shape
<1>3. CASE session' = Raised /\ UNCHANGED lab
  BY <1>2, <1>3, RaiseKeeps
<1>. DEFINE Put(p) == /\ session.prior = Fields'
                      /\ Plan.fault = "artifact" => ~lab'.patched
                      /\ (Plan.fault = "membership" /\ p # "unlabel") => ~lab'.member
<1>4. ASSUME NEW p \in {"unlabel", "summary", "closing"}, session' = To(p), Plan.action = "fault", ~session.eligible,
             p = "closing" => session.failing,
             session.prior # <<>> => Put(p)
      PROVE  Promises'
  <2>1. GoesTo(p)
    BY <1>4, GoesLemma
  <2>2. p \in Places(Plan) /\ p \in AfterFetch \ Ends /\ p \notin {"label", "inject", "finish", "warm", "rollout", "traffic"}
    BY <1>4, PlatformPlaces DEF AfterFetch, Ends
  <2>. QED
    BY <1>2, <1>4, <2>1, <2>2, LateKeeps
<1>5. CASE Restore
  <2>. DEFINE p == IF Plan.fault = "membership" THEN "unlabel" ELSE AfterUndo
  <2>1. lab' = Restored /\ session' \in {To(p), Raised} /\ session.pc = "restore"
    BY <1>5 DEF Restore, Patch, Kubectl, At
  <2>2. session.prior # <<>> => (session.prior = Fields' /\ (Plan.fault = "artifact" => ~lab'.patched /\ FieldsKept))
    <3>1. CASE Plan.fault = "artifact"
      BY <1>2, <2>1, <3>1 DEF Restored, Fields, FieldsKept, LabFields, Promises, LabInv, AsFound
    <3>2. CASE Plan.fault # "artifact"
      <4>1. lab'.selector = session.prior[1] /\ lab'.port = session.prior[2] /\ lab'.epp = session.prior[3]
        BY <1>2, <2>1, <3>2 DEF Restored, LabFields
      <4>2. session.prior # <<>> => session.prior = <<session.prior[1], session.prior[2], session.prior[3]>>
        BY DEF Promises, SessionInv, FaultRead
      <4>. QED
        BY <3>2, <4>1, <4>2 DEF Fields
    <3>. QED
      BY <3>1, <3>2
  <2>3. CASE session' = Raised
    <3>1. Plan.fault = "artifact" => FieldsKept
      BY <1>2, <2>1 DEF Restored, FieldsKept, LabFields
    <3>. QED
      BY <1>2, <2>1, <2>3, <3>1, GoesLemma, ThrowsKeeps
  <2>4. CASE session' = To(p)
    <3>1. p \in {"unlabel", "summary", "closing"} /\ (p = "closing" => session.failing)
          /\ (Plan.fault = "membership" => p = "unlabel")
      BY DEF AfterUndo
    <3>2. session.prior # <<>> => Put(p)
      BY <2>2, <3>1
    <3>. QED
      BY <1>2, <1>4, <2>1, <2>4, <3>1, <3>2
  <2>. QED
    BY <2>1, <2>3, <2>4
<1>6. CASE Unlabel
  <2>1. lab' = [lab EXCEPT !.member = FALSE] /\ session' \in {To(AfterUndo), Raised} /\ session.pc = "unlabel"
    BY <1>6 DEF Unlabel, Patch, Kubectl, At
  <2>2. FieldsKept /\ Fields' = Fields /\ lab'.patched = lab.patched /\ ~lab'.member
    BY <1>2, <2>1 DEF FieldsKept, Fields, LabFields
  <2>3. CASE session' = Raised
    BY <1>2, <2>1, <2>2, <2>3, GoesLemma, ThrowsKeeps
  <2>4. CASE session' = To(AfterUndo)
    <3>. DEFINE p == AfterUndo
    <3>1. p \in {"summary", "closing"} /\ (p = "closing" <=> session.failing)
      BY DEF AfterUndo
    <3>2. CASE session.stuck = "no"
      <4>1. session.prior # <<>> => Put(p)
        BY <2>1, <2>2, <3>2 DEF Promises, LabInv, PutBack, AfterRestore
      <4>. QED
        BY <1>2, <1>4, <2>1, <2>4, <3>1, <4>1
    <3>3. CASE session.stuck # "no"
      <4>1. session.failing /\ GoesTo("closing")
        <5>1. session.failing
          BY <3>3 DEF Promises, SessionInv, FaultRead
        <5>. QED
          BY <2>4, <3>1, <5>1, GoesLemma
      <4>2. (session.prior # <<>> /\ Plan.fault = "artifact") => session.prior = Fields'
        BY <2>2 DEF Promises, LabInv, AsFound
      <4>3. "closing" \in Places(Plan) /\ "closing" \in AfterFetch \ Ends
        BY <1>2, PlatformPlaces DEF AfterFetch, Ends
      <4>. QED
        BY <1>2, <2>1, <3>3, <4>1, <4>2, <4>3, LateKeeps
    <3>. QED
      BY <3>2, <3>3
  <2>. QED
    BY <2>1, <2>3, <2>4
<1>7. CASE Recover
  <2>1. UNCHANGED lab /\ session' \in {To("smoke"), Raised} /\ session.pc = "recover"
    BY <1>7 DEF Recover, Check, Raise, At
  <2>2. CASE session' = To("smoke")
    <3>1. GoesTo("smoke") /\ "smoke" \in Places(Plan) /\ "smoke" \in AfterFetch \ Ends
      BY <1>2, <2>1, <2>2, GoesLemma, PlatformPlaces DEF AfterFetch, Ends
    <3>2. AsFound /\ PutBack
      BY DEF Promises, LabInv
    <3>. QED
      BY <1>2, <2>1, <3>1, <3>2, LateKeeps DEF AsFound, PutBack, AfterRestore, Fields
  <2>. QED
    BY <1>3, <2>1, <2>2
<1>8. CASE Smoke
  <2>1. UNCHANGED lab /\ session.pc = "smoke" /\ session' \in {[To("closing") EXCEPT !.smoke = TRUE], Raised}
    BY <1>8 DEF Smoke, Raise, At
  <2>2. CASE session' = [To("closing") EXCEPT !.smoke = TRUE]
    <3>1. SameButPlace(To("closing")) /\ To("closing").pc = "closing" /\ To("closing").failing = session.failing
          /\ To("closing").stuck = session.stuck
      BY ToLemma
    <3>2. /\ session'.plan = session.plan /\ session'.recorded = session.recorded
          /\ session'.prior = session.prior /\ session'.eligible = session.eligible
          /\ session'.clean = session.clean /\ session'.smoke = TRUE /\ session'.pc = "closing"
          /\ session'.failing = session.failing /\ session'.stuck = session.stuck
      BY <2>2, <3>1 DEF SameButPlace, SessionFields
    <3>3. PlaceOK' /\ FaultRead'
      BY <1>2, <2>1, <3>2, PlatformPlaces DEF Promises, SessionInv, PlaceOK, FaultRead, AfterFetch, Plan
    <3>4. RecordOK' /\ SummaryOK' /\ CellsOK'
      BY <1>2, <2>1, <3>2 DEF RecordOK, SummaryOK, CellsOK, Plan, Cluster
    <3>5. AsFound' /\ PutBack' /\ HandedOver' /\ CellIsClean'
      BY <1>2, <2>1, <3>2
         DEF Promises, LabInv, AsFound, PutBack, AfterRestore, HandedOver, CellIsClean, Fields, Plan
    <3>. QED
      BY <3>3, <3>4, <3>5 DEF Promises, SessionInv, LabInv
  <2>. QED
    BY <1>3, <2>1, <2>2
<1>9. CASE Closing
  <2>1. UNCHANGED lab /\ session' = To("finish") /\ session.pc = "closing"
    BY <1>9 DEF Closing, At
  <2>2. GoesTo("finish") /\ "finish" \in Places(Plan) /\ "finish" \in AfterFetch \ Ends
    BY <2>1, GoesLemma, PlatformPlaces DEF AfterFetch, Ends
  <2>3. (Plan.action = "fault" /\ ~session.failing) => session.smoke
    BY <2>1 DEF Promises, SessionInv, RecordOK
  <2>4. AsFound /\ PutBack
    BY DEF Promises, LabInv
  <2>. QED
    BY <1>2, <2>1, <2>2, <2>3, <2>4, LateKeeps DEF AsFound, PutBack, AfterRestore, Fields
<1>. QED
  BY <1>5, <1>6, <1>7, <1>8, <1>9

\* Every step of weeks 17 to 20.
LEMMA PlatformKeeps ==
  ASSUME Shape, ChainInv, Promises, PlatformStep
  PROVE  Promises'
BY SessionsKeep, ResourcesKeep, SwitchKeeps, CellKeeps, InjectKeeps, TrafficKeeps, UndoKeeps
   DEF PlatformStep

\* Week 15 promises nothing of the lab, and touches no fault.
LEMMA ClusterPlaces ==
  ASSUME Shape, Promises, Cluster, session.pc \notin Ends
  PROVE  /\ Plan.script # "platform" /\ Plan.week = 15 /\ Plan.fault = "none"
         /\ Plan.action \in {"apply", "run", "rollout"}
         /\ session.prior = <<>> /\ ~session.eligible /\ session.recorded \notin {"completed", "collected"}
         /\ session.pc \in Places(Plan)
         /\ Plan.action = "run" => Places(Plan) = {"before", "gate", "cell", "restarted", "load", "after"}
         /\ Plan.action # "run" => Places(Plan) = {"change", "before", "disturb", "after"}
<1>1. /\ Plan.script # "platform" /\ Plan.week = 15 /\ Plan.fault = "none"
      /\ Plan.action \in {"apply", "run", "rollout"}
  BY PlanLemma DEF Cluster
<1>2. session.pc \in Places(Plan)
  BY DEF Promises, SessionInv, PlaceOK
<1>3. /\ Plan.action = "run" => Places(Plan) = {"before", "gate", "cell", "restarted", "load", "after"}
      /\ Plan.action # "run" => Places(Plan) = {"change", "before", "disturb", "after"}
  BY DEF Places, Cluster
<1>4. session.prior = <<>>
  BY <1>1 DEF Promises, SessionInv, FaultRead, Undone
<1>5. ~session.eligible /\ session.recorded \notin {"completed", "collected"}
  BY <1>2, <1>3 DEF Promises, SessionInv, SummaryOK, RecordOK, Ends
<1>. QED
  BY <1>1, <1>2, <1>3, <1>4, <1>5

\* A step of week 15 that collects nothing.
LEMMA ClusterMoves ==
  ASSUME Shape, Promises, Cluster, session.pc \notin Ends, SameResults(session'),
         session'.stuck = session.stuck, session.failing => session'.failing,
         session'.pc \in Places(Plan) \cup {"ended"},
         (Plan.action = "run" /\ session'.pc = "after" /\ session.pc # "after") => session'.failing,
         (Plan.action = "run" /\ session.pc = "after") => session'.pc \in {"after", "ended"}
  PROVE  Promises'
<1>. USE ClusterPlaces
<1>1. /\ session'.plan = session.plan /\ session'.recorded = session.recorded
      /\ session'.prior = session.prior /\ session'.eligible = session.eligible
      /\ session'.cells = session.cells
  BY DEF SameResults
<1>2. PlaceOK' /\ FaultRead' /\ RecordOK' /\ SummaryOK'
  <2>1. PlaceOK'
    BY <1>1 DEF PlaceOK, Ends, Plan
  <2>2. FaultRead'
    BY <1>1 DEF Promises, SessionInv, FaultRead
  <2>3. RecordOK'
    BY <1>1 DEF RecordOK, Plan
  <2>4. SummaryOK'
    BY <1>1 DEF SummaryOK, Plan, Ends
  <2>. QED
    BY <2>1, <2>2, <2>3, <2>4
<1>3. CellsOK'
  BY <1>1 DEF Promises, SessionInv, CellsOK, Ends, Plan, Cluster
<1>4. AsFound' /\ PutBack'
  BY <1>1 DEF AsFound, PutBack
<1>5. HandedOver' /\ CellIsClean'
  BY <1>1 DEF HandedOver, CellIsClean, Plan
<1>. QED
  BY <1>2, <1>3, <1>4, <1>5 DEF Promises, SessionInv, LabInv

\* Every step of week 15.
LEMMA ClusterKeeps ==
  ASSUME Shape, Promises, ClusterStep
  PROVE  Promises'
<1>0. Cluster /\ DOMAIN session = SessionFields
  BY DEF ClusterStep, Shape
<1>1. ASSUME NEW p, session.pc \notin Ends, session' = To(p), p \in Places(Plan) \cup {"ended"},
             (Plan.action = "run" /\ session.pc = "after") => p = "ended",
             (Plan.action = "run" /\ p = "after") => session.pc = "after"
      PROVE  Promises'
  <2>1. SameResults(session') /\ session'.pc = p /\ session'.stuck = session.stuck /\ session'.failing = session.failing
    BY <1>1, GoesLemma DEF GoesTo
  <2>. QED
    BY <1>0, <1>1, <2>1, ClusterMoves
<1>2. CASE session.pc \notin Ends /\ session' = Fallen
  <2>1. SameResults(session') /\ session'.stuck = session.stuck /\ session'.failing = TRUE
        /\ session'.pc \in {"after", "ended"}
    BY <1>2, FallenLemma DEF SameButPlace, SameResults
  <2>2. "after" \in Places(Plan)
    BY <1>0, <1>2, ClusterPlaces
  <2>. QED
    BY <1>0, <1>2, <2>1, <2>2, ClusterMoves
<1>3. CASE ChangeCase \/ Before \/ Disturb
  <2>1. CASE ChangeCase
    <3>1. session.pc = "change" /\ session' \in {To("ended"), Fallen}
      BY <2>1 DEF ChangeCase, At, Fall, Kubectl
    <3>. QED
      BY <1>1, <1>2, <3>1 DEF Ends
  <2>2. CASE Before
    <3>1. session.pc = "before" /\ session' = To(IF Plan.action = "run" THEN "gate" ELSE "disturb")
      BY <2>2 DEF Before, At
    <3>2. (IF Plan.action = "run" THEN "gate" ELSE "disturb") \in Places(Plan)
      BY <1>0, <3>1, ClusterPlaces DEF Ends
    <3>. QED
      BY <1>1, <3>1, <3>2 DEF Ends
  <2>3. CASE Disturb
    <3>1. session.pc = "disturb" /\ session' \in {To("after"), Fallen}
      BY <2>3 DEF Disturb, At, Kubectl
    <3>2. Plan.action # "run" /\ "after" \in Places(Plan)
      BY <1>0, <3>1, ClusterPlaces DEF Ends
    <3>. QED
      BY <1>1, <1>2, <3>1, <3>2 DEF Ends
  <2>. QED
    BY <1>3, <2>1, <2>2, <2>3
<1>4. CASE Gate \/ BeginCell \/ Restarts
  <2>1. session.pc \in {"gate", "cell", "restarted"}
        /\ session' \in {To("cell"), To("load"), To("restarted"), Fallen}
    BY <1>4 DEF Gate, BeginCell, Restarts, At, Pass, Fall, Kubectl
  <2>2. {"cell", "load", "restarted"} \subseteq Places(Plan)
    BY <1>0, <2>1, ClusterPlaces DEF Ends
  <2>. QED
    BY <1>1, <1>2, <2>1, <2>2 DEF Ends
<1>5. CASE Load
  <2>1. session.pc = "load" /\ Plan.action = "run"
    BY <1>0, <1>5, ClusterPlaces DEF Load, At, Ends
  <2>2. CASE session' = Rejected
    BY <1>2, <2>1, <2>2 DEF Rejected, Ends
  <2>. DEFINE p == IF session.cells = Cells - 1 THEN "after" ELSE "cell"
  <2>3. CASE session' = [session EXCEPT !.cells = @ + 1, !.pc = p]
    <3>1. /\ session'.plan = session.plan /\ session'.recorded = session.recorded
          /\ session'.prior = session.prior /\ session'.eligible = session.eligible
          /\ session'.cells = session.cells + 1 /\ session'.pc = p
          /\ session'.stuck = session.stuck /\ session'.failing = session.failing
      BY <1>0, <2>3 DEF SessionFields
    <3>2. session.cells \in 0..Cells /\ session.cells < Cells /\ Cells \in Nat
      BY <1>0, <2>1 DEF Promises, SessionInv, CellsOK, Ends
    <3>3. /\ session.prior = <<>> /\ ~session.eligible /\ session.recorded \notin {"completed", "collected"}
          /\ p \in Places(Plan) /\ p \in {"after", "cell"} /\ Plan.script # "platform"
      BY <1>0, <2>1, ClusterPlaces DEF Ends
    <3>4. CellsOK'
      <4>1. session'.cells \in 0..Cells
        BY <3>1, <3>2
      <4>2. p = "cell" => session'.cells < Cells
        BY <3>1, <3>2
      <4>3. p = "after" => session'.cells = Cells
        BY <3>1, <3>2
      <4>. QED
        BY <3>1, <3>3, <4>1, <4>2, <4>3 DEF CellsOK, Ends
    <3>. HIDE DEF p
    <3>5. PlaceOK' /\ FaultRead' /\ RecordOK' /\ SummaryOK'
      BY <2>1, <3>1, <3>3 DEF Promises, SessionInv, PlaceOK, FaultRead, RecordOK, SummaryOK, Plan
    <3>6. AsFound' /\ PutBack' /\ HandedOver' /\ CellIsClean'
      BY <3>1, <3>3 DEF AsFound, PutBack, HandedOver, CellIsClean, Plan
    <3>. QED
      BY <3>4, <3>5, <3>6 DEF Promises, SessionInv, LabInv
  <2>. QED
    BY <1>5, <2>2, <2>3 DEF Load
<1>6. CASE After
  <2>. DEFINE recorded == IF session.failing THEN "failed" ELSE "collected"
  <2>1. session.pc = "after" /\ session' = [session EXCEPT !.pc = "ended", !.recorded = recorded]
    BY <1>6 DEF After, At
  <2>. HIDE DEF recorded
  <2>2. /\ session'.plan = session.plan /\ session'.recorded = recorded
        /\ session'.prior = session.prior /\ session'.eligible = session.eligible
        /\ session'.cells = session.cells /\ session'.pc = "ended"
        /\ session'.stuck = session.stuck /\ session'.failing = session.failing
    BY <1>0, <2>1 DEF SessionFields
  <2>3. /\ session.prior = <<>> /\ ~session.eligible /\ Plan.action # "fault"
        /\ Plan.script # "platform"
    BY <1>0, <2>1, ClusterPlaces DEF Ends
  <2>4. CellsOK'
    BY <1>0, <2>1, <2>2 DEF Promises, SessionInv, CellsOK, Ends, Cluster, Plan, recorded
  <2>5. PlaceOK' /\ FaultRead' /\ SummaryOK'
    BY <2>1, <2>2, <2>3 DEF Promises, SessionInv, PlaceOK, FaultRead, SummaryOK, Ends, Plan
  <2>6. RecordOK'
    BY <1>0, <2>2, <2>3 DEF RecordOK, Plan, Cluster, recorded
  <2>7. AsFound' /\ PutBack' /\ HandedOver' /\ CellIsClean'
    BY <2>2, <2>3 DEF AsFound, PutBack, HandedOver, CellIsClean, Plan
  <2>. QED
    BY <2>4, <2>5, <2>6, <2>7 DEF Promises, SessionInv, LabInv
<1>7. CASE ClusterFails
  <2>1. session.pc \notin Ends /\ session' = IF session.pc = "after" THEN To("ended") ELSE Fallen
    BY <1>7 DEF ClusterFails, Idle, Ends, At
  <2>. QED
    BY <1>1, <1>2, <2>1
<1>. QED
  BY <1>3, <1>4, <1>5, <1>6, <1>7 DEF ClusterStep

\* A session that is killed records nothing.
LEMMA KilledPromises ==
  ASSUME Shape, Promises, Killed
  PROVE  Promises'
<1>1. session.pc \notin Ends /\ GoesTo("killed") /\ UNCHANGED lab
  BY GoesLemma DEF Killed, Idle, Ends
<1>2. /\ session'.plan = session.plan /\ session'.recorded = session.recorded
      /\ session'.prior = session.prior /\ session'.eligible = session.eligible
      /\ session'.clean = session.clean /\ session'.smoke = session.smoke /\ session'.pc = "killed"
      /\ session'.failing = session.failing /\ session'.stuck = session.stuck
      /\ session'.cells = session.cells
  BY <1>1 DEF GoesTo, SameResults
<1>3. session.recorded \notin {"completed", "collected"}
  BY <1>1 DEF Promises, SessionInv, RecordOK, Ends
<1>4. PlaceOK' /\ FaultRead' /\ RecordOK'
  BY <1>2, <1>3 DEF Promises, SessionInv, PlaceOK, FaultRead, RecordOK, AfterFetch, Ends, Plan
<1>5. SummaryOK' /\ CellsOK'
  BY <1>2, <1>3 DEF Promises, SessionInv, SummaryOK, CellsOK, Ends, Plan, Cluster
<1>6. AsFound' /\ PutBack' /\ HandedOver' /\ CellIsClean'
  BY <1>1, <1>2, <1>3
     DEF Promises, LabInv, AsFound, PutBack, AfterRestore, HandedOver, CellIsClean, Fields, Plan
<1>. QED
  BY <1>4, <1>5, <1>6 DEF Promises, SessionInv, LabInv

\* A session begins with nothing read, nothing recorded and nothing collected.
LEMMA OpensPromise ==
  ASSUME Shape, Open \/ OpenCluster
  PROVE  Promises'
<1>1. CASE Open
  <2>1. PICK p \in PlatformPlans :
          session' = [NoSession EXCEPT !.plan = p, !.pc = "preflight", !.recorded = "running"]
    BY <1>1 DEF Open
  <2>2. /\ session'.plan = p /\ session'.pc = "preflight" /\ session'.recorded = "running"
        /\ session'.prior = <<>> /\ session'.stuck = "no" /\ ~session'.eligible
    BY <2>1 DEF NoSession
  <2>3. p.script = "platform"
    BY <2>1
  <2>4. PlaceOK' /\ FaultRead' /\ RecordOK' /\ SummaryOK' /\ CellsOK'
    BY <2>2, <2>3 DEF PlaceOK, Places, FaultRead, RecordOK, SummaryOK, CellsOK, Cluster, Plan
  <2>5. AsFound' /\ PutBack' /\ HandedOver' /\ CellIsClean'
    BY <2>2 DEF AsFound, PutBack, HandedOver, CellIsClean
  <2>. QED
    BY <2>4, <2>5 DEF Promises, SessionInv, LabInv
<1>2. CASE OpenCluster
  <2>1. PICK p \in ClusterPlans :
          session' = [NoSession EXCEPT !.plan = p,
                        !.pc       = IF p.action = "apply" THEN "change" ELSE "before",
                        !.recorded = IF p.action = "apply" THEN "none" ELSE "started"]
    BY <1>2 DEF OpenCluster
  <2>2. /\ session'.plan = p /\ session'.pc = (IF p.action = "apply" THEN "change" ELSE "before")
        /\ session'.recorded \in {"none", "started"} /\ session'.cells = 0
        /\ session'.prior = <<>> /\ session'.stuck = "no" /\ ~session'.eligible
    BY <2>1 DEF NoSession
  <2>3. p.script = "cluster" /\ p.action \in {"apply", "run", "rollout"} /\ Cells \in Nat \ {0}
    BY <2>1
  <2>4. PlaceOK' /\ FaultRead' /\ RecordOK' /\ SummaryOK'
    BY <2>2, <2>3 DEF PlaceOK, Places, FaultRead, RecordOK, SummaryOK, Plan
  <2>5. CellsOK'
    BY <2>2, <2>3 DEF CellsOK, Ends, Plan
  <2>6. AsFound' /\ PutBack' /\ HandedOver' /\ CellIsClean'
    BY <2>2 DEF AsFound, PutBack, HandedOver, CellIsClean
  <2>. QED
    BY <2>4, <2>5, <2>6 DEF Promises, SessionInv, LabInv
<1>. QED
  BY <1>1, <1>2

\* The controllers touch nothing that a fault changes, and make or remove only KEDA's HPA.
LEMMA ControllersPromise ==
  ASSUME Shape, Promises, Controllers
  PROVE  Promises'
<1>1. UNCHANGED session /\ DOMAIN lab = LabFields
  BY DEF Controllers, Shape
<1>2. SessionInv'
  BY <1>1 DEF Promises, SessionInv, PlaceOK, FaultRead, RecordOK, SummaryOK, CellsOK, Plan, Cluster
<1>3. /\ lab'.selector = lab.selector /\ lab'.port = lab.port /\ lab'.epp = lab.epp
      /\ lab'.patched = lab.patched /\ lab'.member = lab.member
      /\ lab.hpas = {} => lab'.replicas = lab.replicas
      /\ lab.scaled # "live" => lab'.scaled # "live" /\ lab'.hpas \subseteq lab.hpas
      /\ lab.scaled = "live" => lab'.scaled = "live" /\ lab'.hpas \in {lab.hpas, lab.hpas \cup {"keda"}}
      /\ lab.scaled = "none" => lab'.scaled = "none" /\ lab'.hpas \in {lab.hpas, lab.hpas \ {"keda"}}
  <2>1. CASE Rolls \/ Scales \/ PickerFollows \/ ParentFollows
    BY <1>1, <2>1 DEF Rolls, Scales, PickerFollows, ParentFollows, LabFields
  <2>2. CASE KedaMakesHpa \/ ScaledObjectGoes
    BY <1>1, <2>2 DEF KedaMakesHpa, ScaledObjectGoes, LabFields
  <2>3. CASE HpaIsCollected
    BY <1>1, <2>3 DEF HpaIsCollected, LabFields
  <2>. QED
    BY <2>1, <2>2, <2>3 DEF Controllers
<1>4. AsFound' /\ PutBack'
  BY <1>1, <1>3 DEF Promises, LabInv, AsFound, PutBack, Fields, Plan
<1>5. OwnWriter => OwnWriter'
  BY <1>1, <1>3 DEF OwnWriter, Mode, Plan
<1>6. HandedOver'
  BY <1>1, <1>5 DEF Promises, LabInv, HandedOver, Plan
<1>7. (Steady /\ Plan \in PlatformPlans) => Steady'
  <2>. SUFFICES ASSUME Steady, Plan \in PlatformPlans PROVE Steady'
    OBVIOUS
  <2>1. Plan.mode \in {"fixed_1", "fixed_2", "hpa", "keda"}
    OBVIOUS
  <2>2. CaseWriter'
    <3>1. CASE Plan.mode = "keda"
      BY <1>1, <1>3, <3>1 DEF Steady, CaseWriter, WriterCheck, Plan
    <3>2. CASE Plan.mode # "keda"
      <4>1. lab'.hpas = lab.hpas /\ lab'.scaled = lab.scaled
        BY <1>3, <2>1, <3>2 DEF Steady, CaseWriter, WriterCheck
      <4>. QED
        BY <1>1, <4>1 DEF Steady, CaseWriter, WriterCheck, Plan
    <3>. QED
      BY <3>1, <3>2
  <2>. QED
    BY <1>1, <1>3, <2>2 DEF Steady, Measurable, MetricValue, Plan
<1>8. CellIsClean'
  <2>1. (Plan.action = "run" /\ session.pc \in {"warm", "rollout", "traffic"}) => Plan \in PlatformPlans
    <3>1. CASE Plan \in ClusterPlans
      <4>1. Plan.script = "cluster"
        BY <3>1
      <4>2. session.pc \in Ends \/ session.pc \in {"before", "gate", "cell", "restarted", "load", "after"}
            \/ Plan.action # "run"
        BY <4>1, ClusterPlaces DEF Cluster
      <4>. QED
        BY <4>2 DEF Ends
    <3>2. CASE Plan = Nobody
      BY <3>2 DEF Nobody
    <3>. QED
      BY <3>1, <3>2 DEF Shape, Plan
  <2>. QED
    BY <1>1, <1>7, <2>1 DEF Promises, LabInv, CellIsClean, Plan
<1>. QED
  BY <1>2, <1>4, <1>6, <1>8 DEF Promises, LabInv

\* So every step keeps the promises.
LEMMA PromisesStep ==
  Shape /\ ChainInv /\ Promises /\ [LabNext]_labVars => Promises'
<1>. SUFFICES ASSUME Shape, ChainInv, Promises, [LabNext]_labVars PROVE Promises'
  OBVIOUS
<1>1. CASE UNCHANGED labVars
  BY <1>1
     DEF labVars, Promises, SessionInv, PlaceOK, FaultRead, RecordOK, SummaryOK, CellsOK, Cluster,
         Plan,
              LabInv, AsFound, PutBack, HandedOver, CellIsClean, Fields, OwnWriter, Mode, Steady, CaseWriter, WriterCheck,
              Measurable, MetricValue
<1>2. CASE Killed
  BY <1>2, KilledPromises
<1>3. CASE Controllers
  BY <1>3, ControllersPromise
<1>. QED
  BY <1>1, <1>2, <1>3, OpensPromise, PlatformKeeps, ClusterKeeps DEF LabNext, SessionStep

\* There is nothing to promise at the start.
LEMMA PromisesInit == LabInit => Promises
<1>. SUFFICES ASSUME LabInit PROVE Promises
  OBVIOUS
<1>1. /\ session.plan = Nobody /\ session.pc = "ended" /\ session.recorded = "none"
      /\ session.prior = <<>> /\ session.stuck = "no" /\ ~session.eligible
  BY DEF LabInit, NoSession
<1>2. PlaceOK /\ FaultRead /\ RecordOK /\ SummaryOK /\ CellsOK
  BY <1>1 DEF PlaceOK, Ends, FaultRead, RecordOK, SummaryOK, CellsOK, Cluster, Plan, Nobody
<1>3. AsFound /\ PutBack /\ HandedOver /\ CellIsClean
  BY <1>1 DEF AsFound, PutBack, HandedOver, CellIsClean, Plan, Nobody
<1>. QED
  BY <1>2, <1>3 DEF Promises, SessionInv, LabInv

\* The inductive invariant of the lab.
LEMMA PromisesHold == LabSpec => [](Shape /\ ChainInv /\ Promises)
BY ChainInitHolds, ChainStep, PromisesInit, PromisesStep, PTL DEF LabSpec

\* injected_fault: a fault session that ends by itself has put back what it read, whatever
\* raised in it and wherever, unless a call of its restoration raised.
THEOREM FaultsAreUndone == LabSpec => []FaultIsUndone
<1>1. Promises => FaultIsUndone
  <2>. SUFFICES ASSUME Promises, session.pc = "ended", Plan.action = "fault"
                PROVE  FaultIsUndone
    BY DEF FaultIsUndone
  <2>1. (session.prior # <<>> /\ session.stuck = "no") =>
         /\ session.prior = <<lab.selector, lab.port, lab.epp>>
         /\ (Plan.fault = "membership" => ~lab.member) /\ (Plan.fault = "artifact" => ~lab.patched)
    BY DEF Promises, LabInv, PutBack, AfterRestore, Fields
  <2>2. session.recorded = "completed" => session.smoke /\ session.stuck = "no"
    BY DEF Promises, SessionInv, RecordOK, FaultRead
  <2>. QED
    BY <2>1, <2>2 DEF FaultIsUndone
<1>. QED
  BY <1>1, PromisesHold, PTL

\* switch_scaler, run_cell, benchmark: a completed handoff has left its own writer; the traffic
\* of an eligible summary began on the declared pool, port and picker, with metrics in week 20,
\* and under no autoscaler but the case's own, which was there unless KEDA's was being deleted;
\* and a collected run has all of its cells.
THEOREM ResultsAreHonest == LabSpec => []ResultsHonest
<1>1. Shape /\ ChainInv /\ Promises => ResultsHonest
  <2>. SUFFICES ASSUME Shape, ChainInv, Promises PROVE ResultsHonest
    OBVIOUS
  <2>1. HandoffHonest
    <3>. SUFFICES ASSUME session.pc = "ended", session.recorded = "completed", Plan.week = 20,
                         Plan.action \in {"apply", "restore"}
                  PROVE  HandoffHonest
      BY DEF HandoffHonest
    <3>1. Plan.script = "platform"
      BY PlanLemma DEF Nobody
    <3>2. OwnWriter
      BY <3>1 DEF Promises, LabInv, HandedOver
    <3>. QED
      BY <3>2 DEF OwnWriter, HandoffHonest, Writers
  <2>2. EligibleIsClean
    BY DEF EligibleIsClean, Promises, SessionInv, SummaryOK
  <2>3. CollectedIsWhole
    BY DEF CollectedIsWhole, Promises, SessionInv, RecordOK, CellsOK
  <2>. QED
    BY <2>1, <2>2, <2>3 DEF ResultsHonest
<1>. QED
  BY <1>1, PromisesHold, PTL
=============================================================================
