----------------------------- MODULE LabCluster -----------------------------
(***************************************************************************)
(* The lab's namespace, as scripts/run_platform_study.py and               *)
(* scripts/run_cluster_study.py see it through kubectl: the objects that   *)
(* they write, and the controllers that answer them in their own time.     *)
(* One script runs at a time; a call may fail after it took effect.        *)
(***************************************************************************)
EXTENDS Naturals, FiniteSets

CONSTANTS MaxSessions, MaxTrouble   (* Bounds.                             *)

VARIABLES
  lab,       (* The pool's selector and port; epp: the picker's replicas, eppUp: whether
                its Pods run; member: a Pod has the label serving-study-member; patched:
                a release's fault is applied; hpas, scaled: the autoscalers of the target;
                replicas, rolled: the target and whether it is Ready at its generation;
                args: whose engine arguments it has; parent: the LLMInferenceService *)
  session,   (* The script that runs, or ran last.                         *)
  budget     (* sessions, troubles                                         *)

labVars == <<lab, session, budget>>

\* The command line; where it is; whether an exception is under way; run.json or
\* session.json; the autoscalers it listed; the fields it is to restore, and the call that
\* failed to; whether the client was
\* saturated, summary.json's eligibility, and whether the traffic met no fault; whether the
\* smoke after a fault succeeded; the cells that week 15 collected.
Nobody == [script |-> "none", week |-> 0, action |-> "none", mode |-> "none", fault |-> "none"]

NoSession == [plan |-> Nobody, pc |-> "ended", failing |-> FALSE, recorded |-> "none",
              listed |-> {}, scaled |-> FALSE, prior |-> <<>>, stuck |-> "no",
              saturated |-> FALSE, eligible |-> FALSE, clean |-> TRUE, smoke |-> FALSE, cells |-> 0]

Fresh == [selector |-> "target", port |-> "right", epp |-> 1, eppUp |-> TRUE, member |-> FALSE,
          patched |-> FALSE, hpas |-> {}, scaled |-> "none", replicas |-> 2, rolled |-> TRUE,
          args |-> "platform", parent |-> "ready"]

\* Week 17's resources, or week 15's, and perhaps an autoscaler that nobody here made.
LabInit ==
  /\ session = NoSession /\ budget = [sessions |-> 0, troubles |-> 0]
  /\ \E args \in {"platform", "cluster"}, hpas \in {{}, {"cpu"}, {"foreign"}} :
       lab = [Fresh EXCEPT !.args = args, !.hpas = hpas]

At(pc) == session.pc = pc

To(pc) == [session EXCEPT !.pc = pc]

Trouble == budget.troubles < MaxTrouble /\ budget' = [budget EXCEPT !.troubles = @ + 1]

(***************************************************************************)
(* kubectl                                                                 *)
(***************************************************************************)
\* A call that makes the namespace new: it returns, or fails or times out all the same.
Kubectl(new, next, raised) ==
  /\ lab' = new
  /\ \/ session' = next /\ UNCHANGED budget
     \/ session' = raised /\ Trouble

(***************************************************************************)
(* The controllers                                                         *)
(***************************************************************************)
Rolls == ~lab.rolled /\ lab' = [lab EXCEPT !.rolled = TRUE]

PickerFollows == lab.eppUp # (lab.epp = 1) /\ lab' = [lab EXCEPT !.eppUp = ~@]

KedaMakesHpa ==
  lab.scaled = "live" /\ "keda" \notin lab.hpas /\ lab' = [lab EXCEPT !.hpas = @ \cup {"keda"}]

ScaledObjectGoes == lab.scaled = "going" /\ lab' = [lab EXCEPT !.scaled = "none"]

\* The HPA of a ScaledObject outlives it until it is collected.
HpaIsCollected ==
  lab.scaled = "none" /\ "keda" \in lab.hpas /\ lab' = [lab EXCEPT !.hpas = @ \ {"keda"}]

\* An autoscaler changes the target between one replica and two.
Scales == lab.hpas # {} /\ lab' = [lab EXCEPT !.replicas = 3 - @, !.rolled = FALSE]

ParentFollows ==
  \/ lab.parent = "changing" /\ lab' = [lab EXCEPT !.parent = "ready"]
  \/ lab.parent = "going"    /\ lab' = [lab EXCEPT !.parent = "gone"]

Controllers ==
  /\ \/ Rolls \/ Scales \/ PickerFollows \/ ParentFollows
     \/ KedaMakesHpa \/ ScaledObjectGoes \/ HpaIsCollected
  /\ UNCHANGED <<session, budget>>
=============================================================================
