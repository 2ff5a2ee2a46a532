--------------------------- MODULE MCClusterStudy ---------------------------
(* Small instances of ClusterStudy and PlatformStudy.                        *)
EXTENDS ClusterStudy

Line(week, action, mode, fault) ==
  [script |-> "platform", week |-> week, action |-> action, mode |-> mode, fault |-> fault]

PlatformLines ==
  {Line(17, a, "fixed_2", "none") : a \in {"apply", "run", "conformance"}}
  \cup {Line(17, "fault", "fixed_2", f) : f \in {"membership", "wrong_port", "no_endpoints", "epp_unavailable"}}
  \cup {Line(18, "fault", "fixed_2", f) : f \in {"pod_replacement", "artifact"}}
  \cup {Line(19, a, "fixed_2", "none") : a \in {"apply", "run", "mutate", "delete"}}
  \cup {Line(19, "fault", "fixed_2", "artifact"), Line(20, "fault", "hpa", "artifact")}
  \cup {Line(20, a, m, "none") : a \in {"apply", "run"}, m \in {"fixed_1", "hpa", "keda"}}
  \cup {Line(20, "restore", "fixed_2", "none"), Line(20, "snapshot", "fixed_2", "none"), Line(20, "dry_run", "hpa", "none")}

ClusterLines ==
  {[script |-> "cluster", week |-> 15, action |-> a, mode |-> m, fault |-> "none"] :
     a \in {"apply", "run"}, m \in {"fixed_1", "fixed_2", "cpu"}}
  \cup {[script |-> "cluster", week |-> 15, action |-> "rollout", mode |-> "fixed_2", fault |-> "none"]}
=============================================================================
