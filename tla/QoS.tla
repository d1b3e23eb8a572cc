--------------------------------- MODULE QoS ---------------------------------
(***************************************************************************)
(* internal/qos.hpp: from an rmw profile to eCAL's settings and to the     *)
(* profile the endpoint reports of itself; get_topic_endpoint_info.cpp:    *)
(* the profile the graph reports of it.                                    *)
(***************************************************************************)
EXTENDS Naturals

CONSTANTS
  DefaultHistory,      \* what eCAL's settings hold when nothing is specified
  DefaultReliability,
  MaxInt               \* the largest int

ASSUME QoSAssumption ==
  /\ DefaultHistory \in {"keep_last_history_qos", "keep_all_history_qos"}
  /\ DefaultReliability \in {"best_effort_reliability_qos", "reliable_reliability_qos"}
  /\ MaxInt \in Nat

Unspecified == {"system_default", "unknown"}

Profile == [history     : {"keep_last", "keep_all"} \cup Unspecified,
            reliability : {"best_effort", "reliable"} \cup Unspecified,
            depth       : Nat,
            avoid_ros_namespace_conventions : BOOLEAN]

IsPolicySpecified(policy) == policy \notin Unspecified

ToECalHistory(policy) ==
  IF policy = "keep_last" THEN "keep_last_history_qos" ELSE "keep_all_history_qos"

ToECalReliability(policy) ==
  IF policy = "best_effort" THEN "best_effort_reliability_qos" ELSE "reliable_reliability_qos"

ToRosHistory(kind) ==
  IF kind = "keep_last_history_qos" THEN "keep_last" ELSE "keep_all"

ToRosReliability(kind) ==
  IF kind = "best_effort_reliability_qos" THEN "best_effort" ELSE "reliable"

\* ToECalDepth throws otherwise.
DepthFits(profile) == profile.depth <= MaxInt

\* The eCAL settings CreatePublisherQOS and CreateSubscriberQOS make.
EcalQOS(profile) ==
  [history     |-> IF IsPolicySpecified(profile.history)
                   THEN ToECalHistory(profile.history) ELSE DefaultHistory,
   reliability |-> IF IsPolicySpecified(profile.reliability)
                   THEN ToECalReliability(profile.reliability) ELSE DefaultReliability,
   depth       |-> profile.depth]

\* The profile they make, which rmw_publisher_get_actual_qos returns.
ActualQOS(profile) ==
  [history     |-> ToRosHistory(EcalQOS(profile).history),
   reliability |-> ToRosReliability(EcalQOS(profile).reliability),
   depth       |-> profile.depth,
   durability  |-> "volatile",
   avoid_ros_namespace_conventions |-> profile.avoid_ros_namespace_conventions]

\* What GetTopicEndpointInfo and to_ros_qos_profile make of the same settings.
EndpointQOS(profile) ==
  [history     |-> "keep_all",
   reliability |-> IF EcalQOS(profile).reliability = "best_effort_reliability_qos"
                   THEN "reliable" ELSE "best_effort",
   depth       |-> EcalQOS(profile).depth,
   durability  |-> "transient_local",
   avoid_ros_namespace_conventions |-> FALSE]
=============================================================================
