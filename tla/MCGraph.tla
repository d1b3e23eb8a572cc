------------------------------- MODULE MCGraph -------------------------------
(***************************************************************************)
(* Two nodes of one name, one in the root namespace and one in /ns; a      *)
(* topic with a publisher of each, one of them under the raw name          *)
(* "rt/chatter"; a service whose name GetNodes takes for a node's.         *)
(***************************************************************************)
EXTENDS Graph

MCSegments == STRING

MCAfterPrefix == [s \in {"_node", "_nodes"} |-> IF s = "_node" THEN "" ELSE "s"]

InRoot == [id |-> "root", ns |-> Root, name |-> "talker"]
InNs == [id |-> "ns", ns |-> <<"", "ns">>, name |-> "talker"]
MCNodes == {InRoot, InNs}

Profiled(avoid) ==
  [history |-> "keep_last", reliability |-> "reliable", depth |-> 1,
   avoid_ros_namespace_conventions |-> avoid]

Entity(id, kind, owner, name, avoid) ==
  [id |-> id, kind |-> kind, owner |-> owner, name |-> name,
   simple |-> "Trigger", ping |-> "_PingTrigger", qos |-> Profiled(avoid)]

MCEntities ==
  {Entity("pub", "publisher", InRoot, <<"", "chatter">>, FALSE),
   Entity("raw", "publisher", InNs, <<"rt", "chatter">>, TRUE),
   Entity("srv", "service", InNs, <<"", "_nodes", "x">>, FALSE)}
=============================================================================
