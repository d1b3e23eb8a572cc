-------------------------------- MODULE Names --------------------------------
(***************************************************************************)
(* The names of internal/qos.hpp and the node listing of                   *)
(* internal/graph.hpp.                                                     *)
(*                                                                         *)
(* A name is the sequence of what stands between its slashes: "/chatter"   *)
(* is <<"", "chatter">>, "rt/chatter" is <<"rt", "chatter">>, "/" is       *)
(* <<"", "">> and "/ns/" is <<"", "ns", "">>.                              *)
(***************************************************************************)
EXTENDS Naturals, Sequences

CONSTANTS
  Segments,     \* what may stand between two slashes
  AfterPrefix   \* of the segments that begin with "_node": what follows that

\* What stands before the first slash of an absolute name.
Blank == ""

ASSUME SegmentsAssumption == {Blank, "rt", "rs", "_node"} \subseteq Segments

ASSUME PrefixAssumption ==
  /\ "_node" \in DOMAIN AfterPrefix
  /\ \A s \in DOMAIN AfterPrefix :
       /\ AfterPrefix[s] \in Segments
       /\ AfterPrefix[s] = Blank <=> s = "_node"

Root == <<Blank, Blank>>

\* What rcl admits as a namespace: "/", or absolute without a slash at the end.
ValidNamespace(ns) ==
  \/ ns = Root
  \/ /\ ns \in Seq(Segments)
     /\ Len(ns) > 1
     /\ ns[1] = Blank
     /\ \A i \in 2..Len(ns) : ns[i] # Blank

\* prefix + name, for a name that begins with a slash.
Prefixed(prefix, name) == <<prefix>> \o Tail(name)

MangleTopicName(name) == Prefixed("rt", name)

\* A prefix that is followed by a slash is cut off, the slash is kept.
Demangled(prefix, name) ==
  IF Len(name) > 1 /\ Head(name) = prefix THEN Prefixed(Blank, name) ELSE name

DemangleTopicName(name) == Demangled("rt", name)
DemangleServiceName(name) == Demangled("rs", name)

\* Mutant: a query server is named without its node's namespace.
BuildFromName(ns, name) == <<"rs", "_node", name>>

\* The name of a node's query server.
BuildQueryServiceName(ns, name) ==
  <<"rs", "_node">> \o (IF ns = Root THEN <<>> ELSE Tail(ns)) \o <<name>>

\* The test with rfind of GetNodes: the prefix need not end at a slash.
IsQueryServiceName(service) ==
  /\ Len(service) > 1
  /\ service[1] = "rs"
  /\ service[2] \in DOMAIN AfterPrefix

\* Mutant: the namespace is not looked for.
ListedWithoutNamespace(service) == [name |-> service[Len(service)], ns |-> Root]

\* Mutant: the namespace ends before the last slash, unless it is the root's.
ListedWithoutSlash(service) ==
  [name |-> service[Len(service)],
   ns   |-> IF Len(service) <= 3 THEN Root ELSE <<Blank>> \o SubSeq(service, 3, Len(service) - 1)]

\* The name and namespace GetNodes reads off a query service: the namespace
\* keeps the slash it ends with.
ListedNode(service) ==
  LET rest == AfterPrefix[service[2]] IN
  [name |-> service[Len(service)],
   ns   |-> IF Len(service) = 2 THEN <<rest>>
            ELSE <<rest>> \o SubSeq(service, 3, Len(service) - 1) \o <<Blank>>]
=============================================================================
