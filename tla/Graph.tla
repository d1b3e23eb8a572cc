-------------------------------- MODULE Graph --------------------------------
(***************************************************************************)
(* internal/graph.hpp and the queries made of it: get_node_info_and_types, *)
(* get_topic_names_and_types, get_service_names_and_types and              *)
(* get_topic_endpoint_info.cpp, and rmw.cpp's node names and counts.       *)
(*                                                                         *)
(* Nodes, each in a process of its own, make and end publishers,           *)
(* subscribers, services and clients.  eCAL (external) carries the news to *)
(* the process that asks, one registration at a time and late: seen is     *)
(* what that process knows.  A list or a count is read from seen at once;  *)
(* a question about one node is a call to that node's query server.        *)
(* Node.tla has the other end of that call.                                *)
(***************************************************************************)
EXTENDS Names, QoS, FiniteSets

CONSTANTS
  Nodes,       \* [id, ns, name]
  Entities,    \* [id, kind, owner, name, simple, ping, qos], owner one of Nodes
  Asked,       \* bound: the kinds the process that asks is interested in
  None

TopicKinds == {"publisher", "subscriber"}
ServiceKinds == {"service", "client"}
Kinds == TopicKinds \cup ServiceKinds

NodesAssumption ==
  \A n \in Nodes : ValidNamespace(n.ns) /\ n.name \in Segments

\* simple is the simple name of a service's type, ping the same after "_Ping".
\* A name that an eCAL prefix
\* is put in front of begins with a slash (rcl).
EntitiesAssumption ==
  \A e \in Entities :
    /\ e.kind \in Kinds
    /\ e.owner \in Nodes
    /\ e.simple \in Segments
    /\ e.qos \in Profile
    /\ e.name \in Seq(Segments) /\ e.name # <<>>
    /\ ~e.qos.avoid_ros_namespace_conventions => Head(e.name) = Blank /\ Len(e.name) > 1

ASSUME GraphAssumption ==
  /\ NodesAssumption
  /\ EntitiesAssumption
  /\ Nodes \cap Entities = {}
  /\ IsFiniteSet(Entities)
  /\ Asked \subseteq Kinds
  /\ None \notin Nodes \cup Entities

VARIABLES
  live,      \* nodes and entities that exist
  gone,      \* those that have existed; bound: none is made twice
  seen,      \* those whose registration eCAL has brought here
  listing,   \* what the last rmw_get_node_names returned
  call,      \* the pending question about a node
  answer,    \* what that returned, until the caller goes on
  fault      \* response[0] of an empty vector was used: undefined

vars == <<live, gone, seen, listing, call, answer, fault>>
queryVars == <<listing, call, answer, fault>>

Things == Nodes \cup Entities

Avoids(e) == e.qos.avoid_ros_namespace_conventions

\* The name an entity has in eCAL: Publisher, Subscriber, Service and Client
\* put the prefix in front of it.
EcalName(e) ==
  IF Avoids(e) THEN e.name
  ELSE Prefixed(IF e.kind \in TopicKinds THEN "rt" ELSE "rs", e.name)

\* The name a node's callback answers with: GetTopicName or GetName.
GetName(e) ==
  IF e.kind \in TopicKinds THEN EcalName(e) ELSE e.name \o <<e.simple>>

\* The rmw functions demangle it.
NameInAnswer(e, no_demangle) ==
  IF e.kind \in ServiceKinds THEN DemangleServiceName(GetName(e))
  ELSE IF no_demangle THEN GetName(e) ELSE DemangleTopicName(GetName(e))

ServiceName(n) == BuildQueryServiceName(n.ns, n.name)
-----------------------------------------------------------------------------
(* Lists and counts, from what is registered                               *)

SeenNodes == seen \cap Nodes
SeenOf(kind) == {e \in seen \cap Entities : e.kind = kind}

\* eCAL's names of all servers that are registered.
SeenServers == {ServiceName(n) : n \in SeenNodes} \cup {EcalName(e) : e \in SeenOf("service")}

\* rmw_get_node_names
GetNodes == {ListedNode(s) : s \in {t \in SeenServers : IsQueryServiceName(t)}}

\* rmw_get_topic_names_and_types
GetTopics(no_demangle) ==
  LET names == {EcalName(e) : e \in SeenOf("publisher") \cup SeenOf("subscriber")} IN
  IF no_demangle THEN names ELSE {DemangleTopicName(t) : t \in names}

QueryMethods == {"GetSubscribers", "GetPublishers", "GetServices", "GetClients"}

\* rmw_get_service_names_and_types: a line for every method, also for the one
\* rmw_service_server_is_available calls and for those of query servers.
Methods(e) == {<<EcalName(e), m>> : m \in {e.simple, e.ping}}
GetServices ==
  {DemangleServiceName(p[1] \o <<p[2]>>) :
     p \in UNION {Methods(e) : e \in SeenOf("service")}
            \cup {ServiceName(n) : n \in SeenNodes} \X QueryMethods}

\* The endpoints of GetTopicEndpointInfo, CountPublishers and CountSubscribers.
EndpointsNamed(name, kind) == {e \in SeenOf(kind) : EcalName(e) = name}

\* Mutant: the name is not mangled.
CountBare(topic, kind) == Cardinality(EndpointsNamed(topic, kind))

\* rmw_count_publishers, rmw_count_subscribers
Count(topic, kind) == Cardinality(EndpointsNamed(MangleTopicName(topic), kind))

\* rmw_get_publishers_info_by_topic, rmw_get_subscriptions_info_by_topic
EndpointInfo(topic, kind, no_mangle) ==
  LET name == IF no_mangle THEN topic ELSE MangleTopicName(topic) IN
  {[id |-> e.id, node_name |-> e.owner.name, node_namespace |-> e.owner.ns,
    qos |-> EndpointQOS(e.qos)] : e \in EndpointsNamed(name, kind)}

-----------------------------------------------------------------------------
Init ==
  /\ live = {}
  /\ gone = {}
  /\ seen = {}
  /\ listing = {}
  /\ call = None
  /\ answer = None
  /\ fault = FALSE

(* The other processes                                                     *)

CreateNode(n) ==
  /\ n \notin live \cup gone
  /\ live' = live \cup {n}
  /\ UNCHANGED <<gone, seen, queryVars>>

\* Its entities are not ended with it.
DestroyNode(n) ==
  /\ n \in live
  /\ live' = live \ {n}
  /\ gone' = gone \cup {n}
  /\ UNCHANGED <<seen, queryVars>>

CreateEntity(e) ==
  /\ e \notin live \cup gone
  /\ e.owner \in live
  /\ e.kind \in TopicKinds => DepthFits(e.qos)
  /\ live' = live \cup {e}
  /\ UNCHANGED <<gone, seen, queryVars>>

DestroyEntity(e) ==
  /\ e \in live
  /\ e.owner \in live
  /\ live' = live \ {e}
  /\ gone' = gone \cup {e}
  /\ UNCHANGED <<seen, queryVars>>

\* The process of a node ends, in whatever state.
ProcessExit(n) ==
  LET lost == live \cap ({n} \cup {e \in Entities : e.owner = n}) IN
  /\ lost # {}
  /\ live' = live \ lost
  /\ gone' = gone \cup lost
  /\ UNCHANGED <<seen, queryVars>>

(* eCAL's registration                                                     *)

Register(x) ==
  /\ x \in live \ seen
  /\ seen' = seen \cup {x}
  /\ UNCHANGED <<live, gone, queryVars>>

Unregister(x) ==
  /\ x \in seen \ live
  /\ seen' = seen \ {x}
  /\ UNCHANGED <<live, gone, queryVars>>

(* The process that asks                                                   *)

GetNodeNames ==
  /\ ~fault /\ call = None
  /\ listing' = GetNodes
  /\ answer' = None
  /\ UNCHANGED <<live, gone, seen, call, fault>>

\* rmw_get_..._names_and_types_by_node, for a node that was listed or one the
\* caller knows by its own namespace and name.
Query(node, kind) ==
  /\ ~fault /\ call = None
  /\ node \in listing \cup {[name |-> n.name, ns |-> n.ns] : n \in Nodes}
  /\ call' = [node |-> node, kind |-> kind]
  /\ answer' = None
  /\ UNCHANGED <<live, gone, seen, listing, fault>>

\* The servers the call goes to: a node's own, or a service of the same name.
CallService == BuildQueryServiceName(call.node.ns, call.node.name)
Callees ==
  {n \in SeenNodes : ServiceName(n) = CallService}
    \cup {e \in SeenOf("service") : EcalName(e) = CallService}

Returned(of, names) ==
  /\ answer' = [to |-> call, of |-> of, names |-> names]
  /\ call' = None
  /\ UNCHANGED <<live, gone, seen, listing, fault>>

Answered(n) ==
  /\ ~fault /\ call # None
  /\ n \in Callees \cap live \cap Nodes
  /\ Returned(n, {NameInAnswer(e, FALSE) :
                    e \in {x \in live \cap Entities : x.owner = n /\ x.kind = call.kind}})

\* A server that is gone, or one without the method: eCAL (external) may leave
\* an empty response, which is parsed as an empty list.
CallFails ==
  /\ ~fault /\ call # None
  /\ Callees \ (live \cap Nodes) # {}
  /\ Returned(None, {})

\* It may also leave none, as it does when it finds no server.
NoResponse ==
  /\ ~fault /\ call # None
  /\ Callees \cap live \cap Nodes = {}
  /\ fault' = TRUE
  /\ UNCHANGED <<live, gone, seen, listing, call, answer>>

NodeStep(n) == CreateNode(n) \/ DestroyNode(n) \/ ProcessExit(n) \/ Answered(n)
EntityStep(e) == CreateEntity(e) \/ DestroyEntity(e)
Registration(x) == Register(x) \/ Unregister(x)

Next ==
  \/ \E n \in Nodes : NodeStep(n)
  \/ \E e \in Entities : EntityStep(e)
  \/ \E x \in Things : Registration(x)
  \/ GetNodeNames
  \/ \E node \in listing \cup {[name |-> n.name, ns |-> n.ns] : n \in Nodes}, kind \in Asked :
       Query(node, kind)
  \/ CallFails
  \/ NoResponse

\* eCAL repeats registrations and drops those that are no longer repeated.
Fairness == \A x \in Things : WF_vars(Registration(x))

Spec == Init /\ [][Next]_vars /\ Fairness
-----------------------------------------------------------------------------
\* The types of what is listed, asked and answered.
TypeOK ==
  /\ live \subseteq Things
  /\ gone \subseteq Things \ live
  /\ seen \subseteq live \cup gone
  /\ \A p \in listing : p.name \in Segments /\ p.ns \in Seq(Segments)
  /\ call # None => call.kind \in Kinds
  /\ answer # None => answer.of \in Nodes \cup {None}
  /\ fault \in BOOLEAN

NodeNamed(n, node) == n.name = node.name /\ n.ns = node.ns

\* graph.hpp:247: the unchecked response[0] hurts a caller that asks about a
\* listed node of the root namespace only after such a node has gone, unless
\* somebody's service has the name of a query service.
FaultNeedsLoss ==
  fault /\ call.node \in listing /\ call.node.ns = Root
    => \/ \E n \in gone \cap Nodes : NodeNamed(n, call.node)
       \/ \E e \in Entities : e.kind = "service" /\ EcalName(e) = CallService

\* graph.hpp:163-168 against qos.hpp:55-65: an answer comes from the node that
\* was asked, never from one of the same name in another namespace, and it has
\* the names its entities were made with.  (A service called "/_node" is listed
\* as a node with a namespace without a slash.)
AnswerFromNodeAsked ==
  answer # None /\ answer.of # None =>
    /\ Len(answer.to.node.ns) > 1 => NodeNamed(answer.of, answer.to.node)
    /\ \A m \in answer.names : \E e \in Entities :
         /\ e.owner = answer.of
         /\ e.kind = answer.to.kind
         /\ ~Avoids(e) => m = e.name \o (IF e.kind \in TopicKinds THEN <<>> ELSE <<e.simple>>)

\* graph.hpp:165-167: the namespace that is listed keeps a slash at its end, so
\* only in the root namespace is what is listed what a node is asked by.
NamespacedAreNotReached ==
  \A p \in listing : (\E n \in Nodes : NodeNamed(n, p)) => p.ns = Root

\* graph.hpp:196-216, 300-330: however nodes and processes came and went,
\* counts and endpoint infos come to agree with the endpoints there are under
\* the topic's mangled name.
EndpointsConverge ==
  <>[](\A e \in Entities : e.kind \in TopicKinds /\ ~Avoids(e) =>
         LET there == {x \in live \cap Entities :
                         x.kind = e.kind /\ EcalName(x) = EcalName(e)} IN
         /\ Count(e.name, e.kind) = Cardinality(there)
         /\ {i.id : i \in EndpointInfo(e.name, e.kind, FALSE)} = {x.id : x \in there})
=============================================================================
