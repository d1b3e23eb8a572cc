-------------------------------- MODULE Node ---------------------------------
(***************************************************************************)
(* internal/node.hpp: a node's sets of publishers, subscribers, services   *)
(* and clients, rmw.cpp's functions that create and destroy nodes and      *)
(* their entities, event.cpp's that make and end events, and the callbacks *)
(* that answer another process's query by walking one of the sets.         *)
(*                                                                         *)
(* An entity is its implementation object; its rmw struct has the same     *)
(* name.  One user thread creates and destroys; eCAL runs the callbacks of *)
(* a node's query service on a thread of its own, one at a time.  No lock  *)
(* is shared by the two.  A use of freed memory is undefined behaviour:    *)
(* the model gives the process up (fault).                                 *)
(***************************************************************************)
EXTENDS Naturals

CONSTANTS
  Nodes,
  Entities,
  Kinds,         \* publisher, subscriber, service, client; one set for each
  TopicKinds,    \* publisher, subscriber: those with QoS and an event
  Queried,       \* bound: the nodes other processes ask about
  None           \* no entity, no node, no kind

ASSUME NodeAssumption ==
  /\ None \notin Entities \cup Nodes \cup Kinds
  /\ TopicKinds \subseteq Kinds
  /\ Queried \subseteq Nodes

VARIABLES
  phase,      \* of a node: "none", "alive", "dying" (sets gone), "gone"
  guards,     \* nodes whose graph GuardCondition is allocated
  home,       \* the node an entity was created with
  kind,       \* the kind of an entity
  known,      \* subscribers_, publishers_, services_ and clients_ in one
  objects,    \* entities that are allocated
  supports,   \* entities whose type support is allocated
  handle,     \* the rmw struct of an entity: "none", "live" or "freed"
  events,     \* entities an rmw_event_t points into
  fault,      \* "none", "query" or "event": the process is given up
  pc,         \* of a node's callback: "idle", "read", "next", "end"
  asked,      \* the kind of entities it is asked for
  cursor,     \* the element its iterator points to
  rest,       \* the elements behind the iterator
  answer,     \* the entities in its response
  lasting,    \* history: entities in the set since the query began
  ever,       \* history: entities in the set at some time since then
  stirred,    \* history: an insertion has reordered the set since then
  pulled,     \* history: what the iterator pointed to was removed
  strayed     \* history: entities destroyed with a node not their own

queryVars == <<pc, asked, cursor, rest, answer>>
history == <<lasting, ever, stirred, pulled>>
entityVars == <<home, kind, known, objects, supports, handle, strayed>>
vars == <<phase, guards, entityVars, events, fault, queryVars, history>>

Init ==
  /\ phase = [n \in Nodes |-> "none"]
  /\ guards = {}
  /\ home = [e \in Entities |-> None]
  /\ kind = [e \in Entities |-> None]
  /\ known = [n \in Nodes |-> {}]
  /\ objects = {}
  /\ supports = {}
  /\ handle = [e \in Entities |-> "none"]
  /\ events = {}
  /\ fault = "none"
  /\ pc = [n \in Nodes |-> "idle"]
  /\ asked = [n \in Nodes |-> None]
  /\ cursor = [n \in Nodes |-> None]
  /\ rest = [n \in Nodes |-> {}]
  /\ answer = [n \in Nodes |-> {}]
  /\ lasting = [n \in Nodes |-> {}]
  /\ ever = [n \in Nodes |-> {}]
  /\ stirred = [n \in Nodes |-> FALSE]
  /\ pulled = [n \in Nodes |-> FALSE]
  /\ strayed = {}

\* One of the four sets of node n.
Set(n, k) == {e \in known[n] : kind[e] = k}

\* The callback's iterator is on an element.
Walking(n) == pc[n] \in {"read", "next"}

-----------------------------------------------------------------------------
(* rmw_create_node, rmw_destroy_node                                       *)

CreateNode(n) ==
  /\ fault = "none"
  /\ phase[n] = "none"
  /\ phase' = [phase EXCEPT ![n] = "alive"]
  /\ guards' = guards \cup {n}
  /\ UNCHANGED <<entityVars, events, fault, queryVars, history>>

\* Frees the struct of the graph guard condition but not the GuardCondition,
\* and begins ~Node: the sets, declared after query_service_, go first, and
\* with them the only way to delete what they hold.
DestroyNode(n) ==
  /\ fault = "none"
  /\ phase[n] = "alive"
  /\ phase' = [phase EXCEPT ![n] = "dying"]
  /\ known' = [known EXCEPT ![n] = {}]
  /\ pulled' = [pulled EXCEPT ![n] = @ \/ Walking(n)]
  /\ UNCHANGED <<guards, home, kind, objects, supports, handle, strayed, events,
                 fault, queryVars, lasting, ever, stirred>>

\* query_service_ is destroyed; eCAL waits for a callback that is running.
DestroyQueryService(n) ==
  /\ fault = "none"
  /\ phase[n] = "dying"
  /\ pc[n] = "idle"
  /\ phase' = [phase EXCEPT ![n] = "gone"]
  /\ UNCHANGED <<guards, entityVars, events, fault, queryVars, history>>

-----------------------------------------------------------------------------
(* rmw_create_publisher and its like, rmw_destroy_publisher and its like   *)

Created(n, e, k) ==
  /\ supports' = supports \cup {e}
  /\ objects' = objects \cup {e}
  /\ home' = [home EXCEPT ![e] = n]
  /\ kind' = [kind EXCEPT ![e] = k]
  /\ known' = [known EXCEPT ![n] = @ \cup {e}]
  /\ handle' = [handle EXCEPT ![e] = "live"]

\* An insertion puts the element before or behind an iterator.  If it makes
\* the hash table grow, every other element may change sides as well.
Inserted(n, e, k) ==
  IF ~Walking(n) \/ asked[n] # k
  THEN UNCHANGED <<rest, history>>
  ELSE /\ ever' = [ever EXCEPT ![n] = @ \cup {e}]
       /\ UNCHANGED <<lasting, pulled>>
       /\ \/ /\ \E ahead \in {{}, {e}} : rest' = [rest EXCEPT ![n] = @ \cup ahead]
             /\ UNCHANGED stirred
          \/ /\ \E ahead \in SUBSET ((Set(n, k) \cup {e}) \ {cursor[n]}) :
                  rest' = [rest EXCEPT ![n] = ahead]
             /\ stirred' = [stirred EXCEPT ![n] = TRUE]

\* The type support, the QoS, new, insert, the struct.
Create(n, e, k) ==
  /\ fault = "none"
  /\ phase[n] = "alive"
  /\ home[e] = None
  /\ Created(n, e, k)
  /\ Inserted(n, e, k)
  /\ UNCHANGED <<phase, guards, strayed, events, fault, pc, asked, cursor, answer>>

\* ToECalDepth throws for a depth that is no int: the type support is
\* allocated by then and nothing owns it yet.
CreateThrows(n, e, k) ==
  /\ fault = "none"
  /\ phase[n] = "alive"
  /\ home[e] = None
  /\ k \in TopicKinds
  /\ home' = [home EXCEPT ![e] = n]
  /\ kind' = [kind EXCEPT ![e] = k]
  /\ supports' = supports \cup {e}
  /\ UNCHANGED <<phase, guards, known, objects, handle, strayed, events, fault,
                 queryVars, history>>

(* Mutant: the callback walks a copy of the set. *)
RemovedFromOriginal(n, e) ==
  IF ~Walking(n) \/ asked[n] # kind[e]
  THEN UNCHANGED <<rest, history>>
  ELSE /\ lasting' = [lasting EXCEPT ![n] = @ \ {e}]
       /\ pulled' = [pulled EXCEPT ![n] = @ \/ cursor[n] = e]
       /\ UNCHANGED <<rest, ever, stirred>>

\* An iterator does not meet an element that was erased ahead of it.
Removed(n, e) ==
  IF ~Walking(n) \/ asked[n] # kind[e]
  THEN UNCHANGED <<rest, history>>
  ELSE /\ rest' = [rest EXCEPT ![n] = @ \ {e}]
       /\ lasting' = [lasting EXCEPT ![n] = @ \ {e}]
       /\ pulled' = [pulled EXCEPT ![n] = @ \/ cursor[n] = e]
       /\ UNCHANGED <<ever, stirred>>

(* Mutant: the entity is erased and not deleted. *)
DeleteForgotten(n, e) ==
  /\ known' = [known EXCEPT ![n] = @ \ {e}]
  /\ UNCHANGED <<objects, supports>>
  /\ Removed(n, e)

\* DestroySubscriber, DestroyPublisher, DestroyService, DestroyClient of an
\* entity that was found; its type support goes with it.
Erase(n, e) ==
  /\ known' = [known EXCEPT ![n] = @ \ {e}]
  /\ objects' = objects \ {e}
  /\ supports' = supports \ {e}
  /\ Removed(n, e)

\* With a node that did not create the entity, nothing is deleted, but the
\* struct is freed and the call returns RMW_RET_OK.
Destroy(n, e) ==
  /\ fault = "none"
  /\ phase[n] = "alive"
  /\ handle[e] = "live"
  /\ e \notin events
  /\ handle' = [handle EXCEPT ![e] = "freed"]
  /\ IF e \in known[n]
     THEN Erase(n, e) /\ UNCHANGED strayed
     ELSE /\ strayed' = strayed \cup {e}
          /\ UNCHANGED <<known, objects, supports, rest, history>>
  /\ UNCHANGED <<phase, guards, home, kind, events, fault, pc, asked, cursor, answer>>

-----------------------------------------------------------------------------
(* rmw_publisher_event_init, rmw_subscription_event_init, rmw_event_fini   *)

\* The event's data is a pointer to a member of the entity.
InitEvent(e) ==
  /\ fault = "none"
  /\ handle[e] = "live"
  /\ kind[e] \in TopicKinds
  /\ events' = events \cup {e}
  /\ UNCHANGED <<phase, guards, entityVars, fault, queryVars, history>>

\* delete of that pointer, which new never returned.
FiniEvent(e) ==
  /\ fault = "none"
  /\ e \in events
  /\ events' = events \ {e}
  /\ fault' = "event"
  /\ UNCHANGED <<phase, guards, entityVars, queryVars, history>>

-----------------------------------------------------------------------------
(* OnGetSubscribers, OnGetPublishers, OnGetServices, OnGetClients          *)

\* The iterator of node n is put on element e, or at the end.
At(n, ahead) ==
  IF ahead = {}
  THEN /\ pc' = [pc EXCEPT ![n] = "end"]
       /\ cursor' = [cursor EXCEPT ![n] = None]
       /\ rest' = [rest EXCEPT ![n] = {}]
  ELSE \E e \in ahead :
         /\ pc' = [pc EXCEPT ![n] = "read"]
         /\ cursor' = [cursor EXCEPT ![n] = e]
         /\ rest' = [rest EXCEPT ![n] = ahead \ {e}]

\* begin()
BeginQuery(n, k) ==
  /\ fault = "none"
  /\ phase[n] = "alive"
  /\ pc[n] = "idle"
  /\ asked' = [asked EXCEPT ![n] = k]
  /\ answer' = [answer EXCEPT ![n] = {}]
  /\ At(n, Set(n, k))
  /\ lasting' = [lasting EXCEPT ![n] = Set(n, k)]
  /\ ever' = [ever EXCEPT ![n] = Set(n, k)]
  /\ stirred' = [stirred EXCEPT ![n] = FALSE]
  /\ pulled' = [pulled EXCEPT ![n] = FALSE]
  /\ UNCHANGED <<phase, guards, entityVars, events, fault>>

\* begin() of a set that was destroyed.
BeginQueryTooLate(n) ==
  /\ fault = "none"
  /\ phase[n] = "dying"
  /\ pc[n] = "idle"
  /\ fault' = "query"
  /\ pulled' = [pulled EXCEPT ![n] = TRUE]
  /\ UNCHANGED <<phase, guards, entityVars, events, queryVars, lasting, ever, stirred>>

\* The body of the loop: the name and the type are read from the entity.
ReadEntity(n) ==
  /\ fault = "none"
  /\ pc[n] = "read"
  /\ IF cursor[n] \in objects
     THEN /\ pc' = [pc EXCEPT ![n] = "next"]
          /\ answer' = [answer EXCEPT ![n] = @ \cup {cursor[n]}]
          /\ UNCHANGED fault
     ELSE /\ fault' = "query"
          /\ UNCHANGED <<pc, answer>>
  /\ UNCHANGED <<phase, guards, entityVars, events, asked, cursor, rest, history>>

(* Mutant: the loop ends one element early. *)
AdvanceShort(n) ==
  /\ fault = "none"
  /\ pc[n] = "next"
  /\ \E e \in Entities :
       At(n, IF rest[n] = {e} THEN {} ELSE rest[n])
  /\ UNCHANGED <<phase, guards, entityVars, events, fault, asked, answer, history>>

(* Mutant: the iterator does not move. *)
AdvanceNowhere(n) ==
  /\ fault = "none"
  /\ pc[n] = "next"
  /\ At(n, {cursor[n]})
  /\ UNCHANGED <<phase, guards, entityVars, events, fault, asked, answer, history>>

\* ++ of an iterator reads the element it points to.
Advance(n) ==
  /\ fault = "none"
  /\ pc[n] = "next"
  /\ IF cursor[n] \in known[n]
     THEN At(n, rest[n]) /\ UNCHANGED fault
     ELSE /\ fault' = "query"
          /\ UNCHANGED <<pc, cursor, rest>>
  /\ UNCHANGED <<phase, guards, entityVars, events, asked, answer, history>>

\* The response is serialized and sent, and the callback's variables go.
EndQuery(n) ==
  /\ fault = "none"
  /\ pc[n] = "end"
  /\ pc' = [pc EXCEPT ![n] = "idle"]
  /\ asked' = [asked EXCEPT ![n] = None]
  /\ answer' = [answer EXCEPT ![n] = {}]
  /\ lasting' = [lasting EXCEPT ![n] = {}]
  /\ ever' = [ever EXCEPT ![n] = {}]
  /\ stirred' = [stirred EXCEPT ![n] = FALSE]
  /\ pulled' = [pulled EXCEPT ![n] = FALSE]
  /\ UNCHANGED <<phase, guards, entityVars, events, fault, cursor, rest>>

-----------------------------------------------------------------------------

User ==
  \/ \E n \in Nodes : CreateNode(n) \/ DestroyNode(n) \/ DestroyQueryService(n)
  \/ \E n \in Nodes, e \in Entities, k \in Kinds :
       Create(n, e, k) \/ CreateThrows(n, e, k)
  \/ \E n \in Nodes, e \in Entities : Destroy(n, e)
  \/ \E e \in Entities : InitEvent(e) \/ FiniEvent(e)

Callback(n) == ReadEntity(n) \/ Advance(n) \/ EndQuery(n)

Query(n) == (\E k \in Kinds : BeginQuery(n, k)) \/ BeginQueryTooLate(n)

Next == User \/ \E n \in Queried : Query(n) \/ Callback(n)

\* A callback that runs goes on running.
Spec == Init /\ [][Next]_vars /\ \A n \in Queried : WF_vars(Callback(n))

-----------------------------------------------------------------------------
(* Properties                                                              *)

(* All variables have their types. *)
TypeOK ==
  /\ phase \in [Nodes -> {"none", "alive", "dying", "gone"}]
  /\ guards \in SUBSET Nodes
  /\ home \in [Entities -> Nodes \cup {None}]
  /\ kind \in [Entities -> Kinds \cup {None}]
  /\ known \in [Nodes -> SUBSET Entities]
  /\ objects \in SUBSET Entities
  /\ supports \in SUBSET Entities
  /\ handle \in [Entities -> {"none", "live", "freed"}]
  /\ events \in SUBSET Entities
  /\ fault \in {"none", "query", "event"}
  /\ pc \in [Nodes -> {"idle", "read", "next", "end"}]
  /\ asked \in [Nodes -> Kinds \cup {None}]
  /\ cursor \in [Nodes -> Entities \cup {None}]
  /\ rest \in [Nodes -> SUBSET Entities]
  /\ answer \in [Nodes -> SUBSET Entities]
  /\ lasting \in [Nodes -> SUBSET Entities]
  /\ ever \in [Nodes -> SUBSET Entities]
  /\ stirred \in [Nodes -> BOOLEAN]
  /\ pulled \in [Nodes -> BOOLEAN]
  /\ strayed \in SUBSET Entities

(* The callbacks use what the sets hold without asking, and deleting is     *)
(* decided by membership: an entity in a set is allocated, with its type    *)
(* support, and is in the set of the node that made it and in no other.  So *)
(* nothing is deleted twice.                                                *)
KnownAreOwned ==
  \A n \in Nodes, e \in Entities :
    e \in known[n] => e \in objects /\ e \in supports /\ home[e] = n

(* Every function of an entity follows the pointer in its struct unchecked: *)
(* as long as the struct is not freed, the entity is there, even when its   *)
(* node is not.                                                             *)
HandlesAreBacked == \A e \in Entities : handle[e] = "live" => e \in objects

(* Memory that no struct leads to any more is lost in one of two ways:      *)
(* creating the entity threw, or it was destroyed with a node that did not  *)
(* create it.  A struct leads to something that can be deleted as long as   *)
(* the node of its entity lives, and to nothing that can be after that.     *)
NothingElseLeaks ==
  /\ \A e \in supports : \/ handle[e] = "live"
                         \/ handle[e] = "none" /\ e \notin objects
                         \/ handle[e] = "freed" /\ e \in strayed
  /\ \A e \in objects : e \in supports /\ (e \in known[home[e]] <=> phase[home[e]] = "alive")

(* A query reports every entity that was there all the time, and none that  *)
(* was not there at some time, whatever is created and destroyed meanwhile; *)
(* only a set that has grown may be walked with gaps.                       *)
AnswerIsHonest ==
  \A n \in Nodes :
    pc[n] = "end" => /\ answer[n] \subseteq ever[n]
                     /\ ~stirred[n] => lasting[n] \subseteq answer[n]

(* A callback meets freed memory only if the very element its iterator was  *)
(* on was destroyed, or its node was: entities of the other kinds, other    *)
(* nodes and other elements of the set do no harm.                          *)
FaultNeedsPull == fault = "query" => \E n \in Nodes : pulled[n]

(* A query that has begun is answered, so that the process that asks with  *)
(* an infinite timeout goes on, unless this process dies.                  *)
QueryIsAnswered ==
  \A n \in Nodes : pc[n] # "idle" ~> (pc[n] = "idle" \/ fault # "none")
=============================================================================
