------------------------------- MODULE Context -------------------------------
(***************************************************************************)
(* init.cpp and init_options.cpp, with the creation and destruction of     *)
(* nodes: how the contexts of a process share eCAL.                        *)
(*                                                                         *)
(* A struct belongs to the implementation whose identifier is in it, and   *)
(* every function compares that with its own.  eCAL counts the calls of    *)
(* Initialize and stops when Finalize has been called as often.  rmw_init  *)
(* sleeps between Initialize and the assignments to the context, while     *)
(* other threads use other contexts.                                       *)
(*                                                                         *)
(* Its names are not those of Node, so that one module can extend both.    *)
(***************************************************************************)
EXTENDS Naturals, FiniteSets

CONSTANTS
  Implementations,  \* identifiers: the dynamic and the protobuf one
  Options,          \* rmw_init_options_t structs
  Contexts,         \* rmw_context_t structs
  NodeStructs,      \* rmw_node_t structs, each created once
  MaxEras,          \* bound: how often eCAL is started
  MaxReferences,    \* bound: eCAL's count of references
  Zero              \* the identifier of a zero-initialized struct

ASSUME ContextAssumption ==
  /\ IsFiniteSet(Contexts)
  /\ MaxEras \in Nat
  /\ MaxReferences \in Nat
  /\ Zero \notin Implementations \cup Contexts

VARIABLES
  options,    \* the identifier in each rmw_init_options_t
  identifier, \* the identifier in each context
  starting,   \* the implementation whose rmw_init sleeps over a context
  references, \* calls of Initialize that eCAL has not seen a Finalize for
  era,        \* how often eCAL has been started
  up,         \* contexts that were initialized, and not shut down since
  context,    \* the context a node was created with
  owner,      \* the identifier in a node
  born,       \* the era in which a node was created, 0 without eCAL
  kept,       \* nodes whose context has been up ever since their creation
  repeated,   \* a context was shut down that was not up
  skipped     \* a context was initialized or finalized that was up

ecalVars == <<references, era>>
nodeVars == <<context, owner, born>>
contextVars == <<options, identifier, starting, references, era, up, context, owner,
                 born, kept, repeated, skipped>>

ContextInit ==
  /\ options = [o \in Options |-> Zero]
  /\ identifier = [c \in Contexts |-> Zero]
  /\ starting = [c \in Contexts |-> Zero]
  /\ references = 0
  /\ era = 0
  /\ up = {}
  /\ context = [n \in NodeStructs |-> Zero]
  /\ owner = [n \in NodeStructs |-> Zero]
  /\ born = [n \in NodeStructs |-> 0]
  /\ kept = {}
  /\ repeated = FALSE
  /\ skipped = FALSE

-----------------------------------------------------------------------------
(* init_options.cpp                                                        *)

\* What the struct held before is overwritten.
InitOptions(i, o) ==
  /\ options' = [options EXCEPT ![o] = i]
  /\ UNCHANGED <<identifier, starting, ecalVars, up, nodeVars, kept, repeated, skipped>>

\* Only the source is checked.
CopyOptions(i, o, p) ==
  /\ options[o] = i
  /\ options' = [options EXCEPT ![p] = options[o]]
  /\ UNCHANGED <<identifier, starting, ecalVars, up, nodeVars, kept, repeated, skipped>>

FiniOptions(i, o) ==
  /\ options[o] = i
  /\ options' = [options EXCEPT ![o] = Zero]
  /\ UNCHANGED <<identifier, starting, ecalVars, up, nodeVars, kept, repeated, skipped>>

-----------------------------------------------------------------------------
(* init.cpp                                                                *)

\* eCAL::Initialize and eCAL::Finalize.
Initialize ==
  /\ references' = references + 1
  /\ era' = IF references = 0 THEN era + 1 ELSE era

Finalize ==
  /\ references' = IF references = 0 THEN 0 ELSE references - 1
  /\ UNCHANGED era

(* Mutants: rmw_init leaves eCAL alone if it runs already; rmw_init returns *)
(* an error after it has called Initialize.                                *)
BeginInitOnce(i, c) ==
  /\ starting[c] = Zero
  /\ references < MaxReferences
  /\ references > 0 \/ era < MaxEras
  /\ IF references = 0 THEN Initialize ELSE UNCHANGED ecalVars
  /\ starting' = [starting EXCEPT ![c] = i]
  /\ skipped' = (skipped \/ c \in up)
  /\ up' = up \cup {c}
  /\ UNCHANGED <<options, identifier, nodeVars, kept, repeated>>
BeginInitAndFail(i, c) ==
  /\ starting[c] = Zero
  /\ references < MaxReferences
  /\ references > 0 \/ era < MaxEras
  /\ Initialize
  /\ UNCHANGED <<options, identifier, starting, up, nodeVars, kept, repeated, skipped>>

\* rmw_init up to its sleep.  It looks neither at the identifier of the
\* options nor at that of the context, so a context may be initialized again.
\* (If Initialize fails it returns and nothing has changed.)
BeginInit(i, c) ==
  /\ starting[c] = Zero
  /\ references < MaxReferences
  /\ references > 0 \/ era < MaxEras
  /\ Initialize
  /\ starting' = [starting EXCEPT ![c] = i]
  /\ skipped' = (skipped \/ c \in up)
  /\ up' = up \cup {c}
  /\ UNCHANGED <<options, identifier, nodeVars, kept, repeated>>

EndInit(c) ==
  /\ starting[c] # Zero
  /\ identifier' = [identifier EXCEPT ![c] = starting[c]]
  /\ starting' = [starting EXCEPT ![c] = Zero]
  /\ UNCHANGED <<options, ecalVars, up, nodeVars, kept, repeated, skipped>>

NodesOf(c) == {n \in NodeStructs : context[n] = c}

\* The context is not marked: it can be shut down again, and Finalize then
\* takes a reference that belongs to another context.
Shutdown(i, c) ==
  /\ starting[c] = Zero
  /\ identifier[c] = i
  /\ Finalize
  /\ up' = up \ {c}
  /\ kept' = kept \ NodesOf(c)
  /\ repeated' = (repeated \/ c \notin up)
  /\ UNCHANGED <<options, identifier, starting, nodeVars, skipped>>

\* The context is zeroed.  eCAL is not told.
ContextFini(i, c) ==
  /\ starting[c] = Zero
  /\ identifier[c] = i
  /\ identifier' = [identifier EXCEPT ![c] = Zero]
  /\ skipped' = (skipped \/ c \in up)
  /\ up' = up \ {c}
  /\ kept' = kept \ NodesOf(c)
  /\ UNCHANGED <<options, starting, ecalVars, nodeVars, repeated>>

-----------------------------------------------------------------------------
(* rmw_create_node and rmw_destroy_node                                    *)

\* The context has the identifier from the end of rmw_init to
\* rmw_context_fini, so also after it was shut down.
CreateNodeIn(i, c, n) ==
  /\ context[n] = Zero
  /\ identifier[c] = i
  /\ context' = [context EXCEPT ![n] = c]
  /\ owner' = [owner EXCEPT ![n] = i]
  /\ born' = [born EXCEPT ![n] = IF references > 0 THEN era ELSE 0]
  /\ kept' = IF c \in up THEN kept \cup {n} ELSE kept
  /\ UNCHANGED <<options, identifier, starting, ecalVars, up, repeated, skipped>>

\* The node's own identifier is compared; its context may be gone.
DestroyNodeOf(i, n) ==
  /\ owner[n] = i
  /\ owner' = [owner EXCEPT ![n] = Zero]
  /\ kept' = kept \ {n}
  /\ UNCHANGED <<options, identifier, starting, ecalVars, up, context, born,
                 repeated, skipped>>

\* What one implementation offers, and the two there are.
Calls(i) ==
  \/ \E o \in Options : InitOptions(i, o) \/ FiniOptions(i, o)
  \/ \E o, p \in Options : CopyOptions(i, o, p)
  \/ \E c \in Contexts : BeginInit(i, c) \/ Shutdown(i, c) \/ ContextFini(i, c)
  \/ \E c \in Contexts, n \in NodeStructs : CreateNodeIn(i, c, n)
  \/ \E n \in NodeStructs : DestroyNodeOf(i, n)

ContextNext ==
  \/ \E i \in Implementations : Calls(i)
  \/ \E c \in Contexts : EndInit(c)

ContextSpec == ContextInit /\ [][ContextNext]_contextVars

-----------------------------------------------------------------------------
(* Properties                                                              *)

\* Identifiers are those of the implementations, and counts are in bounds.
ContextTypeOK ==
  /\ options \in [Options -> Implementations \cup {Zero}]
  /\ identifier \in [Contexts -> Implementations \cup {Zero}]
  /\ starting \in [Contexts -> Implementations \cup {Zero}]
  /\ references \in 0 .. MaxReferences
  /\ era \in 0 .. MaxEras
  /\ up \in SUBSET Contexts
  /\ context \in [NodeStructs -> Contexts \cup {Zero}]
  /\ owner \in [NodeStructs -> Implementations \cup {Zero}]
  /\ born \in [NodeStructs -> 0 .. MaxEras]
  /\ kept \in SUBSET NodeStructs
  /\ repeated \in BOOLEAN
  /\ skipped \in BOOLEAN

\* rmw_shutdown of one context never stops eCAL under the nodes of another,
\* nor restarts it, also while a third is inside rmw_init, as long as no
\* context is shut down twice (which nothing checks: it takes the reference
\* of another context).
NodesKeepECal ==
  ~repeated => \A n \in kept : references > 0 /\ born[n] = era

\* Once every context has been shut down eCAL has stopped, unless one was
\* initialized twice or finalized first, which rmw_init and rmw_context_fini
\* accept and after which eCAL runs on for good.
StopsWithTheLast == ~skipped /\ up = {} => references = 0
==============================================================================
