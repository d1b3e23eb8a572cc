------------------------------ MODULE NodeProofs ------------------------------
(***************************************************************************)
(* Proofs about Node, for any nodes, entities and kinds, and about Context, *)
(* for the contexts the nodes of a process are created with: it keeps eCAL *)
(* up under the nodes of a context that is up, and lets it stop after the  *)
(* last, for any number of contexts, implementations and nodes.            *)
(***************************************************************************)
EXTENDS Node, Context, FiniteSetTheorems, TLAPS

(* What is allocated, and who knows of it. *)
MemoryInv ==
  /\ KnownAreOwned
  /\ HandlesAreBacked
  /\ NothingElseLeaks
  /\ \A e \in Entities : home[e] = None => e \notin supports /\ handle[e] = "none"
  /\ \A e \in Entities : handle[e] = "none" => e \notin objects
  /\ \A e \in Entities, n \in Nodes : home[e] = n => phase[n] # "none"
  /\ \A n \in Nodes : phase[n] # "alive" => known[n] = {}

(* The iterator, as long as nothing has pulled its element away: what it is *)
(* on and what is ahead of it are in the set.                               *)
IteratorInv ==
  \A n \in Nodes :
    Walking(n) => /\ phase[n] # "none"
                  /\ ~pulled[n] => cursor[n] \in Set(n, asked[n])
                  /\ phase[n] = "alive" => rest[n] \subseteq Set(n, asked[n])
                  /\ Set(n, asked[n]) \subseteq ever[n]

(* What the answer will hold in the end. *)
AnswerInv ==
  \A n \in Nodes :
    /\ pc[n] # "idle" => answer[n] \subseteq ever[n]
    /\ Walking(n) => cursor[n] \in ever[n] /\ rest[n] \subseteq ever[n]
    /\ pc[n] = "read" /\ ~stirred[n] =>
         lasting[n] \subseteq answer[n] \cup rest[n] \cup {cursor[n]}
    /\ pc[n] = "next" /\ ~stirred[n] => lasting[n] \subseteq answer[n] \cup rest[n]
    /\ pc[n] = "end" /\ ~stirred[n] => lasting[n] \subseteq answer[n]

IInv == TypeOK /\ MemoryInv /\ IteratorInv /\ AnswerInv /\ FaultNeedsPull

-----------------------------------------------------------------------------

LEMMA InitIInv == Init => IInv
<1> SUFFICES ASSUME Init PROVE IInv
  OBVIOUS
<1> USE NodeAssumption
<1>1. TypeOK
  BY DEF Init, TypeOK
<1>2. MemoryInv
  BY DEF Init, MemoryInv, KnownAreOwned, HandlesAreBacked, NothingElseLeaks
<1>3. IteratorInv /\ AnswerInv /\ FaultNeedsPull
  BY DEF Init, IteratorInv, AnswerInv, FaultNeedsPull, Walking
<1> QED BY <1>1, <1>2, <1>3 DEF IInv

-----------------------------------------------------------------------------
(* Types.                                                                  *)

HistoryOK ==
  /\ lasting \in [Nodes -> SUBSET Entities]
  /\ ever \in [Nodes -> SUBSET Entities]
  /\ stirred \in [Nodes -> BOOLEAN]
  /\ pulled \in [Nodes -> BOOLEAN]

LEMMA InsertedTypes ==
  ASSUME TypeOK, NEW n \in Nodes, NEW e \in Entities, NEW k \in Kinds, Inserted(n, e, k)
  PROVE  rest' \in [Nodes -> SUBSET Entities] /\ HistoryOK'
<1> USE DEF TypeOK, HistoryOK
<1>1. CASE ~Walking(n) \/ asked[n] # k
  BY <1>1 DEF Inserted, history
<1>2. CASE Walking(n) /\ asked[n] = k
  <2>1. /\ ever' = [ever EXCEPT ![n] = @ \cup {e}]
        /\ lasting' = lasting /\ pulled' = pulled
    BY <1>2 DEF Inserted
  <2>2. ASSUME NEW ahead \in {{}, {e}}, rest' = [rest EXCEPT ![n] = @ \cup ahead],
               stirred' = stirred
        PROVE  rest' \in [Nodes -> SUBSET Entities] /\ HistoryOK'
    BY <2>1, <2>2
  <2>3. ASSUME NEW ahead \in SUBSET ((Set(n, k) \cup {e}) \ {cursor[n]}),
               rest' = [rest EXCEPT ![n] = ahead],
               stirred' = [stirred EXCEPT ![n] = TRUE]
        PROVE  rest' \in [Nodes -> SUBSET Entities] /\ HistoryOK'
    <3>1. ahead \in SUBSET Entities
      BY DEF Set
    <3> QED BY <2>1, <2>3, <3>1
  <2> QED BY <1>2, <2>2, <2>3 DEF Inserted
<1> QED BY <1>1, <1>2

LEMMA RemovedTypes ==
  ASSUME TypeOK, NEW n \in Nodes, NEW e \in Entities, Removed(n, e)
  PROVE  rest' \in [Nodes -> SUBSET Entities] /\ HistoryOK'
<1> USE DEF TypeOK, HistoryOK
<1>1. CASE ~Walking(n) \/ asked[n] # kind[e]
  BY <1>1 DEF Removed, history
<1>2. CASE ~(~Walking(n) \/ asked[n] # kind[e])
  <2>1. /\ rest' = [rest EXCEPT ![n] = @ \ {e}]
        /\ lasting' = [lasting EXCEPT ![n] = @ \ {e}]
        /\ ever' = ever /\ stirred' = stirred
        /\ pulled' = [pulled EXCEPT ![n] = @ \/ cursor[n] = e]
    BY <1>2 DEF Removed
  <2>2. (pulled[n] \/ cursor[n] = e) \in BOOLEAN
    OBVIOUS
  <2>3. pulled' \in [Nodes -> BOOLEAN]
    BY <2>1, <2>2, Zenon
  <2> QED BY <2>1, <2>3
<1> QED BY <1>1, <1>2

LEMMA TypeStep == TypeOK /\ [Next]_vars => TypeOK'
<1> SUFFICES ASSUME TypeOK, [Next]_vars PROVE TypeOK'
  OBVIOUS
<1> USE NodeAssumption DEF TypeOK
<1>1. ASSUME NEW n \in Nodes, CreateNode(n) PROVE TypeOK'
  BY <1>1 DEF CreateNode, entityVars, queryVars, history
<1>2. ASSUME NEW n \in Nodes, DestroyNode(n) PROVE TypeOK'
  BY <1>2 DEF DestroyNode, queryVars, Walking
<1>3. ASSUME NEW n \in Nodes, DestroyQueryService(n) PROVE TypeOK'
  BY <1>3 DEF DestroyQueryService, entityVars, queryVars, history
<1>4. ASSUME NEW n \in Nodes, NEW e \in Entities, NEW k \in Kinds, Create(n, e, k)
      PROVE TypeOK'
  <2>1. /\ supports' = supports \cup {e}
        /\ objects' = objects \cup {e}
        /\ home' = [home EXCEPT ![e] = n]
        /\ kind' = [kind EXCEPT ![e] = k]
        /\ known' = [known EXCEPT ![n] = @ \cup {e}]
        /\ handle' = [handle EXCEPT ![e] = "live"]
        /\ UNCHANGED <<phase, guards, strayed, events, fault, pc, asked, cursor, answer>>
    BY <1>4 DEF Create, Created
  <2>2. rest' \in [Nodes -> SUBSET Entities] /\ HistoryOK'
    BY <1>4, InsertedTypes DEF Create
  <2>3. /\ supports' \in SUBSET Entities /\ objects' \in SUBSET Entities
        /\ home' \in [Entities -> Nodes \cup {None}]
        /\ kind' \in [Entities -> Kinds \cup {None}]
    BY <2>1
  <2>4. /\ known' \in [Nodes -> SUBSET Entities]
        /\ handle' \in [Entities -> {"none", "live", "freed"}]
    BY <2>1
  <2> QED BY <2>1, <2>2, <2>3, <2>4 DEF HistoryOK
<1>5. ASSUME NEW n \in Nodes, NEW e \in Entities, NEW k \in Kinds, CreateThrows(n, e, k)
      PROVE TypeOK'
  BY <1>5 DEF CreateThrows, queryVars, history
<1>6. ASSUME NEW n \in Nodes, NEW e \in Entities, Destroy(n, e) PROVE TypeOK'
  <2>1. CASE e \in known[n]
    <3>1. /\ handle' = [handle EXCEPT ![e] = "freed"]
          /\ known' = [known EXCEPT ![n] = @ \ {e}]
          /\ objects' = objects \ {e}
          /\ supports' = supports \ {e}
          /\ UNCHANGED <<strayed, phase, guards, home, kind, events, fault, pc, asked,
                         cursor, answer>>
      BY <1>6, <2>1 DEF Destroy, Erase
    <3>2. rest' \in [Nodes -> SUBSET Entities] /\ HistoryOK'
      BY <1>6, <2>1, RemovedTypes DEF Destroy, Erase
    <3> QED BY <3>1, <3>2 DEF HistoryOK
  <2>2. CASE e \notin known[n]
    BY <1>6, <2>2 DEF Destroy, history
  <2> QED BY <2>1, <2>2
<1>7. ASSUME NEW e \in Entities, InitEvent(e) \/ FiniEvent(e) PROVE TypeOK'
  BY <1>7 DEF InitEvent, FiniEvent, entityVars, queryVars, history
<1>8. ASSUME NEW n \in Nodes, NEW ahead \in SUBSET Entities, At(n, ahead)
      PROVE  /\ pc' \in [Nodes -> {"idle", "read", "next", "end"}]
             /\ cursor' \in [Nodes -> Entities \cup {None}]
             /\ rest' \in [Nodes -> SUBSET Entities]
  BY <1>8 DEF At
<1>9. ASSUME NEW n \in Nodes, NEW k \in Kinds, BeginQuery(n, k) PROVE TypeOK'
  <2>1. Set(n, k) \in SUBSET Entities
    BY DEF Set
  <2>2. At(n, Set(n, k))
    BY <1>9 DEF BeginQuery
  <2> QED BY <1>9, <2>1, <2>2, <1>8 DEF BeginQuery, entityVars
<1>10. ASSUME NEW n \in Nodes, BeginQueryTooLate(n) PROVE TypeOK'
  BY <1>10 DEF BeginQueryTooLate, entityVars, queryVars
<1>11. ASSUME NEW n \in Nodes, ReadEntity(n) PROVE TypeOK'
  BY <1>11 DEF ReadEntity, entityVars, history
<1>12. ASSUME NEW n \in Nodes, Advance(n) PROVE TypeOK'
  <2>1. CASE cursor[n] \in known[n]
    <3>1. At(n, rest[n])
      BY <1>12, <2>1 DEF Advance
    <3> QED BY <1>12, <2>1, <3>1, <1>8 DEF Advance, entityVars, history
  <2>2. CASE cursor[n] \notin known[n]
    BY <1>12, <2>2 DEF Advance, entityVars, history
  <2> QED BY <2>1, <2>2
<1>13. ASSUME NEW n \in Nodes, EndQuery(n) PROVE TypeOK'
  BY <1>13 DEF EndQuery, entityVars
<1>14. CASE UNCHANGED vars
  BY <1>14 DEF vars, entityVars, queryVars, history
<1> QED BY <1>1, <1>2, <1>3, <1>4, <1>5, <1>6, <1>7, <1>9, <1>10, <1>11, <1>12, <1>13,
           <1>14 DEF Next, User, Query, Callback

(* All variables have their types. *)
THEOREM TypeCorrect == Spec => []TypeOK
<1>1. Init => TypeOK
  BY InitIInv DEF IInv
<1> QED BY <1>1, TypeStep, PTL DEF Spec

-----------------------------------------------------------------------------
(* Memory: only the user's thread changes it.                              *)

memory == <<phase, home, known, objects, supports, handle, strayed>>

LEMMA MemorySame == MemoryInv /\ UNCHANGED memory => MemoryInv'
BY DEF MemoryInv, KnownAreOwned, HandlesAreBacked, NothingElseLeaks, memory

LEMMA MemoryStep == TypeOK /\ MemoryInv /\ [Next]_vars => MemoryInv'
<1> SUFFICES ASSUME TypeOK, MemoryInv, [Next]_vars PROVE MemoryInv'
  OBVIOUS
<1> USE NodeAssumption
<1>1. ASSUME NEW n \in Nodes, CreateNode(n) PROVE MemoryInv'
  BY <1>1 DEF CreateNode, entityVars, MemoryInv, KnownAreOwned, HandlesAreBacked,
              NothingElseLeaks, TypeOK
<1>2. ASSUME NEW n \in Nodes, DestroyNode(n) PROVE MemoryInv'
  BY <1>2 DEF DestroyNode, MemoryInv, KnownAreOwned, HandlesAreBacked,
              NothingElseLeaks, TypeOK
<1>3. ASSUME NEW n \in Nodes, DestroyQueryService(n) PROVE MemoryInv'
  BY <1>3 DEF DestroyQueryService, entityVars, MemoryInv, KnownAreOwned,
              HandlesAreBacked, NothingElseLeaks, TypeOK
<1>4. ASSUME NEW n \in Nodes, NEW e \in Entities, NEW k \in Kinds, Create(n, e, k)
      PROVE MemoryInv'
  <2>1. /\ phase[n] = "alive" /\ home[e] = None
        /\ supports' = supports \cup {e}
        /\ objects' = objects \cup {e}
        /\ home' = [home EXCEPT ![e] = n]
        /\ known' = [known EXCEPT ![n] = @ \cup {e}]
        /\ handle' = [handle EXCEPT ![e] = "live"]
        /\ phase' = phase /\ strayed' = strayed
    BY <1>4 DEF Create, Created
  <2> QED BY <2>1 DEF MemoryInv, KnownAreOwned, HandlesAreBacked, NothingElseLeaks, TypeOK
<1>5. ASSUME NEW n \in Nodes, NEW e \in Entities, NEW k \in Kinds, CreateThrows(n, e, k)
      PROVE MemoryInv'
  BY <1>5 DEF CreateThrows, MemoryInv, KnownAreOwned, HandlesAreBacked, NothingElseLeaks,
              TypeOK
<1>6. ASSUME NEW n \in Nodes, NEW e \in Entities, Destroy(n, e) PROVE MemoryInv'
  <2>1. CASE e \in known[n]
    <3>1. /\ handle' = [handle EXCEPT ![e] = "freed"]
          /\ known' = [known EXCEPT ![n] = @ \ {e}]
          /\ objects' = objects \ {e}
          /\ supports' = supports \ {e}
          /\ UNCHANGED <<strayed, phase, home>>
      BY <1>6, <2>1 DEF Destroy, Erase
    <3> QED BY <2>1, <3>1 DEF MemoryInv, KnownAreOwned, HandlesAreBacked,
                              NothingElseLeaks, TypeOK
  <2>2. CASE e \notin known[n]
    BY <1>6, <2>2 DEF Destroy, MemoryInv, KnownAreOwned, HandlesAreBacked,
                      NothingElseLeaks, TypeOK
  <2> QED BY <2>1, <2>2
<1>7. ASSUME NEW e \in Entities, InitEvent(e) \/ FiniEvent(e) PROVE MemoryInv'
  BY <1>7, MemorySame DEF InitEvent, FiniEvent, entityVars, memory
<1>8. ASSUME NEW n \in Nodes, Query(n) \/ Callback(n) PROVE MemoryInv'
  BY <1>8, MemorySame DEF Query, Callback, BeginQuery, BeginQueryTooLate, ReadEntity,
                          Advance, EndQuery, entityVars, memory
<1>9. CASE UNCHANGED vars
  BY <1>9, MemorySame DEF vars, entityVars, memory
<1> QED BY <1>1, <1>2, <1>3, <1>4, <1>5, <1>6, <1>7, <1>8, <1>9 DEF Next, User

-----------------------------------------------------------------------------
(* The walk of a callback.                                                 *)

WalkInv == IteratorInv /\ AnswerInv /\ FaultNeedsPull

walk == <<phase, kind, known, fault, queryVars, history>>

LEMMA WalkSame == WalkInv /\ UNCHANGED walk => WalkInv'
BY DEF WalkInv, IteratorInv, AnswerInv, FaultNeedsPull, Walking, Set, walk, queryVars,
       history

LEMMA CreateWalk ==
  ASSUME TypeOK, MemoryInv, WalkInv, NEW n \in Nodes, NEW e \in Entities, NEW k \in Kinds,
         Create(n, e, k)
  PROVE  WalkInv'
<1>1. /\ phase[n] = "alive" /\ home[e] = None /\ fault = "none"
      /\ known' = [known EXCEPT ![n] = @ \cup {e}]
      /\ kind' = [kind EXCEPT ![e] = k]
      /\ UNCHANGED <<phase, fault, pc, asked, cursor, answer>>
      /\ Inserted(n, e, k)
  BY DEF Create, Created
<1>2. \A m \in Nodes : e \notin known[m]
  BY <1>1, NodeAssumption DEF MemoryInv, KnownAreOwned
<1>3. /\ \A m \in Nodes \ {n}, j \in Kinds \cup {None} : Set(m, j)' = Set(m, j)
      /\ \A j \in Kinds \cup {None} : j # k => Set(n, j)' = Set(n, j)
      /\ Set(n, k)' = Set(n, k) \cup {e}
  BY <1>1, <1>2 DEF Set, TypeOK
<1>4. \A m \in Nodes : Walking(m)' = Walking(m)
  BY <1>1 DEF Walking
<1>5. FaultNeedsPull'
  BY <1>1 DEF FaultNeedsPull
<1>6. CASE ~Walking(n) \/ asked[n] # k
  <2>1. UNCHANGED <<rest, history>>
    BY <1>1, <1>6 DEF Inserted
  <2>2. IteratorInv'
    BY <1>1, <1>3, <1>4, <1>6, <2>1 DEF IteratorInv, WalkInv, history, TypeOK
  <2>3. AnswerInv'
    BY <1>1, <1>4, <2>1 DEF AnswerInv, WalkInv, history
  <2> QED BY <1>5, <2>2, <2>3 DEF WalkInv
<1>7. CASE Walking(n) /\ asked[n] = k
  <2>1. /\ ever' = [ever EXCEPT ![n] = @ \cup {e}]
        /\ lasting' = lasting /\ pulled' = pulled
    BY <1>1, <1>7 DEF Inserted
  <2>2. \A m \in Nodes \ {n} : ever'[m] = ever[m]
    BY <2>1 DEF TypeOK
  <2>3. ever'[n] = ever[n] \cup {e}
    BY <2>1 DEF TypeOK
  <2>4. ASSUME NEW ahead \in SUBSET Entities,
               ahead \subseteq Set(n, k) \cup {e},
               rest' = [rest EXCEPT ![n] = ahead],
               ~stirred'[n] => stirred' = stirred /\ rest[n] \subseteq ahead,
               \A m \in Nodes \ {n} : stirred'[m] = stirred[m]
        PROVE  WalkInv'
    <3>1. rest'[n] = ahead /\ \A m \in Nodes \ {n} : rest'[m] = rest[m]
      BY <2>4 DEF TypeOK
    <3>2. ASSUME NEW m \in Nodes, Walking(m)'
          PROVE  /\ phase'[m] # "none"
                 /\ ~pulled'[m] => cursor'[m] \in Set(m, asked[m])'
                 /\ phase'[m] = "alive" => rest'[m] \subseteq Set(m, asked[m])'
                 /\ Set(m, asked[m])' \subseteq ever'[m]
      <4>1. CASE m = n
        <5>1. Set(n, asked[n])' = Set(n, k) \cup {e}
          BY <1>1, <1>3, <1>7
        <5>2. /\ phase[n] # "none"
              /\ ~pulled[n] => cursor[n] \in Set(n, k)
              /\ Set(n, k) \subseteq ever[n]
          BY <1>7 DEF WalkInv, IteratorInv
        <5> QED BY <1>1, <2>1, <2>3, <2>4, <3>1, <4>1, <5>1, <5>2
      <4>2. CASE m # n
        <5>1. Set(m, asked[m])' = Set(m, asked[m])
          BY <1>1, <1>3, <4>2 DEF TypeOK
        <5>2. /\ phase[m] # "none"
              /\ ~pulled[m] => cursor[m] \in Set(m, asked[m])
              /\ phase[m] = "alive" => rest[m] \subseteq Set(m, asked[m])
              /\ Set(m, asked[m]) \subseteq ever[m]
          BY <3>2, <1>4 DEF WalkInv, IteratorInv
        <5> QED BY <1>1, <2>1, <2>2, <3>1, <4>2, <5>1, <5>2
      <4> QED BY <4>1, <4>2
    <3>3. IteratorInv'
      BY <1>1, <3>2 DEF IteratorInv
    <3>4. Set(n, k) \subseteq ever[n]
      BY <1>7 DEF WalkInv, IteratorInv
    <3>5. AnswerInv'
      <4>1. ASSUME NEW m \in Nodes \ {n}
            PROVE  /\ rest'[m] = rest[m] /\ ever'[m] = ever[m] /\ stirred'[m] = stirred[m]
                   /\ lasting'[m] = lasting[m] /\ pc'[m] = pc[m] /\ answer'[m] = answer[m]
                   /\ cursor'[m] = cursor[m] /\ Walking(m)' = Walking(m)
        BY <1>1, <1>4, <2>1, <2>2, <2>4, <3>1
      <4>2. /\ rest'[n] = ahead /\ ever'[n] = ever[n] \cup {e} /\ lasting'[n] = lasting[n]
            /\ pc'[n] = pc[n] /\ answer'[n] = answer[n] /\ cursor'[n] = cursor[n]
            /\ Walking(n)' = Walking(n) /\ ahead \subseteq ever[n] \cup {e}
            /\ ~stirred'[n] => ~stirred[n] /\ rest[n] \subseteq ahead
        BY <1>1, <1>4, <2>1, <2>3, <2>4, <3>1, <3>4
      <4> QED BY <4>1, <4>2 DEF AnswerInv, WalkInv
    <3> QED BY <1>5, <3>3, <3>5 DEF WalkInv
  <2>5. ASSUME NEW ahead \in {{}, {e}}, rest' = [rest EXCEPT ![n] = @ \cup ahead],
               stirred' = stirred
        PROVE  WalkInv'
    <3>1. rest[n] \subseteq Set(n, k)
      BY <1>1, <1>7 DEF WalkInv, IteratorInv
    <3>2. rest[n] \cup ahead \in SUBSET Entities /\ rest[n] \cup ahead \subseteq Set(n, k) \cup {e}
      BY <3>1 DEF TypeOK
    <3> QED BY <2>4, <2>5, <3>2
  <2>6. ASSUME NEW ahead \in SUBSET ((Set(n, k) \cup {e}) \ {cursor[n]}),
               rest' = [rest EXCEPT ![n] = ahead],
               stirred' = [stirred EXCEPT ![n] = TRUE]
        PROVE  WalkInv'
    <3>1. ahead \in SUBSET Entities /\ ahead \subseteq Set(n, k) \cup {e}
      BY DEF Set, TypeOK
    <3>2. stirred'[n] /\ \A m \in Nodes \ {n} : stirred'[m] = stirred[m]
      BY <2>6 DEF TypeOK
    <3> QED BY <2>4, <2>6, <3>1, <3>2
  <2> QED BY <1>1, <1>7, <2>5, <2>6 DEF Inserted
<1> QED BY <1>6, <1>7

LEMMA DestroyWalk ==
  ASSUME TypeOK, MemoryInv, WalkInv, NEW n \in Nodes, NEW e \in Entities, Destroy(n, e)
  PROVE  WalkInv'
<1>1. /\ fault = "none"
      /\ UNCHANGED <<phase, kind, fault, pc, asked, cursor, answer>>
  BY DEF Destroy
<1>2. FaultNeedsPull'
  BY <1>1 DEF FaultNeedsPull
<1>3. \A m \in Nodes : Walking(m)' = Walking(m)
  BY <1>1 DEF Walking
<1>4. CASE e \notin known[n]
  BY <1>4, WalkSame DEF Destroy, walk, queryVars
<1>5. CASE e \in known[n]
  <2>1. known' = [known EXCEPT ![n] = @ \ {e}] /\ Removed(n, e)
    BY <1>5 DEF Destroy, Erase
  <2>2. /\ \A m \in Nodes \ {n}, j \in Kinds \cup {None} : Set(m, j)' = Set(m, j)
        /\ \A j \in Kinds \cup {None} : Set(n, j)' = Set(n, j) \ {e}
        /\ \A j \in Kinds \cup {None} : j # kind[e] => e \notin Set(n, j)
    BY <1>1, <2>1 DEF Set, TypeOK
  <2>3. CASE ~Walking(n) \/ asked[n] # kind[e]
    <3>1. UNCHANGED <<rest, history>>
      BY <2>1, <2>3 DEF Removed
    <3>2. IteratorInv'
      BY <1>1, <1>3, <2>2, <2>3, <3>1 DEF IteratorInv, WalkInv, history, TypeOK
    <3>3. AnswerInv'
      BY <1>1, <1>3, <3>1 DEF AnswerInv, WalkInv, history
    <3> QED BY <1>2, <3>2, <3>3 DEF WalkInv
  <2>4. CASE Walking(n) /\ asked[n] = kind[e]
    <3>1. /\ rest' = [rest EXCEPT ![n] = @ \ {e}]
          /\ lasting' = [lasting EXCEPT ![n] = @ \ {e}]
          /\ pulled' = [pulled EXCEPT ![n] = @ \/ cursor[n] = e]
          /\ ever' = ever /\ stirred' = stirred
      BY <2>1, <2>4 DEF Removed
    <3>2. /\ rest'[n] = rest[n] \ {e} /\ lasting'[n] = lasting[n] \ {e}
          /\ \A m \in Nodes \ {n} : /\ rest'[m] = rest[m] /\ lasting'[m] = lasting[m]
                                    /\ pulled'[m] = pulled[m]
      BY <3>1 DEF TypeOK
    <3>3. ~pulled'[n] => ~pulled[n] /\ cursor[n] # e
      BY <3>1 DEF TypeOK
    <3>4. IteratorInv'
      <4>1. ASSUME NEW m \in Nodes, Walking(m)'
            PROVE  /\ phase'[m] # "none"
                   /\ ~pulled'[m] => cursor'[m] \in Set(m, asked[m])'
                   /\ phase'[m] = "alive" => rest'[m] \subseteq Set(m, asked[m])'
                   /\ Set(m, asked[m])' \subseteq ever'[m]
        <5>1. /\ phase[m] # "none"
              /\ ~pulled[m] => cursor[m] \in Set(m, asked[m])
              /\ phase[m] = "alive" => rest[m] \subseteq Set(m, asked[m])
              /\ Set(m, asked[m]) \subseteq ever[m]
          BY <4>1, <1>3 DEF WalkInv, IteratorInv
        <5>2. CASE m = n
          <6>1. Set(n, asked[n])' = Set(n, asked[n]) \ {e}
            BY <1>1, <2>2 DEF TypeOK
          <6> QED BY <1>1, <3>1, <3>2, <3>3, <5>1, <5>2, <6>1
        <5>3. CASE m # n
          <6>1. Set(m, asked[m])' = Set(m, asked[m])
            BY <1>1, <2>2, <5>3 DEF TypeOK
          <6> QED BY <1>1, <3>1, <3>2, <5>1, <5>3, <6>1
        <5> QED BY <5>2, <5>3
      <4> QED BY <4>1 DEF IteratorInv
    <3>5. AnswerInv'
      <4>1. ASSUME NEW m \in Nodes
            PROVE  /\ rest'[m] \subseteq rest[m] /\ ever'[m] = ever[m]
                   /\ stirred'[m] = stirred[m]
                   /\ pc'[m] = pc[m] /\ answer'[m] = answer[m]
                   /\ cursor'[m] = cursor[m] /\ Walking(m)' = Walking(m)
                   /\ lasting[m] \subseteq answer[m] \cup rest[m] \cup {cursor[m]} =>
                        lasting'[m] \subseteq answer[m] \cup rest'[m] \cup {cursor[m]}
                   /\ lasting[m] \subseteq answer[m] \cup rest[m] =>
                        lasting'[m] \subseteq answer[m] \cup rest'[m]
                   /\ lasting[m] \subseteq answer[m] => lasting'[m] \subseteq answer[m]
        BY <1>1, <1>3, <3>1, <3>2
      <4> QED BY <4>1 DEF AnswerInv, WalkInv
    <3> QED BY <1>2, <3>4, <3>5 DEF WalkInv
  <2> QED BY <2>3, <2>4
<1> QED BY <1>4, <1>5

LEMMA UserWalk == TypeOK /\ MemoryInv /\ WalkInv /\ User => WalkInv'
<1> SUFFICES ASSUME TypeOK, MemoryInv, WalkInv, User PROVE WalkInv'
  OBVIOUS
<1>1. ASSUME NEW n \in Nodes, CreateNode(n) PROVE WalkInv'
  <2>1. /\ phase' = [phase EXCEPT ![n] = "alive"]
        /\ UNCHANGED <<kind, known, fault, queryVars, history>>
    BY <1>1 DEF CreateNode, entityVars
  <2>2. ~Walking(n)
    BY <1>1 DEF CreateNode, WalkInv, IteratorInv
  <2>3. IteratorInv'
    BY <2>1, <2>2 DEF WalkInv, IteratorInv, Walking, Set, queryVars, history, TypeOK
  <2>4. AnswerInv' /\ FaultNeedsPull'
    BY <2>1 DEF WalkInv, AnswerInv, FaultNeedsPull, Walking, queryVars, history
  <2> QED BY <2>3, <2>4 DEF WalkInv
<1>2. ASSUME NEW n \in Nodes, DestroyNode(n) PROVE WalkInv'
  <2>1. /\ fault = "none" /\ fault' = "none"
        /\ phase' = [phase EXCEPT ![n] = "dying"]
        /\ known' = [known EXCEPT ![n] = {}]
        /\ pulled' = [pulled EXCEPT ![n] = @ \/ Walking(n)]
        /\ UNCHANGED <<kind, queryVars, lasting, ever, stirred>>
    BY <1>2 DEF DestroyNode
  <2>2. /\ \A m \in Nodes \ {n} : known'[m] = known[m] /\ phase'[m] = phase[m]
                                /\ pulled'[m] = pulled[m]
        /\ known'[n] = {} /\ phase'[n] = "dying"
    BY <2>1 DEF TypeOK
  <2>3. Walking(n) => pulled'[n]
    BY <2>1, Zenon DEF TypeOK
  <2>4. \A m \in Nodes : Walking(m)' = Walking(m) /\ Set(m, asked[m])' \subseteq Set(m, asked[m])
    BY <2>1, <2>2 DEF Walking, Set, queryVars
  <2>5. \A m \in Nodes \ {n} : Set(m, asked[m])' = Set(m, asked[m])
    BY <2>1, <2>2 DEF Set, queryVars
  <2>6. IteratorInv'
    BY <2>1, <2>2, <2>3, <2>4, <2>5 DEF WalkInv, IteratorInv, queryVars
  <2>7. AnswerInv' /\ FaultNeedsPull'
    BY <2>1, <2>4 DEF WalkInv, AnswerInv, FaultNeedsPull, queryVars
  <2> QED BY <2>6, <2>7 DEF WalkInv
<1>3. ASSUME NEW n \in Nodes, DestroyQueryService(n) PROVE WalkInv'
  <2>1. /\ phase' = [phase EXCEPT ![n] = "gone"]
        /\ UNCHANGED <<kind, known, fault, queryVars, history>>
    BY <1>3 DEF DestroyQueryService, entityVars
  <2>2. IteratorInv'
    BY <2>1 DEF WalkInv, IteratorInv, Walking, Set, queryVars, history, TypeOK
  <2>3. AnswerInv' /\ FaultNeedsPull'
    BY <2>1 DEF WalkInv, AnswerInv, FaultNeedsPull, Walking, queryVars, history
  <2> QED BY <2>2, <2>3 DEF WalkInv
<1>4. ASSUME NEW n \in Nodes, NEW e \in Entities, NEW k \in Kinds, CreateThrows(n, e, k)
      PROVE WalkInv'
  <2>1. /\ home[e] = None /\ kind' = [kind EXCEPT ![e] = k]
        /\ UNCHANGED <<phase, known, fault, queryVars, history>>
    BY <1>4 DEF CreateThrows
  <2>2. \A m \in Nodes : e \notin known[m]
    BY <2>1, NodeAssumption DEF MemoryInv, KnownAreOwned
  <2>3. \A m \in Nodes : Set(m, asked[m])' = Set(m, asked[m])
    BY <2>1, <2>2 DEF Set, TypeOK, queryVars
  <2>4. IteratorInv'
    BY <2>1, <2>3 DEF WalkInv, IteratorInv, Walking, queryVars, history
  <2>5. AnswerInv' /\ FaultNeedsPull'
    BY <2>1 DEF WalkInv, AnswerInv, FaultNeedsPull, Walking, queryVars, history
  <2> QED BY <2>4, <2>5 DEF WalkInv
<1>5. ASSUME NEW e \in Entities, InitEvent(e) PROVE WalkInv'
  BY <1>5, WalkSame DEF InitEvent, entityVars, walk
<1>6. ASSUME NEW e \in Entities, FiniEvent(e) PROVE WalkInv'
  BY <1>6 DEF FiniEvent, entityVars, queryVars, history, WalkInv, IteratorInv, AnswerInv,
              FaultNeedsPull, Walking, Set
<1> QED BY <1>1, <1>2, <1>3, <1>4, <1>5, <1>6, CreateWalk, DestroyWalk DEF User

(* Where the iterator is put, seen from node n and from the others. *)
LEMMA AtFacts ==
  ASSUME TypeOK, NEW n \in Nodes, NEW ahead \in SUBSET Entities, At(n, ahead)
  PROVE  /\ \A m \in Nodes \ {n} : pc'[m] = pc[m] /\ cursor'[m] = cursor[m] /\ rest'[m] = rest[m]
         /\ \/ ahead = {} /\ pc'[n] = "end" /\ rest'[n] = {}
            \/ /\ pc'[n] = "read" /\ cursor'[n] \in ahead
               /\ rest'[n] = ahead \ {cursor'[n]}
BY DEF At, TypeOK

LEMMA BeginWalk ==
  ASSUME TypeOK, MemoryInv, WalkInv, NEW n \in Nodes, NEW k \in Kinds, BeginQuery(n, k)
  PROVE  WalkInv'
<1>1. /\ fault = "none" /\ phase[n] = "alive"
      /\ asked' = [asked EXCEPT ![n] = k]
      /\ answer' = [answer EXCEPT ![n] = {}]
      /\ lasting' = [lasting EXCEPT ![n] = Set(n, k)]
      /\ ever' = [ever EXCEPT ![n] = Set(n, k)]
      /\ stirred' = [stirred EXCEPT ![n] = FALSE]
      /\ pulled' = [pulled EXCEPT ![n] = FALSE]
      /\ UNCHANGED <<phase, kind, known, fault>>
  BY DEF BeginQuery, entityVars
<1>2. At(n, Set(n, k)) /\ Set(n, k) \in SUBSET Entities
  BY DEF BeginQuery, Set, TypeOK
<1>3. /\ \A m \in Nodes \ {n} : pc'[m] = pc[m] /\ cursor'[m] = cursor[m] /\ rest'[m] = rest[m]
      /\ \/ Set(n, k) = {} /\ pc'[n] = "end" /\ rest'[n] = {}
         \/ /\ pc'[n] = "read" /\ cursor'[n] \in Set(n, k)
            /\ rest'[n] = Set(n, k) \ {cursor'[n]}
  BY <1>2, AtFacts
<1>4. \A m \in Nodes \ {n} :
        /\ asked'[m] = asked[m] /\ answer'[m] = answer[m] /\ lasting'[m] = lasting[m]
        /\ ever'[m] = ever[m] /\ stirred'[m] = stirred[m] /\ pulled'[m] = pulled[m]
        /\ Walking(m)' = Walking(m) /\ Set(m, asked[m])' = Set(m, asked[m])
  BY <1>1, <1>3 DEF TypeOK, Walking, Set
<1>5. /\ asked'[n] = k /\ answer'[n] = {} /\ lasting'[n] = Set(n, k)
      /\ ever'[n] = Set(n, k) /\ Set(n, asked[n])' = Set(n, k)
      /\ phase'[n] = "alive"
  BY <1>1 DEF TypeOK, Set
<1>6. IteratorInv'
  BY <1>1, <1>3, <1>4, <1>5 DEF WalkInv, IteratorInv, Walking
<1>7. AnswerInv'
  BY <1>1, <1>3, <1>4, <1>5 DEF WalkInv, AnswerInv, Walking
<1>8. FaultNeedsPull'
  BY <1>1 DEF FaultNeedsPull
<1> QED BY <1>6, <1>7, <1>8 DEF WalkInv

LEMMA ReadWalk ==
  ASSUME TypeOK, MemoryInv, WalkInv, NEW n \in Nodes, ReadEntity(n)
  PROVE  WalkInv'
<1>1. /\ pc[n] = "read" /\ fault = "none"
      /\ UNCHANGED <<phase, kind, known, asked, cursor, rest, history>>
  BY DEF ReadEntity, entityVars
<1>2. CASE cursor[n] \in objects
  <2>1. /\ pc' = [pc EXCEPT ![n] = "next"] /\ fault' = fault
        /\ answer' = [answer EXCEPT ![n] = @ \cup {cursor[n]}]
    BY <1>2 DEF ReadEntity
  <2>2. \A m \in Nodes : Walking(m)' = Walking(m) /\ Set(m, asked[m])' = Set(m, asked[m])
    BY <1>1, <2>1 DEF Walking, Set, TypeOK
  <2>3. IteratorInv'
    BY <1>1, <2>2 DEF WalkInv, IteratorInv, history
  <2>4. AnswerInv'
    BY <1>1, <2>1, <2>2 DEF WalkInv, AnswerInv, history, TypeOK, Walking
  <2>5. FaultNeedsPull'
    BY <1>1, <2>1 DEF FaultNeedsPull
  <2> QED BY <2>3, <2>4, <2>5 DEF WalkInv
<1>3. CASE cursor[n] \notin objects
  <2>1. UNCHANGED <<pc, answer>>
    BY <1>3 DEF ReadEntity
  <2>2. pulled[n]
    BY <1>1, <1>3 DEF WalkInv, IteratorInv, Walking, Set, MemoryInv, KnownAreOwned, TypeOK
  <2>3. IteratorInv' /\ AnswerInv'
    BY <1>1, <2>1 DEF WalkInv, IteratorInv, AnswerInv, Walking, Set, history
  <2>4. FaultNeedsPull'
    BY <1>1, <2>2 DEF FaultNeedsPull, history
  <2> QED BY <2>3, <2>4 DEF WalkInv
<1> QED BY <1>2, <1>3

LEMMA AdvanceWalk ==
  ASSUME TypeOK, MemoryInv, WalkInv, NEW n \in Nodes, Advance(n)
  PROVE  WalkInv'
<1>1. /\ pc[n] = "next" /\ fault = "none"
      /\ UNCHANGED <<phase, kind, known, asked, answer, history>>
  BY DEF Advance, entityVars
<1>2. CASE cursor[n] \in known[n]
  <2>1. At(n, rest[n]) /\ fault' = fault /\ rest[n] \in SUBSET Entities
    BY <1>2 DEF Advance, TypeOK
  <2>2. /\ \A m \in Nodes \ {n} : pc'[m] = pc[m] /\ cursor'[m] = cursor[m] /\ rest'[m] = rest[m]
        /\ \/ rest[n] = {} /\ pc'[n] = "end" /\ rest'[n] = {}
           \/ /\ pc'[n] = "read" /\ cursor'[n] \in rest[n]
              /\ rest'[n] = rest[n] \ {cursor'[n]}
    BY <2>1, AtFacts
  <2>3. phase[n] = "alive"
    BY <1>2 DEF MemoryInv
  <2>4. \A m \in Nodes : Set(m, asked[m])' = Set(m, asked[m])
    BY <1>1 DEF Set
  <2>5. IteratorInv'
    BY <1>1, <2>2, <2>3, <2>4 DEF WalkInv, IteratorInv, Walking, history
  <2>6. AnswerInv'
    BY <1>1, <2>2 DEF WalkInv, AnswerInv, Walking, history
  <2>7. FaultNeedsPull'
    BY <1>1, <2>1 DEF FaultNeedsPull
  <2> QED BY <2>5, <2>6, <2>7 DEF WalkInv
<1>3. CASE cursor[n] \notin known[n]
  <2>1. UNCHANGED <<pc, cursor, rest>>
    BY <1>3 DEF Advance
  <2>2. pulled[n]
    BY <1>1, <1>3 DEF WalkInv, IteratorInv, Walking, Set
  <2>3. IteratorInv' /\ AnswerInv'
    BY <1>1, <2>1 DEF WalkInv, IteratorInv, AnswerInv, Walking, Set, history
  <2>4. FaultNeedsPull'
    BY <1>1, <2>2 DEF FaultNeedsPull, history
  <2> QED BY <2>3, <2>4 DEF WalkInv
<1> QED BY <1>2, <1>3

LEMMA EndWalk ==
  ASSUME TypeOK, WalkInv, NEW n \in Nodes, EndQuery(n)
  PROVE  WalkInv'
<1>1. /\ fault = "none"
      /\ pc' = [pc EXCEPT ![n] = "idle"]
      /\ asked' = [asked EXCEPT ![n] = None]
      /\ answer' = [answer EXCEPT ![n] = {}]
      /\ lasting' = [lasting EXCEPT ![n] = {}]
      /\ ever' = [ever EXCEPT ![n] = {}]
      /\ stirred' = [stirred EXCEPT ![n] = FALSE]
      /\ pulled' = [pulled EXCEPT ![n] = FALSE]
      /\ UNCHANGED <<phase, kind, known, fault, cursor, rest>>
  BY DEF EndQuery, entityVars
<1>2. \A m \in Nodes \ {n} :
        /\ pc'[m] = pc[m] /\ asked'[m] = asked[m] /\ answer'[m] = answer[m]
        /\ lasting'[m] = lasting[m] /\ ever'[m] = ever[m] /\ stirred'[m] = stirred[m]
        /\ pulled'[m] = pulled[m] /\ Walking(m)' = Walking(m)
        /\ Set(m, asked[m])' = Set(m, asked[m])
  BY <1>1 DEF TypeOK, Walking, Set
<1>3. pc'[n] = "idle" /\ ~Walking(n)'
  BY <1>1 DEF TypeOK, Walking
<1>4. IteratorInv'
  BY <1>1, <1>2, <1>3 DEF WalkInv, IteratorInv
<1>5. AnswerInv'
  BY <1>1, <1>2, <1>3 DEF WalkInv, AnswerInv
<1>6. FaultNeedsPull'
  BY <1>1 DEF FaultNeedsPull
<1> QED BY <1>4, <1>5, <1>6 DEF WalkInv

-----------------------------------------------------------------------------

LEMMA IInvStep == IInv /\ [Next]_vars => IInv'
<1> SUFFICES ASSUME IInv, [Next]_vars PROVE IInv'
  OBVIOUS
<1> USE NodeAssumption
<1>1. TypeOK' /\ MemoryInv'
  BY TypeStep, MemoryStep DEF IInv
<1>2. TypeOK /\ MemoryInv /\ WalkInv
  BY DEF IInv, WalkInv
<1>3. ASSUME User PROVE WalkInv'
  BY <1>2, <1>3, UserWalk
<1>4. ASSUME NEW n \in Nodes, Query(n) \/ Callback(n) PROVE WalkInv'
  <2>1. CASE BeginQueryTooLate(n)
    <3>1. /\ pulled' = [pulled EXCEPT ![n] = TRUE]
          /\ UNCHANGED <<phase, kind, known, queryVars, lasting, ever, stirred>>
          /\ pc[n] = "idle"
      BY <2>1 DEF BeginQueryTooLate, entityVars
    <3>2. pulled'[n] /\ \A m \in Nodes \ {n} : pulled'[m] = pulled[m]
      BY <3>1, <1>2 DEF TypeOK
    <3>3. IteratorInv' /\ AnswerInv'
      BY <1>2, <3>1, <3>2 DEF WalkInv, IteratorInv, AnswerInv, Walking, Set, queryVars
    <3> QED BY <3>2, <3>3 DEF WalkInv, FaultNeedsPull
  <2> QED BY <1>2, <1>4, <2>1, BeginWalk, ReadWalk, AdvanceWalk, EndWalk DEF Query, Callback
<1>5. ASSUME UNCHANGED vars PROVE WalkInv'
  BY <1>2, <1>5, WalkSame DEF vars, entityVars, walk
<1>6. WalkInv'
  BY <1>3, <1>4, <1>5 DEF Next
<1> QED BY <1>1, <1>6 DEF IInv, WalkInv

LEMMA InvariantHolds == Spec => []IInv
BY InitIInv, IInvStep, PTL DEF Spec

(* The deletions and the callbacks of node.hpp rely on it: what a set holds *)
(* is allocated and belongs to this node alone, so nothing is deleted twice.*)
THEOREM SetsAreOwned == Spec => []KnownAreOwned
<1>1. IInv => KnownAreOwned
  BY DEF IInv, MemoryInv
<1> QED BY <1>1, InvariantHolds, PTL

(* A struct that rmw.cpp has not freed points to an entity. *)
THEOREM StructsAreBacked == Spec => []HandlesAreBacked
<1>1. IInv => HandlesAreBacked
  BY DEF IInv, MemoryInv
<1> QED BY <1>1, InvariantHolds, PTL

(* Memory is lost only when creating an entity throws, or when it is        *)
(* destroyed with another node.                                             *)
THEOREM LeaksAreKnown == Spec => []NothingElseLeaks
<1>1. IInv => NothingElseLeaks
  BY DEF IInv, MemoryInv
<1> QED BY <1>1, InvariantHolds, PTL

(* What OnGetSubscribers and its like answer is true of the set they walk. *)
THEOREM AnswersAreHonest == Spec => []AnswerIsHonest
<1>1. IInv => AnswerIsHonest
  BY DEF IInv, AnswerInv, AnswerIsHonest
<1> QED BY <1>1, InvariantHolds, PTL

(* Only what the iterator is on must not be destroyed under it. *)
THEOREM FaultIsAPull == Spec => []FaultNeedsPull
<1>1. IInv => FaultNeedsPull
  BY DEF IInv
<1> QED BY <1>1, InvariantHolds, PTL

-----------------------------------------------------------------------------
(* The contexts of the nodes.  The invariant of both theorems compares     *)
(* eCAL's count of references with the number of contexts that are up.     *)


\* eCAL has a reference for each context that is up, unless one was taken
\* twice, and no other, unless one was never given back.
CountInv ==
  /\ ~repeated => Cardinality(up) <= references
  /\ ~skipped => references <= Cardinality(up)

\* The nodes that are kept are those of contexts that are up.
KeptInv == \A n \in kept : context[n] \in up

ContextInv == ContextTypeOK /\ CountInv /\ KeptInv /\ NodesKeepECal

-----------------------------------------------------------------------------

\* A context that is up counts, and one that joins or leaves counts once.
LEMMA UpIsFinite ==
  ASSUME up \subseteq Contexts
  PROVE  IsFiniteSet(up) /\ Cardinality(up) \in Nat
  BY ContextAssumption, FS_Subset, FS_CardinalityType DEF ContextAssumption

LEMMA OneMore ==
  ASSUME up \subseteq Contexts, NEW c \in Contexts, up' = up \cup {c}
  PROVE  /\ Cardinality(up') = IF c \in up THEN Cardinality(up) ELSE Cardinality(up) + 1
         /\ Cardinality(up) \in Nat
  BY UpIsFinite, FS_AddElement

LEMMA OneLess ==
  ASSUME up \subseteq Contexts, NEW c \in Contexts, up' = up \ {c}
  PROVE  /\ Cardinality(up') = IF c \in up THEN Cardinality(up) - 1 ELSE Cardinality(up)
         /\ Cardinality(up) \in Nat
  BY UpIsFinite, FS_RemoveElement

LEMMA SomeUp ==
  ASSUME up \subseteq Contexts
  PROVE  Cardinality(up) = 0 <=> up = {}
  BY UpIsFinite, FS_EmptySet

LEMMA SomeUpNext ==
  ASSUME up' \subseteq Contexts
  PROVE  Cardinality(up') = 0 <=> up' = {}
  BY ContextAssumption, FS_Subset, FS_EmptySet DEF ContextAssumption

-----------------------------------------------------------------------------

\* Every identifier, count and node keeps its type.
LEMMA ContextTypeStep ==
  ASSUME ContextTypeOK, [ContextNext]_contextVars
  PROVE  ContextTypeOK'
<1>1. ASSUME NEW i \in Implementations, NEW o \in Options, NEW p \in Options,
             InitOptions(i, o) \/ FiniOptions(i, o) \/ CopyOptions(i, o, p)
      PROVE  ContextTypeOK'
  BY <1>1 DEF ContextTypeOK, InitOptions, FiniOptions, CopyOptions, ecalVars, nodeVars
<1>2. ASSUME NEW i \in Implementations, NEW c \in Contexts, BeginInit(i, c)
      PROVE  ContextTypeOK'
  <2>1. references' \in 0 .. MaxReferences
    BY <1>2, ContextAssumption DEF ContextTypeOK, BeginInit, Initialize, ContextAssumption
  <2>2. era' \in 0 .. MaxEras
    BY <1>2, ContextAssumption DEF ContextTypeOK, BeginInit, Initialize, ContextAssumption
  <2> QED
    BY <1>2, <2>1, <2>2 DEF ContextTypeOK, BeginInit, nodeVars
<1>3. ASSUME NEW c \in Contexts, EndInit(c)
      PROVE  ContextTypeOK'
  BY <1>3 DEF ContextTypeOK, EndInit, ecalVars, nodeVars
<1>4. ASSUME NEW i \in Implementations, NEW c \in Contexts, Shutdown(i, c)
      PROVE  ContextTypeOK'
  <2>1. references' \in 0 .. MaxReferences
    BY <1>4, ContextAssumption DEF ContextTypeOK, Shutdown, Finalize, ContextAssumption
  <2> QED
    BY <1>4, <2>1 DEF ContextTypeOK, Shutdown, Finalize, nodeVars
<1>5. ASSUME NEW i \in Implementations, NEW c \in Contexts, ContextFini(i, c)
      PROVE  ContextTypeOK'
  BY <1>5 DEF ContextTypeOK, ContextFini, ecalVars, nodeVars
<1>6. ASSUME NEW i \in Implementations, NEW c \in Contexts, NEW n \in NodeStructs,
             CreateNodeIn(i, c, n)
      PROVE  ContextTypeOK'
  <2>1. born' \in [NodeStructs -> 0 .. MaxEras]
    BY <1>6, ContextAssumption DEF ContextTypeOK, CreateNodeIn, ContextAssumption
  <2> QED
    BY <1>6, <2>1 DEF ContextTypeOK, CreateNodeIn, ecalVars
<1>7. ASSUME NEW i \in Implementations, NEW n \in NodeStructs, DestroyNodeOf(i, n)
      PROVE  ContextTypeOK'
  BY <1>7 DEF ContextTypeOK, DestroyNodeOf, ecalVars
<1>8. CASE UNCHANGED contextVars
  BY <1>8 DEF ContextTypeOK, contextVars
<1> QED
  BY <1>1, <1>2, <1>3, <1>4, <1>5, <1>6, <1>7, <1>8 DEF ContextNext, Calls

\* Only rmw_init, rmw_shutdown and rmw_context_fini disturb the comparison.
LEMMA CountStep ==
  ASSUME ContextTypeOK, CountInv, [ContextNext]_contextVars
  PROVE  CountInv'
<1> USE DEF CountInv
<1>0. up \subseteq Contexts /\ references \in Nat /\ Cardinality(up) \in Nat
  BY UpIsFinite DEF ContextTypeOK
<1>1. ASSUME NEW i \in Implementations, NEW c \in Contexts, BeginInit(i, c)
      PROVE  CountInv'
  <2>1. /\ up' = up \cup {c}
        /\ references' = references + 1
        /\ ~repeated' => ~repeated
        /\ ~skipped' => ~skipped /\ c \notin up
    BY <1>1 DEF BeginInit, Initialize
  <2>2. Cardinality(up') = IF c \in up THEN Cardinality(up) ELSE Cardinality(up) + 1
    BY <1>0, <2>1, OneMore
  <2> QED
    BY <1>0, <2>1, <2>2
<1>2. ASSUME NEW i \in Implementations, NEW c \in Contexts, Shutdown(i, c)
      PROVE  CountInv'
  <2>1. /\ up' = up \ {c}
        /\ references' = IF references = 0 THEN 0 ELSE references - 1
        /\ ~repeated' => ~repeated /\ c \in up
        /\ ~skipped' => ~skipped
    BY <1>2 DEF Shutdown, Finalize
  <2>2. Cardinality(up') = IF c \in up THEN Cardinality(up) - 1 ELSE Cardinality(up)
    BY <1>0, <2>1, OneLess
  <2>3. c \in up => Cardinality(up) # 0
    BY <1>0, SomeUp
  <2> QED
    BY <1>0, <2>1, <2>2, <2>3
<1>3. ASSUME NEW i \in Implementations, NEW c \in Contexts, ContextFini(i, c)
      PROVE  CountInv'
  <2>1. /\ up' = up \ {c}
        /\ references' = references
        /\ ~repeated' => ~repeated
        /\ ~skipped' => ~skipped /\ c \notin up
    BY <1>3 DEF ContextFini, ecalVars
  <2>2. Cardinality(up') = IF c \in up THEN Cardinality(up) - 1 ELSE Cardinality(up)
    BY <1>0, <2>1, OneLess
  <2> QED
    BY <1>0, <2>1, <2>2
<1>4. ASSUME UNCHANGED <<up, references, repeated, skipped>>
      PROVE  CountInv'
  BY <1>4
<1> QED
  BY <1>1, <1>2, <1>3, <1>4
     DEF ContextNext, Calls, InitOptions, FiniOptions, CopyOptions, EndInit, CreateNodeIn,
         DestroyNodeOf, contextVars, ecalVars

\* A node stops being kept in the step that takes its context down.
LEMMA KeptStep ==
  ASSUME ContextTypeOK, KeptInv, [ContextNext]_contextVars
  PROVE  KeptInv'
<1>1. ASSUME NEW i \in Implementations, NEW c \in Contexts, BeginInit(i, c)
      PROVE  KeptInv'
  BY <1>1 DEF KeptInv, BeginInit, nodeVars
<1>2. ASSUME NEW i \in Implementations, NEW c \in Contexts,
             Shutdown(i, c) \/ ContextFini(i, c)
      PROVE  KeptInv'
  BY <1>2 DEF KeptInv, ContextTypeOK, Shutdown, ContextFini, NodesOf, nodeVars
<1>3. ASSUME NEW i \in Implementations, NEW c \in Contexts, NEW n \in NodeStructs,
             CreateNodeIn(i, c, n)
      PROVE  KeptInv'
  <2> SUFFICES ASSUME NEW m \in kept'
               PROVE  context'[m] \in up'
    BY DEF KeptInv
  <2>1. CASE m = n
    <3>1. context[n] = Zero /\ context'[n] = c
      BY <1>3 DEF CreateNodeIn, ContextTypeOK
    <3>2. n \notin kept
      BY <3>1, ContextAssumption DEF KeptInv, ContextTypeOK, ContextAssumption
    <3>3. c \in up
      BY <1>3, <2>1, <3>2 DEF CreateNodeIn
    <3> QED
      BY <1>3, <2>1, <3>1, <3>3 DEF CreateNodeIn
  <2> QED
    BY <1>3, <2>1 DEF CreateNodeIn, KeptInv, ContextTypeOK
<1>4. ASSUME NEW i \in Implementations, NEW n \in NodeStructs, DestroyNodeOf(i, n)
      PROVE  KeptInv'
  BY <1>4 DEF KeptInv, DestroyNodeOf
<1>5. ASSUME UNCHANGED <<up, context, kept>>
      PROVE  KeptInv'
  BY <1>5 DEF KeptInv
<1> QED
  BY <1>1, <1>2, <1>3, <1>4, <1>5
     DEF ContextNext, Calls, InitOptions, FiniOptions, CopyOptions, EndInit, contextVars, nodeVars

\* eCAL does not stop while a node is kept: the context of the node is up and
\* so eCAL has a reference, and an era lasts as long as it has one.
LEMMA NodesStep ==
  ASSUME ContextTypeOK, ContextTypeOK', CountInv, CountInv', KeptInv, KeptInv', NodesKeepECal,
         [ContextNext]_contextVars
  PROVE  NodesKeepECal'
<1> SUFFICES ASSUME ~repeated', NEW n \in kept'
             PROVE  references' > 0 /\ born'[n] = era'
  BY DEF NodesKeepECal
<1>0. /\ references \in Nat /\ references' \in Nat
      /\ up \subseteq Contexts /\ up' \subseteq Contexts
      /\ kept \subseteq NodeStructs /\ kept' \subseteq NodeStructs
  BY DEF ContextTypeOK
<1>1. references' > 0
  <2>1. up' # {}
    BY DEF KeptInv
  <2>2. Cardinality(up') # 0 /\ Cardinality(up') <= references'
    BY <1>0, <2>1, SomeUpNext DEF CountInv
  <2>3. Cardinality(up') \in Nat
    BY <1>0, ContextAssumption, FS_Subset, FS_CardinalityType DEF ContextAssumption
  <2> QED
    BY <1>0, <2>2, <2>3
<1>2. ASSUME n \in kept, ~repeated
      PROVE  references > 0 /\ born[n] = era
  BY <1>2 DEF NodesKeepECal
<1>3. ASSUME NEW i \in Implementations, NEW c \in Contexts, BeginInit(i, c)
      PROVE  born'[n] = era'
  <2>1. n \in kept /\ ~repeated /\ born' = born
    BY <1>3 DEF BeginInit, nodeVars
  <2>2. era' = era
    BY <1>0, <1>2, <1>3, <2>1 DEF BeginInit, Initialize
  <2> QED
    BY <1>2, <2>1, <2>2
<1>4. ASSUME NEW i \in Implementations, NEW c \in Contexts,
             Shutdown(i, c) \/ ContextFini(i, c)
      PROVE  born'[n] = era'
  BY <1>2, <1>4 DEF Shutdown, ContextFini, Finalize, nodeVars, ecalVars
<1>5. ASSUME NEW i \in Implementations, NEW c \in Contexts, NEW m \in NodeStructs,
             CreateNodeIn(i, c, m)
      PROVE  born'[n] = era'
  <2>1. UNCHANGED <<references, era, repeated>>
    BY <1>5 DEF CreateNodeIn, ecalVars
  <2>2. CASE n = m
    BY <1>0, <1>1, <1>5, <2>1, <2>2 DEF CreateNodeIn, ContextTypeOK
  <2>3. CASE n # m
    BY <1>0, <1>2, <1>5, <2>1, <2>3 DEF CreateNodeIn, ContextTypeOK
  <2> QED
    BY <2>2, <2>3
<1>6. ASSUME NEW i \in Implementations, NEW m \in NodeStructs, DestroyNodeOf(i, m)
      PROVE  born'[n] = era'
  BY <1>2, <1>6 DEF DestroyNodeOf, ecalVars
<1>7. ASSUME UNCHANGED <<born, era, kept, repeated>>
      PROVE  born'[n] = era'
  BY <1>2, <1>7
<1> QED
  <2>1. ASSUME NEW i \in Implementations, NEW o \in Options, NEW p \in Options,
               InitOptions(i, o) \/ FiniOptions(i, o) \/ CopyOptions(i, o, p)
        PROVE  UNCHANGED <<born, era, kept, repeated>>
    BY <2>1 DEF InitOptions, FiniOptions, CopyOptions, nodeVars, ecalVars
  <2>2. ASSUME NEW c \in Contexts, EndInit(c)
        PROVE  UNCHANGED <<born, era, kept, repeated>>
    BY <2>2 DEF EndInit, nodeVars, ecalVars
  <2>3. UNCHANGED contextVars => UNCHANGED <<born, era, kept, repeated>>
    BY DEF contextVars
  <2>4. born'[n] = era'
    BY <1>3, <1>4, <1>5, <1>6, <1>7, <2>1, <2>2, <2>3 DEF ContextNext, Calls
  <2> QED
    BY <1>1, <2>4

LEMMA ContextInvInit == ContextInit => ContextInv
<1> SUFFICES ASSUME ContextInit
             PROVE  ContextInv
  OBVIOUS
<1>1. ContextTypeOK
  <2>1. 0 \in 0 .. MaxEras /\ 0 \in 0 .. MaxReferences
    BY ContextAssumption DEF ContextAssumption
  <2> QED
    BY <2>1 DEF ContextInit, ContextTypeOK
<1>2. CountInv
  BY FS_EmptySet DEF ContextInit, CountInv
<1> QED
  BY <1>1, <1>2 DEF ContextInit, ContextInv, KeptInv, NodesKeepECal

LEMMA ContextInvStep == ContextInv /\ [ContextNext]_contextVars => ContextInv'
  BY ContextTypeStep, CountStep, KeptStep, NodesStep DEF ContextInv

LEMMA ContextInvHolds == ContextSpec => []ContextInv
  BY ContextInvInit, ContextInvStep, PTL DEF ContextSpec

-----------------------------------------------------------------------------

\* Identifiers, counts and eras are what ContextTypeOK says.
THEOREM ContextsTypeCorrect == ContextSpec => []ContextTypeOK
<1>1. ContextInv => ContextTypeOK
  BY DEF ContextInv
<1> QED
  BY ContextInvHolds, <1>1, PTL

\* No rmw_shutdown stops or restarts eCAL under a node of a context that is
\* up, unless a context was shut down twice.
THEOREM ECalStaysUp == ContextSpec => []NodesKeepECal
<1>1. ContextInv => NodesKeepECal
  BY DEF ContextInv
<1> QED
  BY ContextInvHolds, <1>1, PTL

\* The last rmw_shutdown stops eCAL, unless a context was initialized twice
\* or finalized while it was up.
THEOREM ECalStops == ContextSpec => []StopsWithTheLast
<1>1. ContextInv => StopsWithTheLast
  <2> SUFFICES ASSUME ContextInv, ~skipped, up = {}
               PROVE  references = 0
    BY DEF StopsWithTheLast
  <2>1. references \in Nat /\ up \subseteq Contexts
    BY DEF ContextInv, ContextTypeOK
  <2>2. references <= Cardinality(up)
    BY DEF ContextInv, CountInv
  <2>3. Cardinality(up) = 0
    BY <2>1, SomeUp
  <2> QED
    BY <2>1, <2>2, <2>3
<1> QED
  BY ContextInvHolds, <1>1, PTL
==============================================================================
