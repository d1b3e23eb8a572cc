---------------------------- MODULE WaitSetProofs ----------------------------
(***************************************************************************)
(* Proofs about WaitSet, for any waiters, notifiers and entities and any   *)
(* order of the loops of rmw_wait.                                         *)
(***************************************************************************)
EXTENDS WaitSetRefinement, TLAPS

\* The readiness test of the detach loop is inside the loop.
CollectInLoop == \A w \in Waiters : wpc[w] = "collect" => InLoop(w)

\* A notifier works on an entity of the kind its program is for, and holds
\* a pointer when it is about to notify.
NotifierTyped ==
  \A n \in Notifiers :
    /\ npc[n] \in {"get", "lock"} => nent[n] \in Queues
    /\ npc[n] \in {"set", "notify"} => nent[n] \in Guards \cup Events
    /\ npc[n] \in {"lock", "notify"} => nptr[n] \in Waiters

TypeInv == TypeOK /\ CollectInLoop /\ NotifierTyped

-----------------------------------------------------------------------------

LEMMA RangeOfSeq ==
  ASSUME NEW w \in Waiters, NEW i \in Nat \ {0}, i <= Len(Order[w])
  PROVE  Order[w][i] \in Entities /\ Order[w][i] \in EntitiesOf(w)
<1>1. Order[w] \in Seq(Entities)
  BY ThreadsAssumption
<1>2. i \in DOMAIN Order[w]
  BY <1>1
<1> QED BY <1>1, <1>2 DEF EntitiesOf, Range

LEMMA InRange ==
  ASSUME NEW w \in Waiters, NEW e \in EntitiesOf(w)
  PROVE  /\ e \in Entities
         /\ \E i \in Nat \ {0} : i <= Len(Order[w]) /\ Order[w][i] = e
<1>1. Order[w] \in Seq(Entities)
  BY ThreadsAssumption
<1>2. PICK i \in DOMAIN Order[w] : Order[w][i] = e
  BY DEF EntitiesOf, Range
<1>3. i \in 1 .. Len(Order[w]) /\ Len(Order[w]) \in Nat
  BY <1>1, <1>2
<1> QED BY <1>1, <1>2, <1>3

LEMMA RaisedNat ==
  ASSUME TypeOK, NEW e \in Entities
  PROVE  Raised(e) \in Nat
BY BoundsAssumption DEF TypeOK, Raised

LEMMA TypeInit == Init => TypeInv
BY DEF Init, TypeInv, TypeOK, CollectInLoop, NotifierTyped, WaiterPCs, NotifierPCs

\* One step of a waiter, of its wait set or of its executor.
LEMMA TypeWaiter ==
  ASSUME TypeInv, NEW w \in Waiters,
         \/ WaiterStep(w) \/ BeginWait(w) \/ SpuriousWakeup(w) \/ Timeout(w)
         \/ CreateWaitSet(w) \/ DestroyWaitSet(w)
         \/ \E e \in Entities : Take(w, e)
  PROVE  TypeInv'
<1> USE DEF TypeInv, TypeOK, CollectInLoop, NotifierTyped, WaiterPCs, NotifierPCs,
            waiterVars, notifierVars, InLoop
<1>1. CASE BeginWait(w)
  BY <1>1 DEF BeginWait
<1>2. CASE Attach(w)
  <2>1. Current(w) \in Entities
    BY <1>2, RangeOfSeq DEF Attach, Current
  <2> QED BY <1>2, <2>1 DEF Attach
<1>3. CASE LockCondition(w)
  BY <1>3 DEF LockCondition
<1>4. CASE CheckNotReady(w)
  BY <1>4 DEF CheckNotReady
<1>5. CASE CheckReady(w)
  BY <1>5 DEF CheckReady
<1>6. CASE Block(w)
  BY <1>6 DEF Block
<1>7. CASE SpuriousWakeup(w)
  BY <1>7 DEF SpuriousWakeup
<1>8. CASE Timeout(w)
  BY <1>8 DEF Timeout
<1>9. CASE Relock(w)
  BY <1>9 DEF Relock
<1>10. CASE Detach(w)
  <2>1. Current(w) \in Entities
    BY <1>10, RangeOfSeq DEF Detach, Current
  <2> QED BY <1>10, <2>1 DEF Detach
<1>11. CASE Collect(w)
  <2>1. Current(w) \in Entities
    BY <1>11, RangeOfSeq DEF Collect, Current
  <2> QED BY <1>11, <2>1 DEF Collect
<1>12. CASE Return(w)
  BY <1>12 DEF Return
<1>13. CASE CreateWaitSet(w) \/ DestroyWaitSet(w)
  BY <1>13 DEF CreateWaitSet, DestroyWaitSet
<1>14. ASSUME NEW e \in Entities, Take(w, e)
       PROVE  TypeInv'
  BY <1>14 DEF Take, Ready
<1> QED
  BY <1>1, <1>2, <1>3, <1>4, <1>5, <1>6, <1>7, <1>8, <1>9, <1>10, <1>11, <1>12,
     <1>13, <1>14 DEF WaiterStep

\* One step of a notifier.
LEMMA TypeNotifier ==
  ASSUME TypeInv, NEW n \in Notifiers,
         \/ NotifierStep(n)
         \/ \E e \in Entities : Enqueue(n, e) \/ TriggerLock(n, e)
  PROVE  TypeInv'
<1> USE DEF TypeInv, TypeOK, CollectInLoop, NotifierTyped, WaiterPCs, NotifierPCs,
            waiterVars, notifierVars, InLoop, Leave
<1>1. ASSUME NEW e \in Entities, Enqueue(n, e)
      PROVE  TypeInv'
  BY <1>1, RaisedNat DEF Enqueue
<1>2. CASE GetAttached(n)
  <2>1. attached[nent[n]] \in Waiters \cup {NoWaitSet}
    BY <1>2 DEF GetAttached, Entities
  <2>2. CASE attached[nent[n]] = NoWaitSet /\ Leave(n)
    BY <1>2, <2>2 DEF GetAttached
  <2>3. CASE attached[nent[n]] # NoWaitSet
    <3>1. attached[nent[n]] \in Waiters
      BY <2>1, <2>3
    <3>2. /\ nptr' = [nptr EXCEPT ![n] = attached[nent[n]]]
          /\ npc' = [npc EXCEPT ![n] = "lock"]
          /\ nent' = nent
          /\ UNCHANGED <<waiterVars, alive, attached, level>>
      BY <1>2, <2>3 DEF GetAttached
    <3>3. TypeOK'
      BY <3>1, <3>2
    <3>4. CollectInLoop'
      BY <3>2
    <3>5. NotifierTyped'
      <4>1. nent[n] \in Queues /\ nptr'[n] \in Waiters /\ npc'[n] = "lock" /\ nent'[n] = nent[n]
        BY <1>2, <3>1, <3>2 DEF GetAttached
      <4>2. \A m \in Notifiers \ {n} :
              npc'[m] = npc[m] /\ nent'[m] = nent[m] /\ nptr'[m] = nptr[m]
        BY <3>2
      <4> QED BY <4>1, <4>2
    <3> QED BY <3>3, <3>4, <3>5
  <2> QED BY <1>2, <2>2, <2>3 DEF GetAttached
<1>3. CASE NotifyQueue(n)
  <2>1. TypeOK'
    BY <1>3 DEF NotifyQueue, Notified
  <2>2. CollectInLoop'
    BY <1>3 DEF NotifyQueue, Notified
  <2>3. NotifierTyped'
    BY <1>3 DEF NotifyQueue
  <2> QED BY <2>1, <2>2, <2>3
<1>4. CASE TouchFreed(n)
  BY <1>4 DEF TouchFreed
<1>5. ASSUME NEW e \in Entities, TriggerLock(n, e)
      PROVE  TypeInv'
  BY <1>5 DEF TriggerLock
<1>6. CASE TriggerDetached(n)
  <2>1. nent[n] \in Entities
    BY <1>6 DEF TriggerDetached, Entities
  <2> QED BY <1>6, <2>1, RaisedNat DEF TriggerDetached
<1>7. CASE TriggerAttached(n)
  <2>1. nent[n] \in Entities
    BY <1>7 DEF TriggerAttached, Entities
  <2> QED BY <1>7, <2>1, RaisedNat, ThreadsAssumption DEF TriggerAttached
<1>8. CASE TriggerNotify(n)
  BY <1>8 DEF TriggerNotify, Notified
<1> QED
  BY <1>1, <1>2, <1>3, <1>4, <1>5, <1>6, <1>7, <1>8 DEF NotifierStep

LEMMA TypeStep == TypeInv /\ [Next]_vars => TypeInv'
<1> SUFFICES ASSUME TypeInv, [Next]_vars PROVE TypeInv'
  OBVIOUS
<1>1. CASE Next
  BY <1>1, TypeWaiter, TypeNotifier DEF Next
<1>2. CASE UNCHANGED vars
  BY <1>2 DEF vars, waiterVars, notifierVars, TypeInv, TypeOK, CollectInLoop,
              NotifierTyped, InLoop
<1> QED BY <1>1, <1>2

LEMMA TypeInvariant == Spec => []TypeInv
BY TypeInit, TypeStep, PTL DEF Spec

\* The variables of rmw_wait and of the notifying callbacks keep their types
\* in every behaviour.
THEOREM TypeCorrect == Spec => []TypeOK
<1>1. TypeInv => TypeOK
  BY DEF TypeInv
<1> QED BY <1>1, TypeInvariant, PTL

-----------------------------------------------------------------------------
(* Attachment: who points to which wait set.                               *)

\* Two waiters inside rmw_wait share no entity.
Exclusive ==
  \A v, w \in Waiters :
    v # w /\ wpc[v] # "idle" /\ wpc[w] # "idle"
      => EntitiesOf(v) \cap EntitiesOf(w) = {}

AliveInWait == \A w \in Waiters : wpc[w] # "idle" => alive[w]

\* The attach loop has attached what is behind it, and from has_data to the
\* detach loop every entity points to its waiter.
AttachedAll ==
  \A w \in Waiters :
    /\ wpc[w] = "attach" =>
         \A i \in Nat \ {0} :
           i < idx[w] /\ i <= Len(Order[w]) => attached[Order[w][i]] = w
    /\ wpc[w] \in {"check", "waiting", "relock"} =>
         \A e \in EntitiesOf(w) : attached[e] = w

\* An entity points only to a waiter that has still to detach it.
OwnerDetaches ==
  \A w \in Waiters, e \in Entities :
    attached[e] = w =>
      /\ wpc[w] # "idle"
      /\ e \in EntitiesOf(w)
      /\ wpc[w] \in {"detach", "collect"} =>
           \E i \in Nat \ {0} :
             /\ i <= Len(Order[w])
             /\ Order[w][i] = e
             /\ idx[w] <= i
             /\ wpc[w] = "collect" => idx[w] # i

\* One notifier at a time is inside Trigger of an entity, and the wait set
\* it is about to notify is the one the entity points to.
TriggerOwns ==
  /\ \A n, m \in Notifiers :
       /\ n # m
       /\ npc[n] \in {"set", "notify"}
       /\ npc[m] \in {"set", "notify"}
       => nent[n] # nent[m]
  /\ \A n \in Notifiers : npc[n] = "notify" => attached[nent[n]] = nptr[n]

AttachInv ==
  TypeInv /\ Exclusive /\ AliveInWait /\ AttachedAll /\ OwnerDetaches /\ TriggerOwns

\* A notifier is on its way from e to w.  One that only has notify_all left
\* counts for a waiter asleep, not for one that has looked since.
Carried(w, e) ==
  \E n \in Notifiers :
    /\ nent[n] = e
    /\ \/ npc[n] = "get"
       \/ npc[n] = "lock" /\ nptr[n] = w
       \/ npc[n] = "notify" /\ nptr[n] = w /\ wpc[w] = "waiting"

\* What a waiter has found not ready, in the has_data it is in or before it
\* went to sleep, is not ready now or a notifier is on its way to the waiter.
ScannedOrNotified ==
  \A w \in Waiters :
    /\ wpc[w] = "check" =>
         \A i \in Nat \ {0} :
           i < idx[w] /\ i <= Len(Order[w]) /\ Ready(Order[w][i])
             => Carried(w, Order[w][i])
    /\ wpc[w] = "waiting" =>
         \A e \in EntitiesOf(w) : Ready(e) => Carried(w, e)

WakeInv == AttachInv /\ ScannedOrNotified

LEMMA AttachInit == Init => AttachInv
<1> SUFFICES ASSUME Init PROVE AttachInv
  OBVIOUS
<1>1. TypeInv
  BY TypeInit
<1>2. \A w \in Waiters, e \in Entities : attached[e] # w
  BY ThreadsAssumption DEF Init
<1> QED
  BY <1>1, <1>2 DEF Init, AttachInv, Exclusive, AliveInWait, AttachedAll,
                    OwnerDetaches, TriggerOwns

\* The steps of a waiter up to the detach loop: attach, lock, has_data, wait.
LEMMA AttachWaiting ==
  ASSUME AttachInv, TypeInv', NEW w \in Waiters,
         \/ BeginWait(w) \/ Attach(w) \/ LockCondition(w) \/ CheckNotReady(w)
         \/ CheckReady(w) \/ Block(w) \/ SpuriousWakeup(w) \/ Timeout(w)
         \/ Relock(w)
  PROVE  AttachInv'
<1> USE DEF AttachInv
<1> DEFINE Rest == Exclusive /\ AliveInWait /\ AttachedAll /\ OwnerDetaches /\ TriggerOwns
<1> SUFFICES Rest'
  OBVIOUS
<1>t. /\ wpc \in [Waiters -> WaiterPCs]
      /\ idx \in [Waiters -> Nat \ {0}]
      /\ attached \in [Entities -> Waiters \cup {NoWaitSet}]
  BY DEF TypeInv, TypeOK
<1>1. CASE BeginWait(w)
  BY <1>1, <1>t DEF BeginWait, Exclusive, AliveInWait, AttachedAll,
                    OwnerDetaches, TriggerOwns, notifierVars
<1>2. CASE Attach(w)
  <2> DEFINE c == Current(w)
  <2>1. c \in Entities /\ c \in EntitiesOf(w)
    BY <1>2, <1>t, RangeOfSeq DEF Attach, Current, InLoop
  <2>2. Exclusive' /\ AliveInWait'
    BY <1>2 DEF Attach, Exclusive, AliveInWait
  <2>3. AttachedAll'
    <3>1. \A v \in Waiters \ {w} : \A e \in EntitiesOf(v) :
            wpc[v] # "idle" => attached'[e] = attached[e]
      BY <1>2, <1>t, <2>1, InRange DEF Attach, Exclusive
    <3>2. \A v \in Waiters : \A i \in Nat \ {0} :
            i <= Len(Order[v]) => Order[v][i] \in EntitiesOf(v)
      BY RangeOfSeq
    <3>3. \A i \in Nat \ {0} :
            i < idx'[w] /\ i <= Len(Order[w]) => attached'[Order[w][i]] = w
      BY <1>2, <1>t, <2>1, RangeOfSeq DEF Attach, AttachedAll, Current
    <3> QED
      BY <1>2, <3>1, <3>2, <3>3 DEF Attach, AttachedAll
  <2>4. OwnerDetaches'
    BY <1>2, <1>t, <2>1 DEF Attach, OwnerDetaches
  <2>5. TriggerOwns'
    BY <1>2, <1>t, <2>1 DEF Attach, TriggerOwns, InternalMutexFree, notifierVars
  <2> QED BY <2>2, <2>3, <2>4, <2>5
<1>3. CASE LockCondition(w)
  <2>1. Exclusive' /\ AliveInWait' /\ OwnerDetaches' /\ TriggerOwns'
    BY <1>3, <1>t DEF LockCondition, Exclusive, AliveInWait, OwnerDetaches,
                      TriggerOwns, notifierVars
  <2>2. \A e \in EntitiesOf(w) : attached[e] = w
    <3>1. Len(Order[w]) \in Nat
      BY ThreadsAssumption
    <3>2. /\ wpc[w] = "attach" /\ idx[w] > Len(Order[w])
          /\ idx[w] \in Nat
      BY <1>3, <1>t DEF LockCondition, InLoop
    <3>3. \A i \in Nat \ {0} : i <= Len(Order[w]) => i < idx[w]
      BY <3>1, <3>2
    <3> TAKE e \in EntitiesOf(w)
    <3>4. PICK i \in Nat \ {0} : i <= Len(Order[w]) /\ Order[w][i] = e
      BY InRange
    <3> QED BY <3>2, <3>3, <3>4, Zenon DEF AttachedAll
  <2>3. AttachedAll'
    <3>1. attached' = attached /\ wpc'[w] = "check"
      BY <1>3, <1>t DEF LockCondition
    <3>2. \A v \in Waiters \ {w} : wpc'[v] = wpc[v] /\ idx'[v] = idx[v]
      BY <1>3, <1>t DEF LockCondition
    <3> QED BY <2>2, <3>1, <3>2 DEF AttachedAll
  <2> QED BY <2>1, <2>3
<1>4. CASE CheckNotReady(w) \/ Block(w) \/ SpuriousWakeup(w) \/ Timeout(w)
  BY <1>4, <1>t DEF CheckNotReady, Block, SpuriousWakeup, Timeout, Exclusive,
       AliveInWait, AttachedAll, OwnerDetaches, TriggerOwns, notifierVars
<1>5. CASE CheckReady(w) \/ Relock(w)
  <2>1. Exclusive' /\ AliveInWait' /\ TriggerOwns'
    BY <1>5, <1>t DEF CheckReady, Relock, Exclusive, AliveInWait,
                      TriggerOwns, notifierVars
  <2>5. AttachedAll'
    <3>1. attached' = attached /\ wpc'[w] \in {"detach", "check"}
      BY <1>5, <1>t DEF CheckReady, Relock
    <3>2. \A v \in Waiters \ {w} : wpc'[v] = wpc[v] /\ idx'[v] = idx[v]
      BY <1>5, <1>t DEF CheckReady, Relock
    <3>3. \A e \in EntitiesOf(w) : attached[e] = w
      BY <1>5 DEF CheckReady, Relock, AttachedAll
    <3> QED BY <3>1, <3>2, <3>3 DEF AttachedAll
  <2>2. \A e \in EntitiesOf(w) :
          \E i \in Nat \ {0} : i <= Len(Order[w]) /\ Order[w][i] = e /\ 1 <= i
    BY InRange
  <2>3. idx'[w] = 1 /\ wpc'[w] # "idle" /\ wpc'[w] # "collect"
    BY <1>5, <1>t DEF CheckReady, Relock
  <2>4. OwnerDetaches'
    <3>1. attached' = attached
      BY <1>5 DEF CheckReady, Relock
    <3>2. \A v \in Waiters \ {w} : wpc'[v] = wpc[v] /\ idx'[v] = idx[v]
      BY <1>5, <1>t DEF CheckReady, Relock
    <3>3. \A e \in Entities : attached[e] = w => e \in EntitiesOf(w)
      BY DEF OwnerDetaches
    <3> QED BY <2>2, <2>3, <3>1, <3>2, <3>3 DEF OwnerDetaches
  <2> QED BY <2>1, <2>4, <2>5
<1> QED BY <1>1, <1>2, <1>3, <1>4, <1>5

\* The detach loop, the wait set object, and takes.
LEMMA AttachLeaving ==
  ASSUME AttachInv, TypeInv', NEW w \in Waiters,
         \/ Detach(w) \/ Collect(w) \/ Return(w)
         \/ CreateWaitSet(w) \/ DestroyWaitSet(w)
         \/ \E e \in Entities : Take(w, e)
  PROVE  AttachInv'
<1> USE DEF AttachInv
<1> DEFINE Rest == Exclusive /\ AliveInWait /\ AttachedAll /\ OwnerDetaches /\ TriggerOwns
<1> SUFFICES Rest'
  OBVIOUS
<1>t. /\ wpc \in [Waiters -> WaiterPCs]
      /\ idx \in [Waiters -> Nat \ {0}]
      /\ attached \in [Entities -> Waiters \cup {NoWaitSet}]
  BY DEF TypeInv, TypeOK
<1>1. CASE Detach(w)
  <2> DEFINE c == Current(w)
  <2>1. c \in Entities /\ c \in EntitiesOf(w)
    BY <1>1, <1>t, RangeOfSeq DEF Detach, Current, InLoop
  <2>2. Exclusive' /\ AliveInWait'
    BY <1>1, <1>t DEF Detach, Exclusive, AliveInWait
  <2>3. AttachedAll'
    <3>1. \A v \in Waiters \ {w} : \A e \in EntitiesOf(v) :
            wpc[v] # "idle" => attached'[e] = attached[e]
      BY <1>1, <1>t, <2>1, InRange DEF Detach, Exclusive
    <3>2. \A v \in Waiters : \A i \in Nat \ {0} :
            i <= Len(Order[v]) => Order[v][i] \in EntitiesOf(v)
      BY RangeOfSeq
    <3> QED
      BY <1>1, <1>t, <3>1, <3>2 DEF Detach, AttachedAll
  <2>4. OwnerDetaches'
    <3>1. attached'[c] = NoWaitSet /\ c = Order[w][idx[w]]
      BY <1>1, <1>t, <2>1 DEF Detach, Current
    <3>2. \A e \in Entities \ {c} : attached'[e] = attached[e]
      BY <1>1, <1>t DEF Detach
    <3> QED
      BY <1>1, <1>t, <3>1, <3>2, ThreadsAssumption DEF Detach, OwnerDetaches
  <2>5. TriggerOwns'
    BY <1>1, <1>t, <2>1 DEF Detach, TriggerOwns, InternalMutexFree, notifierVars
  <2> QED BY <2>2, <2>3, <2>4, <2>5
<1>2. CASE Collect(w)
  <2>1. Exclusive' /\ AliveInWait' /\ AttachedAll' /\ TriggerOwns'
    BY <1>2, <1>t DEF Collect, Exclusive, AliveInWait, AttachedAll,
                      TriggerOwns, notifierVars
  <2>2. OwnerDetaches'
    <3>1. attached' = attached /\ wpc'[w] = "detach" /\ idx'[w] = idx[w] + 1
      BY <1>2, <1>t DEF Collect
    <3>2. \A v \in Waiters \ {w} : wpc'[v] = wpc[v] /\ idx'[v] = idx[v]
      BY <1>2, <1>t DEF Collect
    <3>3. ASSUME NEW e \in Entities, attached[e] = w
          PROVE  /\ e \in EntitiesOf(w)
                 /\ \E i \in Nat \ {0} : /\ i <= Len(Order[w])
                                         /\ Order[w][i] = e
                                         /\ idx[w] + 1 <= i
      <4>1. PICK i \in Nat \ {0} : /\ i <= Len(Order[w])
                                  /\ Order[w][i] = e
                                  /\ idx[w] <= i
                                  /\ idx[w] # i
        BY <1>2, <3>3 DEF Collect, OwnerDetaches
      <4>2. idx[w] + 1 <= i
        BY <4>1, <1>t
      <4> QED BY <4>1, <4>2, <1>2, <3>3 DEF Collect, OwnerDetaches
    <3> QED BY <3>1, <3>2, <3>3 DEF OwnerDetaches
  <2> QED BY <2>1, <2>2
<1>3. CASE Return(w)
  <2>1. Exclusive' /\ AliveInWait' /\ AttachedAll' /\ TriggerOwns'
    BY <1>3, <1>t DEF Return, Exclusive, AliveInWait, AttachedAll,
                      TriggerOwns, notifierVars
  <2>2. Len(Order[w]) \in Nat
    BY ThreadsAssumption
  <2>3. \A e \in Entities : attached[e] # w
    BY <1>3, <1>t, <2>2 DEF Return, OwnerDetaches, InLoop
  <2>4. OwnerDetaches'
    BY <1>3, <1>t, <2>3 DEF Return, OwnerDetaches
  <2> QED BY <2>1, <2>4
<1>4. CASE CreateWaitSet(w) \/ DestroyWaitSet(w)
  <2>1. alive \in [Waiters -> BOOLEAN]
    BY DEF TypeInv, TypeOK
  <2>2. /\ UNCHANGED <<wpc, idx, attached, npc, nent, nptr>>
        /\ \A v \in Waiters : wpc[v] # "idle" /\ alive[v] => alive'[v]
    BY <1>4, <2>1 DEF CreateWaitSet, DestroyWaitSet, waiterVars, notifierVars
  <2>3. Exclusive' /\ AliveInWait'
    BY <2>2 DEF Exclusive, AliveInWait
  <2>4. AttachedAll' /\ OwnerDetaches' /\ TriggerOwns'
    BY <2>2 DEF AttachedAll, OwnerDetaches, TriggerOwns
  <2> QED BY <2>3, <2>4
<1>5. ASSUME NEW e \in Entities, Take(w, e)
      PROVE  Rest'
  BY <1>5 DEF Take, Exclusive, AliveInWait, AttachedAll, OwnerDetaches,
              TriggerOwns, notifierVars
<1> QED BY <1>1, <1>2, <1>3, <1>4, <1>5

\* A notifier moves no pointer of an entity and no waiter out of rmw_wait.
LEMMA AttachNotifier ==
  ASSUME AttachInv, TypeInv', NEW n \in Notifiers,
         \/ NotifierStep(n)
         \/ \E e \in Entities : Enqueue(n, e) \/ TriggerLock(n, e)
  PROVE  AttachInv'
<1>t. /\ wpc \in [Waiters -> WaiterPCs]
      /\ npc \in [Notifiers -> NotifierPCs]
      /\ nent \in [Notifiers -> Entities \cup {NoEntity}]
      /\ nptr \in [Notifiers -> Waiters \cup {NoWaitSet}]
  BY DEF AttachInv, TypeInv, TypeOK
<1>1. /\ UNCHANGED <<idx, alive, attached>>
      /\ \A w \in Waiters :
           \/ wpc'[w] = wpc[w]
           \/ wpc[w] = "waiting" /\ wpc'[w] = "relock"
  BY <1>t DEF NotifierStep, Enqueue, TriggerLock, GetAttached, NotifyQueue, TouchFreed,
       TriggerDetached, TriggerAttached, TriggerNotify, Notified, waiterVars
<1>2. Exclusive' /\ AliveInWait'
  BY <1>1 DEF AttachInv, Exclusive, AliveInWait
<1>3. AttachedAll'
  BY <1>1 DEF AttachInv, AttachedAll
<1>4. OwnerDetaches'
  BY <1>1 DEF AttachInv, OwnerDetaches
<1>5. TriggerOwns'
  <2> USE DEF AttachInv, TriggerOwns
  <2>1. CASE \E e \in Entities : Enqueue(n, e)
    BY <2>1, <1>t DEF Enqueue
  <2>2. ASSUME NEW e \in Entities, TriggerLock(n, e)
        PROVE  TriggerOwns'
    BY <2>2, <1>t DEF TriggerLock, InternalMutexFree
  <2>3. CASE GetAttached(n)
    BY <2>3, <1>t DEF GetAttached, Leave
  <2>4. CASE NotifyQueue(n)
    BY <2>4, <1>t DEF NotifyQueue, Leave
  <2>5. CASE TouchFreed(n)
    BY <2>5, <1>t DEF TouchFreed, Leave
  <2>6. CASE TriggerDetached(n)
    BY <2>6, <1>t DEF TriggerDetached, Leave
  <2>7. CASE TriggerAttached(n)
    BY <2>7, <1>t DEF TriggerAttached
  <2>8. CASE TriggerNotify(n)
    BY <2>8, <1>t DEF TriggerNotify, Leave
  <2> QED BY <2>1, <2>2, <2>3, <2>4, <2>5, <2>6, <2>7, <2>8 DEF NotifierStep
<1> QED BY <1>2, <1>3, <1>4, <1>5 DEF AttachInv

LEMMA AttachStep == AttachInv /\ [Next]_vars => AttachInv'
<1> SUFFICES ASSUME AttachInv, [Next]_vars PROVE AttachInv'
  OBVIOUS
<1>1. TypeInv'
  BY TypeStep DEF AttachInv
<1>2. CASE Next
  BY <1>1, <1>2, AttachWaiting, AttachLeaving, AttachNotifier DEF Next, WaiterStep
<1>3. CASE UNCHANGED vars
  BY <1>1, <1>3 DEF vars, waiterVars, notifierVars, AttachInv, Exclusive,
       AliveInWait, AttachedAll, OwnerDetaches, TriggerOwns
<1> QED BY <1>2, <1>3

LEMMA AttachInvariant == Spec => []AttachInv
BY AttachInit, AttachStep, PTL DEF Spec

\* A trigger never notifies a deleted wait set, nor one that has returned.
THEOREM FlagTriggerIsSafe == Spec => []FlagTriggerSafe
<1>1. AttachInv => FlagTriggerSafe
  <2> SUFFICES ASSUME AttachInv, NEW n \in Notifiers, npc[n] = "notify"
               PROVE  /\ alive[nptr[n]]
                      /\ wpc[nptr[n]] # "idle"
                      /\ attached[nent[n]] = nptr[n]
    BY DEF FlagTriggerSafe
  <2>1. nptr[n] \in Waiters /\ nent[n] \in Entities
    BY DEF AttachInv, TypeInv, NotifierTyped, Entities
  <2>2. attached[nent[n]] = nptr[n]
    BY DEF AttachInv, TriggerOwns
  <2> QED BY <2>1, <2>2 DEF AttachInv, OwnerDetaches, AliveInWait
<1> QED BY <1>1, AttachInvariant, PTL

\* No entity points to a wait set that has returned or is deleted.
THEOREM NothingIsLeftAttached == Spec => []NothingLeftAttached
<1>1. AttachInv => NothingLeftAttached
  BY DEF AttachInv, NothingLeftAttached, OwnerDetaches, AliveInWait
<1> QED BY <1>1, AttachInvariant, PTL

-----------------------------------------------------------------------------
(* Wakeups.                                                                *)

\* A step that makes nothing ready and leaves the notifiers alone keeps what
\* another waiter relies on.
LEMMA OthersScan ==
  ASSUME WakeInv, NEW w \in Waiters, UNCHANGED notifierVars,
         \A e \in Entities : Ready(e)' => Ready(e),
         \A v \in Waiters \ {w} : wpc'[v] = wpc[v] /\ idx'[v] = idx[v],
         wpc'[w] \notin {"check", "waiting"}
           \/ (wpc'[w] = "check" /\ idx'[w] = 1)
           \/ (wpc'[w] = wpc[w] /\ idx'[w] = idx[w])
  PROVE  ScannedOrNotified'
<1>1. \A v \in Waiters, e \in Entities :
        wpc'[v] = wpc[v] /\ Carried(v, e) => Carried(v, e)'
  BY DEF Carried, notifierVars
<1>2. \A v \in Waiters : \A i \in Nat \ {0} :
        i <= Len(Order[v]) => Order[v][i] \in Entities
  BY RangeOfSeq
<1>3. \A v \in Waiters : \A e \in EntitiesOf(v) : e \in Entities
  BY InRange
<1>4. \A i \in Nat \ {0} : ~(i < 1)
  OBVIOUS
<1>5. ASSUME NEW v \in Waiters, wpc'[v] = wpc[v], idx'[v] = idx[v]
      PROVE  /\ wpc'[v] = "check" =>
                  \A i \in Nat \ {0} :
                    i < idx'[v] /\ i <= Len(Order[v]) /\ Ready(Order[v][i])'
                      => Carried(v, Order[v][i])'
             /\ wpc'[v] = "waiting" =>
                  \A e \in EntitiesOf(v) : Ready(e)' => Carried(v, e)'
  BY <1>1, <1>2, <1>3, <1>5 DEF WakeInv, ScannedOrNotified
<1> QED BY <1>4, <1>5 DEF ScannedOrNotified

LEMMA WakeWaiter ==
  ASSUME WakeInv, NEW w \in Waiters,
         \/ WaiterStep(w) \/ BeginWait(w) \/ SpuriousWakeup(w) \/ Timeout(w)
         \/ CreateWaitSet(w) \/ DestroyWaitSet(w)
         \/ \E e \in Entities : Take(w, e)
  PROVE  ScannedOrNotified'
<1>t. /\ wpc \in [Waiters -> WaiterPCs]
      /\ idx \in [Waiters -> Nat \ {0}]
      /\ level \in [Entities -> Nat]
  BY DEF WakeInv, AttachInv, TypeInv, TypeOK
<1>1. CASE CheckNotReady(w)
  <2>1. UNCHANGED <<level, npc, nent, nptr, wpc>>
    BY <1>1 DEF CheckNotReady, notifierVars
  <2>2. \A e : (Carried(w, e)' <=> Carried(w, e)) /\ (Ready(e)' <=> Ready(e))
    BY <2>1 DEF Carried, Ready
  <2>3. \A v \in Waiters \ {w} : \A e :
          Carried(v, e)' <=> Carried(v, e)
    BY <2>1 DEF Carried
  <2>4. /\ idx'[w] = idx[w] + 1
        /\ \A v \in Waiters \ {w} : idx'[v] = idx[v]
        /\ wpc[w] = "check"
        /\ ~Ready(Order[w][idx[w]])
    BY <1>1, <1>t DEF CheckNotReady, Current
  <2>5. ASSUME NEW i \in Nat \ {0}, i < idx'[w]
        PROVE  i < idx[w] \/ i = idx[w]
    BY <2>4, <2>5, <1>t
  <2> QED
    BY <2>1, <2>2, <2>3, <2>4, <2>5 DEF WakeInv, ScannedOrNotified
<1>2. CASE Block(w)
  <2>1. UNCHANGED <<level, idx, npc, nent, nptr>>
    BY <1>2 DEF Block, notifierVars
  <2>2. \A v \in Waiters : \A e :
          (Carried(v, e) => Carried(v, e)') /\ (Ready(e)' <=> Ready(e))
    BY <1>2, <1>t, <2>1 DEF Block, Carried, Ready
  <2>3. ASSUME NEW e \in EntitiesOf(w), Ready(e)
        PROVE  Carried(w, e)
    <3>1. PICK i \in Nat \ {0} : i <= Len(Order[w]) /\ Order[w][i] = e
      BY InRange
    <3>2. Len(Order[w]) \in Nat
      BY ThreadsAssumption
    <3>3. i < idx[w]
      BY <1>2, <1>t, <3>1, <3>2 DEF Block, InLoop
    <3> QED BY <1>2, <2>3, <3>1, <3>3 DEF Block, WakeInv, ScannedOrNotified
  <2>4. \A v \in Waiters : v # w => wpc'[v] = wpc[v]
    BY <1>2, <1>t DEF Block
  <2>5. wpc'[w] = "waiting"
    BY <1>2, <1>t DEF Block
  <2> QED
    BY <2>1, <2>2, <2>3, <2>4, <2>5 DEF WakeInv, ScannedOrNotified
<1>3. CASE \/ BeginWait(w) \/ Attach(w) \/ LockCondition(w) \/ CheckReady(w)
           \/ SpuriousWakeup(w) \/ Timeout(w) \/ Relock(w) \/ Detach(w) \/ Return(w)
  <2>1. UNCHANGED notifierVars /\ level' = level
    BY <1>3 DEF BeginWait, Attach, LockCondition, CheckReady, SpuriousWakeup,
         Timeout, Relock, Detach, Return
  <2>2. /\ \A v \in Waiters \ {w} : wpc'[v] = wpc[v] /\ idx'[v] = idx[v]
        /\ \/ wpc'[w] \notin {"check", "waiting"}
           \/ wpc'[w] = "check" /\ idx'[w] = 1
    BY <1>3, <1>t DEF BeginWait, Attach, LockCondition, CheckReady, SpuriousWakeup,
         Timeout, Relock, Detach, Return
  <2> QED BY <2>1, <2>2, OthersScan DEF Ready
<1>4. CASE Collect(w)
  <2>1. \A e \in Entities : Ready(e)' => Ready(e)
    BY <1>4, <1>t DEF Collect, Ready
  <2>2. /\ \A v \in Waiters \ {w} : wpc'[v] = wpc[v] /\ idx'[v] = idx[v]
        /\ wpc'[w] = "detach"
    BY <1>4, <1>t DEF Collect
  <2>3. UNCHANGED notifierVars
    BY <1>4 DEF Collect
  <2> QED BY <2>1, <2>2, <2>3, OthersScan
<1>5. ASSUME NEW e \in Entities, Take(w, e)
      PROVE  ScannedOrNotified'
  <2>1. \A f \in Entities : Ready(f)' => Ready(f)
    BY <1>5, <1>t DEF Take, Ready
  <2>2. UNCHANGED <<wpc, idx>> /\ UNCHANGED notifierVars
    BY <1>5 DEF Take
  <2> QED BY <2>1, <2>2, OthersScan
<1>6. CASE CreateWaitSet(w) \/ DestroyWaitSet(w)
  <2>1. UNCHANGED <<wpc, idx, level>> /\ UNCHANGED notifierVars
    BY <1>6 DEF CreateWaitSet, DestroyWaitSet, waiterVars
  <2> QED BY <2>1, OthersScan DEF Ready
<1> QED BY <1>1, <1>2, <1>3, <1>4, <1>5, <1>6 DEF WaiterStep

\* What ScannedOrNotified says of one waiter and one of its entities.
Scanned(w, e) ==
  \/ wpc[w] = "waiting"
  \/ wpc[w] = "check" /\ \E i \in Nat \ {0} :
       i < idx[w] /\ i <= Len(Order[w]) /\ Order[w][i] = e

\* The invariant can be carried from pair to pair: a notifier's step keeps it
\* when every scanned pair that is ready afterwards has someone on the way.
LEMMA ByPairs ==
  ASSUME UNCHANGED idx,
         \A w \in Waiters : \A e \in EntitiesOf(w) :
           Scanned(w, e)' /\ Ready(e)' => Carried(w, e)'
  PROVE  ScannedOrNotified'
BY RangeOfSeq DEF Scanned, ScannedOrNotified

LEMMA PairFacts ==
  ASSUME WakeInv, NEW w \in Waiters, NEW e \in EntitiesOf(w), Scanned(w, e)
  PROVE  attached[e] = w /\ alive[w] /\ (Ready(e) => Carried(w, e))
BY DEF Scanned, WakeInv, ScannedOrNotified, AttachInv, AttachedAll, AliveInWait

LEMMA WakeNotifier ==
  ASSUME WakeInv, NEW n \in Notifiers,
         \/ NotifierStep(n)
         \/ \E e \in Entities : Enqueue(n, e) \/ TriggerLock(n, e)
  PROVE  ScannedOrNotified'
<1>t. /\ wpc \in [Waiters -> WaiterPCs]
      /\ level \in [Entities -> Nat]
      /\ attached \in [Entities -> Waiters \cup {NoWaitSet}]
      /\ npc \in [Notifiers -> NotifierPCs]
      /\ nent \in [Notifiers -> Entities \cup {NoEntity}]
      /\ nptr \in [Notifiers -> Waiters \cup {NoWaitSet}]
      /\ npc[n] \in {"get", "lock", "set", "notify"} => nent[n] \in Entities
      /\ npc[n] \in {"lock", "notify"} => nptr[n] \in Waiters
  BY DEF WakeInv, AttachInv, TypeInv, TypeOK, NotifierTyped, Entities
<1>0. UNCHANGED idx
  BY DEF NotifierStep, Enqueue, TriggerLock, GetAttached, NotifyQueue, TouchFreed,
         TriggerDetached, TriggerAttached, TriggerNotify, waiterVars
\* the other notifiers
<1>o. \A m \in Notifiers \ {n} :
        npc'[m] = npc[m] /\ nent'[m] = nent[m] /\ nptr'[m] = nptr[m]
  BY <1>t DEF NotifierStep, Enqueue, TriggerLock, GetAttached, NotifyQueue, TouchFreed,
         TriggerDetached, TriggerAttached, TriggerNotify, Leave
<1>p. SUFFICES ASSUME NEW w \in Waiters, NEW e \in EntitiesOf(w),
                      Scanned(w, e)', Ready(e)'
               PROVE  Carried(w, e)'
  BY <1>0, ByPairs
<1>e. e \in Entities
  BY InRange
<1>w. wpc'[w] = wpc[w]
  <2>1. wpc'[w] = wpc[w] \/ wpc'[w] = "relock"
    BY <1>t DEF NotifierStep, Enqueue, TriggerLock, GetAttached, NotifyQueue,
       TouchFreed, TriggerDetached, TriggerAttached, TriggerNotify, Notified, waiterVars
  <2> QED BY <1>p, <2>1 DEF Scanned
<1>s. Scanned(w, e)
  BY <1>0, <1>p, <1>w DEF Scanned
<1>f. attached[e] = w /\ alive[w] /\ (Ready(e) => Carried(w, e))
  BY <1>s, PairFacts
\* another notifier that is on its way stays on its way
<1>k. ASSUME Ready(e),
             \A m \in Notifiers : nent[m] = e /\ m = n =>
               ~ (\/ npc[m] = "get"
                  \/ npc[m] = "lock" /\ nptr[m] = w
                  \/ npc[m] = "notify" /\ nptr[m] = w /\ wpc[w] = "waiting")
      PROVE  Carried(w, e)'
  BY <1>k, <1>f, <1>o, <1>w DEF Carried
<1>1. ASSUME NEW f \in Entities, Enqueue(n, f)
      PROVE  Carried(w, e)'
  <2>1. CASE e = f
    BY <1>1, <1>t, <2>1 DEF Enqueue, Carried
  <2>2. CASE e # f
    <3>1. Ready(e)
      BY <1>1, <1>p, <1>t, <1>e, <2>2 DEF Enqueue, Ready
    <3> QED BY <1>1, <1>k, <3>1 DEF Enqueue
  <2> QED BY <2>1, <2>2
<1>2. CASE GetAttached(n)
  <2>1. Ready(e)
    BY <1>2, <1>p DEF GetAttached, Ready
  <2>2. CASE nent[n] = e
    <3>1. nent'[n] = e /\ npc'[n] = "lock" /\ nptr'[n] = w
      BY <1>2, <1>t, <1>f, <2>2, ThreadsAssumption DEF GetAttached
    <3> QED BY <3>1 DEF Carried
  <2>3. CASE nent[n] # e
    BY <1>k, <2>1, <2>3
  <2> QED BY <2>2, <2>3
<1>3. CASE NotifyQueue(n) \/ TriggerNotify(n)
  <2>1. Ready(e)
    BY <1>3, <1>p DEF NotifyQueue, TriggerNotify, Ready
  <2>2. npc[n] \in {"lock", "notify"}
    BY <1>3 DEF NotifyQueue, TriggerNotify
  <2>3. nptr[n] = w => wpc[w] # "waiting"
    BY <1>3, <1>w, <1>t DEF NotifyQueue, TriggerNotify, Notified
  <2>4. npc[n] = "lock" /\ nptr[n] = w => wpc[w] # "check"
    BY <1>3 DEF NotifyQueue, TriggerNotify, ConditionMutexFree
  <2>5. wpc[w] \in {"check", "waiting"}
    BY <1>s DEF Scanned
  <2> QED BY <1>k, <2>1, <2>2, <2>3, <2>4, <2>5
<1>4. CASE TouchFreed(n)
  <2>1. Ready(e)
    BY <1>4, <1>p DEF TouchFreed, Ready
  <2>2. npc[n] = "lock" /\ nptr[n] # w
    BY <1>4, <1>f DEF TouchFreed
  <2> QED BY <1>k, <2>1, <2>2
<1>5. ASSUME NEW f \in Entities, TriggerLock(n, f)
      PROVE  Carried(w, e)'
  <2>1. Ready(e) /\ npc[n] = "idle"
    BY <1>5, <1>p DEF TriggerLock, Ready
  <2> QED BY <1>k, <2>1
<1>6. CASE TriggerDetached(n) \/ TriggerAttached(n)
  <2>1. CASE nent[n] = e
    <3>1. TriggerAttached(n)
      BY <1>6, <1>f, <2>1, ThreadsAssumption DEF TriggerDetached
    <3>2. wpc[w] = "waiting"
      BY <1>f, <1>s, <2>1, <3>1 DEF TriggerAttached, ConditionMutexFree, Scanned
    <3>3. npc'[n] = "notify" /\ nptr'[n] = w /\ nent'[n] = e
      BY <1>f, <1>t, <2>1, <3>1 DEF TriggerAttached
    <3> QED BY <1>w, <3>2, <3>3 DEF Carried
  <2>2. CASE nent[n] # e
    <3>1. Ready(e)
      BY <1>6, <1>p, <1>t, <1>e, <2>2 DEF TriggerDetached, TriggerAttached, Ready
    <3> QED BY <1>k, <2>2, <3>1
  <2> QED BY <2>1, <2>2
<1> QED
  BY <1>1, <1>2, <1>3, <1>4, <1>5, <1>6 DEF NotifierStep

LEMMA WakeStep == WakeInv /\ [Next]_vars => WakeInv'
<1> SUFFICES ASSUME WakeInv, [Next]_vars PROVE WakeInv'
  OBVIOUS
<1>1. AttachInv'
  BY AttachStep DEF WakeInv
<1>2. CASE Next
  BY <1>1, <1>2, WakeWaiter, WakeNotifier DEF Next, WakeInv
<1>3. CASE UNCHANGED vars
  BY <1>1, <1>3 DEF vars, waiterVars, notifierVars, WakeInv, ScannedOrNotified,
                    Carried, Ready
<1> QED BY <1>2, <1>3

LEMMA WakeInit == Init => WakeInv
BY AttachInit DEF Init, WakeInv, ScannedOrNotified

\* A thread asleep in rmw_wait beside a ready entity is about to be notified.
THEOREM WakeupIsNotLost == Spec => []NoLostWakeup
<1>1. WakeInv => NoLostWakeup
  BY DEF WakeInv, NoLostWakeup, ScannedOrNotified, Carried, OnItsWay
<1> QED BY <1>1, WakeInit, WakeStep, PTL DEF Spec


-----------------------------------------------------------------------------
(* Refinement: every step of rmw_wait and of those around it is one of     *)
(* WaitPromise, or none.                                                   *)

\* Only a call with a timeout times out, and it does not test again.
TimeoutInv ==
  \A w \in Waiters :
    timedOut[w] => w \in Timed /\ wpc[w] \in {"relock", "detach", "collect"}

\* The detach loop ends behind the last entity.
DetachInLoop ==
  \A w \in Waiters : wpc[w] = "detach" => idx[w] <= Len(Order[w]) + 1

PromiseInv == TypeInv /\ TimeoutInv /\ DetachInLoop

LEMMA LengthOfOrder == ASSUME NEW w \in Waiters PROVE Len(Order[w]) \in Nat
BY ThreadsAssumption

LEMMA OneMore ==
  ASSUME NEW k \in Nat \ {0}
  PROVE  1 .. (k + 1 - 1) = (1 .. (k - 1)) \cup {k}
OBVIOUS

LEMMA BehindTheLast ==
  ASSUME NEW k \in Nat, NEW n \in Nat, k <= n + 1, ~(k <= n)
  PROVE  k = n + 1
OBVIOUS

LEMMA PromiseInvInit == Init => PromiseInv
BY TypeInit, LengthOfOrder DEF Init, PromiseInv, TimeoutInv, DetachInLoop

LEMMA PromiseInvStep == PromiseInv /\ [Next]_vars => PromiseInv'
<1> SUFFICES ASSUME PromiseInv, [Next]_vars PROVE PromiseInv'
  OBVIOUS
<1> USE DEF PromiseInv, TypeInv, TypeOK, TimeoutInv, DetachInLoop, WaiterPCs,
            waiterVars, notifierVars
<1>1. TypeInv'
  BY TypeStep
<1>2. ASSUME NEW w \in Waiters,
             \/ Attach(w) \/ LockCondition(w) \/ CheckNotReady(w) \/ CheckReady(w)
             \/ Block(w) \/ Relock(w) \/ Detach(w) \/ Return(w)
             \/ BeginWait(w) \/ SpuriousWakeup(w) \/ Timeout(w)
      PROVE  TimeoutInv' /\ DetachInLoop'
  <2>1. CASE \/ Attach(w) \/ LockCondition(w) \/ CheckNotReady(w) \/ Block(w)
             \/ BeginWait(w) \/ SpuriousWakeup(w) \/ Timeout(w)
    BY <2>1 DEF Attach, LockCondition, CheckNotReady, Block, BeginWait,
                SpuriousWakeup, Timeout
  <2>2. CASE CheckReady(w)
    BY <2>2, LengthOfOrder DEF CheckReady, InLoop
  <2>3. CASE Relock(w)
    BY <2>3, LengthOfOrder DEF Relock
  <2>4. CASE Detach(w)
    BY <2>4 DEF Detach
  <2>5. CASE Return(w)
    BY <2>5 DEF Return
  <2> QED BY <1>2, <2>1, <2>2, <2>3, <2>4, <2>5
<1>3. ASSUME NEW w \in Waiters, Collect(w)
      PROVE  TimeoutInv' /\ DetachInLoop'
  BY <1>3, LengthOfOrder DEF Collect, CollectInLoop, InLoop
<1>4. ASSUME NEW w \in Waiters,
             \/ CreateWaitSet(w) \/ DestroyWaitSet(w)
             \/ \E e \in Entities : Take(w, e)
      PROVE  TimeoutInv' /\ DetachInLoop'
  BY <1>4 DEF CreateWaitSet, DestroyWaitSet, Take
<1>5. ASSUME NEW n \in Notifiers,
             \/ NotifierStep(n)
             \/ \E e \in Entities : Enqueue(n, e) \/ TriggerLock(n, e)
      PROVE  TimeoutInv' /\ DetachInLoop'
  <2>1. CASE NotifyQueue(n)
    BY <2>1 DEF NotifyQueue, Notified
  <2>2. CASE TriggerNotify(n)
    BY <2>2 DEF TriggerNotify, Notified
  <2>3. CASE \/ GetAttached(n) \/ TouchFreed(n)
             \/ TriggerDetached(n) \/ TriggerAttached(n)
             \/ \E e \in Entities : Enqueue(n, e) \/ TriggerLock(n, e)
    BY <2>3 DEF GetAttached, TouchFreed, TriggerDetached, TriggerAttached, Enqueue,
                TriggerLock
  <2> QED BY <1>5, <2>1, <2>2, <2>3 DEF NotifierStep
<1>6. CASE Next
  BY <1>1, <1>2, <1>3, <1>4, <1>5, <1>6 DEF Next, WaiterStep
<1>7. CASE UNCHANGED vars
  BY <1>1, <1>7 DEF vars
<1> QED BY <1>6, <1>7

LEMMA BarsAreFunctions ==
  /\ phaseBar = [w \in Waiters |-> phaseBar[w]]
  /\ seenBar = [w \in Waiters |-> seenBar[w]]
  /\ phaseBar' = [w \in Waiters |-> phaseBar'[w]]
  /\ seenBar' = [w \in Waiters |-> seenBar'[w]]
BY DEF phaseBar, seenBar

\* Nobody else's phase or looks change when one waiter moves.
LEMMA BarsOfOthers ==
  ASSUME NEW w \in Waiters,
         \A v \in Waiters \ {w} :
           wpc'[v] = wpc[v] /\ idx'[v] = idx[v] /\ timedOut'[v] = timedOut[v]
  PROVE  /\ phaseBar' = [phaseBar EXCEPT ![w] = phaseBar'[w]]
         /\ seenBar' = [seenBar EXCEPT ![w] = seenBar'[w]]
<1>1. \A v \in Waiters \ {w} : phaseBar'[v] = phaseBar[v] /\ seenBar'[v] = seenBar[v]
  BY DEF phaseBar, seenBar
<1> QED BY <1>1, BarsAreFunctions

LEMMA BarsUnchanged ==
  ASSUME NEW w \in Waiters,
         \A v \in Waiters \ {w} :
           wpc'[v] = wpc[v] /\ idx'[v] = idx[v] /\ timedOut'[v] = timedOut[v],
         phaseBar'[w] = phaseBar[w], seenBar'[w] = seenBar[w]
  PROVE  phaseBar' = phaseBar /\ seenBar' = seenBar
<1>1. \A v \in Waiters : phaseBar'[v] = phaseBar[v] /\ seenBar'[v] = seenBar[v]
  BY DEF phaseBar, seenBar
<1> QED BY <1>1, BarsAreFunctions

LEMMA PhaseOf ==
  ASSUME PromiseInv, NEW w \in Waiters
  PROVE  /\ wpc[w] = "idle" <=> phaseBar[w] = "idle"
         /\ wpc[w] \in {"attach", "check", "waiting", "relock"} <=> phaseBar[w] = "waiting"
         /\ wpc[w] \in {"detach", "collect"} =>
              phaseBar[w] = IF timedOut[w] THEN "timeout" ELSE "ready"
BY DEF PromiseInv, TypeInv, TypeOK, WaiterPCs, phaseBar

LEMMA PromiseInitial == Init => Promise!Init
BY DEF Init, Promise!Init, Promise!Entities, Entities, phaseBar, seenBar

\* The steps of a waiter that its caller does not see.
LEMMA PromiseHidden ==
  ASSUME PromiseInv, PromiseInv', NEW w \in Waiters,
         \/ Attach(w) \/ LockCondition(w) \/ CheckNotReady(w) \/ Block(w)
         \/ SpuriousWakeup(w) \/ Timeout(w) \/ Detach(w)
         \/ CreateWaitSet(w) \/ DestroyWaitSet(w)
  PROVE  UNCHANGED Promise!vars
<1> USE DEF PromiseInv, TypeInv, TypeOK, waiterVars
<1>1. /\ \A v \in Waiters \ {w} :
           wpc'[v] = wpc[v] /\ idx'[v] = idx[v] /\ timedOut'[v] = timedOut[v]
      /\ UNCHANGED <<reported, level>>
  BY DEF Attach, LockCondition, CheckNotReady, Block, SpuriousWakeup, Timeout, Detach,
         CreateWaitSet, DestroyWaitSet
<1>2. CASE UNCHANGED <<wpc, idx, timedOut>>
  BY <1>1, <1>2 DEF phaseBar, seenBar, Promise!vars
<1>3. CASE \/ Attach(w) \/ LockCondition(w) \/ CheckNotReady(w) \/ Block(w)
           \/ SpuriousWakeup(w) \/ Timeout(w)
  <2>1. /\ wpc[w] \in {"attach", "check", "waiting", "relock"}
        /\ wpc'[w] \in {"attach", "check", "waiting", "relock"}
    BY <1>3 DEF Attach, LockCondition, CheckNotReady, Block, SpuriousWakeup, Timeout
  <2>2. phaseBar'[w] = phaseBar[w] /\ seenBar'[w] = seenBar[w]
    BY <2>1 DEF phaseBar, seenBar
  <2> QED BY <1>1, <2>2, BarsUnchanged DEF Promise!vars
<1>4. CASE Detach(w)
  <2>1. /\ wpc[w] = "detach" /\ wpc'[w] = "collect"
        /\ idx'[w] = idx[w] /\ timedOut'[w] = timedOut[w]
    BY <1>4 DEF Detach
  <2>2. phaseBar'[w] = phaseBar[w] /\ seenBar'[w] = seenBar[w]
    BY <2>1 DEF phaseBar, seenBar
  <2> QED BY <1>1, <2>2, BarsUnchanged DEF Promise!vars
<1>5. CASE CreateWaitSet(w) \/ DestroyWaitSet(w)
  BY <1>2, <1>5 DEF CreateWaitSet, DestroyWaitSet
<1> QED BY <1>3, <1>4, <1>5

\* The steps that begin and end a call, or end its wait.
LEMMA PromiseSeen ==
  ASSUME PromiseInv, PromiseInv', NEW w \in Waiters,
         \/ BeginWait(w) \/ CheckReady(w) \/ Relock(w) \/ Collect(w) \/ Return(w)
  PROVE  [Promise!Next]_Promise!vars
<1> USE DEF PromiseInv, TypeInv, TypeOK, waiterVars
<1>1. \A v \in Waiters \ {w} :
        wpc'[v] = wpc[v] /\ idx'[v] = idx[v] /\ timedOut'[v] = timedOut[v]
  BY DEF BeginWait, CheckReady, Relock, Collect, Return
<1>2. /\ phaseBar' = [phaseBar EXCEPT ![w] = phaseBar'[w]]
      /\ seenBar' = [seenBar EXCEPT ![w] = seenBar'[w]]
  BY <1>1, BarsOfOthers
<1>3. CASE BeginWait(w)
  <2>1. phaseBar[w] = "idle" /\ phaseBar'[w] = "waiting"
    BY <1>3 DEF BeginWait, phaseBar
  <2>2. seenBar'[w] = {} /\ seenBar[w] = {}
    BY <1>3 DEF BeginWait, seenBar
  <2>3. seenBar' = seenBar
    BY <1>2, <2>2 DEF seenBar
  <2>4. Promise!Begin(w)
    BY <1>2, <1>3, <2>1, <2>3 DEF BeginWait, Promise!Begin
  <2> QED BY <2>4 DEF Promise!Next
<1>4. CASE CheckReady(w)
  <2>1. wpc[w] = "check" /\ wpc'[w] = "detach" /\ idx'[w] = 1 /\ timedOut'[w] = timedOut[w]
    BY <1>4 DEF CheckReady
  <2>2. ~timedOut[w]
    BY <2>1 DEF TimeoutInv
  <2>3. phaseBar[w] = "waiting" /\ phaseBar'[w] = "ready"
    BY <2>1, <2>2 DEF phaseBar
  <2>4. seenBar'[w] = {} /\ seenBar[w] = {}
    BY <2>1 DEF seenBar
  <2>5. seenBar' = seenBar
    BY <1>2, <2>4 DEF seenBar
  <2>6. Current(w) \in Entities /\ Current(w) \in EntitiesOf(w)
    BY <1>4, RangeOfSeq DEF CheckReady, InLoop, Current
  <2>7. Promise!EndReady(w, Current(w))
    BY <1>2, <1>4, <2>3, <2>5, <2>6
       DEF CheckReady, Ready, Promise!EndReady, Promise!Ready
  <2> QED BY <2>6, <2>7 DEF Promise!Next, Promise!Entities, Entities
<1>5. CASE Relock(w) /\ timedOut[w]
  <2>1. wpc[w] = "relock" /\ wpc'[w] = "detach" /\ idx'[w] = 1 /\ timedOut'[w] = timedOut[w]
    BY <1>5 DEF Relock
  <2>2. w \in Timed
    BY <1>5 DEF TimeoutInv
  <2>3. phaseBar[w] = "waiting" /\ phaseBar'[w] = "timeout"
    BY <1>5, <2>1 DEF phaseBar
  <2>4. seenBar'[w] = {} /\ seenBar[w] = {}
    BY <2>1 DEF seenBar
  <2>5. seenBar' = seenBar
    BY <1>2, <2>4 DEF seenBar
  <2>6. Promise!EndTimeout(w)
    BY <1>2, <1>5, <2>2, <2>3, <2>5 DEF Relock, Promise!EndTimeout
  <2> QED BY <2>6 DEF Promise!Next
<1>6. CASE Relock(w) /\ ~timedOut[w]
  <2>1. wpc[w] = "relock" /\ wpc'[w] = "check"
    BY <1>6 DEF Relock
  <2>2. phaseBar'[w] = phaseBar[w] /\ seenBar'[w] = seenBar[w]
    BY <2>1 DEF phaseBar, seenBar
  <2> QED BY <1>1, <1>6, <2>2, BarsUnchanged DEF Relock, Promise!vars
<1>7. CASE Collect(w)
  <2> DEFINE e == Current(w)
  <2>1. /\ wpc[w] = "collect" /\ wpc'[w] = "detach"
        /\ idx'[w] = idx[w] + 1 /\ timedOut'[w] = timedOut[w]
    BY <1>7 DEF Collect
  <2>2. e \in Entities /\ e \in EntitiesOf(w)
    BY <2>1, RangeOfSeq DEF CollectInLoop, InLoop, Current
  <2>3. phaseBar[w] \in {"ready", "timeout"} /\ phaseBar' = phaseBar
    <3>1. phaseBar'[w] = phaseBar[w] /\ phaseBar[w] \in {"ready", "timeout"}
      BY <2>1 DEF phaseBar
    <3> QED BY <1>2, <3>1, BarsAreFunctions
  <2>4. seenBar'[w] = seenBar[w] \cup {e}
    <3>1. idx[w] \in Nat \ {0}
      OBVIOUS
    <3>2. /\ seenBar[w] = {Order[w][i] : i \in 1 .. (idx[w] - 1)}
          /\ seenBar'[w] = {Order[w][i] : i \in 1 .. (idx[w] + 1 - 1)}
      BY <2>1 DEF seenBar
    <3>3. 1 .. (idx[w] + 1 - 1) = (1 .. (idx[w] - 1)) \cup {idx[w]}
      BY <3>1, OneMore
    <3>4. \A S : {Order[w][i] : i \in S \cup {idx[w]}}
                   = {Order[w][i] : i \in S} \cup {Order[w][idx[w]]}
      OBVIOUS
    <3> QED BY <3>2, <3>3, <3>4 DEF Current
  <2>5. Promise!Look(w, e)
    BY <1>2, <1>7, <2>2, <2>3, <2>4
       DEF Collect, Ready, Promise!Look, Promise!Ready
  <2>6. \E x \in Promise!Entities : Promise!Look(w, x)
    BY <2>2, <2>5 DEF Promise!Entities, Entities
  <2> QED BY <2>6 DEF Promise!Next
<1>8. CASE Return(w)
  <2>1. /\ wpc[w] = "detach" /\ wpc'[w] = "idle"
        /\ idx[w] = Len(Order[w]) + 1
    <3>1. wpc[w] = "detach" /\ wpc'[w] = "idle" /\ ~(idx[w] <= Len(Order[w]))
      BY <1>8 DEF Return, InLoop
    <3>2. idx[w] <= Len(Order[w]) + 1
      BY <3>1 DEF DetachInLoop
    <3>3. idx[w] \in Nat /\ Len(Order[w]) \in Nat
      BY LengthOfOrder
    <3> QED BY <3>1, <3>2, <3>3, BehindTheLast
  <2>2. phaseBar[w] \in {"ready", "timeout"} /\ phaseBar'[w] = "idle" /\ seenBar'[w] = {}
    BY <2>1 DEF phaseBar, seenBar
  <2>3. seenBar[w] = EntitiesOf(w)
    <3>1. Order[w] \in Seq(Entities)
      BY ThreadsAssumption
    <3>2. DOMAIN Order[w] = 1 .. (idx[w] - 1)
      BY <2>1, <3>1
    <3>3. seenBar[w] = {Order[w][i] : i \in 1 .. (idx[w] - 1)}
      BY <2>1 DEF seenBar
    <3> QED BY <3>2, <3>3 DEF EntitiesOf, Range
  <2>4. Promise!Return(w)
    BY <1>2, <1>8, <2>2, <2>3 DEF Return, Promise!Return
  <2> QED BY <2>4 DEF Promise!Next
<1> QED BY <1>3, <1>4, <1>5, <1>6, <1>7, <1>8

\* Notifiers raise levels; that they wake a waiter is not seen.
LEMMA PromiseNotifier ==
  ASSUME PromiseInv, NEW n \in Notifiers,
         \/ NotifierStep(n)
         \/ \E e \in Entities : Enqueue(n, e) \/ TriggerLock(n, e)
  PROVE  [Promise!Next]_Promise!vars
<1> USE DEF PromiseInv, TypeInv, TypeOK, waiterVars
<1>1. ASSUME wpc' = wpc, UNCHANGED <<idx, timedOut, reported>>,
             NEW e \in Entities, level' = [level EXCEPT ![e] = Raised(e)]
      PROVE  [Promise!Next]_Promise!vars
  <2>1. phaseBar' = phaseBar /\ seenBar' = seenBar
    BY <1>1 DEF phaseBar, seenBar
  <2>2. Raised(e) = IF e \in Guards THEN 1
                    ELSE IF e \in Events THEN (level[e] + 1) % EventModulus
                    ELSE level[e] + 1
    BY KindsAssumption DEF Raised, Entities
  <2>3. Promise!Raise(e)
    BY <1>1, <2>1, <2>2 DEF Promise!Raise
  <2> QED BY <2>3 DEF Promise!Next, Promise!Entities, Entities
<1>2. ASSUME UNCHANGED <<wpc, idx, timedOut, reported, level>>
      PROVE  [Promise!Next]_Promise!vars
  BY <1>2 DEF phaseBar, seenBar, Promise!vars
<1>3. ASSUME NEW w \in Waiters, wpc' = Notified(w),
             UNCHANGED <<idx, timedOut, reported, level>>
      PROVE  [Promise!Next]_Promise!vars
  <2>1. \A v \in Waiters \ {w} : wpc'[v] = wpc[v]
    BY <1>3 DEF Notified
  <2>2. \/ wpc'[w] = wpc[w]
        \/ wpc[w] = "waiting" /\ wpc'[w] = "relock"
    BY <1>3 DEF Notified
  <2>3. phaseBar'[w] = phaseBar[w] /\ seenBar'[w] = seenBar[w]
    BY <1>3, <2>2 DEF phaseBar, seenBar
  <2> QED BY <1>3, <2>1, <2>3, BarsUnchanged DEF Promise!vars
<1>4. ASSUME NEW e \in Entities, Enqueue(n, e)
      PROVE  [Promise!Next]_Promise!vars
  BY <1>1, <1>4 DEF Enqueue
<1>5. CASE GetAttached(n) \/ TouchFreed(n) \/ \E e \in Entities : TriggerLock(n, e)
  BY <1>2, <1>5 DEF GetAttached, TouchFreed, TriggerLock
<1>6. CASE NotifyQueue(n)
  <2>1. nptr[n] \in Waiters
    BY <1>6 DEF NotifyQueue, NotifierTyped
  <2> QED BY <1>3, <1>6, <2>1 DEF NotifyQueue
<1>7. CASE TriggerNotify(n)
  <2>1. nptr[n] \in Waiters
    BY <1>7 DEF TriggerNotify, NotifierTyped
  <2> QED BY <1>3, <1>7, <2>1 DEF TriggerNotify
<1>8. CASE TriggerDetached(n) \/ TriggerAttached(n)
  <2>1. nent[n] \in Entities
    BY <1>8 DEF TriggerDetached, TriggerAttached, NotifierTyped, Entities
  <2> QED BY <1>1, <1>8, <2>1 DEF TriggerDetached, TriggerAttached
<1> QED BY <1>4, <1>5, <1>6, <1>7, <1>8 DEF NotifierStep

LEMMA PromiseStep ==
  PromiseInv /\ PromiseInv' /\ [Next]_vars => [Promise!Next]_Promise!vars
<1> SUFFICES ASSUME PromiseInv, PromiseInv', [Next]_vars
             PROVE  [Promise!Next]_Promise!vars
  OBVIOUS
<1>1. ASSUME NEW w \in Waiters, NEW e \in Entities, Take(w, e)
      PROVE  [Promise!Next]_Promise!vars
  <2>1. phaseBar' = phaseBar /\ seenBar' = seenBar
    BY <1>1 DEF Take, phaseBar, seenBar
  <2>2. wpc[w] = "idle" <=> phaseBar[w] = "idle"
    BY PhaseOf
  <2>3. Promise!Take(w, e)
    BY <1>1, <2>1, <2>2 DEF Take, Ready, Promise!Take, Promise!Ready
  <2> QED BY <2>3 DEF Promise!Next, Promise!Entities, Entities
<1>2. CASE Next
  BY <1>1, <1>2, PromiseHidden, PromiseSeen, PromiseNotifier DEF Next, WaiterStep
<1>3. CASE UNCHANGED vars
  BY <1>3 DEF vars, waiterVars, phaseBar, seenBar, Promise!vars
<1> QED BY <1>2, <1>3

\* However waiters, notifiers and takers interleave, a caller of rmw_wait sees
\* only what WaitPromise allows: what a wait may end for, what it looks at
\* and what it reports.  (That it ends is left to model checking.)
THEOREM ImplementsWaitPromise ==
  Spec => Promise!Init /\ [][Promise!Next]_Promise!vars
<1>1. Spec => []PromiseInv
  BY PromiseInvInit, PromiseInvStep, PTL DEF Spec
<1> QED
  BY <1>1, PromiseInitial, PromiseStep, PTL DEF Spec

-----------------------------------------------------------------------------
(* Data that rmw_wait reported, where one executor takes it and no event   *)
(* counter wraps.                                                          *)

Data == Queues \cup Events

\* Only the executor that was told of data takes it.
SingleTaker ==
  /\ ~ConcurrentTakes
  /\ \A v, w \in Waiters : v # w => EntitiesOf(v) \cap EntitiesOf(w) \cap Data = {}

CountersFit == MaxEvents < EventModulus

\* Also inside rmw_wait, an entry that stayed is of an entity with data.
Untaken ==
  \A w \in Waiters : \A e \in Data :
    e \in reported[w] => e \in EntitiesOf(w) /\ level[e] > 0

\* Nobody else triggers the event that a notifier is about to trigger.
BelowBound ==
  \A n \in Notifiers : npc[n] = "set" /\ nent[n] \in Events => level[nent[n]] < MaxEvents

DataInv == AttachInv /\ Untaken /\ BelowBound

\* A step that takes nothing, reports nothing and lets no notifier begin.
LEMMA DataHeld ==
  ASSUME DataInv,
         \A e \in Data : level'[e] = level[e],
         UNCHANGED reported,
         \A n \in Notifiers : npc'[n] = "set" => npc[n] = "set" /\ nent'[n] = nent[n]
  PROVE  Untaken' /\ BelowBound'
<1>1. Untaken'
  BY DEF DataInv, Untaken
<1>2. BelowBound'
  BY DEF DataInv, BelowBound, Data
<1> QED BY <1>1, <1>2

LEMMA DataCollect ==
  ASSUME DataInv, NEW w \in Waiters, Collect(w)
  PROVE  Untaken' /\ BelowBound'
<1> DEFINE c == Current(w)
<1>1. c \in Entities /\ c \in EntitiesOf(w)
  BY RangeOfSeq DEF DataInv, AttachInv, TypeInv, TypeOK, CollectInLoop, Collect, Current, InLoop
<1>2. \A e \in Data : level'[e] = level[e]
  BY <1>1, KindsAssumption
     DEF Collect, Data, Entities, DataInv, AttachInv, TypeInv, TypeOK
<1>3. \A v \in Waiters : \A e \in reported'[v] :
        e \in reported[v] \/ (v = w /\ e = c /\ level[e] > 0)
  BY <1>1 DEF Collect, Ready, DataInv, AttachInv, TypeInv, TypeOK
<1>4. Untaken'
  BY <1>1, <1>2, <1>3 DEF DataInv, Untaken
<1>5. BelowBound'
  BY <1>2 DEF Collect, notifierVars, DataInv, BelowBound, Data
<1> QED BY <1>4, <1>5

LEMMA DataTake ==
  ASSUME DataInv, SingleTaker, NEW w \in Waiters, NEW e \in Entities, Take(w, e)
  PROVE  Untaken' /\ BelowBound'
<1>t. /\ level \in [Entities -> Nat] /\ reported \in [Waiters -> SUBSET Entities]
      /\ MaxEvents \in Nat
  BY BoundsAssumption DEF DataInv, AttachInv, TypeInv, TypeOK
<1>1. /\ wpc[w] = "idle" /\ e \in reported[w] /\ e \in EntitiesOf(w) /\ e \in Data
      /\ level[e] > 0
      /\ level' = [level EXCEPT ![e] = @ - 1]
      /\ reported' = [reported EXCEPT ![w] = @ \ {e}]
      /\ UNCHANGED notifierVars
  BY DEF Take, SingleTaker, Ready, Data, Entities
<1>2. ASSUME NEW v \in Waiters, NEW d \in Data, d \in reported'[v]
      PROVE  d \in EntitiesOf(v) /\ level'[d] > 0
  <2>1. d \in reported[v] /\ (v = w => d # e)
    BY <1>t, <1>1, <1>2
  <2>2. d \in EntitiesOf(v) /\ level[d] > 0
    BY <2>1 DEF DataInv, Untaken
  <2>3. d # e
    BY <1>1, <2>1, <2>2 DEF SingleTaker
  <2>4. level'[d] = level[d]
    BY <1>t, <1>1, <2>3 DEF Data, Entities
  <2> QED BY <2>2, <2>4
<1>3. Untaken'
  BY <1>2 DEF Untaken
<1>4. \A d \in Entities : level'[d] \in Nat /\ level'[d] <= level[d]
  BY <1>t, <1>1
<1>5. BelowBound'
  <2> SUFFICES ASSUME NEW n \in Notifiers, npc[n] = "set", nent[n] \in Events
               PROVE  level'[nent[n]] < MaxEvents
    BY <1>1 DEF BelowBound, notifierVars
  <2>1. level[nent[n]] < MaxEvents /\ nent[n] \in Entities
    BY DEF DataInv, BelowBound, Entities
  <2> QED BY <1>t, <1>4, <2>1
<1> QED BY <1>3, <1>5

\* What a notifier raises is ready, and nobody else is inside its Trigger.
LEMMA DataRaised ==
  ASSUME DataInv, CountersFit, NEW n \in Notifiers, NEW e \in Entities,
         level' = [level EXCEPT ![e] = Raised(e)],
         UNCHANGED reported,
         e \in Events => npc[n] = "set" /\ nent[n] = e,
         npc'[n] # "set",
         \A m \in Notifiers \ {n} : npc'[m] = npc[m] /\ nent'[m] = nent[m]
  PROVE  Untaken' /\ BelowBound'
<1>t. /\ level \in [Entities -> Nat]
      /\ MaxEvents \in Nat /\ EventModulus \in Nat \ {0}
  BY BoundsAssumption DEF DataInv, AttachInv, TypeInv, TypeOK
<1>1. Raised(e) > 0
  <2>1. CASE e \in Events
    <3>1. level[e] < MaxEvents
      BY <2>1 DEF DataInv, BelowBound
    <3>2. level[e] + 1 < EventModulus /\ level[e] + 1 \in Nat
      BY <1>t, <3>1 DEF CountersFit
    <3>3. (level[e] + 1) % EventModulus = level[e] + 1
      BY <1>t, <3>2
    <3>4. Raised(e) = level[e] + 1
      BY <2>1, <3>3, KindsAssumption DEF Raised
    <3> QED BY <1>t, <3>4
  <2>2. CASE e \notin Events
    BY <1>t, <2>2 DEF Raised, Entities
  <2> QED BY <2>1, <2>2
<1>2. \A d \in Entities : d # e => level'[d] = level[d]
  BY <1>t
<1>3. level'[e] > 0
  BY <1>t, <1>1
<1>4. Untaken'
  BY <1>2, <1>3 DEF DataInv, Untaken, Data, Entities
<1>5. BelowBound'
  <2> SUFFICES ASSUME NEW m \in Notifiers, npc'[m] = "set", nent'[m] \in Events
               PROVE  level'[nent'[m]] < MaxEvents
    BY DEF BelowBound
  <2>1. m # n /\ npc[m] = "set" /\ nent'[m] = nent[m]
    OBVIOUS
  <2>2. nent[m] # e
    BY <2>1 DEF DataInv, AttachInv, TriggerOwns
  <2>3. level[nent[m]] < MaxEvents
    BY <2>1 DEF DataInv, BelowBound
  <2> QED BY <1>2, <2>1, <2>2, <2>3 DEF Entities
<1> QED BY <1>4, <1>5

LEMMA DataWaiter ==
  ASSUME DataInv, SingleTaker, NEW w \in Waiters,
         \/ WaiterStep(w) \/ BeginWait(w) \/ SpuriousWakeup(w) \/ Timeout(w)
         \/ CreateWaitSet(w) \/ DestroyWaitSet(w)
         \/ \E e \in Entities : Take(w, e)
  PROVE  Untaken' /\ BelowBound'
<1>1. CASE BeginWait(w)
  <2>1. \A v \in Waiters : \A e \in reported'[v] : e \in reported[v]
    BY <1>1 DEF BeginWait, DataInv, AttachInv, TypeInv, TypeOK
  <2> QED BY <1>1, <2>1 DEF BeginWait, notifierVars, DataInv, Untaken, BelowBound
<1>2. CASE Collect(w)
  BY <1>2, DataCollect
<1>3. CASE \E e \in Entities : Take(w, e)
  BY <1>3, DataTake
<1>4. CASE \/ Attach(w) \/ LockCondition(w) \/ CheckNotReady(w) \/ CheckReady(w)
           \/ Block(w) \/ Relock(w) \/ Detach(w) \/ Return(w)
           \/ SpuriousWakeup(w) \/ Timeout(w) \/ CreateWaitSet(w) \/ DestroyWaitSet(w)
  <2>1. UNCHANGED <<level, reported, notifierVars>>
    BY <1>4 DEF Attach, LockCondition, CheckNotReady, CheckReady, Block, Relock, Detach,
                Return, SpuriousWakeup, Timeout, CreateWaitSet, DestroyWaitSet, waiterVars
  <2> QED BY <2>1, DataHeld DEF notifierVars
<1> QED BY <1>1, <1>2, <1>3, <1>4 DEF WaiterStep

LEMMA DataNotifier ==
  ASSUME DataInv, CountersFit, NEW n \in Notifiers,
         \/ NotifierStep(n)
         \/ \E e \in Entities : Enqueue(n, e) \/ TriggerLock(n, e)
  PROVE  Untaken' /\ BelowBound'
<1>t. /\ npc \in [Notifiers -> NotifierPCs]
      /\ nent \in [Notifiers -> Entities \cup {NoEntity}]
  BY DEF DataInv, AttachInv, TypeInv, TypeOK
<1>1. CASE GetAttached(n) \/ NotifyQueue(n) \/ TouchFreed(n) \/ TriggerNotify(n)
  <2>1. UNCHANGED <<level, reported>>
    BY <1>1 DEF GetAttached, NotifyQueue, TouchFreed, TriggerNotify, waiterVars
  <2>2. /\ npc'[n] # "set"
        /\ \A m \in Notifiers \ {n} : npc'[m] = npc[m] /\ nent'[m] = nent[m]
    BY <1>t, <1>1 DEF GetAttached, NotifyQueue, TouchFreed, TriggerNotify, Leave
  <2> QED BY <2>1, <2>2, DataHeld
<1>2. ASSUME NEW e \in Entities, Enqueue(n, e)
      PROVE  Untaken' /\ BelowBound'
  <2>1. /\ npc'[n] # "set" /\ e \notin Events
        /\ \A m \in Notifiers \ {n} : npc'[m] = npc[m] /\ nent'[m] = nent[m]
        /\ level' = [level EXCEPT ![e] = Raised(e)] /\ UNCHANGED reported
    BY <1>t, <1>2, KindsAssumption DEF Enqueue, waiterVars
  <2> QED BY <2>1, DataRaised
<1>3. ASSUME NEW e \in Entities, TriggerLock(n, e)
      PROVE  Untaken' /\ BelowBound'
  <2>1. /\ npc'[n] = "set" /\ nent'[n] = e
        /\ e \in Events => level[e] < MaxEvents
        /\ \A m \in Notifiers \ {n} : npc'[m] = npc[m] /\ nent'[m] = nent[m]
        /\ UNCHANGED <<level, reported>>
    BY <1>t, <1>3 DEF TriggerLock, waiterVars
  <2>2. Untaken'
    BY <2>1 DEF DataInv, Untaken
  <2>3. BelowBound'
    BY <2>1 DEF DataInv, BelowBound
  <2> QED BY <2>2, <2>3
<1>4. CASE TriggerDetached(n) \/ TriggerAttached(n)
  <2>1. /\ npc[n] = "set" /\ npc'[n] # "set"
        /\ \A m \in Notifiers \ {n} : npc'[m] = npc[m] /\ nent'[m] = nent[m]
        /\ level' = [level EXCEPT ![nent[n]] = Raised(nent[n])] /\ UNCHANGED reported
    BY <1>t, <1>4 DEF TriggerDetached, TriggerAttached, Leave, waiterVars
  <2>2. nent[n] \in Entities
    BY <2>1 DEF DataInv, AttachInv, TypeInv, NotifierTyped, Entities
  <2> QED BY <2>1, <2>2, DataRaised
<1> QED BY <1>1, <1>2, <1>3, <1>4 DEF NotifierStep

LEMMA DataStep ==
  ASSUME SingleTaker, CountersFit
  PROVE  DataInv /\ [Next]_vars => DataInv'
<1> SUFFICES ASSUME DataInv, [Next]_vars PROVE DataInv'
  OBVIOUS
<1>1. AttachInv'
  BY AttachStep DEF DataInv
<1>2. CASE Next
  BY <1>1, <1>2, DataWaiter, DataNotifier DEF Next, DataInv
<1>3. CASE UNCHANGED vars
  BY <1>1, <1>3, DataHeld DEF vars, waiterVars, notifierVars, DataInv
<1> QED BY <1>2, <1>3

\* What rmw_wait leaves in the arrays can be taken, if nobody but its caller
\* takes and no event is triggered as often as its counter counts: neither
\* the pops of others nor the wrap of triggered_count_ empties it before.
THEOREM ReportedStays ==
  ASSUME SingleTaker, CountersFit
  PROVE  Spec => []ReportedCanBeTaken
<1>1. Init => DataInv
  BY AttachInit DEF Init, DataInv, Untaken, BelowBound
<1>2. DataInv => ReportedCanBeTaken
  BY DEF DataInv, Untaken, ReportedCanBeTaken, Ready, Data
<1> QED BY <1>1, <1>2, DataStep, PTL DEF Spec
==============================================================================
