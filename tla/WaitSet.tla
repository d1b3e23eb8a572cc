------------------------------- MODULE WaitSet -------------------------------
(***************************************************************************)
(* rmw_wait and the threads that end it: internal/wait_set.hpp, the wait   *)
(* set side of subscriber.hpp, service.hpp, client.hpp, guard_condition.hpp*)
(* and event.hpp, and rmw.cpp from rmw_create_wait_set to rmw_wait.        *)
(*                                                                         *)
(* A waiter is a thread that calls rmw_wait on its own wait set with the   *)
(* same entities every time; w names both the thread and its WaitSet       *)
(* object.  A notifier is any thread that makes an entity ready: an eCAL   *)
(* receive, request, response or drop callback, or a user thread that      *)
(* triggers a guard condition.                                             *)
(*                                                                         *)
(* Two locks need no variable.  The condition mutex of w is held across    *)
(* steps by w alone, while it evaluates has_data; a notifier locks and     *)
(* unlocks it within one step.  The internal mutex of a guard condition or *)
(* of an event is held across steps by the notifier inside Trigger.        *)
(***************************************************************************)
EXTENDS Naturals, Sequences, Functions

CONSTANTS
  Waiters,          \* threads that call rmw_wait, and their wait sets
  Notifiers,        \* threads that make entities ready
  Queues,           \* subscriptions, services and clients: a queue and a pointer
  Guards,           \* guard conditions: a flag under internal_mutex_
  Events,           \* events: an 8 bit counter under internal_mutex_
  Order,            \* the entities a waiter passes, in the order of the loops
  Timed,            \* the waiters that pass a wait_timeout
  EventModulus,     \* 2^8 in the code: triggered_count_ is an atomic_uint8_t
  ConcurrentTakes,  \* other threads take while a waiter is inside rmw_wait
  NoWaitSet,        \* nullptr
  NoEntity,         \* a notifier that has nothing to do
  MaxQueue,         \* bound: messages queued in one entity
  MaxEvents         \* bound: an event is triggered only below this count

Entities == Queues \cup Guards \cup Events

ASSUME KindsAssumption ==
  /\ Queues \cap Guards = {}
  /\ Queues \cap Events = {}
  /\ Guards \cap Events = {}
  /\ NoEntity \notin Entities

ASSUME ThreadsAssumption ==
  /\ NoWaitSet \notin Waiters
  /\ Order \in [Waiters -> Seq(Entities)]
  /\ Timed \subseteq Waiters
  /\ ConcurrentTakes \in BOOLEAN

ASSUME BoundsAssumption ==
  /\ EventModulus \in Nat \ {0}
  /\ MaxQueue \in Nat
  /\ MaxEvents \in Nat

EntitiesOf(w) == Range(Order[w])

VARIABLES
  wpc,       \* where a waiter is inside rmw_wait
  idx,       \* its position in the loop it is in
  timedOut,  \* the local timed_out of rmw_wait
  reported,  \* the entries of the caller's arrays that are not nullptr
  alive,     \* the WaitSet object exists
  attached,  \* wait_set_ of every entity
  level,     \* queue length, triggered_ as 0 or 1, or triggered_count_
  npc,       \* where a notifier is
  nent,      \* the entity it makes ready
  nptr       \* its copy of that entity's wait_set_

waiterVars   == <<wpc, idx, timedOut, reported>>
notifierVars == <<npc, nent, nptr>>
vars == <<waiterVars, alive, attached, level, notifierVars>>

Init ==
  /\ wpc = [w \in Waiters |-> "idle"]
  /\ idx = [w \in Waiters |-> 1]
  /\ timedOut = [w \in Waiters |-> FALSE]
  /\ reported = [w \in Waiters |-> {}]
  /\ alive = [w \in Waiters |-> TRUE]
  /\ attached = [e \in Entities |-> NoWaitSet]
  /\ level = [e \in Entities |-> 0]
  /\ npc = [n \in Notifiers |-> "idle"]
  /\ nent = [n \in Notifiers |-> NoEntity]
  /\ nptr = [n \in Notifiers |-> NoWaitSet]

-----------------------------------------------------------------------------
(* The locks, and what the code asks under them.                           *)

\* Mutant: the condition mutex is not taken to notify.
NotifyWithoutMutex(w) == TRUE

ConditionMutexFree(w) == wpc[w] # "check"

\* Mutant: AttachWaitSet and DetachWaitSet do not take internal_mutex_.
PointerWithoutMutex(e) == TRUE

InternalMutexFree(e) ==
  \A n \in Notifiers : nent[n] = e => npc[n] \notin {"set", "notify"}

\* HasData, HasRequest, HasResponse and Triggered
Ready(e) == level[e] > 0

\* emplace on a queue, triggered_ = true, triggered_count_++ with its wrap
Raised(e) ==
  IF e \in Queues THEN level[e] + 1
  ELSE IF e \in Guards THEN 1
  ELSE (level[e] + 1) % EventModulus

\* A notifier's callback or Trigger returns: its locals are gone.
Leave(n) ==
  /\ npc' = [npc EXCEPT ![n] = "idle"]
  /\ nent' = [nent EXCEPT ![n] = NoEntity]
  /\ nptr' = [nptr EXCEPT ![n] = NoWaitSet]

\* the waiting thread that condition.notify_all wakes, if it waits
Notified(w) == [wpc EXCEPT ![w] = IF @ = "waiting" THEN "relock" ELSE @]

-----------------------------------------------------------------------------
(* The waiter: rmw_wait, one step per lock it takes.                       *)

\* The loop over the entities of w has an entry left, and its entity.
InLoop(w) == idx[w] <= Len(Order[w])
Current(w) == Order[w][idx[w]]

\* rcl does not add one entity to two waits at the same time.
BeginWait(w) ==
  /\ wpc[w] = "idle"
  /\ alive[w]
  /\ \A v \in Waiters \ {w} : 
       wpc[v] # "idle" => EntitiesOf(v) \cap EntitiesOf(w) = {}
  /\ wpc' = [wpc EXCEPT ![w] = "attach"]
  /\ idx' = [idx EXCEPT ![w] = 1]
  /\ timedOut' = [timedOut EXCEPT ![w] = FALSE]
  /\ reported' = [reported EXCEPT ![w] = {}]
  /\ UNCHANGED <<alive, attached, level, notifierVars>>

\* attach_wait_set, one entity: wait_set_ = ecal_ws
Attach(w) ==
  /\ wpc[w] = "attach"
  /\ InLoop(w)
  /\ InternalMutexFree(Current(w))
  /\ attached' = [attached EXCEPT ![Current(w)] = w]
  /\ idx' = [idx EXCEPT ![w] = @ + 1]
  /\ UNCHANGED <<wpc, timedOut, reported, alive, level, notifierVars>>

\* the unique_lock on condition_mutex
LockCondition(w) ==
  /\ wpc[w] = "attach"
  /\ ~InLoop(w)
  /\ wpc' = [wpc EXCEPT ![w] = "check"]
  /\ idx' = [idx EXCEPT ![w] = 1]
  /\ UNCHANGED <<timedOut, reported, alive, attached, level, notifierVars>>

\* has_data, one entity that is not ready
CheckNotReady(w) ==
  /\ wpc[w] = "check"
  /\ InLoop(w)
  /\ ~Ready(Current(w))
  /\ idx' = [idx EXCEPT ![w] = @ + 1]
  /\ UNCHANGED <<wpc, timedOut, reported, alive, attached, level, notifierVars>>

\* has_data returns true, and lock.unlock()
CheckReady(w) ==
  /\ wpc[w] = "check"
  /\ InLoop(w)
  /\ Ready(Current(w))
  /\ wpc' = [wpc EXCEPT ![w] = "detach"]
  /\ idx' = [idx EXCEPT ![w] = 1]
  /\ UNCHANGED <<timedOut, reported, alive, attached, level, notifierVars>>

\* has_data returns false: Wait releases the mutex and blocks in one step
Block(w) ==
  /\ wpc[w] = "check"
  /\ ~InLoop(w)
  /\ wpc' = [wpc EXCEPT ![w] = "waiting"]
  /\ UNCHANGED <<idx, timedOut, reported, alive, attached, level, notifierVars>>

\* a condition variable may wake with no notify
SpuriousWakeup(w) ==
  /\ wpc[w] = "waiting"
  /\ wpc' = [wpc EXCEPT ![w] = "relock"]
  /\ UNCHANGED <<idx, timedOut, reported, alive, attached, level, notifierVars>>

\* wait_for returns cv_status::timeout
Timeout(w) ==
  /\ w \in Timed
  /\ wpc[w] = "waiting"
  /\ wpc' = [wpc EXCEPT ![w] = "relock"]
  /\ timedOut' = [timedOut EXCEPT ![w] = TRUE]
  /\ UNCHANGED <<idx, reported, alive, attached, level, notifierVars>>

\* Wait returns with the mutex held: has_data again, or break and unlock
Relock(w) ==
  /\ wpc[w] = "relock"
  /\ wpc' = [wpc EXCEPT ![w] = IF timedOut[w] THEN "detach" ELSE "check"]
  /\ idx' = [idx EXCEPT ![w] = 1]
  /\ UNCHANGED <<timedOut, reported, alive, attached, level, notifierVars>>

\* Mutant: only a ready entity is detached.
DetachReady(w) ==
  /\ wpc[w] = "detach"
  /\ InLoop(w)
  /\ InternalMutexFree(Current(w))
  /\ attached' = IF Ready(Current(w))
                 THEN [attached EXCEPT ![Current(w)] = NoWaitSet] ELSE attached
  /\ wpc' = [wpc EXCEPT ![w] = "collect"]
  /\ UNCHANGED <<idx, timedOut, reported, alive, level, notifierVars>>

\* detach_wait_set, one entity: wait_set_ = nullptr ...
Detach(w) ==
  /\ wpc[w] = "detach"
  /\ InLoop(w)
  /\ InternalMutexFree(Current(w))
  /\ attached' = [attached EXCEPT ![Current(w)] = NoWaitSet]
  /\ wpc' = [wpc EXCEPT ![w] = "collect"]
  /\ UNCHANGED <<idx, timedOut, reported, alive, level, notifierVars>>

\* Mutants of Collect: no entry becomes nullptr; after a timeout every entry
\* does; an event's triggers are consumed like a guard condition's.
CollectWith(w, kept, emptied) ==
  /\ wpc[w] = "collect"
  /\ reported' = [reported EXCEPT ![w] = IF kept THEN @ \cup {Current(w)} ELSE @]
  /\ level' = [level EXCEPT ![Current(w)] = IF Current(w) \in emptied THEN 0 ELSE @]
  /\ wpc' = [wpc EXCEPT ![w] = "detach"]
  /\ idx' = [idx EXCEPT ![w] = @ + 1]
  /\ UNCHANGED <<timedOut, alive, attached, notifierVars>>
CollectAll(w) == CollectWith(w, TRUE, Guards)
CollectUntimed(w) == CollectWith(w, Ready(Current(w)) /\ ~timedOut[w], Guards)
CollectEvents(w) == CollectWith(w, Ready(Current(w)), Guards \cup Events)

\* ... then, with no lock kept, the entry stays or becomes nullptr.  A guard
\* condition's flag is exchanged for false; the others are only read.
Collect(w) ==
  LET e == Current(w) IN
  /\ wpc[w] = "collect"
  /\ reported' = [reported EXCEPT ![w] = IF Ready(e) THEN @ \cup {e} ELSE @]
  /\ level' = [level EXCEPT ![e] = IF e \in Guards THEN 0 ELSE @]
  /\ wpc' = [wpc EXCEPT ![w] = "detach"]
  /\ idx' = [idx EXCEPT ![w] = @ + 1]
  /\ UNCHANGED <<timedOut, alive, attached, notifierVars>>

\* return timed_out ? RMW_RET_TIMEOUT : RMW_RET_OK
Return(w) ==
  /\ wpc[w] = "detach"
  /\ ~InLoop(w)
  /\ wpc' = [wpc EXCEPT ![w] = "idle"]
  /\ idx' = [idx EXCEPT ![w] = 1]
  /\ timedOut' = [timedOut EXCEPT ![w] = FALSE]
  /\ UNCHANGED <<reported, alive, attached, level, notifierVars>>

WaiterStep(w) ==
  \/ Attach(w) \/ LockCondition(w) \/ CheckNotReady(w) \/ CheckReady(w)
  \/ Block(w) \/ Relock(w) \/ Detach(w) \/ Collect(w) \/ Return(w)

-----------------------------------------------------------------------------
(* The wait set object, and the executor that takes what rmw_wait reported.*)

CreateWaitSet(w) ==
  /\ ~alive[w]
  /\ alive' = [alive EXCEPT ![w] = TRUE]
  /\ UNCHANGED <<waiterVars, attached, level, notifierVars>>

\* rmw_destroy_wait_set deletes the object with no check of who may use it
DestroyWaitSet(w) ==
  /\ wpc[w] = "idle"
  /\ alive[w]
  /\ alive' = [alive EXCEPT ![w] = FALSE]
  /\ UNCHANGED <<waiterVars, attached, level, notifierVars>>

\* rmw_take and its kin, rmw_take_event: by the executor that was told, or,
\* with ConcurrentTakes, by another of its threads at any time
Take(w, e) ==
  /\ e \in EntitiesOf(w) \ Guards
  /\ ConcurrentTakes \/ (wpc[w] = "idle" /\ e \in reported[w])
  /\ Ready(e)
  /\ level' = [level EXCEPT ![e] = @ - 1]
  /\ reported' = [reported EXCEPT ![w] = IF wpc[w] = "idle" THEN @ \ {e} ELSE @]
  /\ UNCHANGED <<wpc, idx, timedOut, alive, attached, notifierVars>>

-----------------------------------------------------------------------------
(* Notifiers on a subscription, a service or a client: the queue, then the *)
(* pointer, then the condition mutex, each under a lock of its own.        *)

\* Mutant: the callback does not call NotifyWaitSet.
EnqueueQuietly(n, e) ==
  /\ npc[n] = "idle"
  /\ e \in Queues
  /\ level[e] < MaxQueue
  /\ level' = [level EXCEPT ![e] = Raised(e)]
  /\ UNCHANGED <<waiterVars, alive, attached, notifierVars>>

Enqueue(n, e) ==
  /\ npc[n] = "idle"
  /\ e \in Queues
  /\ level[e] < MaxQueue
  /\ level' = [level EXCEPT ![e] = Raised(e)]
  /\ npc' = [npc EXCEPT ![n] = "get"]
  /\ nent' = [nent EXCEPT ![n] = e]
  /\ UNCHANGED <<waiterVars, alive, attached, nptr>>

\* GetAttachedWaitSet copies the pointer and releases wait_set_mutex_
GetAttached(n) ==
  /\ npc[n] = "get"
  /\ \/ /\ attached[nent[n]] = NoWaitSet
        /\ Leave(n)
     \/ /\ attached[nent[n]] # NoWaitSet
        /\ nptr' = [nptr EXCEPT ![n] = attached[nent[n]]]
        /\ npc' = [npc EXCEPT ![n] = "lock"]
        /\ UNCHANGED nent
  /\ UNCHANGED <<waiterVars, alive, attached, level>>

\* the lock_guard on condition_mutex, and notify_all under it
NotifyQueue(n) ==
  /\ npc[n] = "lock"
  /\ alive[nptr[n]]
  /\ ConditionMutexFree(nptr[n])
  /\ wpc' = Notified(nptr[n])
  /\ Leave(n)
  /\ UNCHANGED <<idx, timedOut, reported, alive, attached, level>>

\* The copied pointer is stale and its WaitSet deleted: locking it is
\* undefined.  Either nothing happens or the thread never comes back.
TouchFreed(n) ==
  /\ npc[n] = "lock"
  /\ ~alive[nptr[n]]
  /\ \/ Leave(n)
     \/ /\ npc' = [npc EXCEPT ![n] = "lost"]
        /\ UNCHANGED <<nent, nptr>>
  /\ UNCHANGED <<waiterVars, alive, attached, level>>

-----------------------------------------------------------------------------
(* Notifiers on a guard condition or an event: Trigger.                    *)

TriggerLock(n, e) ==
  /\ npc[n] = "idle"
  /\ e \in Guards \cup Events
  /\ e \in Events => level[e] < MaxEvents
  /\ InternalMutexFree(e)
  /\ npc' = [npc EXCEPT ![n] = "set"]
  /\ nent' = [nent EXCEPT ![n] = e]
  /\ UNCHANGED <<waiterVars, alive, attached, level, nptr>>

\* no wait set: raise the flag and leave
TriggerDetached(n) ==
  /\ npc[n] = "set"
  /\ attached[nent[n]] = NoWaitSet
  /\ level' = [level EXCEPT ![nent[n]] = Raised(nent[n])]
  /\ Leave(n)
  /\ UNCHANGED <<waiterVars, alive, attached>>

\* lock condition_mutex, raise the flag, unlock
TriggerAttached(n) ==
  LET e == nent[n] IN
  /\ npc[n] = "set"
  /\ attached[e] # NoWaitSet
  /\ ConditionMutexFree(attached[e])
  /\ level' = [level EXCEPT ![e] = Raised(e)]
  /\ nptr' = [nptr EXCEPT ![n] = attached[e]]
  /\ npc' = [npc EXCEPT ![n] = "notify"]
  /\ UNCHANGED <<waiterVars, alive, attached, nent>>

\* notify_all, then internal_mutex_ is released
TriggerNotify(n) ==
  /\ npc[n] = "notify"
  /\ wpc' = Notified(nptr[n])
  /\ Leave(n)
  /\ UNCHANGED <<idx, timedOut, reported, alive, attached, level>>

NotifierStep(n) ==
  \/ GetAttached(n) \/ NotifyQueue(n) \/ TouchFreed(n)
  \/ TriggerDetached(n) \/ TriggerAttached(n) \/ TriggerNotify(n)

-----------------------------------------------------------------------------

Next ==
  \/ \E w \in Waiters :
       \/ WaiterStep(w)
       \/ BeginWait(w) \/ SpuriousWakeup(w) \/ Timeout(w)
       \/ CreateWaitSet(w) \/ DestroyWaitSet(w)
       \/ \E e \in Entities : Take(w, e)
  \/ \E n \in Notifiers :
       \/ NotifierStep(n)
       \/ \E e \in Entities : Enqueue(n, e) \/ TriggerLock(n, e)

\* A thread that has started a call is scheduled, and gets a mutex that is
\* free again and again.  Nothing obliges anyone to start a call, a timeout
\* to expire or a condition variable to wake by itself.
Fairness ==
  /\ \A w \in Waiters : SF_vars(WaiterStep(w))
  /\ \A n \in Notifiers : SF_vars(NotifierStep(n))

Spec == Init /\ [][Next]_vars /\ Fairness

-----------------------------------------------------------------------------
(* Properties.                                                             *)

WaiterPCs ==
  {"idle", "attach", "check", "waiting", "relock", "detach", "collect"}
NotifierPCs == {"idle", "get", "lock", "set", "notify", "lost"}

\* The variables keep their types: program points, loop positions, pointers
\* and counters of rmw_wait and of the notifying callbacks.
TypeOK ==
  /\ wpc \in [Waiters -> WaiterPCs]
  /\ idx \in [Waiters -> Nat \ {0}]
  /\ timedOut \in [Waiters -> BOOLEAN]
  /\ reported \in [Waiters -> SUBSET Entities]
  /\ alive \in [Waiters -> BOOLEAN]
  /\ attached \in [Entities -> Waiters \cup {NoWaitSet}]
  /\ level \in [Entities -> Nat]
  /\ npc \in [Notifiers -> NotifierPCs]
  /\ nent \in [Notifiers -> Entities \cup {NoEntity}]
  /\ nptr \in [Notifiers -> Waiters \cup {NoWaitSet}]

\* Some notifier of e has still to look up the wait set of e, or has to
\* notify w: w will be woken for e.
OnItsWay(w, e) ==
  \E n \in Notifiers :
    /\ nent[n] = e
    /\ \/ npc[n] = "get"
       \/ npc[n] \in {"lock", "notify"} /\ nptr[n] = w

\* No lost wakeup.  A thread blocked in rmw_wait with one of its entities
\* ready is about to be notified: no interleaving of attach, has_data and
\* wait (rmw.cpp) with enqueue, pointer copy and notify (subscriber.hpp,
\* guard_condition.hpp, ...) leaves it asleep beside data.
NoLostWakeup ==
  \A w \in Waiters, e \in Entities :
    wpc[w] = "waiting" /\ e \in EntitiesOf(w) /\ Ready(e) => OnItsWay(w, e)

\* Trigger of a guard condition or of an event reads wait_set_ and notifies
\* under internal_mutex_, which DetachWaitSet needs too: it never notifies a
\* deleted wait set, nor one that has already returned from rmw_wait.
FlagTriggerSafe ==
  \A n \in Notifiers :
    npc[n] = "notify" =>
      /\ alive[nptr[n]]
      /\ wpc[nptr[n]] # "idle"
      /\ attached[nent[n]] = nptr[n]

\* rmw_wait leaves no pointer behind: when the caller has its arrays back,
\* and so whenever a wait set may be destroyed, no entity points to it, also
\* when a trigger or a callback was running during the detach loop.
NothingLeftAttached ==
  \A w \in Waiters, e \in Entities :
    wpc[w] = "idle" \/ ~alive[w] => attached[e] # w

\* What rmw_wait leaves in the arrays can be taken: until its only taker
\* takes it, a reported subscription, service, client or event has an item.
\* (It needs a single taker and a counter that does not wrap.)
ReportedCanBeTaken ==
  \A w \in Waiters, e \in Queues \cup Events :
    wpc[w] = "idle" /\ e \in reported[w] => Ready(e)

\* The entity will still be tested before this call returns.
ToBeTested(w, e) ==
  /\ e \in EntitiesOf(w)
  /\ wpc[w] \in {"attach", "check", "waiting", "relock"}

\* A trigger that reaches a guard condition while a thread is before the
\* detach loop of rmw_wait ends that wait and is reported by it, also when
\* the wait times out at the same moment, and whoever else takes data.
TriggerReported ==
  \A w \in Waiters, g \in Guards :
    ToBeTested(w, g) /\ Ready(g) ~> wpc[w] = "idle" /\ g \in reported[w]

\* The same for data: with a single taker and a counter that does not wrap,
\* a message, request, response or event that arrives before the detach loop
\* is reported by this call.
DataReported ==
  \A w \in Waiters, e \in Queues \cup Events :
    ToBeTested(w, e) /\ Ready(e) ~> wpc[w] = "idle" /\ e \in reported[w]

==============================================================================
