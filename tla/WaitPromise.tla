----------------------------- MODULE WaitPromise -----------------------------
(***************************************************************************)
(* What rmw_wait promises its caller (rmw/rmw.h as the code in rmw.cpp     *)
(* keeps it): a call ends when one of its entities stays ready or when its *)
(* timeout expires, and then looks at each entity once and reports those   *)
(* that are ready.  There are no wait sets, pointers, locks or notifiers:  *)
(* WaitSet is shown to implement this specification.                       *)
(***************************************************************************)
EXTENDS Naturals

CONSTANTS
  Waiters, Queues, Guards, Events,
  Members,          \* the entities each waiter waits on
  Timed, EventModulus, ConcurrentTakes

Entities == Queues \cup Guards \cup Events

VARIABLES
  phase,     \* "idle", "waiting", "ready" or "timeout", the last two ending
  seen,      \* the entities that an ending call has looked at
  reported,  \* those it found ready
  level      \* messages queued, or triggers counted, for each entity

vars == <<phase, seen, reported, level>>

Init ==
  /\ phase = [w \in Waiters |-> "idle"]
  /\ seen = [w \in Waiters |-> {}]
  /\ reported = [w \in Waiters |-> {}]
  /\ level = [e \in Entities |-> 0]

Ready(e) == level[e] > 0

Begin(w) ==
  /\ phase[w] = "idle"
  /\ phase' = [phase EXCEPT ![w] = "waiting"]
  /\ reported' = [reported EXCEPT ![w] = {}]
  /\ UNCHANGED <<seen, level>>

\* A waiting call ends for e ...
EndReady(w, e) ==
  /\ phase[w] = "waiting"
  /\ e \in Members[w]
  /\ Ready(e)
  /\ phase' = [phase EXCEPT ![w] = "ready"]
  /\ UNCHANGED <<seen, reported, level>>

\* ... or because its time is over
EndTimeout(w) ==
  /\ phase[w] = "waiting"
  /\ w \in Timed
  /\ phase' = [phase EXCEPT ![w] = "timeout"]
  /\ UNCHANGED <<seen, reported, level>>

\* It reports e if e is ready, and consumes the trigger of a guard condition.
Look(w, e) ==
  /\ phase[w] \in {"ready", "timeout"}
  /\ e \in Members[w]
  /\ seen' = [seen EXCEPT ![w] = @ \cup {e}]
  /\ reported' = [reported EXCEPT ![w] = IF Ready(e) THEN @ \cup {e} ELSE @]
  /\ level' = [level EXCEPT ![e] = IF e \in Guards THEN 0 ELSE @]
  /\ UNCHANGED phase

Return(w) ==
  /\ phase[w] \in {"ready", "timeout"}
  /\ seen[w] = Members[w]
  /\ phase' = [phase EXCEPT ![w] = "idle"]
  /\ seen' = [seen EXCEPT ![w] = {}]
  /\ UNCHANGED <<reported, level>>

Raise(e) ==
  /\ level' = [level EXCEPT ![e] =
                 IF e \in Guards THEN 1
                 ELSE IF e \in Events THEN (@ + 1) % EventModulus ELSE @ + 1]
  /\ UNCHANGED <<phase, seen, reported>>

Take(w, e) ==
  /\ e \in Members[w] \ Guards
  /\ ConcurrentTakes \/ (phase[w] = "idle" /\ e \in reported[w])
  /\ Ready(e)
  /\ level' = [level EXCEPT ![e] = @ - 1]
  /\ reported' = [reported EXCEPT ![w] = IF phase[w] = "idle" THEN @ \ {e} ELSE @]
  /\ UNCHANGED <<phase, seen>>

Next ==
  \/ \E w \in Waiters :
       \/ Begin(w) \/ EndTimeout(w) \/ Return(w)
       \/ \E e \in Entities : EndReady(w, e) \/ Look(w, e) \/ Take(w, e)
  \/ \E e \in Entities : Raise(e)

\* An entity that stays ready ends the wait, and a wait that ends returns.
Fairness ==
  \A w \in Waiters :
    /\ \A e \in Members[w] : WF_vars(EndReady(w, e))
    /\ \A e \in Members[w] : WF_vars(Look(w, e) /\ e \notin seen[w])
    /\ WF_vars(Return(w))

Spec == Init /\ [][Next]_vars /\ Fairness
==============================================================================
