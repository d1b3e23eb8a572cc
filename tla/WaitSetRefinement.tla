-------------------------- MODULE WaitSetRefinement --------------------------
(***************************************************************************)
(* WaitSet implements WaitPromise.  Attaching, has_data and the sleep are  *)
(* one abstract phase; the detach loop is the looking.                     *)
(***************************************************************************)
EXTENDS WaitSet

phaseBar == [w \in Waiters |->
  CASE wpc[w] = "idle" -> "idle"
    [] wpc[w] \in {"attach", "check", "waiting", "relock"} -> "waiting"
    [] OTHER -> IF timedOut[w] THEN "timeout" ELSE "ready"]

\* the entities behind the position of the detach loop
seenBar == [w \in Waiters |->
  IF wpc[w] \in {"detach", "collect"}
  THEN {Order[w][i] : i \in 1 .. (idx[w] - 1)}
  ELSE {}]

Promise == INSTANCE WaitPromise
  WITH phase <- phaseBar, seen <- seenBar,
       Members <- [w \in Waiters |-> EntitiesOf(w)]

\* rmw_wait keeps the promise of WaitPromise: every step of a waiter, a
\* notifier or a taker is a step of the promise or invisible to the caller,
\* and a call returns whenever an entity of it stays ready.
KeepsPromise == Promise!Spec
==============================================================================
