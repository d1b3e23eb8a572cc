------------------------------ MODULE MCWaitSet ------------------------------
(***************************************************************************)
(* Instances of WaitSet for TLC.                                           *)
(***************************************************************************)
EXTENDS WaitSet

CONSTANTS w1, w2, sub, guard, event

\* One executor waits on all three kinds of entity.
OneWaiter == [w \in {w1} |-> <<sub, guard, event>>]

\* Two executors share a guard condition (never at the same time).
TwoWaiters == [w \in {w1, w2} |-> IF w = w1 THEN <<sub, guard>> ELSE <<guard, event>>]
==============================================================================
