------------------------- MODULE MCWaitSetRefinement -------------------------
(***************************************************************************)
(* An instance of WaitSetRefinement for TLC: one waiter on all three kinds *)
(* of entity.                                                              *)
(***************************************************************************)
EXTENDS WaitSetRefinement

CONSTANTS w1, sub, guard, event

OneWaiter == [w \in {w1} |-> <<sub, guard, event>>]
==============================================================================
