---------------------------- MODULE ReceiveQueue -----------------------------
(***************************************************************************)
(* What a subscription promises: messages wait in the order of arrival and *)
(* are handed out in that order, each once, while it is open; after it has *)
(* been closed those that wait, or still arrive, are discarded.  There are *)
(* no threads, locks or buffers: Subscription is shown to implement this.  *)
(***************************************************************************)
EXTENDS Naturals, Sequences

VARIABLES
  arrived,  \* how many messages have arrived
  pending,  \* those that wait
  handed,   \* those handed out
  open

vars == <<arrived, pending, handed, open>>

Init ==
  /\ arrived = 0
  /\ pending = <<>>
  /\ handed = <<>>
  /\ open = TRUE

\* A message arrives; a closed subscription may not keep it.
Arrive ==
  /\ arrived' = arrived + 1
  /\ \/ pending' = Append(pending, arrived')
     \/ ~open /\ UNCHANGED pending
  /\ UNCHANGED <<handed, open>>

HandOut ==
  /\ open
  /\ pending # <<>>
  /\ handed' = Append(handed, Head(pending))
  /\ pending' = Tail(pending)
  /\ UNCHANGED <<arrived, open>>

Close ==
  /\ open
  /\ open' = FALSE
  /\ UNCHANGED <<arrived, pending, handed>>

\* The oldest message, or all that wait.
Discard ==
  /\ ~open
  /\ pending # <<>>
  /\ pending' \in {Tail(pending), <<>>}
  /\ UNCHANGED <<arrived, handed, open>>

Next == Arrive \/ HandOut \/ Close \/ Discard

Spec == Init /\ [][Next]_vars
==============================================================================
