----------------------------- MODULE CallPromise -----------------------------
(***************************************************************************)
(* What a service client and its server promise together while nothing     *)
(* goes wrong: requests are executed one at a time, in the order in which  *)
(* they were queued, each once, and each is answered before the next is    *)
(* executed.  Once there is trouble nothing is promised.                   *)
(***************************************************************************)
EXTENDS Naturals, Sequences, Functions

CONSTANTS Requests, Nothing

VARIABLES
  waiting,    \* requests queued and not executed
  executing,  \* the request that the server's application has, or Nothing
  answered,   \* requests whose responses have reached the client
  trouble

vars == <<waiting, executing, answered, trouble>>

Init ==
  /\ waiting = <<>>
  /\ executing = Nothing
  /\ answered = <<>>
  /\ trouble = FALSE

Send(r) ==
  /\ r \notin Range(waiting \o answered) \cup {executing}
  /\ waiting' = Append(waiting, r)
  /\ UNCHANGED <<executing, answered>>

Execute ==
  /\ waiting # <<>>
  /\ executing = Nothing
  /\ executing' = Head(waiting)
  /\ waiting' = Tail(waiting)
  /\ UNCHANGED answered

Answer ==
  /\ executing # Nothing
  /\ answered' = Append(answered, executing)
  /\ executing' = Nothing
  /\ UNCHANGED waiting

Works == ~trouble /\ trouble' = FALSE

Next ==
  \/ trouble' = TRUE
  \/ Works /\ ((\E r \in Requests : Send(r)) \/ Execute \/ Answer)

\* What waits is executed and what is executed is answered.
Spec == Init /\ [][Next]_vars /\ WF_vars(Works /\ Execute) /\ WF_vars(Works /\ Answer)
==============================================================================
