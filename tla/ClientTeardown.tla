---------------------------- MODULE ClientTeardown ----------------------------
(***************************************************************************)
(* A Client that is destroyed by rmw_destroy_client.  The class has no     *)
(* destructor of its own: its members go in the reverse order of their     *)
(* declaration, the two queues and their mutexes first, and client_, which *)
(* runs OnResponse, behind them.  eCAL is taken to let a callback that has *)
(* begun return before its client is gone, and to make none afterwards.    *)
(*                                                                         *)
(* The queues stay what they were when they were destroyed: the buffers of *)
(* the responses in them are never freed.                                  *)
(***************************************************************************)
EXTENDS Client

VARIABLES
  life,   \* "up", "dying" while eCAL's client outlives the queues, "gone";
          \* "fatal": a callback used what was destroyed
  quiet   \* no request was queued and OnResponse did not run at that time

lifeVars == <<vars, life, quiet>>

LifeInit == Init /\ life = "up" /\ quiet = FALSE

While(phase, step) == life = phase /\ step /\ UNCHANGED <<life, quiet>>

\* Destroyed when no thread is inside rmw_send_request.
DestroyClient ==
  /\ ~crashed
  /\ life = "up"
  /\ \A t \in Senders : holds[t] = NoNumber
  /\ life' = "dying"
  /\ quiet' = (requests = <<>> /\ cpc = "idle")
  /\ UNCHANGED vars

\* OnResponse, new or under way, locks a mutex that is gone: undefined, and
\* the process is given up.
UseDestroyed ==
  /\ life = "dying"
  /\ cpc # "idle" \/ \E s \in Numbers : calls[s] > 0
  /\ life' = "fatal"
  /\ UNCHANGED <<vars, quiet>>

\* No callback runs, and no call gets one any more.
ClientIsGone ==
  /\ life = "dying"
  /\ cpc = "idle"
  /\ life' = "gone"
  /\ UNCHANGED <<vars, quiet>>

LifeNext ==
  \/ While("up", Next)
  \/ DestroyClient
  \/ UseDestroyed
  \/ \E s \in Numbers : While("dying", LoseCall(s))
  \/ ClientIsGone

\* As in Client while it is up.
LifeFairness ==
  /\ \A t \in Senders : WF_lifeVars(While("up", EnqueueRequest(t)))
  /\ WF_lifeVars(While("up", PopLastRequest))
  /\ WF_lifeVars(While("up", PerformNextRequest))
  /\ \A s \in Numbers : SF_lifeVars(While("up", OnResponse(s)))

LifeSpec == LifeInit /\ [][LifeNext]_lifeVars /\ LifeFairness

-----------------------------------------------------------------------------
(* Properties.                                                             *)

\* Every request is answered, unless a call is lost, the process dies or the
\* client is destroyed.
EveryRequestAnswered ==
  \A s \in Numbers :
    s < nextNumber ~> \/ crashed \/ lost \/ life # "up"
                      \/ s \in Range(taken \o responses)

\* A client is destroyed safely when its request queue is empty and
\* OnResponse has returned: no callback comes that would use the queues,
\* unless a request was queued between the steps of an OnResponse before.
\* (It is not enough that every response was taken: OnResponse hands the
\* response over first and pops its request later.)
QuietDestroyIsSafe == quiet /\ ~raced => life # "fatal"
==============================================================================
