--------------------------- MODULE ServiceTeardown ----------------------------
(***************************************************************************)
(* A Service that is destroyed by rmw_destroy_service.  The class has no   *)
(* destructor of its own: its members go in the reverse order of their     *)
(* declaration, the two containers and their mutexes first, and service_,  *)
(* which runs the callbacks, behind them.  eCAL is taken to let callbacks  *)
(* that have begun return before its server is gone.                       *)
(*                                                                         *)
(* pending and current stay what they were when they were destroyed.       *)
(***************************************************************************)
EXTENDS Service

VARIABLES
  life,   \* "up", "dying" while eCAL's server outlives the containers, "gone";
          \* "fatal": a callback used what was destroyed
  quiet   \* both containers were empty when the destruction began

lifeVars == <<vars, life, quiet>>

LifeInit == Init /\ life = "up" /\ quiet = FALSE

While(phase, step) == life = phase /\ step /\ UNCHANGED <<life, quiet>>

\* The executor destroys the service between two calls of rmw.
DestroyService ==
  /\ ~crashed
  /\ life = "up"
  /\ notifying = NoFrame
  /\ life' = "dying"
  /\ quiet' = (pending = <<>> /\ current = {})
  /\ UNCHANGED vars

\* OnRequest or its NotifyWaitSet locks a mutex that is gone: undefined, and
\* the process is given up.
UseDestroyed(h) ==
  /\ life = "dying"
  /\ hpc[h] = "notify" \/ (hpc[h] = "idle" /\ nextId < MaxRequests)
  /\ life' = "fatal"
  /\ UNCHANGED <<vars, quiet>>

\* A handler that has its Request needs nothing else of the service.
Finish(h) == WaitForResponse(h) \/ Reply(h)

\* Every callback has returned.
ServerIsGone ==
  /\ life = "dying"
  /\ \A h \in Handlers : hpc[h] = "idle"
  /\ life' = "gone"
  /\ UNCHANGED <<vars, quiet>>

LifeNext ==
  \/ While("up", Next)
  \/ DestroyService
  \/ \E h \in Handlers :
       UseDestroyed(h) \/ While("dying", Finish(h) \/ SpuriousWakeup(h))
  \/ ServerIsGone

\* As in Service while it is up; then handlers are still scheduled.
LifeFairness ==
  /\ \A h \in Handlers : WF_lifeVars(Finish(h) /\ UNCHANGED <<life, quiet>>)
  /\ SF_lifeVars(While("up", TakeRequest))
  /\ \A r \in Ids : SF_lifeVars(While("up", SendResponse(r)))
  /\ WF_lifeVars(While("up", NotifyHandler))
  /\ WF_lifeVars(ServerIsGone)

LifeSpec == LifeInit /\ [][LifeNext]_lifeVars /\ LifeFairness

-----------------------------------------------------------------------------
(* Properties.                                                             *)

\* Every request is answered in the end, unless its answer came before its
\* handler waited, or its handler woke by itself, or the process has crashed
\* (ReferencesAlive says why), or the service is destroyed.
AnsweredUnlessHasty ==
  \A r \in Ids :
    r < nextId ~> \/ replies[r] = r
                  \/ r \in hasty \cup woken
                  \/ crashed
                  \/ life # "up"

\* rmw_destroy_service returns if every request that was queued has been
\* answered, unless a handler sleeps because its answer came too early, or a
\* request comes in between.  (Otherwise a parked handler blocks it for ever:
\* the thread that would answer is the one that destroys.)
DestroyReturns ==
  life = "dying" /\ quiet ~>
    \/ life \in {"gone", "fatal"}
    \/ \E h \in Handlers : hpc[h] = "waiting" /\ frame[h] \in hasty
==============================================================================
