----------------------------- MODULE ServiceCall -----------------------------
(***************************************************************************)
(* A service client and a server of its service, Client and Service, over  *)
(* eCAL's connection: what CallAsync sends reaches an idle handler as      *)
(* OnRequest, and what OnRequest returns reaches the client as OnResponse, *)
(* with the sequence number that the server has copied from the request to *)
(* the end of its response.                                                *)
(*                                                                         *)
(* CallAsync addresses every server of the service (Call collects a vector *)
(* of responses): a second server is what it sends to the client.          *)
(***************************************************************************)
EXTENDS Naturals, Sequences, Functions

CONSTANTS
  Senders,          \* the client's threads that send requests
  MaxRequests,      \* bound: requests that are sent
  MaxCalls,         \* bound: calls that reach the server
  NoNumber,
  Handlers,         \* the server's eCAL threads
  SpuriousWakeups,  \* the server's condition variables may wake by themselves
  NoFrame, Empty, NoReply,
  SecondServer      \* a second server answers every call as well

ASSUME ServiceCallAssumption ==
  /\ MaxRequests \in Nat \ {0}
  /\ NoNumber \notin 0 .. (MaxRequests - 1)
  /\ MaxCalls \in Nat \ {0}
  /\ SpuriousWakeups \in BOOLEAN
  /\ {NoFrame, Empty, NoReply} \cap 0 .. (MaxCalls - 1) = {}
  /\ Empty # NoReply

VARIABLES
  \* the client's, see Client
  nextNumber, holds, sender, requests, calls, called, responses, taken, cpc,
  clientCrashed, raced, lost,
  \* the server's, see Service
  nextId, hpc, frame, response, pending, current, notifying, replies, hasty,
  woken, serverCrashed,
  \* the connection's
  asked,      \* the number in each request that reached the server, by its id
  arrived,    \* how often each number has reached the server
  delivered,  \* the ids whose replies have reached the client
  seconds     \* how often the second server has answered each number

clientVars == <<nextNumber, holds, sender, requests, calls, called, responses,
                taken, cpc, clientCrashed, raced, lost>>
serverVars == <<nextId, hpc, frame, response, pending, current, notifying, replies,
                hasty, woken, serverCrashed>>
connection == <<asked, arrived, delivered, seconds>>
vars == <<clientVars, serverVars, connection>>

C == INSTANCE Client WITH CallsMayFail <- TRUE, crashed <- clientCrashed
S == INSTANCE Service WITH MaxRequests <- MaxCalls, crashed <- serverCrashed

Init ==
  /\ C!Init
  /\ S!Init
  /\ asked = <<>>
  /\ arrived = [s \in C!Numbers |-> 0]
  /\ delivered = {}
  /\ seconds = [s \in C!Numbers |-> 0]

-----------------------------------------------------------------------------

\* The client's own steps: queueing, the rest of OnResponse, and taking.
ClientStep ==
  /\ \/ \E t \in Senders : C!DrawNumber(t) \/ C!EnqueueRequest(t)
     \/ C!PopLastRequest \/ C!PerformNextRequest \/ C!TakeResponse
  /\ UNCHANGED <<serverVars, connection>>

\* The server's own steps, from the wait set of its executor on.
ServerStep ==
  /\ \/ \E h \in Handlers : S!WaitForResponse(h) \/ S!SpuriousWakeup(h) \/ S!Reply(h)
     \/ S!TakeRequest \/ S!NotifyHandler
     \/ \E r \in S!Ids : S!SendResponse(r)
  /\ UNCHANGED <<clientVars, connection>>

\* A call that is on the wire reaches an idle handler of the server.
Arrive(h, s) ==
  /\ arrived[s] < called[s]
  /\ S!OnRequest(h)
  /\ asked' = Append(asked, s)
  /\ arrived' = [arrived EXCEPT ![s] = @ + 1]
  /\ UNCHANGED <<clientVars, delivered, seconds>>

\* SendResponse appends the number of the Request it answers.
NumberIn(r) == asked[r + 1]

\* What OnRequest returned reaches the client: a response, whose number it
\* reads, or nothing at all.
Deliver(r) ==
  /\ replies[r] # NoReply
  /\ r \notin delivered
  /\ \/ replies[r] # Empty /\ C!OnResponse(NumberIn(replies[r]))
     \/ replies[r] = Empty /\ C!OnFailedCall(NumberIn(r))
  /\ delivered' = delivered \cup {r}
  /\ UNCHANGED <<serverVars, asked, arrived, seconds>>

\* OnResponse with the response of the second server.
DeliverSecond(s) ==
  /\ SecondServer
  /\ ~clientCrashed
  /\ cpc = "idle"
  /\ seconds[s] < called[s]
  /\ seconds' = [seconds EXCEPT ![s] = @ + 1]
  /\ responses' = Append(responses, s)
  /\ cpc' = "pop"
  /\ UNCHANGED <<nextNumber, holds, sender, requests, calls, called, taken,
                 clientCrashed, raced, lost, serverVars, asked, arrived, delivered>>

Next ==
  \/ ClientStep
  \/ ServerStep
  \/ \E h \in Handlers, s \in C!Numbers : Arrive(h, s)
  \/ \E r \in S!Ids : Deliver(r)
  \/ \E s \in C!Numbers : DeliverSecond(s)

\* Threads are scheduled, the server's executor takes and answers what
\* arrives, and the connection delivers.
Fairness ==
  /\ \A t \in Senders : WF_vars(C!EnqueueRequest(t) /\ ClientStep)
  /\ WF_vars(C!PopLastRequest /\ ClientStep)
  /\ WF_vars(C!PerformNextRequest /\ ClientStep)
  /\ \A h \in Handlers : WF_vars((S!WaitForResponse(h) \/ S!Reply(h)) /\ ServerStep)
  /\ WF_vars(S!TakeRequest /\ ServerStep)
  /\ WF_vars(S!NotifyHandler /\ ServerStep)
  /\ \A r \in S!Ids : WF_vars(S!SendResponse(r) /\ ServerStep) /\ SF_vars(Deliver(r))
  /\ \A s \in C!Numbers : WF_vars(\E h \in Handlers : Arrive(h, s))

Spec == Init /\ [][Next]_vars /\ Fairness

-----------------------------------------------------------------------------
(* Properties.                                                             *)

\* The requests that the server's application has been given.
Executed == {asked[r + 1] : r \in (0 .. (nextId - 1)) \ Range(pending)}
Answered == Range(taken \o responses)

\* What can go wrong: a request is queued between the steps of OnResponse, a
\* handler misses its answer or wakes by itself, a second server answers.
Trouble ==
  \/ raced
  \/ hasty \cup woken # {}
  \/ \E s \in C!Numbers : seconds[s] > 0

waitingBar ==
  IF requests # <<>> /\ Head(requests) \in Executed THEN Tail(requests) ELSE requests
executingBar ==
  IF Executed \subseteq Answered THEN NoNumber
  ELSE CHOOSE s \in Executed : s \notin Answered

Promise == INSTANCE CallPromise WITH
  Requests <- C!Numbers, Nothing <- NoNumber, waiting <- waitingBar,
  executing <- executingBar, answered <- taken \o responses, trouble <- Trouble

\* Client and server together execute and answer requests one at a time, in
\* the order in which the client queued them, and answer each, until there
\* is trouble: the client's queue, its four-step callback, the parked
\* handlers and the executor are one first-in first-out queue.
KeepsCallPromise == Promise!Spec

\* The server executes no request twice, also if handlers wake by themselves
\* or a second server makes the client move on too early, unless the
\* client's race has put a request on the wire twice.
ExecutedOnce ==
  ~raced => \A i, j \in DOMAIN asked : asked[i] = asked[j] => i = j

\* A client dies of its own race, or of what happened in another process: an
\* empty reply of a handler that woke by itself, or a second server.
CrashHasCause ==
  clientCrashed => raced \/ woken # {} \/ \E s \in C!Numbers : seconds[s] > 0
==============================================================================
