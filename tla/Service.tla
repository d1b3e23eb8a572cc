------------------------------- MODULE Service -------------------------------
(***************************************************************************)
(* internal/service.hpp: a service whose eCAL method callbacks park on the *)
(* stack until the executor has answered.                                  *)
(*                                                                         *)
(* A handler is an eCAL server thread inside OnRequest.  Its Request lives *)
(* in its stack frame; pending_requests_ and current_requests_ hold        *)
(* references into frames.  Frames are named by the request id, drawn from *)
(* a counter and never reused, so a reference to a frame that is gone can  *)
(* be told from one to the frame that took its place.                      *)
(*                                                                         *)
(* One executor thread takes requests and answers those it has taken in    *)
(* any order.  (Nothing locks current_requests_: two threads in            *)
(* rmw_take_request and rmw_send_response at once would race.)             *)
(***************************************************************************)
EXTENDS Naturals, Sequences, Functions

CONSTANTS
  Handlers,         \* eCAL server threads
  MaxRequests,      \* bound: requests that arrive
  SpuriousWakeups,  \* condition variables may wake by themselves
  NoFrame,          \* a handler outside OnRequest, an executor with no request
  Empty,            \* the empty string that response_ is at first
  NoReply           \* OnRequest has not returned

Ids == 0 .. (MaxRequests - 1)

ASSUME ServiceAssumption ==
  /\ MaxRequests \in Nat \ {0}
  /\ SpuriousWakeups \in BOOLEAN
  /\ {NoFrame, Empty, NoReply} \cap Ids = {}
  /\ Empty # NoReply

VARIABLES
  nextId,    \* the counter in GenerateRequestId
  hpc,       \* where a handler is
  frame,     \* the request id of its Request, which is alive while it has one
  response,  \* response_ of every Request: the id answered, or Empty
  pending,   \* pending_requests_: references, oldest first
  current,   \* current_requests_: the ids with an entry
  notifying, \* the id whose response SendResponse has just moved in
  replies,   \* what eCAL was given for each id: its response_ when it returned
  hasty,     \* ids answered before their handler waited
  woken,     \* ids whose handler woke by itself
  crashed    \* a reference to a frame that is gone was used

vars == <<nextId, hpc, frame, response, pending, current, notifying, replies,
          hasty, woken, crashed>>

Init ==
  /\ nextId = 0
  /\ hpc = [h \in Handlers |-> "idle"]
  /\ frame = [h \in Handlers |-> NoFrame]
  /\ response = [r \in Ids |-> Empty]
  /\ pending = <<>>
  /\ current = {}
  /\ notifying = NoFrame
  /\ replies = [r \in Ids |-> NoReply]
  /\ hasty = {}
  /\ woken = {}
  /\ crashed = FALSE

Alive(r) == \E h \in Handlers : frame[h] = r
HandlerOf(r) == CHOOSE h \in Handlers : frame[h] = r

-----------------------------------------------------------------------------
(* OnRequest                                                               *)

\* The Request draws its id and joins pending_requests_.
OnRequest(h) ==
  /\ ~crashed
  /\ hpc[h] = "idle"
  /\ nextId < MaxRequests
  /\ nextId' = nextId + 1
  /\ frame' = [frame EXCEPT ![h] = nextId]
  /\ pending' = Append(pending, nextId)
  /\ hpc' = [hpc EXCEPT ![h] = "notify"]
  /\ UNCHANGED <<response, current, notifying, replies, hasty, woken, crashed>>

\* NotifyWaitSet (see WaitSet) is over; WaitForResponse locks and blocks.
WaitForResponse(h) ==
  /\ ~crashed
  /\ hpc[h] = "notify"
  /\ hpc' = [hpc EXCEPT ![h] = "waiting"]
  /\ UNCHANGED <<nextId, frame, response, pending, current, notifying, replies,
                 hasty, woken, crashed>>

\* waiter_.wait has no predicate: a wakeup by itself is taken for an answer.
SpuriousWakeup(h) ==
  /\ ~crashed
  /\ SpuriousWakeups
  /\ hpc[h] = "waiting"
  /\ hpc' = [hpc EXCEPT ![h] = "reply"]
  /\ woken' = woken \cup {frame[h]}
  /\ UNCHANGED <<nextId, frame, response, pending, current, notifying, replies,
                 hasty, crashed>>

\* The response is whatever response_ holds; OnRequest returns and its
\* Request is destroyed, with the references to it left where they are.
Reply(h) ==
  /\ ~crashed
  /\ hpc[h] = "reply"
  /\ replies' = [replies EXCEPT ![frame[h]] = response[frame[h]]]
  /\ hpc' = [hpc EXCEPT ![h] = "idle"]
  /\ frame' = [frame EXCEPT ![h] = NoFrame]
  /\ UNCHANGED <<nextId, response, pending, current, notifying, hasty, woken, crashed>>

-----------------------------------------------------------------------------
(* rmw_take_request and rmw_send_response                                  *)

\* A use of the Request r: undefined if its frame is gone, and then the
\* process is given up; otherwise effect.
Use(r, effect) ==
  \/ Alive(r) /\ effect /\ UNCHANGED crashed
  \/ /\ ~Alive(r)
     /\ crashed' = TRUE
     /\ UNCHANGED <<nextId, hpc, frame, response, pending, current, notifying,
                    replies, hasty, woken>>

\* TakeRequest: pop, enter in current_requests_ under the id, deserialize.
TakeRequest ==
  /\ ~crashed
  /\ notifying = NoFrame
  /\ pending # <<>>
  /\ Use(Head(pending),
         /\ pending' = Tail(pending)
         /\ current' = current \cup {Head(pending)}
         /\ UNCHANGED <<nextId, hpc, frame, response, notifying, replies, hasty, woken>>)

\* Mutants of SendResponse: it answers whichever request is in the map; it
\* notifies the handler and never moves the response in.
SendTo(r, s, answer) ==
  /\ ~crashed
  /\ notifying = NoFrame
  /\ r \in current
  /\ Use(s,
         /\ response' = [response EXCEPT ![s] = answer]
         /\ notifying' = s
         /\ UNCHANGED <<nextId, hpc, frame, pending, current, replies, hasty, woken>>)
SendToAny(r) == \E s \in current : SendTo(r, s, r)
SendNothing(r) == SendTo(r, r, Empty)

\* SendResponse finds the Request by its id; ConsumeResponse moves the
\* response in, with no lock ...
SendResponse(r) ==
  /\ ~crashed
  /\ notifying = NoFrame
  /\ r \in current
  /\ Use(r,
         /\ response' = [response EXCEPT ![r] = r]
         /\ notifying' = r
         /\ UNCHANGED <<nextId, hpc, frame, pending, current, replies, hasty, woken>>)

\* Mutants of NotifyHandler: no notify_one; no erase.
NotifyNobody ==
  /\ ~crashed
  /\ notifying # NoFrame
  /\ Use(notifying,
         /\ current' = current \ {notifying}
         /\ notifying' = NoFrame
         /\ UNCHANGED <<nextId, hpc, frame, response, pending, replies, hasty, woken>>)
NotifyAndKeep ==
  LET r == notifying IN
  /\ ~crashed
  /\ r # NoFrame
  /\ Use(r,
         /\ hpc' = [hpc EXCEPT ![HandlerOf(r)] = IF @ = "waiting" THEN "reply" ELSE @]
         /\ hasty' = IF hpc[HandlerOf(r)] = "notify" THEN hasty \cup {r} ELSE hasty
         /\ notifying' = NoFrame
         /\ UNCHANGED <<nextId, frame, response, pending, current, replies, woken>>)

\* ... and notifies the handler, if it waits yet.  The entry is erased.
NotifyHandler ==
  LET r == notifying IN
  /\ ~crashed
  /\ r # NoFrame
  /\ Use(r,
         /\ hpc' = [hpc EXCEPT ![HandlerOf(r)] = IF @ = "waiting" THEN "reply" ELSE @]
         /\ hasty' = IF hpc[HandlerOf(r)] = "notify" THEN hasty \cup {r} ELSE hasty
         /\ current' = current \ {r}
         /\ notifying' = NoFrame
         /\ UNCHANGED <<nextId, frame, response, pending, replies, woken>>)

Next ==
  \/ \E h \in Handlers :
       OnRequest(h) \/ WaitForResponse(h) \/ SpuriousWakeup(h) \/ Reply(h)
  \/ TakeRequest \/ NotifyHandler
  \/ \E r \in Ids : SendResponse(r)

\* Handlers are scheduled; the executor takes every request and answers it.
Fairness ==
  /\ \A h \in Handlers : WF_vars(WaitForResponse(h)) /\ WF_vars(Reply(h))
  /\ SF_vars(TakeRequest)
  /\ \A r \in Ids : SF_vars(SendResponse(r))
  /\ WF_vars(NotifyHandler)

Spec == Init /\ [][Next]_vars /\ Fairness

-----------------------------------------------------------------------------
(* Properties.                                                             *)

\* Ids, program points and answers have their types.
TypeOK ==
  /\ nextId \in 0 .. MaxRequests
  /\ hpc \in [Handlers -> {"idle", "notify", "waiting", "reply"}]
  /\ frame \in [Handlers -> Ids \cup {NoFrame}]
  /\ response \in [Ids -> Ids \cup {Empty}]
  /\ pending \in Seq(Ids)
  /\ current \subseteq Ids
  /\ notifying \in Ids \cup {NoFrame}
  /\ replies \in [Ids -> Ids \cup {Empty, NoReply}]
  /\ hasty \subseteq Ids
  /\ woken \subseteq Ids
  /\ crashed \in BOOLEAN

\* However handlers and the executor interleave, a client gets the answer to
\* its own request; it gets an empty one only if its handler woke by itself.
OwnAnswer ==
  \A r \in Ids :
    replies[r] # NoReply =>
      \/ replies[r] = r
      \/ replies[r] = Empty /\ r \in woken

\* Every reference in pending_requests_ and current_requests_ leads into the
\* frame of a handler that is still there, unless that handler woke by
\* itself; so the process is given up only after such a wakeup.
ReferencesAlive ==
  /\ \A r \in Range(pending) \cup current : Alive(r) \/ r \in woken
  /\ crashed => woken # {}

\* A handler whose request is no longer in either container, and so will
\* never be notified again, is about to reply; unless the answer came before
\* it waited (ConsumeResponse does not take the mutex and there is no
\* predicate), in which case it sleeps for ever.
NoSleeperForgotten ==
  \A h \in Handlers :
    hpc[h] = "waiting" =>
      frame[h] \in Range(pending) \cup current \cup hasty
==============================================================================
