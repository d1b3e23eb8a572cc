------------------------------- MODULE Client --------------------------------
(***************************************************************************)
(* internal/client.hpp: the request queue of a service client, of which    *)
(* only the front is on the wire, and its response queue.                  *)
(*                                                                         *)
(* Senders are user threads in rmw_send_request.  eCAL runs OnResponse on  *)
(* the one thread that reads the connection to the server, so one callback *)
(* at a time.  A request is known by its sequence number.  Waking a wait   *)
(* set (NotifyWaitSet) changes nothing here: WaitSet models it.            *)
(***************************************************************************)
EXTENDS Naturals, Sequences, Functions

CONSTANTS
  Senders,       \* threads that send requests
  MaxRequests,   \* bound: sequence numbers that are handed out
  CallsMayFail,  \* a call may get no callback, or one with no response in it
  NoNumber       \* a sender or callback that holds no sequence number

Numbers == 0 .. (MaxRequests - 1)

ASSUME ClientAssumption ==
  /\ MaxRequests \in Nat \ {0}
  /\ CallsMayFail \in BOOLEAN
  /\ NoNumber \notin Numbers

VARIABLES
  nextNumber,  \* the counter in GenerateSequenceNumber
  holds,       \* the number a sender has drawn and not yet queued
  sender,      \* who sent a number (for the properties)
  requests,    \* requests_: the numbers queued
  calls,       \* how many calls of a number are on the wire
  called,      \* how often CallAsync was called with a number
  responses,   \* responses_: the numbers answered and not taken
  taken,       \* the numbers rmw_take_response returned, in order
  cpc,         \* where OnResponse is: "idle", "pop" or "next"
  crashed,     \* the process is gone: pop of an empty queue, bad_alloc
  raced,       \* a request was queued between PopLastRequest and the
               \* PerformNextRequest after it, on an empty queue
  lost         \* a call got no callback

vars == <<nextNumber, holds, sender, requests, calls, called, responses, taken,
          cpc, crashed, raced, lost>>

Init ==
  /\ nextNumber = 0
  /\ holds = [t \in Senders |-> NoNumber]
  /\ sender = <<>>
  /\ requests = <<>>
  /\ calls = [s \in Numbers |-> 0]
  /\ called = [s \in Numbers |-> 0]
  /\ responses = <<>>
  /\ taken = <<>>
  /\ cpc = "idle"
  /\ crashed = FALSE
  /\ raced = FALSE
  /\ lost = FALSE

-----------------------------------------------------------------------------
(* rmw_send_request                                                        *)

\* CServiceClient::CallAsync puts the request on the wire.
CallAsync(s) ==
  /\ calls' = [calls EXCEPT ![s] = @ + 1]
  /\ called' = [called EXCEPT ![s] = @ + 1]

\* EnqueueRequest draws the number before it locks the queue.
DrawNumber(t) ==
  /\ ~crashed
  /\ holds[t] = NoNumber
  /\ nextNumber < MaxRequests
  /\ holds' = [holds EXCEPT ![t] = nextNumber]
  /\ sender' = Append(sender, t)
  /\ nextNumber' = nextNumber + 1
  /\ UNCHANGED <<requests, calls, called, responses, taken, cpc, crashed, raced, lost>>

\* Mutant: every request is called at once.
CallEveryRequest(t) ==
  /\ ~crashed
  /\ holds[t] # NoNumber
  /\ requests' = Append(requests, holds[t])
  /\ CallAsync(holds[t])
  /\ raced' = (raced \/ (requests = <<>> /\ cpc = "next"))
  /\ holds' = [holds EXCEPT ![t] = NoNumber]
  /\ UNCHANGED <<nextNumber, sender, responses, taken, cpc, crashed, lost>>

\* Under request_queue_mutex_: emplace, and the call if it is alone.
EnqueueRequest(t) ==
  /\ ~crashed
  /\ holds[t] # NoNumber
  /\ requests' = Append(requests, holds[t])
  /\ IF Len(requests') = 1 THEN CallAsync(holds[t]) ELSE UNCHANGED <<calls, called>>
  /\ raced' = (raced \/ (requests = <<>> /\ cpc = "next"))
  /\ holds' = [holds EXCEPT ![t] = NoNumber]
  /\ UNCHANGED <<nextNumber, sender, responses, taken, cpc, crashed, lost>>

-----------------------------------------------------------------------------
(* The eCAL callback OnResponse                                            *)

\* EnqueueResponse: the number is read from the end of the response.
OnResponse(s) ==
  /\ ~crashed
  /\ cpc = "idle"
  /\ calls[s] > 0
  /\ calls' = [calls EXCEPT ![s] = @ - 1]
  /\ responses' = Append(responses, s)
  /\ cpc' = "pop"
  /\ UNCHANGED <<nextNumber, holds, sender, requests, called, taken, crashed, raced, lost>>

\* Mutant: the newest request is popped.
PopNewestRequest ==
  /\ ~crashed
  /\ cpc = "pop"
  /\ \/ /\ requests # <<>>
        /\ requests' = SubSeq(requests, 1, Len(requests) - 1)
        /\ cpc' = "next"
        /\ UNCHANGED crashed
     \/ /\ requests = <<>>
        /\ crashed' = TRUE
        /\ UNCHANGED <<requests, cpc>>
  /\ UNCHANGED <<nextNumber, holds, sender, calls, called, responses, taken, raced, lost>>

\* requests_.pop() checks nothing; on an empty queue it ends the process.
PopLastRequest ==
  /\ ~crashed
  /\ cpc = "pop"
  /\ \/ /\ requests # <<>>
        /\ requests' = Tail(requests)
        /\ cpc' = "next"
        /\ UNCHANGED crashed
     \/ /\ requests = <<>>
        /\ crashed' = TRUE
        /\ UNCHANGED <<requests, cpc>>
  /\ UNCHANGED <<nextNumber, holds, sender, calls, called, responses, taken, raced, lost>>

\* Mutant: off by one, the last request in the queue is not called.
PerformUnlessLast ==
  /\ ~crashed
  /\ cpc = "next"
  /\ cpc' = "idle"
  /\ IF Len(requests) > 1 THEN CallAsync(Head(requests)) ELSE UNCHANGED <<calls, called>>
  /\ UNCHANGED <<nextNumber, holds, sender, requests, responses, taken, crashed, raced, lost>>

\* The front of the queue is called, whether or not it has been already.
PerformNextRequest ==
  /\ ~crashed
  /\ cpc = "next"
  /\ cpc' = "idle"
  /\ IF requests # <<>> THEN CallAsync(Head(requests)) ELSE UNCHANGED <<calls, called>>
  /\ UNCHANGED <<nextNumber, holds, sender, requests, responses, taken, crashed, raced, lost>>

\* No callback comes: nothing in the client looks at the age of a call.
LoseCall(s) ==
  /\ ~crashed
  /\ CallsMayFail
  /\ calls[s] > 0
  /\ calls' = [calls EXCEPT ![s] = @ - 1]
  /\ lost' = TRUE
  /\ UNCHANGED <<nextNumber, holds, sender, requests, called, responses, taken, cpc,
                 crashed, raced>>

\* The callback reports a failed call, with no response in it; OnResponse
\* does not look at call_state, and 0 - 8 bytes are allocated.
OnFailedCall(s) ==
  /\ ~crashed
  /\ CallsMayFail
  /\ cpc = "idle"
  /\ calls[s] > 0
  /\ calls' = [calls EXCEPT ![s] = @ - 1]
  /\ crashed' = TRUE
  /\ UNCHANGED <<nextNumber, holds, sender, requests, called, responses, taken, cpc,
                 raced, lost>>

-----------------------------------------------------------------------------

\* Mutant: the newest response is taken.
TakeNewestResponse ==
  /\ ~crashed
  /\ responses # <<>>
  /\ taken' = Append(taken, responses[Len(responses)])
  /\ responses' = SubSeq(responses, 1, Len(responses) - 1)
  /\ UNCHANGED <<nextNumber, holds, sender, requests, calls, called, cpc, crashed,
                 raced, lost>>

\* rmw_take_response by the only taker: HasResponse, then PopResponse.
TakeResponse ==
  /\ ~crashed
  /\ responses # <<>>
  /\ taken' = Append(taken, Head(responses))
  /\ responses' = Tail(responses)
  /\ UNCHANGED <<nextNumber, holds, sender, requests, calls, called, cpc, crashed,
                 raced, lost>>

Next ==
  \/ \E t \in Senders : DrawNumber(t) \/ EnqueueRequest(t)
  \/ \E s \in Numbers : OnResponse(s) \/ LoseCall(s) \/ OnFailedCall(s)
  \/ PopLastRequest \/ PerformNextRequest \/ TakeResponse

\* A sender that has drawn a number and a callback that has started are
\* scheduled.  The server answers what it is called with, unless calls fail.
Fairness ==
  /\ \A t \in Senders : WF_vars(EnqueueRequest(t))
  /\ WF_vars(PopLastRequest)
  /\ WF_vars(PerformNextRequest)
  /\ \A s \in Numbers : SF_vars(OnResponse(s))

Spec == Init /\ [][Next]_vars /\ Fairness

-----------------------------------------------------------------------------
(* Properties.                                                             *)

\* The queues hold sequence numbers, and the counters count.
TypeOK ==
  /\ nextNumber \in 0 .. MaxRequests
  /\ holds \in [Senders -> Numbers \cup {NoNumber}]
  /\ sender \in Seq(Senders)
  /\ requests \in Seq(Numbers)
  /\ calls \in [Numbers -> Nat]
  /\ called \in [Numbers -> Nat]
  /\ responses \in Seq(Numbers)
  /\ taken \in Seq(Numbers)
  /\ cpc \in {"idle", "pop", "next"}
  /\ crashed \in BOOLEAN
  /\ raced \in BOOLEAN
  /\ lost \in BOOLEAN

\* What the queue is meant to ensure, and ensures until a request is queued
\* between PopLastRequest and PerformNextRequest: one call at a time, it is
\* for the front of the queue, and the front has been called exactly once.
OneCallAtATime ==
  ~raced =>
    \A s \in Numbers :
      /\ called[s] <= 1
      /\ calls[s] > 0 => cpc = "idle" /\ requests # <<>> /\ s = Head(requests)

\* Every request that leaves the queue has been called, also after that race:
\* no request is skipped, whatever the interleaving of the senders with the
\* four steps of OnResponse.
NoRequestSkipped ==
  [][\A s \in Numbers :
       s \in Range(requests) /\ s \notin Range(requests') => called[s] > 0]_vars

\* The queue does not stall: while requests wait, a call is on the wire or
\* OnResponse has still to make one, unless a call was lost, after which no
\* request behind it is ever called.
NoStall ==
  requests # <<>> /\ ~crashed /\ ~lost =>
    cpc # "idle" \/ \E s \in Numbers : calls[s] > 0

\* The callback pops an empty queue only after that race, and dies otherwise
\* only of a failed call.
SurvivesWithoutRace == ~CallsMayFail /\ crashed => raced

\* The application gets the responses to one thread's requests in the order
\* in which that thread sent them, each once, unless that race has happened;
\* although numbers are drawn outside the lock and two threads may queue
\* theirs in the other order.
AnswersInOrder ==
  ~raced =>
    LET got == taken \o responses IN
    \A i, j \in 1 .. Len(got) :
      i < j /\ sender[got[i] + 1] = sender[got[j] + 1] => got[i] < got[j]
==============================================================================
