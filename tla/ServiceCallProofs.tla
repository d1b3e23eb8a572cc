-------------------------- MODULE ServiceCallProofs ---------------------------
(***************************************************************************)
(* Proofs about ServiceCall, for any senders and handlers, any number of   *)
(* requests, and with or without its faults.  What ClientProofs and        *)
(* ServiceProofs show of each side alone is used here for the composition. *)
(***************************************************************************)
EXTENDS ServiceCall, SequenceTheorems, TLAPS

CP == INSTANCE ClientProofs WITH
  CallsMayFail <- TRUE, crashed <- clientCrashed, life <- "up", quiet <- FALSE
SP == INSTANCE ServiceProofs WITH
  MaxRequests <- MaxCalls, crashed <- serverCrashed, life <- "up", quiet <- FALSE

-----------------------------------------------------------------------------
(* The assumptions of the parts are among those of the composition.        *)

LEMMA PartsAssume == SP!ServiceAssumption /\ CP!ClientAssumption
  BY ServiceCallAssumption
     DEF ServiceCallAssumption, SP!ServiceAssumption, CP!ClientAssumption, SP!Ids, CP!Numbers

-----------------------------------------------------------------------------
(* The steps of the composition are steps of its parts.                    *)

LEMMA ServerSteps == [Next]_vars => [SP!Next]_SP!vars
<1> SUFFICES ASSUME [Next]_vars
             PROVE  [SP!Next]_SP!vars
  OBVIOUS
<1>1. ASSUME UNCHANGED serverVars
      PROVE  UNCHANGED SP!vars
  BY <1>1 DEF serverVars, SP!vars
<1>2. ASSUME NEW h \in Handlers, NEW s \in C!Numbers, Arrive(h, s)
      PROVE  SP!Next
  <2>1. SP!OnRequest(h)
    BY <1>2 DEF Arrive, S!OnRequest, SP!OnRequest
  <2> QED
    BY <2>1 DEF SP!Next
<1>3. CASE ServerStep
  <2>1. ASSUME NEW h \in Handlers,
               S!WaitForResponse(h) \/ S!SpuriousWakeup(h) \/ S!Reply(h)
        PROVE  SP!Next
    <3>1. SP!WaitForResponse(h) \/ SP!SpuriousWakeup(h) \/ SP!Reply(h)
      BY <2>1 DEF S!WaitForResponse, SP!WaitForResponse, S!SpuriousWakeup,
                  SP!SpuriousWakeup, S!Reply, SP!Reply
    <3> QED
      BY <3>1 DEF SP!Next
  <2>2. ASSUME S!TakeRequest
        PROVE  SP!Next
    <3>1. SP!TakeRequest
      BY <2>2 DEF S!TakeRequest, SP!TakeRequest, S!Use, SP!Use, S!Alive, SP!Alive
    <3> QED
      BY <3>1 DEF SP!Next
  <2>3. ASSUME S!NotifyHandler
        PROVE  SP!Next
    <3>1. SP!NotifyHandler
      BY <2>3 DEF S!NotifyHandler, SP!NotifyHandler, S!Use, SP!Use, S!Alive,
                  SP!Alive, S!HandlerOf, SP!HandlerOf
    <3> QED
      BY <3>1 DEF SP!Next
  <2>4. ASSUME NEW r \in S!Ids, S!SendResponse(r)
        PROVE  SP!Next
    <3>1. SP!SendResponse(r)
      BY <2>4 DEF S!SendResponse, SP!SendResponse, S!Use, SP!Use, S!Alive, SP!Alive
    <3>2. r \in SP!Ids
      BY DEF S!Ids, SP!Ids
    <3> QED
      BY <3>1, <3>2 DEF SP!Next
  <2> QED
    BY <1>3, <2>1, <2>2, <2>3, <2>4 DEF ServerStep
<1> QED
  BY <1>1, <1>2, <1>3 DEF Next, ClientStep, Deliver, DeliverSecond, vars

\* The server's invariant, proved of the server alone, holds here.
LEMMA ServerInvariant == Spec => []SP!IInv
<1>1. Init => SP!IInv
  <2>1. Init => SP!Init
    BY DEF Init, S!Init, SP!Init, S!Ids, SP!Ids
  <2> QED
    BY <2>1, PartsAssume, SP!Initially
<1>2. SP!IInv /\ [Next]_vars => SP!IInv'
  BY ServerSteps, PartsAssume, SP!Inductive
<1> QED
  BY <1>1, <1>2, PTL DEF Spec

-----------------------------------------------------------------------------
(* The client's side: its queue is as ClientProofs describes it, also with *)
(* the answers of a second server, and its callback is until there is one. *)

NoSecond == \A s \in C!Numbers : seconds[s] = 0

ClientInv ==
  /\ CP!QueueInv
  /\ ~raced => CP!CalledOnce
  /\ NoSecond => CP!CallInv /\ CP!FrontCalled

(* What has reached the server has its number, and as many calls were made. *)
AskedOK ==
  /\ asked \in Seq(C!Numbers)
  /\ Len(asked) = nextId
  /\ \A r \in S!Ids : replies[r] # NoReply => r < nextId

ArrivedOK ==
  /\ arrived \in [C!Numbers -> Nat]
  /\ seconds \in [C!Numbers -> Nat]
  /\ \A s \in C!Numbers : arrived[s] <= called[s]

OccursOK ==
  /\ \A i \in 1 .. Len(asked) : arrived[asked[i]] >= 1
  /\ \A i, j \in 1 .. Len(asked) : i # j /\ asked[i] = asked[j] => arrived[asked[i]] >= 2

Inv == SP!IInv /\ ClientInv /\ AskedOK /\ ArrivedOK /\ OccursOK /\ CrashHasCause

\* The number that the client reads from a response is that of the request
\* that was answered, and one that the client has drawn.
LEMMA NumberIsOwn ==
  ASSUME SP!IInv, AskedOK, NEW r \in S!Ids, replies[r] # NoReply
  PROVE  /\ NumberIn(r) \in C!Numbers
         /\ replies[r] # Empty => replies[r] = r
         /\ replies[r] = Empty => r \in woken
<1>1. r \in Nat /\ r < nextId /\ nextId \in Nat
  BY PartsAssume DEF AskedOK, S!Ids, SP!IInv, SP!TypeOK, SP!ServiceAssumption
<1>2. r + 1 \in 1 .. Len(asked)
  BY <1>1 DEF AskedOK
<1>3. asked[r + 1] \in C!Numbers
  BY <1>2, ElementOfSeq DEF AskedOK
<1>4. r \in SP!Ids
  BY DEF S!Ids, SP!Ids
<1>5. replies[r] = r \/ (replies[r] = Empty /\ r \in woken)
  BY <1>4 DEF SP!IInv, SP!OwnAnswer
<1>6. r # Empty
  BY <1>4, PartsAssume DEF SP!ServiceAssumption
<1> QED
  BY <1>3, <1>5, <1>6 DEF NumberIn

LEMMA ClientSteps ==
  ASSUME SP!IInv, AskedOK, [Next]_vars
  PROVE  [CP!Next]_CP!vars \/ \E s \in C!Numbers : DeliverSecond(s)
<1>1. ASSUME UNCHANGED clientVars
      PROVE  UNCHANGED CP!vars
  BY <1>1 DEF clientVars, CP!vars
<1>2. CASE ClientStep
  <2>1. ASSUME NEW t \in Senders, C!DrawNumber(t) \/ C!EnqueueRequest(t)
        PROVE  CP!Next
    <3>1. CP!DrawNumber(t) \/ CP!EnqueueRequest(t)
      BY <2>1 DEF C!DrawNumber, CP!DrawNumber, C!EnqueueRequest, CP!EnqueueRequest,
                  C!CallAsync, CP!CallAsync
    <3> QED
      BY <3>1 DEF CP!Next
  <2>2. ASSUME C!PopLastRequest \/ C!PerformNextRequest \/ C!TakeResponse
        PROVE  CP!Next
    <3>1. CP!PopLastRequest \/ CP!PerformNextRequest \/ CP!TakeResponse
      BY <2>2 DEF C!PopLastRequest, CP!PopLastRequest, C!PerformNextRequest,
                  CP!PerformNextRequest, C!TakeResponse, CP!TakeResponse,
                  C!CallAsync, CP!CallAsync
    <3> QED
      BY <3>1 DEF CP!Next
  <2> QED
    BY <1>2, <2>1, <2>2 DEF ClientStep
<1>3. ASSUME NEW r \in S!Ids, Deliver(r)
      PROVE  CP!Next
  <2>1. /\ NumberIn(r) \in CP!Numbers
        /\ replies[r] # Empty => replies[r] = r
    BY <1>3, NumberIsOwn DEF Deliver, C!Numbers, CP!Numbers
  <2>2. C!OnResponse(NumberIn(r)) \/ C!OnFailedCall(NumberIn(r))
    BY <1>3, <2>1 DEF Deliver
  <2>3. CP!OnResponse(NumberIn(r)) \/ CP!OnFailedCall(NumberIn(r))
    BY <2>2 DEF C!OnResponse, CP!OnResponse, C!OnFailedCall, CP!OnFailedCall
  <2> QED
    BY <2>1, <2>3 DEF CP!Next
<1> QED
  BY <1>1, <1>2, <1>3 DEF Next, ServerStep, Arrive, vars

\* A response of a second server changes neither queue nor counters.
LEMMA SecondKeepsQueue ==
  ASSUME CP!QueueInv, NEW s \in C!Numbers, DeliverSecond(s)
  PROVE  CP!QueueInv'
<1>1. responses' \in Seq(CP!Numbers)
  BY AppendProperties DEF DeliverSecond, CP!QueueInv, CP!TypeOK, C!Numbers, CP!Numbers
<1>2. UNCHANGED <<nextNumber, holds, sender, requests, calls, called, taken,
                  clientCrashed, raced, lost>>
  BY DEF DeliverSecond
<1>3. CP!TypeOK'
  BY <1>1, <1>2 DEF DeliverSecond, CP!QueueInv, CP!TypeOK
<1> QED
  BY <1>2, <1>3 DEF CP!QueueInv, CP!HoldsOK, CP!OwnPlace, CP!Drawn

LEMMA ClientStart == Init => ClientInv
<1> SUFFICES ASSUME Init PROVE ClientInv
  OBVIOUS
<1>1. CP!Init
  BY DEF Init, C!Init, CP!Init, C!Numbers, CP!Numbers
<1>2. CP!CallInv /\ CP!FrontCalled
  BY <1>1, CP!CallInit, PartsAssume
<1>3. ~raced
  BY DEF Init, C!Init
<1> QED
  BY <1>2, <1>3 DEF ClientInv, CP!CallInv, CP!Undisturbed

LEMMA ClientKeeps ==
  ASSUME SP!IInv, AskedOK, ArrivedOK, ClientInv, [Next]_vars
  PROVE  ClientInv' /\ (raced => raced') /\ (NoSecond' => NoSecond)
<1>1. CASE \E s \in C!Numbers : DeliverSecond(s)
  <2>1. PICK s \in C!Numbers : DeliverSecond(s)
    BY <1>1
  <2>2. CP!QueueInv'
    BY <2>1, SecondKeepsQueue DEF ClientInv
  <2>3. UNCHANGED <<raced, called, requests, holds, nextNumber>> /\ cpc' = "pop"
    BY <2>1 DEF DeliverSecond
  <2>4. CP!CalledOnce => CP!CalledOnce'
    BY <2>3 DEF CP!CalledOnce
  <2>5. ~NoSecond'
    BY <2>1 DEF DeliverSecond, NoSecond, ArrivedOK
  <2> QED
    BY <2>2, <2>3, <2>4, <2>5 DEF ClientInv
<1>2. CASE ~ \E s \in C!Numbers : DeliverSecond(s)
  <2>1. [CP!Next]_CP!vars
    BY <1>2, ClientSteps
  <2>2. UNCHANGED seconds
    BY <1>2 DEF Next, vars, connection, ClientStep, ServerStep, Arrive, Deliver
  <2>3. CP!QueueInv'
    BY <2>1, CP!QueueStep, PartsAssume DEF ClientInv
  <2>4. raced => raced'
    BY <2>1, CP!RacedStays, PartsAssume
  <2>5. ~raced' => CP!CalledOnce'
    BY <2>1, <2>4, CP!CalledOnceStep, PartsAssume DEF ClientInv
  <2>6. NoSecond' <=> NoSecond
    BY <2>2 DEF NoSecond
  <2>7. NoSecond => CP!CallInv' /\ CP!FrontCalled'
    BY <2>1, CP!CallStep, PartsAssume DEF ClientInv
  <2> QED
    BY <2>3, <2>4, <2>5, <2>6, <2>7 DEF ClientInv
<1> QED
  BY <1>1, <1>2

-----------------------------------------------------------------------------
(* The connection's side.                                                  *)

\* What other parts do to what the connection counts with.
LEMMA CalledGrows ==
  ASSUME ClientInv, [Next]_vars
  PROVE  /\ called \in [C!Numbers -> Nat]
         /\ \A s \in C!Numbers : called'[s] \in Nat /\ called'[s] >= called[s]
<1>t. /\ called \in [C!Numbers -> Nat]
      /\ requests \in Seq(C!Numbers)
      /\ holds \in [Senders -> C!Numbers \cup {NoNumber}]
  BY DEF ClientInv, CP!QueueInv, CP!TypeOK, C!Numbers, CP!Numbers
<1>1. ASSUME UNCHANGED called
      PROVE  \A s \in C!Numbers : called'[s] \in Nat /\ called'[s] >= called[s]
  BY <1>t, <1>1
<1>2. ASSUME NEW r \in C!Numbers, C!CallAsync(r)
      PROVE  \A s \in C!Numbers : called'[s] \in Nat /\ called'[s] >= called[s]
  BY <1>t, <1>2 DEF C!CallAsync
<1>3. ASSUME NEW t \in Senders, C!EnqueueRequest(t)
      PROVE  UNCHANGED called \/ \E r \in C!Numbers : C!CallAsync(r)
  BY <1>t, <1>3 DEF C!EnqueueRequest
<1>4. ASSUME C!PerformNextRequest
      PROVE  UNCHANGED called \/ \E r \in C!Numbers : C!CallAsync(r)
  BY <1>t, <1>4, HeadTailProperties DEF C!PerformNextRequest
<1>5. UNCHANGED called \/ \E r \in C!Numbers : C!CallAsync(r)
  BY <1>3, <1>4
     DEF Next, vars, clientVars, ClientStep, ServerStep, Arrive, Deliver, DeliverSecond,
         C!DrawNumber, C!PopLastRequest, C!TakeResponse, C!OnResponse, C!OnFailedCall
<1> QED
  BY <1>t, <1>1, <1>2, <1>5

LEMMA ArriveFacts ==
  ASSUME AskedOK, ArrivedOK, NEW h \in Handlers, NEW s \in C!Numbers, Arrive(h, s)
  PROVE  /\ Len(asked) \in Nat /\ asked' \in Seq(C!Numbers) /\ Len(asked') = Len(asked) + 1
         /\ \A i \in 1 .. Len(asked) : asked'[i] = asked[i] /\ asked[i] \in C!Numbers
         /\ asked'[Len(asked) + 1] = s
         /\ arrived' \in [C!Numbers -> Nat]
         /\ arrived'[s] = arrived[s] + 1
         /\ \A r \in C!Numbers \ {s} : arrived'[r] = arrived[r]
         /\ arrived[s] < called[s]
         /\ nextId' = nextId + 1 /\ UNCHANGED <<replies, called, seconds>>
<1>1. /\ asked \in Seq(C!Numbers) /\ asked' = Append(asked, s)
  BY DEF AskedOK, Arrive
<1>2. /\ Len(asked) \in Nat /\ asked' \in Seq(C!Numbers) /\ Len(asked') = Len(asked) + 1
      /\ \A i \in 1 .. Len(asked) : asked'[i] = asked[i]
      /\ asked'[Len(asked) + 1] = s
  BY <1>1, AppendProperties, LenProperties
<1>3. \A i \in 1 .. Len(asked) : asked[i] \in C!Numbers
  BY <1>1, ElementOfSeq
<1>4. /\ arrived' \in [C!Numbers -> Nat]
      /\ arrived'[s] = arrived[s] + 1
      /\ \A r \in C!Numbers \ {s} : arrived'[r] = arrived[r]
      /\ arrived[s] < called[s]
  BY DEF ArrivedOK, Arrive
<1>5. nextId' = nextId + 1 /\ UNCHANGED <<replies, called, seconds>>
  BY DEF Arrive, S!OnRequest, clientVars
<1> QED
  BY <1>2, <1>3, <1>4, <1>5

\* Only calls that arrive are counted.
LEMMA NothingArrives ==
  ASSUME [Next]_vars
  PROVE  \/ \E h \in Handlers, s \in C!Numbers : Arrive(h, s)
         \/ UNCHANGED <<asked, arrived, nextId>>
BY DEF Next, vars, connection, serverVars, ClientStep, ServerStep, Deliver, DeliverSecond,
       S!WaitForResponse, S!SpuriousWakeup, S!Reply, S!TakeRequest, S!NotifyHandler,
       S!SendResponse, S!Use

LEMMA AskedStep ==
  ASSUME SP!IInv, AskedOK, ArrivedOK, [Next]_vars
  PROVE  AskedOK'
<1>t. nextId \in Nat /\ \A r \in S!Ids : r \in Nat
  BY PartsAssume DEF SP!IInv, SP!TypeOK, SP!ServiceAssumption, S!Ids
<1>1. CASE \E h \in Handlers, s \in C!Numbers : Arrive(h, s)
  <2>1. PICK h \in Handlers, s \in C!Numbers : Arrive(h, s)
    BY <1>1
  <2>2. asked' \in Seq(C!Numbers) /\ Len(asked') = nextId'
    BY <2>1, ArriveFacts DEF AskedOK
  <2>3. \A r \in S!Ids : replies'[r] # NoReply => r < nextId'
    BY <1>t, <2>1, ArriveFacts DEF AskedOK
  <2> QED
    BY <2>2, <2>3 DEF AskedOK, C!Numbers, S!Ids
<1>2. CASE UNCHANGED <<asked, arrived, nextId>>
  <2>1. ASSUME NEW h \in Handlers, S!Reply(h)
        PROVE  \A r \in S!Ids : replies'[r] # NoReply => r < nextId
    <3>1. frame[h] \in S!Ids /\ frame[h] < nextId
      BY <2>1 DEF S!Reply, SP!IInv, SP!FramesOK, SP!Arrived, S!Ids, SP!Ids
    <3>2. \A r \in S!Ids \ {frame[h]} : replies'[r] = replies[r]
      BY <2>1 DEF S!Reply, SP!IInv, SP!TypeOK, S!Ids, SP!Ids
    <3> QED
      BY <3>1, <3>2 DEF AskedOK
  <2>2. UNCHANGED replies \/ \E h \in Handlers : S!Reply(h)
    BY DEF Next, vars, serverVars, ClientStep, ServerStep, Arrive, Deliver, DeliverSecond,
           S!OnRequest, S!WaitForResponse, S!SpuriousWakeup, S!TakeRequest,
           S!NotifyHandler, S!SendResponse, S!Use
  <2>3. \A r \in S!Ids : replies'[r] # NoReply => r < nextId
    BY <2>1, <2>2 DEF AskedOK
  <2> QED
    BY <1>2, <2>3 DEF AskedOK, C!Numbers, S!Ids
<1> QED
  BY <1>1, <1>2, NothingArrives

LEMMA ArrivedStep ==
  ASSUME AskedOK, ArrivedOK, ClientInv, [Next]_vars
  PROVE  ArrivedOK'
<1>t. /\ called \in [C!Numbers -> Nat]
      /\ \A s \in C!Numbers : called'[s] \in Nat /\ called'[s] >= called[s]
  BY CalledGrows
<1>1. seconds' \in [C!Numbers -> Nat]
  <2>1. UNCHANGED seconds \/ \E s \in C!Numbers : DeliverSecond(s)
    BY DEF Next, vars, connection, ClientStep, ServerStep, Arrive, Deliver
  <2>2. ASSUME NEW s \in C!Numbers, DeliverSecond(s)
        PROVE  seconds' \in [C!Numbers -> Nat]
    BY <2>2 DEF ArrivedOK, DeliverSecond
  <2> QED
    BY <2>1, <2>2 DEF ArrivedOK
<1>2. CASE \E h \in Handlers, s \in C!Numbers : Arrive(h, s)
  <2>1. PICK h \in Handlers, s \in C!Numbers : Arrive(h, s)
    BY <1>2
  <2>2. arrived' \in [C!Numbers -> Nat]
    BY <2>1, ArriveFacts
  <2>3. \A r \in C!Numbers : arrived'[r] <= called'[r]
    <3>1. arrived[s] \in Nat /\ called[s] \in Nat /\ arrived[s] + 1 <= called[s]
      BY <1>t, <2>1, ArriveFacts DEF ArrivedOK
    <3>2. /\ arrived'[s] = arrived[s] + 1
          /\ \A r \in C!Numbers \ {s} : arrived'[r] = arrived[r]
          /\ UNCHANGED called
      BY <2>1, ArriveFacts
    <3>3. \A r \in C!Numbers : arrived[r] <= called[r]
      BY DEF ArrivedOK
    <3> QED
      BY <3>1, <3>2, <3>3
  <2> QED
    BY <1>1, <2>2, <2>3 DEF ArrivedOK, C!Numbers
<1>3. CASE UNCHANGED <<asked, arrived, nextId>>
  <2>1. \A r \in C!Numbers : arrived'[r] <= called'[r]
    BY <1>t, <1>3 DEF ArrivedOK
  <2> QED
    BY <1>1, <1>3, <2>1 DEF ArrivedOK, C!Numbers
<1> QED
  BY <1>2, <1>3, NothingArrives

LEMMA OccursStep ==
  ASSUME AskedOK, ArrivedOK, OccursOK, [Next]_vars
  PROVE  OccursOK'
<1>1. CASE \E h \in Handlers, s \in C!Numbers : Arrive(h, s)
  <2>1. PICK h \in Handlers, s \in C!Numbers : Arrive(h, s)
    BY <1>1
  <2> DEFINE n == Len(asked)
  <2>2. /\ n \in Nat /\ Len(asked') = n + 1
        /\ \A i \in 1 .. n : asked'[i] = asked[i] /\ asked[i] \in C!Numbers
        /\ asked'[n + 1] = s
    BY <2>1, ArriveFacts
  <2>3. \A r \in C!Numbers : arrived[r] \in Nat /\ arrived'[r] \in Nat /\ arrived'[r] >= arrived[r]
    <3>1. \A r \in C!Numbers : arrived[r] \in Nat
      BY DEF ArrivedOK
    <3>2. /\ arrived'[s] = arrived[s] + 1
          /\ \A r \in C!Numbers \ {s} : arrived'[r] = arrived[r]
      BY <2>1, ArriveFacts
    <3> QED
      BY <3>1, <3>2
  <2>4. arrived'[s] = arrived[s] + 1 /\ arrived[s] \in Nat
    BY <2>1, ArriveFacts DEF ArrivedOK
  <2>5. \A i \in 1 .. n : arrived'[asked'[i]] >= 1
    BY <2>2, <2>3 DEF OccursOK
  <2>6. \A i \in 1 .. n : asked'[i] = s => arrived'[s] >= 2
    BY <2>2, <2>4 DEF OccursOK
  <2>7. \A i, j \in 1 .. n : i # j /\ asked'[i] = asked'[j] => arrived'[asked'[i]] >= 2
    BY <2>2, <2>3 DEF OccursOK
  <2>8. \A i \in 1 .. Len(asked') : i \in 1 .. n \/ i = n + 1
    BY <2>2
  <2>9. \A i \in 1 .. Len(asked') : arrived'[asked'[i]] >= 1
    BY <2>2, <2>4, <2>5, <2>8
  <2>10. \A i, j \in 1 .. Len(asked') :
           i # j /\ asked'[i] = asked'[j] => arrived'[asked'[i]] >= 2
    BY <2>2, <2>6, <2>7, <2>8
  <2> QED
    BY <2>9, <2>10 DEF OccursOK
<1>2. CASE UNCHANGED <<asked, arrived, nextId>>
  BY <1>2 DEF OccursOK
<1> QED
  BY <1>1, <1>2, NothingArrives

LEMMA CrashStep ==
  ASSUME Inv, [Next]_vars
  PROVE  CrashHasCause'
<1> SUFFICES ASSUME clientCrashed', ~raced', woken' = {}, NoSecond'
             PROVE  FALSE
  <2>1. ArrivedOK'
    BY ArrivedStep DEF Inv
  <2>2. ~NoSecond' => \E s \in C!Numbers : seconds'[s] > 0
    BY <2>1 DEF ArrivedOK, NoSecond, C!Numbers
  <2> QED
    BY <2>2 DEF CrashHasCause, C!Numbers
<1>1. ~raced /\ NoSecond
  BY ClientKeeps DEF Inv
<1>2. woken = {}
  BY DEF Next, vars, serverVars, ClientStep, ServerStep, Arrive, Deliver, DeliverSecond,
         S!OnRequest, S!WaitForResponse, S!SpuriousWakeup, S!Reply, S!TakeRequest,
         S!NotifyHandler, S!SendResponse, S!Use
<1>3. ~clientCrashed
  BY <1>1, <1>2 DEF Inv, CrashHasCause, NoSecond, ArrivedOK
<1>4. CASE C!PopLastRequest
  <2>1. CP!FrontOnWire
    BY <1>1 DEF Inv, ClientInv, CP!CallInv, CP!Undisturbed
  <2>2. cpc = "pop" /\ requests = <<>>
    BY <1>3, <1>4 DEF C!PopLastRequest
  <2> QED
    BY <2>1, <2>2 DEF CP!FrontOnWire
<1>5. ASSUME NEW r \in S!Ids, Deliver(r)
      PROVE  FALSE
  <2>1. replies[r] # NoReply /\ replies[r] = Empty
    BY <1>3, <1>5 DEF Deliver, C!OnResponse
  <2>2. r \in woken
    BY <2>1, NumberIsOwn DEF Inv
  <2> QED
    BY <1>2, <2>2
<1>6. C!PopLastRequest \/ \E r \in S!Ids : Deliver(r)
  BY <1>3 DEF Next, vars, clientVars, ClientStep, ServerStep, Arrive, DeliverSecond,
              C!DrawNumber, C!EnqueueRequest, C!PerformNextRequest, C!TakeResponse
<1> QED
  BY <1>4, <1>5, <1>6

-----------------------------------------------------------------------------

LEMMA Initially == Init => ClientInv /\ AskedOK /\ ArrivedOK /\ OccursOK /\ CrashHasCause
<1> SUFFICES ASSUME Init
             PROVE  ClientInv /\ AskedOK /\ ArrivedOK /\ OccursOK /\ CrashHasCause
  OBVIOUS
<1>1. asked = <<>> /\ nextId = 0 /\ \A r \in S!Ids : replies[r] = NoReply
  BY DEF Init, S!Init
<1>2. AskedOK
  BY <1>1, EmptySeq DEF AskedOK
<1>3. ArrivedOK
  <2>1. arrived = [s \in C!Numbers |-> 0] /\ seconds = [s \in C!Numbers |-> 0]
    BY DEF Init
  <2>2. called = [s \in C!Numbers |-> 0]
    BY DEF Init, C!Init
  <2> QED
    BY <2>1, <2>2 DEF ArrivedOK
<1>4. OccursOK
  BY <1>1 DEF OccursOK
<1>5. CrashHasCause
  BY DEF Init, C!Init, CrashHasCause
<1> QED
  BY <1>2, <1>3, <1>4, <1>5, ClientStart

LEMMA Invariance == Spec => []Inv
<1> DEFINE Own == ClientInv /\ AskedOK /\ ArrivedOK /\ OccursOK /\ CrashHasCause
<1>1. Init => Own
  BY Initially
<1>2. SP!IInv /\ Own /\ [Next]_vars => Own'
  <2> SUFFICES ASSUME SP!IInv, Own, [Next]_vars PROVE Own'
    OBVIOUS
  <2>1. Inv
    BY DEF Inv
  <2> QED
    BY <2>1, ClientKeeps, AskedStep, ArrivedStep, OccursStep, CrashStep
<1>3. SP!IInv /\ Own => Inv
  BY DEF Inv
<1> QED
  BY <1>1, <1>2, <1>3, ServerInvariant, PTL DEF Spec

-----------------------------------------------------------------------------

\* Client and Service together: unless a request is queued
\* between the steps of OnResponse, no request is given to the server's
\* application twice, whatever wakes its handlers and whoever else answers.
THEOREM NothingIsExecutedTwice == Spec => []ExecutedOnce
<1>1. Inv => ExecutedOnce
  <2> SUFFICES ASSUME Inv, ~raced, NEW i \in DOMAIN asked, NEW j \in DOMAIN asked,
                      asked[i] = asked[j], i # j
               PROVE  FALSE
    BY DEF ExecutedOnce
  <2>1. i \in 1 .. Len(asked) /\ j \in 1 .. Len(asked) /\ asked[i] \in C!Numbers
    BY ElementOfSeq, LenProperties DEF Inv, AskedOK
  <2>2. arrived[asked[i]] >= 2
    BY <2>1 DEF Inv, OccursOK
  <2>3. arrived[asked[i]] <= called[asked[i]]
    BY <2>1 DEF Inv, ArrivedOK
  <2>4. called[asked[i]] <= 1 /\ called[asked[i]] \in Nat
    BY <2>1 DEF Inv, ClientInv, CP!CalledOnce, CP!QueueInv, CP!TypeOK, C!Numbers, CP!Numbers
  <2>5. arrived[asked[i]] \in Nat
    BY <2>1 DEF Inv, ArrivedOK
  <2> QED
    BY <2>2, <2>3, <2>4, <2>5
<1> QED
  BY <1>1, Invariance, PTL

\* Client and Service together: a client process dies of its own
\* race, of a handler that woke by itself, or of a second server.
THEOREM CrashesAreExplained == Spec => []CrashHasCause
<1>1. Inv => CrashHasCause
  BY DEF Inv
<1> QED
  BY <1>1, Invariance, PTL

-----------------------------------------------------------------------------
(* Refinement: until there is trouble, every step is one of CallPromise or *)
(* none.                                                                   *)

Got == taken \o responses

\* A request that was called is answered when its call is over, what is
\* answered has been executed, and only that is popped.
AnswerInv ==
  /\ \A s \in C!Numbers : called[s] > 0 => (calls[s] > 0 <=> s \notin Answered)
  /\ Answered \subseteq Executed
  /\ cpc = "pop" => requests[1] \in Executed

\* A handler that has replied has had its request taken, or woke by itself.
ReplyOut == \A r \in S!Ids : replies[r] # NoReply => r \in woken \/ r \notin Range(pending)

RefineInv == Inv /\ ReplyOut /\ (~Trouble => AnswerInv)

(* Ranges, and what the mapping chooses.                                   *)

LEMMA RangesAgree == \A q : SP!Range(q) = Range(q)
BY DEF SP!Range, Range

LEMMA RangeOf ==
  ASSUME NEW X, NEW q \in Seq(X)
  PROVE  Len(q) \in Nat /\ Range(q) = {q[i] : i \in 1 .. Len(q)}
BY LenProperties DEF Range

LEMMA RangeAppend ==
  ASSUME NEW X, NEW q \in Seq(X), NEW e \in X
  PROVE  Range(Append(q, e)) = Range(q) \cup {e}
<1>1. SP!Range(Append(q, e)) = SP!Range(q) \cup {e}
  BY SP!Appended, PartsAssume
<1> QED
  BY <1>1, RangesAgree

LEMMA RangeConcat ==
  ASSUME NEW X, NEW p \in Seq(X), NEW q \in Seq(X)
  PROVE  Range(p \o q) \subseteq Range(p) \cup Range(q)
<1> DEFINE c == p \o q
<1>1. /\ c \in Seq(X) /\ Len(c) = Len(p) + Len(q)
      /\ \A i \in 1 .. Len(p) + Len(q) : c[i] = IF i <= Len(p) THEN p[i] ELSE q[i - Len(p)]
  BY ConcatProperties
<1> HIDE DEF c
<1>2. /\ Range(c) = {c[i] : i \in 1 .. Len(c)}
      /\ Range(p) = {p[i] : i \in 1 .. Len(p)}
      /\ Range(q) = {q[i] : i \in 1 .. Len(q)}
      /\ Len(p) \in Nat /\ Len(q) \in Nat
  BY <1>1, RangeOf
<1>3. ASSUME NEW i \in 1 .. Len(c)
      PROVE  c[i] \in Range(p) \cup Range(q)
  <2>1. CASE i <= Len(p)
    <3>1. i \in 1 .. Len(p) /\ c[i] = p[i]
      BY <1>1, <1>2, <2>1
    <3> QED
      BY <1>2, <3>1
  <2>2. CASE ~(i <= Len(p))
    <3>1. i - Len(p) \in 1 .. Len(q) /\ c[i] = q[i - Len(p)]
      BY <1>1, <1>2, <2>2
    <3> QED
      BY <1>2, <3>1
  <2> QED
    BY <2>1, <2>2
<1>4. Range(c) \subseteq Range(p) \cup Range(q)
  BY <1>2, <1>3
<1> QED
  BY <1>4 DEF c

LEMMA NotTheLast ==
  ASSUME NEW n \in Nat, NEW i \in 1 .. n, i # n
  PROVE  i \in 1 .. n - 1 /\ i + 1 \in 1 .. n
OBVIOUS

LEMMA TailOfAppend ==
  ASSUME NEW X, NEW q \in Seq(X), NEW e \in X, q # <<>>
  PROVE  Head(Append(q, e)) = Head(q) /\ Tail(Append(q, e)) = Append(Tail(q), e)
<1> DEFINE a == Append(q, e)
           l == Tail(a)
           r == Append(Tail(q), e)
<1>1. /\ Len(q) \in Nat \ {0} /\ Tail(q) \in Seq(X) /\ Len(Tail(q)) = Len(q) - 1
      /\ Head(q) = q[1]
      /\ \A i \in 1 .. Len(q) - 1 : Tail(q)[i] = q[i + 1]
  BY CP!TailFacts, PartsAssume
<1>2. /\ a \in Seq(X) /\ a # <<>> /\ Len(a) = Len(q) + 1
      /\ \A i \in 1 .. Len(q) : a[i] = q[i]
      /\ a[Len(q) + 1] = e
  BY CP!AppendFacts, PartsAssume
<1> HIDE DEF a
<1>3. /\ l \in Seq(X) /\ Len(l) = Len(a) - 1 /\ Head(a) = a[1]
      /\ \A i \in 1 .. Len(a) - 1 : l[i] = a[i + 1]
  BY <1>2, CP!TailFacts, PartsAssume
<1>4. /\ r \in Seq(X) /\ Len(r) = Len(Tail(q)) + 1
      /\ \A i \in 1 .. Len(Tail(q)) : r[i] = Tail(q)[i]
      /\ r[Len(Tail(q)) + 1] = e
  BY <1>1, CP!AppendFacts, PartsAssume
<1> HIDE DEF l, r
<1>5. Len(l) = Len(q) /\ Len(r) = Len(q)
  BY <1>1, <1>2, <1>3, <1>4
<1>6. ASSUME NEW i \in 1 .. Len(q)
      PROVE  l[i] = r[i]
  <2>1. l[i] = a[i + 1]
    BY <1>2, <1>3
  <2>2. CASE i = Len(q)
    BY <1>1, <1>2, <1>4, <2>1, <2>2
  <2>3. CASE i # Len(q)
    <3>1. Len(q) \in Nat /\ Len(Tail(q)) = Len(q) - 1
      BY <1>1
    <3>2. i \in 1 .. Len(q) - 1 /\ i + 1 \in 1 .. Len(q) /\ i \in 1 .. Len(Tail(q))
      BY <2>3, <3>1, NotTheLast
    <3>3. a[i + 1] = q[i + 1]
      BY <1>2, <3>2
    <3>4. r[i] = q[i + 1]
      BY <1>1, <1>4, <3>2
    <3> QED
      BY <2>1, <3>3, <3>4
  <2> QED
    BY <2>2, <2>3
<1>7. l = r
  BY <1>3, <1>4, <1>5, <1>6, SeqEqual
<1>8. 1 \in 1 .. Len(q)
  BY <1>1
<1> QED
  BY <1>1, <1>2, <1>3, <1>7, <1>8 DEF a, l, r

\* What executingBar is when one request at most is executed and unanswered.
LEMMA TheOne ==
  ASSUME NEW E, NEW A, NEW x, \A s \in E : s \in A \/ s = x
  PROVE  (IF E \subseteq A THEN NoNumber ELSE CHOOSE s \in E : s \notin A)
           = IF x \in E /\ x \notin A THEN x ELSE NoNumber
<1>1. CASE E \subseteq A
  BY <1>1
<1>2. CASE ~(E \subseteq A)
  <2>1. PICK s \in E : s \notin A
    BY <1>2
  <2>2. s = x
    BY <2>1
  <2> DEFINE y == CHOOSE s1 \in E : s1 \notin A
  <2>3. y \in E /\ y \notin A
    BY <2>1
  <2>4. y = x
    BY <2>3
  <2> QED
    BY <1>2, <2>1, <2>2, <2>4
<1> QED
  BY <1>1, <1>2

(* States without trouble.                                                 *)

LEMMA Untroubled ==
  ASSUME Inv, ~Trouble
  PROVE  /\ ~raced /\ hasty = {} /\ woken = {} /\ NoSecond
         /\ CP!TypeOK /\ CP!QueueInv /\ CP!CalledOnce /\ CP!FrontOnWire /\ CP!FrontCalled
<1>1. ~raced /\ hasty = {} /\ woken = {}
  BY DEF Trouble
<1>2. NoSecond
  BY DEF Trouble, NoSecond, Inv, ArrivedOK
<1> QED
  BY <1>1, <1>2 DEF Inv, ClientInv, CP!CallInv, CP!QueueInv, CP!Undisturbed

\* Trouble does not go away.
LEMMA TroubleStays ==
  ASSUME Inv, [Next]_vars, ~Trouble'
  PROVE  ~Trouble
<1>1. ~raced' /\ hasty' = {} /\ woken' = {} /\ \A s \in C!Numbers : ~(seconds'[s] > 0)
  BY DEF Trouble, C!Numbers
<1>2. NoSecond'
  <2>1. ArrivedOK'
    BY ArrivedStep DEF Inv
  <2> QED
    BY <1>1, <2>1 DEF ArrivedOK, NoSecond, C!Numbers
<1>3. ~raced /\ NoSecond
  BY <1>1, <1>2, ClientKeeps DEF Inv
<1>4. hasty \subseteq hasty' /\ woken \subseteq woken'
  BY DEF Next, vars, serverVars, ClientStep, ServerStep, Arrive, Deliver, DeliverSecond,
         S!OnRequest, S!WaitForResponse, S!SpuriousWakeup, S!Reply, S!TakeRequest,
         S!NotifyHandler, S!SendResponse, S!Use
<1>5. \A s \in C!Numbers : ~(seconds[s] > 0)
  BY <1>3 DEF NoSecond
<1> QED
  BY <1>1, <1>3, <1>4, <1>5 DEF Trouble

\* Until the client's race a number reaches the server once.
LEMMA AskedOnce ==
  ASSUME Inv, ~raced, NEW i \in 1 .. Len(asked), NEW j \in 1 .. Len(asked), asked[i] = asked[j]
  PROVE  i = j
<1> SUFFICES ASSUME i # j PROVE FALSE
  OBVIOUS
<1>1. asked[i] \in C!Numbers
  BY ElementOfSeq DEF Inv, AskedOK
<1>2. arrived[asked[i]] >= 2
  BY DEF Inv, OccursOK
<1>3. arrived[asked[i]] \in Nat /\ arrived[asked[i]] <= called[asked[i]]
  BY <1>1 DEF Inv, ArrivedOK
<1>4. called[asked[i]] <= 1 /\ called[asked[i]] \in Nat
  BY <1>1 DEF Inv, ClientInv, CP!CalledOnce, CP!QueueInv, CP!TypeOK, C!Numbers, CP!Numbers
<1> QED
  BY <1>2, <1>3, <1>4

\* The number of a request that reached the server is one that was called.
LEMMA AskedWasCalled ==
  ASSUME Inv, NEW r \in 0 .. (nextId - 1)
  PROVE  r + 1 \in 1 .. Len(asked) /\ asked[r + 1] \in C!Numbers /\ called[asked[r + 1]] > 0
<1>1. nextId \in Nat
  BY PartsAssume DEF Inv, SP!IInv, SP!TypeOK, SP!ServiceAssumption
<1>2. r + 1 \in 1 .. Len(asked)
  BY <1>1 DEF Inv, AskedOK
<1>3. asked[r + 1] \in C!Numbers
  BY <1>2, ElementOfSeq DEF Inv, AskedOK
<1>4. arrived[asked[r + 1]] >= 1
  BY <1>2 DEF Inv, OccursOK
<1>5. /\ arrived[asked[r + 1]] \in Nat /\ arrived[asked[r + 1]] <= called[asked[r + 1]]
      /\ called[asked[r + 1]] \in Nat
  BY <1>3 DEF Inv, ArrivedOK, ClientInv, CP!QueueInv, CP!TypeOK, C!Numbers, CP!Numbers
<1> QED
  BY <1>2, <1>3, <1>4, <1>5

LEMMA ExecutedWasCalled ==
  ASSUME Inv, NEW s \in Executed
  PROVE  s \in C!Numbers /\ called[s] > 0 /\ s # NoNumber
<1>1. s \in C!Numbers /\ called[s] > 0
  BY AskedWasCalled DEF Executed
<1> QED
  BY <1>1, ServiceCallAssumption DEF ServiceCallAssumption, C!Numbers

\* A request that was called and is not answered is the front of the queue.
LEMMA UnansweredIsFront ==
  ASSUME Inv, ~Trouble, AnswerInv, NEW s \in C!Numbers, called[s] > 0, s \notin Answered
  PROVE  cpc = "idle" /\ requests # <<>> /\ s = requests[1]
<1>1. calls[s] > 0
  BY DEF AnswerInv
<1> QED
  BY <1>1, Untroubled DEF CP!FrontOnWire, C!Numbers, CP!Numbers

\* What waits behind the front has not been executed.
LEMMA BehindTheFront ==
  ASSUME Inv, ~Trouble, NEW i \in 2 .. Len(requests)
  PROVE  requests[i] \notin Executed
<1>1. called[requests[i]] = 0
  BY Untroubled DEF CP!CalledOnce
<1> QED
  BY <1>1, ExecutedWasCalled

\* The mapping makes a value of Trouble.
LEMMA TruthValues ==
  /\ ~Trouble => Trouble = FALSE
  /\ ~Trouble' => Trouble' = FALSE
  /\ Trouble' => Trouble' = TRUE
BY DEF Trouble

(* The queue as CallPromise sees it does not change with steps that leave  *)
(* it alone.                                                               *)
LEMMA NothingSeen ==
  ASSUME Executed' = Executed, Got' = Got, requests' = requests, ~Trouble, ~Trouble'
  PROVE  UNCHANGED Promise!vars
<1>1. Answered' = Answered
  BY DEF Answered, Got
<1>2. waitingBar' = waitingBar /\ executingBar' = executingBar
  BY <1>1 DEF waitingBar, executingBar
<1>3. Trouble' = Trouble
  BY TruthValues
<1> QED
  BY <1>2, <1>3 DEF Promise!vars, Got

(* What the server does to the requests that were executed.                *)

LEMMA PendingFacts ==
  ASSUME Inv
  PROVE  /\ nextId \in Nat /\ pending \in Seq(SP!Ids)
         /\ \A r \in Range(pending) : r \in 0 .. (nextId - 1)
         /\ Executed = {asked[r + 1] : r \in (0 .. (nextId - 1)) \ Range(pending)}
<1>1. nextId \in Nat /\ pending \in Seq(SP!Ids)
  BY PartsAssume DEF Inv, SP!IInv, SP!TypeOK, SP!ServiceAssumption
<1>2. \A r \in Range(pending) : r \in SP!Ids /\ r < nextId
  BY RangesAgree DEF Inv, SP!IInv, SP!PlacesOK, SP!Referred, SP!Arrived
<1>3. \A r \in SP!Ids : r \in Nat
  BY PartsAssume DEF SP!Ids, SP!ServiceAssumption
<1>4. \A r \in Range(pending) : r \in 0 .. (nextId - 1)
  BY <1>1, <1>2, <1>3
<1> QED
  BY <1>1, <1>4 DEF Executed

\* A request that arrives waits.
LEMMA ArriveExecutesNothing ==
  ASSUME Inv, NEW h \in Handlers, NEW s \in C!Numbers, Arrive(h, s)
  PROVE  Executed' = Executed
<1>1. nextId \in SP!Ids
  BY PendingFacts, PartsAssume DEF Arrive, S!OnRequest, SP!Ids, SP!ServiceAssumption
<1>2. pending' = Append(pending, nextId) /\ nextId' = nextId + 1
  BY DEF Arrive, S!OnRequest
<1>3. Range(pending') = Range(pending) \cup {nextId}
  BY <1>1, <1>2, PendingFacts, RangeAppend
<1>4. \A r \in 0 .. (nextId - 1) : asked'[r + 1] = asked[r + 1]
  <2>1. \A r \in 0 .. (nextId - 1) : r + 1 \in 1 .. Len(asked)
    BY AskedWasCalled
  <2>2. \A i \in 1 .. Len(asked) : asked'[i] = asked[i]
    BY ArriveFacts DEF Inv
  <2> QED
    BY <2>1, <2>2
<1>5. (0 .. (nextId' - 1)) \ Range(pending') = (0 .. (nextId - 1)) \ Range(pending)
  <2>1. nextId \in Nat
    BY PendingFacts
  <2>2. 0 .. (nextId' - 1) = (0 .. (nextId - 1)) \cup {nextId}
    BY <1>2, <2>1
  <2>3. nextId \notin 0 .. (nextId - 1)
    BY <2>1
  <2> QED
    BY <1>3, <2>2, <2>3
<1> QED
  BY <1>4, <1>5 DEF Executed

\* The request that the executor takes is executed, and was not before.
LEMMA TakeExecutes ==
  ASSUME Inv, ~raced, S!TakeRequest, UNCHANGED connection
  PROVE  \/ Executed' = Executed
         \/ \E s \in C!Numbers :
              /\ s \notin Executed /\ called[s] > 0
              /\ Executed' = Executed \cup {s}
<1>1. CASE UNCHANGED <<nextId, pending>>
  BY <1>1 DEF Executed, connection
<1>2. CASE ~UNCHANGED <<nextId, pending>>
  <2> DEFINE r == Head(pending)
             s == asked[r + 1]
  <2>1. pending # <<>> /\ pending' = Tail(pending) /\ nextId' = nextId
    BY <1>2 DEF S!TakeRequest, S!Use
  <2>2. r \in Range(pending) /\ Range(pending) = Range(Tail(pending)) \cup {r}
    BY <2>1, PendingFacts, SP!Popped, PartsAssume, RangesAgree
  <2>3. r \notin Range(Tail(pending))
    <3>1. SP!Once(pending)
      BY DEF Inv, SP!IInv, SP!PlacesOK
    <3> QED
      BY <2>1, <3>1, PendingFacts, SP!HeadIsGone, PartsAssume, RangesAgree
  <2>4. r \in 0 .. (nextId - 1)
    BY <2>2, PendingFacts
  <2> HIDE DEF r
  <2>5. s \in C!Numbers /\ called[s] > 0
    BY <2>4, AskedWasCalled
  <2>6. s \notin Executed
    <3> SUFFICES ASSUME NEW g \in (0 .. (nextId - 1)) \ Range(pending), s = asked[g + 1]
                 PROVE  FALSE
      BY DEF Executed
    <3>1. g + 1 = r + 1
      BY <2>4, AskedWasCalled, AskedOnce
    <3>2. g = r
      BY <2>4, <3>1
    <3> QED
      BY <2>2, <3>2
  <2>7. Executed' = Executed \cup {s}
    <3>1. (0 .. (nextId' - 1)) \ Range(pending') = ((0 .. (nextId - 1)) \ Range(pending)) \cup {r}
      BY <2>1, <2>2, <2>3, <2>4
    <3>2. asked' = asked
      BY DEF connection
    <3> HIDE DEF s
    <3> QED
      BY <3>1, <3>2 DEF Executed, s
  <2> QED
    BY <2>5, <2>6, <2>7
<1> QED
  BY <1>1, <1>2

LEMMA ReplyOutStep ==
  ASSUME Inv, ReplyOut, [Next]_vars
  PROVE  ReplyOut'
<1>s. S!Ids' = S!Ids
  BY DEF S!Ids
<1>1. ASSUME UNCHANGED <<replies, pending>>, woken \subseteq woken'
      PROVE  ReplyOut'
  BY <1>1, <1>s DEF ReplyOut
<1>2. ASSUME NEW h \in Handlers, NEW s \in C!Numbers, Arrive(h, s)
      PROVE  ReplyOut'
  <2>1. nextId \in SP!Ids
    BY <1>2, PendingFacts, PartsAssume
       DEF Arrive, S!OnRequest, SP!Ids, SP!ServiceAssumption
  <2>2. pending' = Append(pending, nextId) /\ UNCHANGED <<replies, woken>>
    BY <1>2 DEF Arrive, S!OnRequest
  <2>3. Range(pending') = Range(pending) \cup {nextId}
    BY <2>1, <2>2, PendingFacts, RangeAppend
  <2>4. replies[nextId] = NoReply
    BY <2>1, PendingFacts DEF Inv, AskedOK, S!Ids, SP!Ids
  <2> QED
    BY <1>s, <2>2, <2>3, <2>4 DEF ReplyOut
<1>3. ASSUME NEW h \in Handlers, S!Reply(h)
      PROVE  ReplyOut'
  <2>1. frame[h] \in woken \/ frame[h] \notin Range(pending)
    BY <1>3, RangesAgree DEF S!Reply, Inv, SP!IInv, SP!RepliesOK, SP!Referred
  <2>2. UNCHANGED <<pending, woken>>
    BY <1>3 DEF S!Reply
  <2>3. \A r \in S!Ids : r # frame[h] => replies'[r] = replies[r]
    BY <1>3 DEF S!Reply, Inv, SP!IInv, SP!TypeOK, S!Ids, SP!Ids
  <2> QED
    BY <1>s, <2>1, <2>2, <2>3 DEF ReplyOut
<1>4. CASE S!TakeRequest
  <2>1. UNCHANGED <<replies, woken>>
    BY <1>4 DEF S!TakeRequest, S!Use
  <2>2. Range(pending') \subseteq Range(pending)
    <3>1. pending # <<>> /\ (pending' = Tail(pending) \/ pending' = pending)
      BY <1>4 DEF S!TakeRequest, S!Use
    <3>2. Range(pending) = Range(Tail(pending)) \cup {Head(pending)}
      BY <3>1, PendingFacts, SP!Popped, PartsAssume, RangesAgree
    <3> QED
      BY <3>1, <3>2
  <2> QED
    BY <1>s, <2>1, <2>2 DEF ReplyOut
<1>5. \/ UNCHANGED <<replies, pending>> /\ woken \subseteq woken'
      \/ \E h \in Handlers, s \in C!Numbers : Arrive(h, s)
      \/ \E h \in Handlers : S!Reply(h)
      \/ S!TakeRequest
  BY DEF Next, vars, serverVars, ClientStep, ServerStep, Deliver, DeliverSecond,
         S!WaitForResponse, S!SpuriousWakeup, S!NotifyHandler, S!SendResponse, S!Use
<1> QED
  BY <1>1, <1>2, <1>3, <1>4, <1>5

(* The steps that CallPromise sees, and those that it does not.            *)

Refines == AnswerInv' /\ [Promise!Next]_Promise!vars

\* A step of the server or of the connection that answers nobody.
LEMMA RefineServer ==
  ASSUME RefineInv, ~Trouble, ~Trouble', UNCHANGED clientVars, Executed' = Executed
  PROVE  Refines
<1>1. Got' = Got /\ Answered' = Answered /\ requests' = requests
  BY DEF clientVars, Got, Answered
<1>2. UNCHANGED Promise!vars
  BY <1>1, NothingSeen
<1>3. AnswerInv'
  BY <1>1 DEF RefineInv, AnswerInv, clientVars, C!Numbers
<1> QED
  BY <1>2, <1>3 DEF Refines

LEMMA RefineTake ==
  ASSUME RefineInv, ~Trouble, ~Trouble', S!TakeRequest, UNCHANGED <<clientVars, connection>>
  PROVE  Refines
<1>1. CASE Executed' = Executed
  BY <1>1, RefineServer
<1>2. ASSUME NEW s \in C!Numbers, s \notin Executed, called[s] > 0,
             Executed' = Executed \cup {s}
      PROVE  Refines
  <2>a. Inv /\ AnswerInv
    BY DEF RefineInv
  <2>1. s \notin Answered
    BY <1>2, <2>a DEF AnswerInv
  <2>2. cpc = "idle" /\ requests # <<>> /\ s = requests[1]
    BY <1>2, <2>a, <2>1, UnansweredIsFront
  <2>3. Head(requests) = s
    BY <2>2, <2>a, Untroubled, CP!TailFacts, PartsAssume DEF CP!TypeOK
  <2>4. /\ Got' = Got /\ Answered' = Answered
        /\ UNCHANGED <<requests, calls, called, cpc>>
    BY DEF clientVars, Got, Answered
  <2>5. waitingBar = requests /\ waitingBar' = Tail(requests)
    BY <1>2, <2>2, <2>3, <2>4 DEF waitingBar
  <2>6. \A u \in Executed' : u \in Answered \/ u = s
    BY <1>2, <2>2, <2>a, ExecutedWasCalled, UnansweredIsFront
  <2>7. executingBar = NoNumber
    <3>1. Executed \subseteq Answered
      BY <1>2, <2>6
    <3> QED
      BY <3>1 DEF executingBar
  <2>8. executingBar' = s
    BY <1>2, <2>1, <2>4, <2>6, TheOne DEF executingBar
  <2>9. Promise!Execute /\ Promise!Works
    BY <2>2, <2>3, <2>4, <2>5, <2>7, <2>8, TruthValues
       DEF Promise!Execute, Promise!Works, Got
  <2>10. AnswerInv'
    BY <1>2, <2>a, <2>4 DEF AnswerInv, C!Numbers
  <2> QED
    BY <2>9, <2>10 DEF Refines, Promise!Next
<1>3. ~raced /\ Inv
  BY Untroubled DEF RefineInv
<1> QED
  BY <1>1, <1>2, <1>3, TakeExecutes

LEMMA RefineDeliver ==
  ASSUME RefineInv, ~Trouble, ~Trouble', NEW r \in S!Ids, Deliver(r)
  PROVE  Refines
<1> DEFINE s == NumberIn(r)
<1>a. Inv /\ AnswerInv /\ ReplyOut /\ SP!IInv /\ AskedOK /\ woken = {}
  BY Untroubled DEF RefineInv, Inv
<1>1. replies[r] # NoReply /\ replies[r] = r /\ C!OnResponse(s)
  BY <1>a, NumberIsOwn DEF Deliver
<1>2. s \in C!Numbers /\ s \in CP!Numbers
  BY <1>a, <1>1, NumberIsOwn DEF C!Numbers, CP!Numbers
<1>3. s \in Executed
  <2>1. r \in 0 .. (nextId - 1)
    <3>1. r \in Nat /\ r < nextId /\ nextId \in Nat
      BY <1>a, <1>1, PendingFacts, PartsAssume DEF AskedOK, S!Ids, SP!ServiceAssumption
    <3> QED
      BY <3>1
  <2>2. r \notin Range(pending)
    BY <1>a, <1>1 DEF ReplyOut
  <2> QED
    BY <2>1, <2>2 DEF Executed, NumberIn
<1> HIDE DEF s
<1>4. /\ cpc = "idle" /\ cpc' = "pop" /\ calls[s] > 0
      /\ calls' = [calls EXCEPT ![s] = @ - 1]
      /\ responses' = Append(responses, s)
      /\ UNCHANGED <<requests, called, taken>>
  BY <1>1 DEF C!OnResponse
<1>5. called[s] > 0 /\ s \notin Answered
  BY <1>a, <1>2, <1>3, <1>4, ExecutedWasCalled DEF AnswerInv
<1>6. requests # <<>> /\ s = requests[1]
  BY <1>a, <1>2, <1>5, UnansweredIsFront
<1>7. Executed' = Executed
  BY DEF Executed, Deliver, serverVars
<1>8. Got' = Append(Got, s) /\ Answered' = Answered \cup {s}
  <2>1. taken \in Seq(C!Numbers) /\ responses \in Seq(C!Numbers)
    BY <1>a, Untroubled DEF CP!TypeOK, C!Numbers, CP!Numbers
  <2>2. Got' = Append(Got, s)
    BY <1>2, <1>4, <2>1, CP!AppendBehind, PartsAssume DEF Got
  <2>3. Got \in Seq(C!Numbers)
    BY <2>1, ConcatProperties DEF Got
  <2>4. Range(Append(Got, s)) = Range(Got) \cup {s}
    BY <1>2, <2>3, RangeAppend
  <2> QED
    BY <2>2, <2>4 DEF Got, Answered
<1>9. \A u \in Executed : u \in Answered \/ u = s
  BY <1>a, <1>6, ExecutedWasCalled, UnansweredIsFront
<1>10. executingBar = s /\ executingBar' = NoNumber /\ s # NoNumber
  <2>1. executingBar = s
    BY <1>3, <1>5, <1>9, TheOne DEF executingBar
  <2>2. Executed' \subseteq Answered'
    BY <1>7, <1>8, <1>9
  <2>3. executingBar' = NoNumber
    BY <2>2 DEF executingBar
  <2> QED
    BY <1>a, <1>3, <2>1, <2>3, ExecutedWasCalled
<1>11. waitingBar' = waitingBar
  BY <1>4, <1>7 DEF waitingBar
<1>12. Promise!Answer /\ Promise!Works
  BY <1>8, <1>10, <1>11, TruthValues DEF Promise!Answer, Promise!Works, Got
<1>13. AnswerInv'
  <2>1. calls'[s] = calls[s] - 1 /\ \A u \in C!Numbers \ {s} : calls'[u] = calls[u]
    BY <1>a, <1>2, <1>4, Untroubled, CP!EndCounts, PartsAssume DEF C!Numbers, CP!Numbers
  <2>2. ~(calls'[s] > 0)
    <3>1. calls[s] \in Nat /\ called[s] \in Nat /\ calls[s] <= called[s] /\ called[s] <= 1
      BY <1>a, <1>2, Untroubled DEF CP!TypeOK, CP!FrontOnWire, CP!CalledOnce
    <3> QED
      BY <2>1, <3>1
  <2>3. \A u \in C!Numbers : called'[u] > 0 => (calls'[u] > 0 <=> u \notin Answered')
    <3> SUFFICES ASSUME NEW u \in C!Numbers, called'[u] > 0
                 PROVE  calls'[u] > 0 <=> u \notin Answered'
      OBVIOUS
    <3>1. CASE u = s
      BY <1>8, <2>2, <3>1
    <3>2. CASE u # s
      <4>1. calls[u] > 0 <=> u \notin Answered
        BY <1>a, <1>4 DEF AnswerInv
      <4>2. calls'[u] = calls[u] /\ (u \in Answered' <=> u \in Answered)
        BY <1>8, <2>1, <3>2
      <4> QED
        BY <4>1, <4>2
    <3> QED
      BY <3>1, <3>2
  <2>4. Answered' \subseteq Executed'
    BY <1>a, <1>3, <1>7, <1>8 DEF AnswerInv
  <2>5. requests'[1] \in Executed'
    BY <1>3, <1>4, <1>6, <1>7
  <2> QED
    BY <2>3, <2>4, <2>5 DEF AnswerInv, C!Numbers
<1> QED
  BY <1>12, <1>13 DEF Refines, Promise!Next

\* A step of the client that queues nothing and pops nothing.
LEMMA RefineQuiet ==
  ASSUME RefineInv, ~Trouble, ~Trouble', UNCHANGED <<serverVars, connection>>,
         \/ \E t \in Senders : C!DrawNumber(t)
         \/ C!PerformNextRequest
         \/ C!TakeResponse
  PROVE  Refines
<1>a. Inv /\ AnswerInv /\ CP!TypeOK /\ CP!QueueInv
  BY Untroubled DEF RefineInv
<1>1. Executed' = Executed
  BY DEF Executed, serverVars, connection
<1>2. Got' = Got /\ Answered' = Answered
  <2>1. CASE C!TakeResponse
    <3>1. CP!TakeResponse
      BY <2>1 DEF C!TakeResponse, CP!TakeResponse
    <3>2. CP!Got' = CP!Got
      BY <1>a, <3>1, CP!TakeKeepsGot, PartsAssume
    <3> QED
      BY <3>2 DEF CP!Got, Got, Answered
  <2>2. CASE UNCHANGED <<taken, responses>>
    BY <2>2 DEF Got, Answered
  <2> QED
    BY <2>1, <2>2 DEF C!DrawNumber, C!PerformNextRequest
<1>3. requests' = requests
  BY DEF C!DrawNumber, C!PerformNextRequest, C!TakeResponse
<1>4. AnswerInv'
  <2>1. CASE UNCHANGED <<calls, called, cpc>>
    BY <1>a, <1>1, <1>2, <1>3, <2>1 DEF AnswerInv, C!Numbers
  <2>2. CASE C!PerformNextRequest
    <3>1. CP!PerformNextRequest
      BY <2>2 DEF C!PerformNextRequest, CP!PerformNextRequest, C!CallAsync, CP!CallAsync
    <3>2. CASE requests = <<>>
      <4>1. UNCHANGED <<calls, called>> /\ cpc' = "idle"
        BY <1>a, <3>1, <3>2, CP!PerformFacts, PartsAssume
      <4> QED
        BY <1>a, <1>1, <1>2, <4>1 DEF AnswerInv, C!Numbers
    <3>3. CASE requests # <<>>
      <4> DEFINE s == requests[1]
      <4>1. s \in CP!Numbers /\ CP!CallAsync(s) /\ cpc = "next" /\ cpc' = "idle"
        BY <1>a, <3>1, <3>3, CP!PerformFacts, PartsAssume
      <4>2. s \notin Answered
        <5>1. called[s] = 0
          BY <1>a, <3>3, <4>1, Untroubled DEF CP!CalledOnce
        <5> QED
          BY <1>a, <5>1, ExecutedWasCalled DEF AnswerInv
      <4>3. /\ calls'[s] = calls[s] + 1 /\ calls[s] \in Nat
            /\ \A u \in C!Numbers \ {s} : calls'[u] = calls[u] /\ called'[u] = called[u]
        BY <1>a, <4>1, CP!CallCounts, PartsAssume DEF CP!TypeOK, C!Numbers, CP!Numbers
      <4> HIDE DEF s
      <4>4. calls'[s] > 0
        BY <4>3
      <4> QED
        BY <1>a, <1>1, <1>2, <4>1, <4>2, <4>3, <4>4 DEF AnswerInv, C!Numbers
    <3> QED
      BY <3>2, <3>3
  <2> QED
    BY <2>1, <2>2 DEF C!DrawNumber, C!TakeResponse
<1>5. UNCHANGED Promise!vars
  BY <1>1, <1>2, <1>3, NothingSeen
<1> QED
  BY <1>4, <1>5 DEF Refines

\* The front is popped when it is answered, and what comes to the front has
\* not been executed.
LEMMA RefinePop ==
  ASSUME RefineInv, ~Trouble, ~Trouble', UNCHANGED <<serverVars, connection>>,
         C!PopLastRequest
  PROVE  Refines
<1>a. Inv /\ AnswerInv /\ requests \in Seq(C!Numbers) /\ CP!FrontOnWire
  BY Untroubled DEF RefineInv, CP!TypeOK, C!Numbers, CP!Numbers
<1>1. Executed' = Executed /\ Got' = Got /\ Answered' = Answered
  BY DEF Executed, Got, Answered, C!PopLastRequest, serverVars, connection
<1>2. /\ cpc = "pop" /\ cpc' = "next" /\ requests # <<>> /\ requests' = Tail(requests)
      /\ UNCHANGED <<calls, called>>
  BY <1>a DEF C!PopLastRequest, CP!FrontOnWire
<1>3. /\ Head(requests) = requests[1] /\ Len(requests) \in Nat \ {0}
      /\ Tail(requests) \in Seq(C!Numbers) /\ Len(Tail(requests)) = Len(requests) - 1
      /\ \A i \in 1 .. Len(requests) - 1 : Tail(requests)[i] = requests[i + 1]
  BY <1>a, <1>2, CP!TailFacts, PartsAssume
<1>4. waitingBar = Tail(requests)
  BY <1>a, <1>2, <1>3 DEF waitingBar, AnswerInv
<1>5. ASSUME requests' # <<>>
      PROVE  Head(requests') \notin Executed
  <2>1. Head(requests') = requests'[1] /\ Len(requests') \in Nat \ {0}
    BY <1>2, <1>3, <1>5, CP!TailFacts, PartsAssume
  <2>2. 2 \in 2 .. Len(requests) /\ 1 \in 1 .. Len(requests) - 1
    BY <1>2, <1>3, <2>1
  <2>3. requests'[1] = requests[2]
    BY <1>2, <1>3, <2>2
  <2> QED
    BY <1>a, <2>1, <2>2, <2>3, BehindTheFront
<1>6. waitingBar' = waitingBar
  BY <1>1, <1>2, <1>4, <1>5 DEF waitingBar
<1>7. executingBar' = executingBar
  BY <1>1 DEF executingBar
<1>8. UNCHANGED Promise!vars
  BY <1>1, <1>6, <1>7, TruthValues DEF Promise!vars, Got
<1>9. AnswerInv'
  BY <1>a, <1>1, <1>2 DEF AnswerInv, C!Numbers
<1> QED
  BY <1>8, <1>9 DEF Refines

LEMMA RefineEnqueue ==
  ASSUME RefineInv, ~Trouble, ~Trouble', UNCHANGED <<serverVars, connection>>,
         NEW t \in Senders, C!EnqueueRequest(t)
  PROVE  Refines
<1> DEFINE s == holds[t]
<1>a. /\ Inv /\ AnswerInv /\ CP!TypeOK /\ CP!QueueInv /\ CP!CalledOnce
      /\ requests \in Seq(C!Numbers)
      /\ taken \in Seq(C!Numbers) /\ responses \in Seq(C!Numbers)
  BY Untroubled DEF RefineInv, CP!TypeOK, C!Numbers, CP!Numbers
<1>b. CP!EnqueueRequest(t)
  BY DEF C!EnqueueRequest, CP!EnqueueRequest, C!CallAsync, CP!CallAsync
<1>1. Executed' = Executed /\ Got' = Got /\ Answered' = Answered
  BY DEF Executed, Got, Answered, C!EnqueueRequest, serverVars, connection
<1>2. /\ s \in C!Numbers /\ s # NoNumber /\ requests' = Append(requests, s)
      /\ requests = <<>> => CP!CallAsync(s)
      /\ requests # <<>> => UNCHANGED <<calls, called>>
      /\ cpc' = cpc
  BY <1>a, <1>b, CP!EnqueueFacts, PartsAssume DEF C!EnqueueRequest, C!Numbers, CP!Numbers
<1>3. called[s] = 0
  BY <1>a, <1>2 DEF CP!CalledOnce
<1>4. s \notin Executed /\ s \notin Answered
  BY <1>a, <1>3, ExecutedWasCalled DEF AnswerInv
<1>5. s \notin Range(requests)
  <2>1. Range(requests) = {requests[i] : i \in 1 .. Len(requests)}
    BY <1>a, RangeOf
  <2>2. \A i \in 1 .. Len(requests) : s # requests[i]
    BY <1>a DEF CP!QueueInv, CP!OwnPlace
  <2> QED
    BY <2>1, <2>2
<1> HIDE DEF s
<1>6. waitingBar' = Append(waitingBar, s)
  <2>1. CASE requests = <<>>
    <3>1. requests' = <<s>> /\ Head(requests') = s /\ requests' # <<>>
      BY <1>2, <2>1
    <3> QED
      BY <1>1, <1>2, <1>4, <2>1, <3>1 DEF waitingBar
  <2>2. CASE requests # <<>>
    <3>1. /\ Head(requests') = Head(requests)
          /\ Tail(requests') = Append(Tail(requests), s)
          /\ requests' # <<>>
      BY <1>a, <1>2, <2>2, TailOfAppend, CP!AppendFacts, PartsAssume
    <3> QED
      BY <1>1, <1>2, <2>2, <3>1 DEF waitingBar
  <2> QED
    BY <2>1, <2>2
<1>7. executingBar' = executingBar
  BY <1>1 DEF executingBar
<1>8. s \notin Range(waitingBar \o Got) \cup {executingBar}
  <2>1. waitingBar \in Seq(C!Numbers) /\ Range(waitingBar) \subseteq Range(requests)
    <3>1. requests # <<>> =>
            /\ Tail(requests) \in Seq(C!Numbers)
            /\ Range(Tail(requests)) \subseteq Range(requests)
      <4>1. requests # <<>> =>
              /\ SP!Range(requests) = SP!Range(Tail(requests)) \cup {Head(requests)}
              /\ Tail(requests) \in Seq(C!Numbers)
        BY <1>a, SP!Popped, PartsAssume
      <4> QED
        BY <4>1, RangesAgree
    <3> QED
      BY <1>a, <3>1 DEF waitingBar
  <2>2. Got \in Seq(C!Numbers) /\ Range(Got) = Answered
    BY <1>a, ConcatProperties DEF Got, Answered
  <2>3. Range(waitingBar \o Got) \subseteq Range(requests) \cup Answered
    <3>1. Range(waitingBar \o Got) \subseteq Range(waitingBar) \cup Range(Got)
      BY <2>1, <2>2, RangeConcat
    <3> QED
      BY <2>1, <2>2, <3>1
  <2>4. executingBar = NoNumber \/ executingBar \in Executed
    BY DEF executingBar
  <2> QED
    BY <1>2, <1>4, <1>5, <2>3, <2>4
<1>9. Promise!Send(s) /\ Promise!Works
  BY <1>1, <1>6, <1>7, <1>8, TruthValues
     DEF Promise!Send, Promise!Works, Promise!Range, Range, Got
<1>10. AnswerInv'
  <2>1. requests # <<>> => requests'[1] = requests[1]
    <3>1. requests # <<>> => 1 \in 1 .. Len(requests)
      BY <1>a, CP!PlaceFacts, PartsAssume
    <3>2. \A i \in 1 .. Len(requests) : requests'[i] = requests[i]
      BY <1>a, <1>2, CP!AppendFacts, PartsAssume
    <3> QED
      BY <3>1, <3>2
  <2>2. cpc = "pop" => requests # <<>>
    BY Untroubled DEF RefineInv, CP!FrontOnWire
  <2>3. \A u \in C!Numbers : called'[u] > 0 => (calls'[u] > 0 <=> u \notin Answered)
    <3>1. CASE requests # <<>>
      BY <1>a, <1>2, <3>1 DEF AnswerInv
    <3>2. CASE requests = <<>>
      <4>1. /\ calls'[s] = calls[s] + 1 /\ calls[s] \in Nat
            /\ \A u \in C!Numbers \ {s} : calls'[u] = calls[u] /\ called'[u] = called[u]
        BY <1>a, <1>2, <3>2, CP!CallCounts, PartsAssume DEF CP!TypeOK, C!Numbers, CP!Numbers
      <4>2. calls'[s] > 0
        BY <4>1
      <4> QED
        BY <1>a, <1>4, <4>1, <4>2 DEF AnswerInv
    <3> QED
      BY <3>1, <3>2
  <2> QED
    BY <1>a, <1>1, <1>2, <2>1, <2>2, <2>3 DEF AnswerInv, C!Numbers
<1> QED
  BY <1>2, <1>9, <1>10 DEF Refines, Promise!Next

-----------------------------------------------------------------------------

LEMMA RefineStep ==
  ASSUME RefineInv, [Next]_vars
  PROVE  (~Trouble' => AnswerInv') /\ [Promise!Next]_Promise!vars
<1>a. Inv
  BY DEF RefineInv
<1>1. CASE Trouble'
  <2>1. Trouble' = TRUE
    BY <1>1, TruthValues
  <2> QED
    BY <1>1, <2>1 DEF Promise!Next
<1>2. CASE ~Trouble'
  <2>1. ~Trouble
    BY <1>a, <1>2, TroubleStays
  <2> SUFFICES Refines
    BY DEF Refines
  <2>2. ASSUME ClientStep,
               \/ \E t \in Senders : C!DrawNumber(t)
               \/ C!PerformNextRequest
               \/ C!TakeResponse
        PROVE  Refines
    BY <1>2, <2>1, <2>2, RefineQuiet DEF ClientStep
  <2>3. ASSUME NEW t \in Senders, ClientStep, C!EnqueueRequest(t)
        PROVE  Refines
    BY <1>2, <2>1, <2>3, RefineEnqueue DEF ClientStep
  <2>4. CASE ClientStep /\ C!PopLastRequest
    BY <1>2, <2>1, <2>4, RefinePop DEF ClientStep
  <2>5. CASE ServerStep /\ S!TakeRequest
    BY <1>2, <2>1, <2>5, RefineTake DEF ServerStep
  <2>6. CASE ServerStep /\ ~S!TakeRequest
    <3>1. UNCHANGED <<nextId, pending>>
      BY <2>6
         DEF ServerStep, S!WaitForResponse, S!SpuriousWakeup, S!Reply, S!NotifyHandler,
             S!SendResponse, S!Use
    <3>2. Executed' = Executed /\ UNCHANGED clientVars
      BY <2>6, <3>1 DEF ServerStep, connection, Executed
    <3> QED
      BY <1>2, <2>1, <3>2, RefineServer
  <2>7. ASSUME NEW h \in Handlers, NEW s \in C!Numbers, Arrive(h, s)
        PROVE  Refines
    <3>1. Executed' = Executed /\ UNCHANGED clientVars
      BY <1>a, <2>7, ArriveExecutesNothing DEF Arrive
    <3> QED
      BY <1>2, <2>1, <3>1, RefineServer
  <2>8. ASSUME NEW r \in S!Ids, Deliver(r)
        PROVE  Refines
    BY <1>2, <2>1, <2>8, RefineDeliver
  <2>9. ASSUME NEW s \in C!Numbers, DeliverSecond(s)
        PROVE  FALSE
    <3>1. seconds'[s] > 0
      BY <1>a, <2>9 DEF DeliverSecond, Inv, ArrivedOK
    <3> QED
      BY <1>2, <3>1 DEF Trouble, C!Numbers
  <2>10. CASE UNCHANGED vars
    <3>1. Executed' = Executed /\ UNCHANGED clientVars
      BY <2>10 DEF vars, serverVars, connection, Executed
    <3> QED
      BY <1>2, <2>1, <3>1, RefineServer
  <2>11. CASE ClientStep
    BY <2>2, <2>3, <2>4, <2>11 DEF ClientStep
  <2> QED
    BY <2>5, <2>6, <2>7, <2>8, <2>9, <2>10, <2>11 DEF Next
<1> QED
  BY <1>1, <1>2

\* The safety part of KeepsCallPromise: as long as nothing goes wrong, every
\* step of the client, its four-step callback, the server's handlers, its
\* executor and the connection queues, executes or answers the request that
\* is next, or is not seen by either application.
THEOREM ImplementsCallPromise ==
  Spec => Promise!Init /\ [][Promise!Next]_Promise!vars
<1>1. Init => Promise!Init /\ ReplyOut /\ AnswerInv
  <2> SUFFICES ASSUME Init
               PROVE  Promise!Init /\ ReplyOut /\ AnswerInv
    OBVIOUS
  <2>1. /\ requests = <<>> /\ responses = <<>> /\ taken = <<>> /\ cpc = "idle" /\ ~raced
        /\ called = [s \in C!Numbers |-> 0]
        /\ nextId = 0 /\ hasty = {} /\ woken = {}
        /\ replies = [r \in S!Ids |-> NoReply]
        /\ seconds = [s \in C!Numbers |-> 0]
    BY DEF Init, C!Init, S!Init
  <2>2. Executed = {}
    <3>1. 0 .. (nextId - 1) = {}
      BY <2>1
    <3> QED
      BY <3>1 DEF Executed
  <2>3. Got = <<>> /\ Answered = {}
    <3>1. taken \o responses = <<>>
      BY <2>1, EmptySeq, ConcatEmptySeq
    <3>2. Range(<<>>) = {}
      BY DEF Range
    <3> QED
      BY <3>1, <3>2 DEF Got, Answered
  <2>4. waitingBar = <<>> /\ executingBar = NoNumber
    BY <2>1, <2>2 DEF waitingBar, executingBar
  <2>5. Trouble = FALSE
    BY <2>1 DEF Trouble
  <2>6. AnswerInv /\ ReplyOut
    BY <2>1, <2>2, <2>3 DEF AnswerInv, ReplyOut
  <2> QED
    BY <2>3, <2>4, <2>5, <2>6 DEF Promise!Init, Got
<1>2. Inv /\ ReplyOut /\ [Next]_vars => ReplyOut'
  BY ReplyOutStep
<1>3. Inv /\ ReplyOut /\ (~Trouble => AnswerInv) /\ [Next]_vars =>
        (~Trouble => AnswerInv)' /\ [Promise!Next]_Promise!vars
  BY RefineStep DEF RefineInv
<1> QED
  BY <1>1, <1>2, <1>3, Invariance, PTL DEF Spec
==============================================================================
