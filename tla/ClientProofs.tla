---------------------------- MODULE ClientProofs -----------------------------
(***************************************************************************)
(* Proofs about Client, for any senders, any number of requests, and with  *)
(* or without calls that fail.                                             *)
(***************************************************************************)
EXTENDS ClientTeardown, SequenceTheorems, TLAPS

(* What the queue and the senders hold are numbers handed out, each in one *)
(* place.                                                                  *)
Drawn == 0 .. (nextNumber - 1)

HoldsOK ==
  \A t \in Senders :
    holds[t] # NoNumber => holds[t] \in Drawn /\ sender[holds[t] + 1] = t

OwnPlace ==
  /\ \A i \in 1 .. Len(requests) :
       /\ requests[i] \in Drawn
       /\ \A t \in Senders : holds[t] # requests[i]
  /\ \A i, j \in 1 .. Len(requests) : requests[i] = requests[j] => i = j

QueueInv == TypeOK /\ Len(sender) = nextNumber /\ HoldsOK /\ OwnPlace

(* Outside the step between pop and the call after it, the front has been  *)
(* called.                                                                 *)
FrontCalled == cpc # "next" /\ requests # <<>> => called[requests[1]] > 0

(* Until the race, a request is called when it comes to the front, no      *)
(* earlier and no more than once, however often it is answered ...         *)
CalledOnce ==
  /\ \A s \in Numbers : called[s] <= 1
  /\ \A i \in 2 .. Len(requests) : called[requests[i]] = 0
  /\ \A t \in Senders : holds[t] # NoNumber => called[holds[t]] = 0
  /\ \A s \in Numbers : s >= nextNumber => called[s] = 0
  /\ cpc = "next" /\ requests # <<>> => called[requests[1]] = 0

(* ... and if it is answered once, it is answered while it is the front.   *)
FrontOnWire ==
  /\ \A s \in Numbers : calls[s] <= called[s]
  /\ \A s \in Numbers : calls[s] > 0 => cpc = "idle" /\ requests # <<>> /\ s = requests[1]
  /\ cpc = "pop" => requests # <<>>

Undisturbed == CalledOnce /\ FrontOnWire

CallInv == QueueInv /\ (~raced => Undisturbed)

(* One sender's numbers grow along the responses, then the requests, then  *)
(* the number it holds.                                                    *)
Got == taken \o responses
SameSender(s, r) == sender[s + 1] = sender[r + 1]

GotOK == \A i \in 1 .. Len(Got) : Got[i] \in Drawn

Growing ==
  /\ \A i, j \in 1 .. Len(Got) : i < j /\ SameSender(Got[i], Got[j]) => Got[i] < Got[j]
  /\ \A i \in 1 .. Len(Got), j \in 1 .. Len(requests) :
       SameSender(Got[i], requests[j]) /\ ~(cpc = "pop" /\ j = 1) => Got[i] < requests[j]
  /\ \A i, j \in 1 .. Len(requests) :
       i < j /\ SameSender(requests[i], requests[j]) => requests[i] < requests[j]
  /\ \A t \in Senders : holds[t] # NoNumber =>
       /\ \A i \in 1 .. Len(Got) : sender[Got[i] + 1] = t => Got[i] < holds[t]
       /\ \A i \in 1 .. Len(requests) : sender[requests[i] + 1] = t => requests[i] < holds[t]

OrderInv == CallInv /\ (~raced => GotOK /\ Growing)

-----------------------------------------------------------------------------
(* Queues of numbers                                                       *)

LEMMA AppendFacts ==
  ASSUME NEW S, NEW q \in Seq(S), NEW e \in S
  PROVE  /\ Append(q, e) \in Seq(S) /\ Append(q, e) # <<>>
         /\ Len(q) \in Nat /\ Len(Append(q, e)) = Len(q) + 1
         /\ \A i \in 1 .. Len(q) : Append(q, e)[i] = q[i]
         /\ Append(q, e)[Len(q) + 1] = e
BY AppendProperties, LenProperties

LEMMA TailFacts ==
  ASSUME NEW S, NEW q \in Seq(S), q # <<>>
  PROVE  /\ Head(q) = q[1] /\ q[1] \in S
         /\ Len(q) \in Nat \ {0}
         /\ Tail(q) \in Seq(S) /\ Len(Tail(q)) = Len(q) - 1
         /\ \A i \in 1 .. Len(q) - 1 : Tail(q)[i] = q[i + 1]
BY HeadTailProperties, EmptySeq

\* Taking the head of q2 behind q1 leaves their concatenation as it was.
LEMMA MoveHead ==
  ASSUME NEW S, NEW q1 \in Seq(S), NEW q2 \in Seq(S), q2 # <<>>
  PROVE  Append(q1, Head(q2)) \o Tail(q2) = q1 \o q2
<1>1. /\ Head(q2) = q2[1] /\ Head(q2) \in S /\ Len(q2) \in Nat \ {0}
      /\ Tail(q2) \in Seq(S) /\ Len(Tail(q2)) = Len(q2) - 1
      /\ \A i \in 1 .. Len(q2) - 1 : Tail(q2)[i] = q2[i + 1]
  BY TailFacts
<1> DEFINE a == Append(q1, Head(q2))
           l == a \o Tail(q2)
           r == q1 \o q2
<1>2. /\ a \in Seq(S) /\ Len(q1) \in Nat /\ Len(a) = Len(q1) + 1
      /\ \A i \in 1 .. Len(q1) : a[i] = q1[i]
      /\ a[Len(q1) + 1] = q2[1]
  BY <1>1, AppendFacts
<1> HIDE DEF a
<1>3. /\ l \in Seq(S) /\ Len(l) = Len(a) + Len(Tail(q2))
      /\ \A i \in 1 .. Len(a) + Len(Tail(q2)) :
           l[i] = IF i <= Len(a) THEN a[i] ELSE Tail(q2)[i - Len(a)]
  BY <1>1, <1>2, ConcatProperties
<1>4. /\ r \in Seq(S) /\ Len(r) = Len(q1) + Len(q2)
      /\ \A i \in 1 .. Len(q1) + Len(q2) : r[i] = IF i <= Len(q1) THEN q1[i] ELSE q2[i - Len(q1)]
  BY ConcatProperties
<1> HIDE DEF l, r
<1>5. Len(l) = Len(r)
  BY <1>1, <1>2, <1>3, <1>4
<1>6. ASSUME NEW i \in 1 .. Len(l) PROVE l[i] = r[i]
  <2>1. i \in Nat /\ i >= 1 /\ i <= Len(q1) + Len(q2)
    BY <1>4, <1>5
  <2>2. l[i] = IF i <= Len(a) THEN a[i] ELSE Tail(q2)[i - Len(a)]
    BY <1>3
  <2>3. r[i] = IF i <= Len(q1) THEN q1[i] ELSE q2[i - Len(q1)]
    BY <1>4, <1>5
  <2>4. CASE i <= Len(q1)
    BY <2>1, <2>2, <2>3, <2>4, <1>2
  <2>5. CASE i = Len(q1) + 1
    <3>1. i - Len(q1) = 1 /\ ~(i <= Len(q1)) /\ i <= Len(a)
      BY <2>5, <1>2
    <3> QED BY <3>1, <2>2, <2>3, <2>5, <1>2
  <2>6. CASE i > Len(q1) + 1
    <3>1. /\ ~(i <= Len(a)) /\ ~(i <= Len(q1))
          /\ i - Len(a) \in 1 .. Len(q2) - 1 /\ (i - Len(a)) + 1 = i - Len(q1)
      BY <2>1, <2>6, <1>1, <1>2
    <3>2. l[i] = Tail(q2)[i - Len(a)]
      BY <3>1, <2>2
    <3>3. Tail(q2)[i - Len(a)] = q2[(i - Len(a)) + 1]
      BY <3>1, <1>1
    <3> QED BY <3>1, <3>2, <3>3, <2>3
  <2> QED BY <2>1, <2>4, <2>5, <2>6, <1>2
<1>7. l = r
  BY <1>3, <1>4, <1>5, <1>6, SeqEqual
<1> QED BY <1>7 DEF l, r, a

\* Appending to q2 appends to the concatenation.
LEMMA AppendBehind ==
  ASSUME NEW S, NEW q1 \in Seq(S), NEW q2 \in Seq(S), NEW e \in S
  PROVE  q1 \o Append(q2, e) = Append(q1 \o q2, e)
<1>1. <<e>> \in Seq(S) /\ q1 \o q2 \in Seq(S)
  BY ConcatProperties
<1>2. Append(q2, e) = q2 \o <<e>> /\ Append(q1 \o q2, e) = (q1 \o q2) \o <<e>>
  BY <1>1, AppendIsConcat
<1>3. (q1 \o q2) \o <<e>> = q1 \o (q2 \o <<e>>)
  BY <1>1, ConcatAssociative
<1> QED BY <1>2, <1>3

-----------------------------------------------------------------------------
(* Types and places                                                        *)

LEMMA TypeStep == TypeOK /\ [Next]_vars => TypeOK'
<1> SUFFICES ASSUME TypeOK, [Next]_vars PROVE TypeOK'
  OBVIOUS
<1> USE DEF TypeOK, CallAsync
<1>1. ASSUME NEW t \in Senders, DrawNumber(t) PROVE TypeOK'
  <2>1. nextNumber \in Numbers /\ nextNumber + 1 \in 0 .. MaxRequests
    BY <1>1, ClientAssumption DEF DrawNumber, Numbers
  <2>2. sender' \in Seq(Senders)
    BY <1>1, AppendFacts DEF DrawNumber
  <2> QED BY <1>1, <2>1, <2>2 DEF DrawNumber
<1>2. ASSUME NEW t \in Senders, EnqueueRequest(t) PROVE TypeOK'
  <2>1. holds[t] \in Numbers
    BY <1>2 DEF EnqueueRequest
  <2>2. requests' \in Seq(Numbers)
    BY <1>2, <2>1, AppendFacts DEF EnqueueRequest
  <2>5. holds' \in [Senders -> Numbers \cup {NoNumber}]
    BY <1>2 DEF EnqueueRequest
  <2>3. calls' \in [Numbers -> Nat] /\ called' \in [Numbers -> Nat]
    <3>1. CASE Len(requests') = 1
      <4>1. /\ calls' = [calls EXCEPT ![holds[t]] = @ + 1]
            /\ called' = [called EXCEPT ![holds[t]] = @ + 1]
        BY <1>2, <3>1 DEF EnqueueRequest
      <4> QED BY <4>1, <2>1
    <3>2. CASE Len(requests') # 1
      BY <1>2, <3>2 DEF EnqueueRequest
    <3> QED BY <3>1, <3>2
  <2>4. raced' \in BOOLEAN
    BY <1>2, Zenon DEF EnqueueRequest
  <2> QED BY <1>2, <2>2, <2>3, <2>4, <2>5 DEF EnqueueRequest
<1>3. ASSUME NEW s \in Numbers, OnResponse(s) PROVE TypeOK'
  <2>1. responses' \in Seq(Numbers)
    BY <1>3, AppendFacts DEF OnResponse
  <2>2. calls' \in [Numbers -> Nat]
    <3>1. calls[s] - 1 \in Nat
      BY <1>3 DEF OnResponse
    <3> QED BY <1>3, <3>1 DEF OnResponse
  <2> QED BY <1>3, <2>1, <2>2 DEF OnResponse
<1>4. ASSUME NEW s \in Numbers, LoseCall(s) PROVE TypeOK'
  <2>1. calls[s] - 1 \in Nat
    BY <1>4 DEF LoseCall
  <2> QED BY <1>4, <2>1 DEF LoseCall
<1>5. ASSUME NEW s \in Numbers, OnFailedCall(s) PROVE TypeOK'
  <2>1. calls[s] - 1 \in Nat
    BY <1>5 DEF OnFailedCall
  <2> QED BY <1>5, <2>1 DEF OnFailedCall
<1>6. CASE PopLastRequest
  <2>1. requests' \in Seq(Numbers)
    BY <1>6, TailFacts DEF PopLastRequest
  <2> QED BY <1>6, <2>1 DEF PopLastRequest
<1>7. CASE PerformNextRequest
  <2>1. calls' \in [Numbers -> Nat] /\ called' \in [Numbers -> Nat]
    <3>1. CASE requests # <<>>
      <4> DEFINE h == Head(requests)
      <4>1. h \in Numbers
        BY <3>1, TailFacts
      <4>2. calls' = [calls EXCEPT ![h] = @ + 1] /\ called' = [called EXCEPT ![h] = @ + 1]
        BY <1>7, <3>1 DEF PerformNextRequest
      <4> HIDE DEF h
      <4> QED BY <4>1, <4>2
    <3>2. CASE requests = <<>>
      BY <1>7, <3>2 DEF PerformNextRequest
    <3> QED BY <3>1, <3>2
  <2> QED BY <1>7, <2>1 DEF PerformNextRequest
<1>8. CASE TakeResponse
  <2>1. Head(responses) \in Numbers /\ responses' \in Seq(Numbers)
    BY <1>8, TailFacts DEF TakeResponse
  <2>2. taken' \in Seq(Numbers)
    BY <1>8, <2>1, AppendFacts DEF TakeResponse
  <2> QED BY <1>8, <2>1, <2>2 DEF TakeResponse
<1>9. CASE UNCHANGED vars
  BY <1>9 DEF vars
<1> QED BY <1>1, <1>2, <1>3, <1>4, <1>5, <1>6, <1>7, <1>8, <1>9 DEF Next

\* The steps that move no number.
Still == UNCHANGED <<nextNumber, holds, sender, requests>>

LEMMA QueueStep == QueueInv /\ [Next]_vars => QueueInv'
<1> SUFFICES ASSUME QueueInv, [Next]_vars PROVE QueueInv'
  OBVIOUS
<1>t. TypeOK /\ TypeOK'
  BY TypeStep DEF QueueInv
<1>n. nextNumber \in Nat /\ Len(sender) = nextNumber /\ Len(requests) \in Nat
  BY <1>t, ClientAssumption, LenProperties DEF TypeOK, QueueInv
<1>1. ASSUME NEW t \in Senders, DrawNumber(t) PROVE QueueInv'
  <2>1. /\ Len(sender') = nextNumber' /\ nextNumber' = nextNumber + 1
        /\ sender'[nextNumber + 1] = t
        /\ \A i \in 1 .. nextNumber : sender'[i] = sender[i]
    BY <1>1, <1>t, <1>n, AppendFacts DEF DrawNumber, TypeOK
  <2>2. \A s \in Drawn : s \in Drawn' /\ sender'[s + 1] = sender[s + 1] /\ s # nextNumber
    BY <2>1, <1>n DEF Drawn
  <2>3. holds'[t] = nextNumber /\ \A u \in Senders \ {t} : holds'[u] = holds[u]
    BY <1>1, <1>t DEF DrawNumber, TypeOK
  <2>4. HoldsOK'
    <3>1. nextNumber \in Drawn'
      BY <2>1, <1>n DEF Drawn
    <3>2. \A u \in Senders \ {t} : holds'[u] # NoNumber =>
            holds'[u] \in Drawn' /\ sender'[holds'[u] + 1] = u
      BY <2>2, <2>3 DEF QueueInv, HoldsOK
    <3> QED BY <3>1, <3>2, <2>1, <2>3 DEF HoldsOK
  <2>5. OwnPlace'
    <3>1. requests' = requests
      BY <1>1 DEF DrawNumber
    <3>2. \A i \in 1 .. Len(requests) : requests[i] \in Drawn
      BY DEF QueueInv, OwnPlace
    <3>3. \A i \in 1 .. Len(requests) : \A u \in Senders : holds'[u] # requests[i]
      BY <2>2, <2>3, <3>2 DEF QueueInv, OwnPlace
    <3>4. \A i \in 1 .. Len(requests) : requests[i] \in Drawn'
      BY <2>2, <3>2
    <3> QED BY <3>1, <3>3, <3>4 DEF QueueInv, OwnPlace
  <2> QED BY <1>t, <2>1, <2>4, <2>5 DEF QueueInv
<1>2. ASSUME NEW t \in Senders, EnqueueRequest(t) PROVE QueueInv'
  <2> DEFINE s == holds[t]
  <2>1. s \in Numbers /\ s \in Drawn /\ sender[s + 1] = t
    BY <1>2, <1>t DEF EnqueueRequest, TypeOK, QueueInv, HoldsOK
  <2>2. /\ UNCHANGED <<nextNumber, sender>> /\ holds'[t] = NoNumber
        /\ \A u \in Senders \ {t} : holds'[u] = holds[u]
    BY <1>2, <1>t DEF EnqueueRequest, TypeOK
  <2>3. /\ Len(requests') = Len(requests) + 1 /\ requests'[Len(requests) + 1] = s
        /\ \A i \in 1 .. Len(requests) : requests'[i] = requests[i]
    BY <1>2, <1>t, <2>1, AppendFacts DEF EnqueueRequest, TypeOK
  <2>4. \A u \in Senders \ {t} : holds[u] # s
    BY <2>1, ClientAssumption DEF QueueInv, HoldsOK
  <2>5. \A i \in 1 .. Len(requests) : requests[i] # s
    BY DEF QueueInv, OwnPlace
  <2>6. HoldsOK'
    BY <2>2 DEF QueueInv, HoldsOK, Drawn
  <2>7. ASSUME NEW i \in 1 .. Len(requests')
        PROVE  requests'[i] \in Drawn' /\ \A u \in Senders : holds'[u] # requests'[i]
    <3>1. CASE i = Len(requests) + 1
      <4>1. requests'[i] = s
        BY <2>3, <3>1
      <4>2. NoNumber # s
        BY <2>1, ClientAssumption
      <4> QED BY <4>1, <4>2, <2>1, <2>2, <2>4 DEF Drawn
    <3>2. CASE i # Len(requests) + 1
      <4>1. i \in 1 .. Len(requests) /\ requests'[i] = requests[i]
        BY <2>3, <3>2, <1>n
      <4>2. requests[i] \in Numbers
        BY <4>1, <1>t, ElementOfSeq DEF TypeOK
      <4>3. NoNumber # requests[i]
        BY <4>2, ClientAssumption
      <4> QED BY <4>1, <4>3, <2>2 DEF QueueInv, OwnPlace, Drawn
    <3> QED BY <3>1, <3>2
  <2>8. ASSUME NEW i \in 1 .. Len(requests'), NEW j \in 1 .. Len(requests'),
               requests'[i] = requests'[j]
        PROVE  i = j
    <3>1. \A k \in 1 .. Len(requests') : k \in 1 .. Len(requests) \/ k = Len(requests) + 1
      BY <2>3, <1>n
    <3>2. CASE i \in 1 .. Len(requests) /\ j \in 1 .. Len(requests)
      BY <3>2, <2>3, <2>8 DEF QueueInv, OwnPlace
    <3>3. CASE i = Len(requests) + 1 /\ j # Len(requests) + 1
      BY <3>1, <3>3, <2>3, <2>5, <2>8
    <3>4. CASE j = Len(requests) + 1 /\ i # Len(requests) + 1
      BY <3>1, <3>4, <2>3, <2>5, <2>8
    <3> QED BY <3>1, <3>2, <3>3, <3>4
  <2> QED BY <1>t, <1>n, <2>2, <2>6, <2>7, <2>8 DEF QueueInv, OwnPlace
<1>3. CASE PopLastRequest
  <2>1. CASE requests = <<>>
    BY <1>3, <1>t, <2>1 DEF PopLastRequest, QueueInv, HoldsOK, OwnPlace, Drawn
  <2>2. CASE requests # <<>>
    <3>1. /\ Len(requests') = Len(requests) - 1
          /\ \A i \in 1 .. Len(requests) - 1 : requests'[i] = requests[i + 1]
      BY <1>3, <1>t, <2>2, TailFacts DEF PopLastRequest, TypeOK
    <3>2. \A i \in 1 .. Len(requests') : i + 1 \in 1 .. Len(requests) /\ requests'[i] = requests[i + 1]
      BY <3>1, <1>n
    <3>3. UNCHANGED <<nextNumber, sender, holds>>
      BY <1>3 DEF PopLastRequest
    <3>4. HoldsOK' /\ Len(sender') = nextNumber'
      BY <3>3, <1>n DEF QueueInv, HoldsOK, Drawn
    <3>5. \A i \in 1 .. Len(requests') :
            requests'[i] \in Drawn' /\ \A t \in Senders : holds'[t] # requests'[i]
      <4>1. Drawn' = Drawn
        BY <3>3 DEF Drawn
      <4>2. \A i \in 1 .. Len(requests) :
              requests[i] \in Drawn /\ \A t \in Senders : holds[t] # requests[i]
        BY DEF QueueInv, OwnPlace
      <4> QED BY <4>1, <4>2, <3>2, <3>3
    <3>6. \A i, j \in 1 .. Len(requests') : requests'[i] = requests'[j] => i + 1 = j + 1
      BY <3>2 DEF QueueInv, OwnPlace
    <3>7. \A i, j \in 1 .. Len(requests') : i + 1 = j + 1 => i = j
      OBVIOUS
    <3> QED BY <1>t, <3>4, <3>5, <3>6, <3>7 DEF QueueInv, OwnPlace
  <2> QED BY <2>1, <2>2
<1>4. CASE Still
  BY <1>4, <1>t DEF Still, QueueInv, HoldsOK, OwnPlace, Drawn
<1> QED
  BY <1>1, <1>2, <1>3, <1>4
  DEF Next, vars, Still, OnResponse, LoseCall, OnFailedCall, PerformNextRequest, TakeResponse

-----------------------------------------------------------------------------
(* Calls                                                                   *)

\* What one CallAsync does to the counters.
LEMMA CallCounts ==
  ASSUME TypeOK, NEW s \in Numbers, CallAsync(s)
  PROVE  /\ calls'[s] = calls[s] + 1 /\ called'[s] = called[s] + 1
         /\ \A r \in Numbers \ {s} : calls'[r] = calls[r] /\ called'[r] = called[r]
BY DEF TypeOK, CallAsync

\* What the end of a call, with a callback or without, does to them.
LEMMA EndCounts ==
  ASSUME TypeOK, NEW s \in Numbers, calls' = [calls EXCEPT ![s] = @ - 1]
  PROVE  /\ calls'[s] = calls[s] - 1
         /\ \A r \in Numbers \ {s} : calls'[r] = calls[r]
BY DEF TypeOK

\* What the queue holds are numbers, and they are not what senders hold.
LEMMA PlaceFacts ==
  ASSUME QueueInv
  PROVE  /\ \A i \in 1 .. Len(requests) : requests[i] \in Numbers
         /\ Len(requests) \in Nat
         /\ requests # <<>> => 1 \in 1 .. Len(requests)
         /\ nextNumber \in Nat
         /\ \A t \in Senders : holds[t] # NoNumber => holds[t] \in Numbers
         /\ \A s \in Drawn : s \in Nat /\ s < nextNumber
<1>1. requests \in Seq(Numbers) /\ nextNumber \in Nat
  BY ClientAssumption DEF QueueInv, TypeOK
<1>2. Len(requests) \in Nat /\ \A i \in 1 .. Len(requests) : requests[i] \in Numbers
  BY <1>1, ElementOfSeq, LenProperties
<1>3. requests # <<>> => Len(requests) > 0
  BY <1>1, EmptySeq
<1> QED BY <1>1, <1>2, <1>3 DEF QueueInv, TypeOK, Drawn

\* Queueing behind others leaves the front alone; alone, the new request is
\* the front, and is called.
LEMMA EnqueueFacts ==
  ASSUME QueueInv, NEW t \in Senders, EnqueueRequest(t)
  PROVE  /\ holds[t] \in Numbers /\ holds[t] \in Drawn /\ sender[holds[t] + 1] = t
         /\ requests' # <<>>
         /\ Len(requests') = Len(requests) + 1 /\ requests'[Len(requests) + 1] = holds[t]
         /\ \A i \in 1 .. Len(requests) : requests'[i] = requests[i]
         /\ requests = <<>> => CallAsync(holds[t])
         /\ requests # <<>> => UNCHANGED <<calls, called>>
         /\ holds'[t] = NoNumber /\ \A u \in Senders \ {t} : holds'[u] = holds[u]
<1>1. holds[t] \in Numbers /\ holds[t] \in Drawn /\ sender[holds[t] + 1] = t
  BY PlaceFacts DEF EnqueueRequest, QueueInv, HoldsOK
<1>2. requests \in Seq(Numbers) /\ requests' = Append(requests, holds[t])
  BY DEF EnqueueRequest, QueueInv, TypeOK
<1>3. /\ Len(requests') = Len(requests) + 1 /\ requests'[Len(requests) + 1] = holds[t]
      /\ \A i \in 1 .. Len(requests) : requests'[i] = requests[i]
      /\ requests' # <<>> /\ Len(requests) \in Nat
  BY <1>1, <1>2, AppendFacts
<1>4. Len(requests') = 1 <=> requests = <<>>
  BY <1>2, <1>3, EmptySeq
<1>5. holds'[t] = NoNumber /\ \A u \in Senders \ {t} : holds'[u] = holds[u]
  BY DEF EnqueueRequest, QueueInv, TypeOK
<1> QED BY <1>1, <1>3, <1>4, <1>5 DEF EnqueueRequest

LEMMA PopFacts ==
  ASSUME QueueInv, PopLastRequest
  PROVE  \/ /\ requests = <<>> /\ crashed'
            /\ UNCHANGED <<requests, cpc>>
         \/ /\ requests # <<>> /\ cpc' = "next" /\ crashed' = crashed
            /\ Len(requests') = Len(requests) - 1
            /\ \A i \in 1 .. Len(requests) - 1 : requests'[i] = requests[i + 1]
BY TailFacts DEF PopLastRequest, QueueInv, TypeOK

LEMMA PerformFacts ==
  ASSUME QueueInv, PerformNextRequest
  PROVE  /\ cpc = "next" /\ cpc' = "idle"
         /\ requests # <<>> => requests[1] \in Numbers /\ CallAsync(requests[1])
         /\ requests = <<>> => UNCHANGED <<calls, called>>
BY TailFacts DEF PerformNextRequest, QueueInv, TypeOK

LEMMA FrontStep == QueueInv /\ FrontCalled /\ [Next]_vars => FrontCalled'
<1> SUFFICES ASSUME QueueInv, FrontCalled, [Next]_vars PROVE FrontCalled'
  OBVIOUS
<1>t. TypeOK
  BY DEF QueueInv
<1>c. called \in [Numbers -> Nat]
  BY <1>t DEF TypeOK
<1>1. ASSUME NEW t \in Senders, EnqueueRequest(t) PROVE FrontCalled'
  <2>1. CASE requests = <<>>
    <3>1. requests'[1] = holds[t] /\ holds[t] \in Numbers /\ CallAsync(holds[t])
      BY <1>1, <2>1, EnqueueFacts, EmptySeq
    <3>2. called'[holds[t]] > 0
      BY <3>1, <1>t, <1>c, CallCounts
    <3> QED BY <3>1, <3>2 DEF FrontCalled
  <2>2. CASE requests # <<>>
    BY <1>1, <2>2, EnqueueFacts, PlaceFacts DEF FrontCalled, EnqueueRequest
  <2> QED BY <2>1, <2>2
<1>2. CASE PopLastRequest
  BY <1>2, PopFacts DEF FrontCalled, PopLastRequest
<1>3. CASE PerformNextRequest
  <2>1. CASE requests # <<>>
    <3>1. called'[requests[1]] > 0
      BY <1>3, <2>1, <1>t, <1>c, PerformFacts, CallCounts
    <3> QED BY <1>3, <3>1 DEF FrontCalled, PerformNextRequest
  <2>2. CASE requests = <<>>
    BY <1>3, <2>2 DEF FrontCalled, PerformNextRequest
  <2> QED BY <2>1, <2>2
<1>4. CASE UNCHANGED <<requests, called>> /\ (cpc' = "next" => cpc = "next")
           /\ (cpc = "next" => cpc' = "next")
  BY <1>4 DEF FrontCalled
<1> QED
  BY <1>1, <1>2, <1>3, <1>4
  DEF Next, vars, DrawNumber, OnResponse, LoseCall, OnFailedCall, TakeResponse

\* A request that comes to the front has not been called before, and only
\* the front is called, so no number of answers makes a second call.
LEMMA CalledOnceStep ==
  QueueInv /\ CalledOnce /\ [Next]_vars /\ ~raced' => CalledOnce'
<1> SUFFICES ASSUME QueueInv, CalledOnce, [Next]_vars, ~raced' PROVE CalledOnce'
  OBVIOUS
<1>t. TypeOK /\ QueueInv'
  BY QueueStep DEF QueueInv
<1>c. called \in [Numbers -> Nat]
  BY <1>t DEF TypeOK
<1>1. ASSUME NEW t \in Senders, DrawNumber(t) PROVE CalledOnce'
  <2>1. UNCHANGED <<requests, called, cpc>> /\ nextNumber' = nextNumber + 1
    BY <1>1 DEF DrawNumber
  <2>2. holds'[t] = nextNumber /\ nextNumber \in Numbers
        /\ \A u \in Senders \ {t} : holds'[u] = holds[u]
    BY <1>1, <1>t, ClientAssumption DEF DrawNumber, TypeOK, Numbers
  <2>3. \A u \in Senders : holds'[u] # NoNumber => called[holds'[u]] = 0
    BY <2>2, PlaceFacts DEF CalledOnce
  <2>4. \A s \in Numbers : s >= nextNumber' => called[s] = 0
    BY <2>1, PlaceFacts DEF CalledOnce, Numbers
  <2> QED BY <2>1, <2>3, <2>4 DEF CalledOnce
<1>2. ASSUME NEW t \in Senders, EnqueueRequest(t) PROVE CalledOnce'
  <2> DEFINE n == holds[t]
  <2>0. /\ n \in Numbers /\ n \in Drawn /\ n < nextNumber /\ n # NoNumber
        /\ called[n] = 0 /\ nextNumber' = nextNumber /\ cpc' = cpc
    BY <1>2, EnqueueFacts, PlaceFacts DEF CalledOnce, EnqueueRequest
  <2>h. /\ holds'[t] = NoNumber
        /\ \A u \in Senders \ {t} : holds'[u] = holds[u] /\ holds[u] # n
    BY <1>2, <2>0, EnqueueFacts, ClientAssumption DEF QueueInv, HoldsOK
  <2> HIDE DEF n
  <2>1. CASE requests = <<>>
    <3>1. cpc # "next"
      BY <1>2, <1>t, <2>1 DEF EnqueueRequest, TypeOK
    <3>2. Len(requests') = 1 /\ CallAsync(n)
      BY <1>2, <2>1, EnqueueFacts, EmptySeq DEF n
    <3>3. /\ called'[n] = called[n] + 1
          /\ \A r \in Numbers \ {n} : called'[r] = called[r]
      BY <3>2, <2>0, <1>t, CallCounts
    <3>4. \A s \in Numbers : called'[s] <= 1
      BY <2>0, <3>3 DEF CalledOnce
    <3>5. \A u \in Senders : holds'[u] # NoNumber => called'[holds'[u]] = 0
      BY <2>h, <3>3, PlaceFacts DEF CalledOnce
    <3>6. \A s \in Numbers : s >= nextNumber' => called'[s] = 0
      BY <2>0, <3>3, PlaceFacts DEF CalledOnce, Numbers
    <3> QED BY <3>1, <3>2, <3>4, <3>5, <3>6, <2>0 DEF CalledOnce
  <2>2. CASE requests # <<>>
    <3>1. /\ UNCHANGED called
          /\ requests'[1] = requests[1]
          /\ Len(requests') = Len(requests) + 1 /\ requests'[Len(requests) + 1] = n
          /\ \A i \in 1 .. Len(requests) : requests'[i] = requests[i]
      BY <1>2, <2>2, EnqueueFacts, PlaceFacts DEF n
    <3>2. ASSUME NEW i \in 2 .. Len(requests') PROVE called'[requests'[i]] = 0
      <4>1. CASE i = Len(requests) + 1
        BY <4>1, <3>1, <2>0
      <4>2. CASE i # Len(requests) + 1
        <5>1. i \in 2 .. Len(requests) /\ requests'[i] = requests[i]
          BY <4>2, <3>1, PlaceFacts
        <5> QED BY <5>1, <3>1 DEF CalledOnce
      <4> QED BY <4>1, <4>2
    <3>3. \A u \in Senders : holds'[u] # NoNumber => called'[holds'[u]] = 0
      BY <2>h, <3>1 DEF CalledOnce
    <3>4. \A s \in Numbers : called'[s] <= 1 /\ (s >= nextNumber' => called'[s] = 0)
      BY <3>1, <2>0 DEF CalledOnce
    <3>5. cpc' = "next" => called'[requests'[1]] = 0
      BY <2>0, <2>2, <3>1 DEF CalledOnce
    <3> QED BY <3>2, <3>3, <3>4, <3>5 DEF CalledOnce
  <2> QED BY <2>1, <2>2
<1>3. CASE PopLastRequest
  <2>1. UNCHANGED <<nextNumber, holds, called>> /\ cpc = "pop"
    BY <1>3 DEF PopLastRequest
  <2>2. CASE requests = <<>>
    BY <1>3, <2>1, <2>2, PopFacts DEF CalledOnce
  <2>3. CASE requests # <<>>
    <3>1. /\ Len(requests') = Len(requests) - 1
          /\ \A i \in 1 .. Len(requests) - 1 : requests'[i] = requests[i + 1]
      BY <1>3, <2>3, PopFacts
    <3>2. \A i \in 1 .. Len(requests') : called'[requests'[i]] = 0
      <4>1. \A i \in 1 .. Len(requests') :
              i + 1 \in 2 .. Len(requests) /\ requests'[i] = requests[i + 1]
        BY <3>1, PlaceFacts
      <4> QED BY <4>1, <2>1 DEF CalledOnce
    <3>3. requests' # <<>> => 1 \in 1 .. Len(requests')
      <4>1. requests' \in Seq(Numbers)
        BY <1>t DEF QueueInv, TypeOK
      <4> QED BY <4>1, EmptySeq
    <3>4. \A i \in 2 .. Len(requests') : i \in 1 .. Len(requests')
      BY <3>1, PlaceFacts
    <3> QED BY <2>1, <3>2, <3>3, <3>4 DEF CalledOnce
  <2> QED BY <2>2, <2>3
<1>4. CASE PerformNextRequest
  <2>1. /\ UNCHANGED <<nextNumber, holds, requests>> /\ cpc = "next" /\ cpc' = "idle"
    BY <1>4 DEF PerformNextRequest
  <2>2. CASE requests = <<>>
    BY <1>4, <2>1, <2>2 DEF PerformNextRequest, CalledOnce
  <2>3. CASE requests # <<>>
    <3> DEFINE n == requests[1]
    <3>1. n \in Numbers /\ CallAsync(n) /\ called[n] = 0 /\ n \in Drawn
      BY <1>4, <2>1, <2>3, PerformFacts, PlaceFacts DEF CalledOnce, QueueInv, OwnPlace
    <3>2. \A i \in 2 .. Len(requests) : requests[i] # n /\ requests[i] \in Numbers
      <4>1. \A i \in 2 .. Len(requests) : i \in 1 .. Len(requests) /\ i # 1
        OBVIOUS
      <4> QED BY <2>3, <4>1, PlaceFacts DEF QueueInv, OwnPlace
    <3>3. \A u \in Senders : holds[u] # n
      BY <2>3, PlaceFacts DEF QueueInv, OwnPlace
    <3> HIDE DEF n
    <3>4. /\ called'[n] = called[n] + 1
          /\ \A r \in Numbers \ {n} : called'[r] = called[r]
      BY <3>1, <1>t, CallCounts
    <3>5. \A s \in Numbers : called'[s] <= 1
      BY <3>1, <3>4 DEF CalledOnce
    <3>6. \A i \in 2 .. Len(requests) : called'[requests[i]] = 0
      BY <3>2, <3>4 DEF CalledOnce
    <3>7. \A u \in Senders : holds[u] # NoNumber => called'[holds[u]] = 0
      BY <3>3, <3>4, PlaceFacts DEF CalledOnce
    <3>8. \A s \in Numbers : s >= nextNumber => called'[s] = 0
      BY <3>1, <3>4, PlaceFacts DEF CalledOnce, Numbers
    <3> QED BY <2>1, <3>5, <3>6, <3>7, <3>8 DEF CalledOnce
  <2> QED BY <2>2, <2>3
<1>5. CASE UNCHANGED <<nextNumber, holds, requests, called>> /\ (cpc' = "next" => cpc = "next")
  BY <1>5 DEF CalledOnce
<1> QED
  BY <1>1, <1>2, <1>3, <1>4, <1>5
  DEF Next, vars, OnResponse, LoseCall, OnFailedCall, TakeResponse

\* While only the front is called, only the front is on the wire, and an
\* answer finds it there.
LEMMA UndisturbedStep ==
  QueueInv /\ Undisturbed /\ [Next]_vars /\ ~raced' => Undisturbed'
<1> SUFFICES ASSUME QueueInv, CalledOnce, CalledOnce', FrontOnWire, [Next]_vars, ~raced'
             PROVE  FrontOnWire'
  BY CalledOnceStep DEF Undisturbed
<1>t. TypeOK /\ QueueInv'
  BY QueueStep DEF QueueInv
<1>c. calls \in [Numbers -> Nat] /\ called \in [Numbers -> Nat]
  BY <1>t DEF TypeOK
<1>1. ASSUME NEW n \in Numbers, CallAsync(n), \A s \in Numbers : calls[s] = 0,
             cpc' = "idle", requests' # <<>>, requests'[1] = n
      PROVE  FrontOnWire'
  <2>1. /\ calls'[n] = calls[n] + 1 /\ called'[n] = called[n] + 1
        /\ \A r \in Numbers \ {n} : calls'[r] = calls[r] /\ called'[r] = called[r]
    BY <1>1, <1>t, CallCounts
  <2>2. \A s \in Numbers : calls'[s] <= called'[s]
    BY <1>1, <1>c, <2>1 DEF FrontOnWire
  <2>3. \A s \in Numbers : calls'[s] > 0 => s = n
    BY <1>1, <2>1
  <2> QED BY <1>1, <2>2, <2>3 DEF FrontOnWire
<1>2. ASSUME NEW t \in Senders, EnqueueRequest(t) PROVE FrontOnWire'
  <2>1. CASE requests = <<>>
    <3>1. cpc = "idle" /\ cpc' = cpc
      BY <1>2, <1>t, <2>1 DEF EnqueueRequest, FrontOnWire, TypeOK
    <3>2. requests' # <<>> /\ requests'[1] = holds[t] /\ CallAsync(holds[t])
          /\ holds[t] \in Numbers
      BY <1>2, <2>1, EnqueueFacts, EmptySeq
    <3>3. \A s \in Numbers : calls[s] = 0
      BY <2>1, <1>c DEF FrontOnWire
    <3> QED BY <3>1, <3>2, <3>3, <1>1
  <2>2. CASE requests # <<>>
    <3>1. /\ UNCHANGED <<calls, called, cpc>> /\ requests' # <<>>
          /\ requests'[1] = requests[1]
      BY <1>2, <2>2, EnqueueFacts, PlaceFacts DEF EnqueueRequest
    <3> QED BY <3>1 DEF FrontOnWire
  <2> QED BY <2>1, <2>2
<1>3. ASSUME NEW s \in Numbers,
             calls' = [calls EXCEPT ![s] = @ - 1], calls[s] > 0,
             UNCHANGED <<requests, called>>,
             cpc' \in {cpc, "pop"}
      PROVE  FrontOnWire'
  <2>1. calls'[s] = calls[s] - 1 /\ \A r \in Numbers \ {s} : calls'[r] = calls[r]
    BY <1>3, <1>t, EndCounts
  <2>2. cpc = "idle" /\ requests # <<>> /\ calls[s] <= 1
    BY <1>3, <1>c DEF FrontOnWire, CalledOnce
  <2>3. calls'[s] = 0
    BY <1>3, <1>c, <2>1, <2>2
  <2>4. \A r \in Numbers : calls'[r] = 0
    BY <1>3, <1>c, <2>1, <2>2, <2>3 DEF FrontOnWire
  <2>5. \A r \in Numbers : calls'[r] <= called'[r]
    BY <1>3, <1>c, <2>4
  <2> QED BY <1>3, <2>2, <2>4, <2>5 DEF FrontOnWire
<1>4. CASE PopLastRequest
  <2>1. UNCHANGED <<calls, called>> /\ cpc = "pop" /\ requests # <<>>
    BY <1>4 DEF PopLastRequest, FrontOnWire
  <2>2. cpc' = "next"
    BY <1>4, <2>1, PopFacts
  <2>3. \A s \in Numbers : calls'[s] = 0
    BY <1>c, <2>1 DEF FrontOnWire
  <2> QED BY <2>1, <2>2, <2>3 DEF FrontOnWire
<1>5. CASE PerformNextRequest
  <2>1. UNCHANGED requests /\ cpc = "next" /\ cpc' = "idle"
    BY <1>5 DEF PerformNextRequest
  <2>2. CASE requests = <<>>
    BY <1>5, <2>1, <2>2 DEF PerformNextRequest, FrontOnWire
  <2>3. CASE requests # <<>>
    <3>1. requests[1] \in Numbers /\ CallAsync(requests[1])
      BY <1>5, <2>3, PerformFacts
    <3>2. \A s \in Numbers : calls[s] = 0
      BY <1>c, <2>1 DEF FrontOnWire
    <3> QED BY <2>1, <2>3, <3>1, <3>2, <1>1
  <2> QED BY <2>2, <2>3
<1>6. CASE UNCHANGED <<requests, calls, called, cpc>>
  BY <1>6 DEF FrontOnWire
<1> QED
  BY <1>2, <1>3, <1>4, <1>5, <1>6
  DEF Next, vars, DrawNumber, OnResponse, LoseCall, OnFailedCall, TakeResponse

LEMMA CallInit == Init => CallInv /\ FrontCalled
<1> SUFFICES ASSUME Init PROVE CallInv /\ FrontCalled
  OBVIOUS
<1>1. TypeOK
  <2>1. 0 \in 0 .. MaxRequests
    BY ClientAssumption
  <2>2. calls \in [Numbers -> Nat] /\ called \in [Numbers -> Nat]
    BY DEF Init
  <2>3. holds \in [Senders -> Numbers \cup {NoNumber}]
    BY DEF Init
  <2>4. sender \in Seq(Senders) /\ requests \in Seq(Numbers) /\ responses \in Seq(Numbers)
        /\ taken \in Seq(Numbers)
    BY EmptySeq DEF Init
  <2> QED BY <2>1, <2>2, <2>3, <2>4 DEF Init, TypeOK
<1>2. Len(sender) = nextNumber /\ HoldsOK /\ OwnPlace
  BY DEF Init, HoldsOK, OwnPlace
<1>3. Undisturbed
  BY <1>1 DEF Init, Undisturbed, CalledOnce, FrontOnWire, TypeOK
<1> QED BY <1>1, <1>2, <1>3 DEF CallInv, QueueInv, FrontCalled, Init

LEMMA RacedStays == [Next]_vars => (raced => raced')
BY DEF Next, vars, DrawNumber, EnqueueRequest, OnResponse, PopLastRequest, PerformNextRequest,
       LoseCall, OnFailedCall, TakeResponse

LEMMA CallStep == CallInv /\ FrontCalled /\ [Next]_vars => CallInv' /\ FrontCalled'
BY QueueStep, FrontStep, UndisturbedStep, RacedStays DEF CallInv

LEMMA CallInvariant == Spec => [](CallInv /\ FrontCalled)
BY CallInit, CallStep, PTL DEF Spec

-----------------------------------------------------------------------------

\* Client: the queues hold sequence numbers, and the counters count.
THEOREM TypeCorrect == Spec => []TypeOK
<1>1. CallInv => TypeOK
  BY DEF CallInv, QueueInv
<1> QED BY <1>1, CallInvariant, PTL

\* Client: one call is on the wire at a time, it is the front
\* one's, and no request is called twice, unless a request has been queued
\* between the pop of the one before it and the call after that pop.
THEOREM OneCallOnTheWire == Spec => []OneCallAtATime
<1>1. CallInv => OneCallAtATime
  <2> SUFFICES ASSUME CallInv, ~raced PROVE OneCallAtATime
    BY DEF OneCallAtATime
  <2>1. requests \in Seq(Numbers)
    BY DEF CallInv, QueueInv, TypeOK
  <2>2. requests # <<>> => Head(requests) = requests[1]
    BY <2>1, TailFacts
  <2> QED BY <2>2 DEF CallInv, Undisturbed, CalledOnce, FrontOnWire, OneCallAtATime
<1> QED BY <1>1, CallInvariant, PTL

\* Client: a request that leaves the queue has been called, also
\* after that race.
THEOREM NothingIsSkipped == Spec => NoRequestSkipped
<1> DEFINE NoneLeaves == \A s \in Numbers :
       s \in Range(requests) /\ s \notin Range(requests') => called[s] > 0
<1>1. CallInv /\ FrontCalled /\ [Next]_vars => [NoneLeaves]_vars
  <2> SUFFICES ASSUME CallInv, FrontCalled, Next PROVE NoneLeaves
    BY DEF NoneLeaves
  <2>q. QueueInv /\ TypeOK
    BY DEF CallInv, QueueInv
  <2>d. DOMAIN requests = 1 .. Len(requests) /\ Len(requests) \in Nat
    BY <2>q, LenProperties DEF TypeOK
  <2>1. ASSUME NEW t \in Senders, EnqueueRequest(t) PROVE NoneLeaves
    <3>1. requests' \in Seq(Numbers)
      BY <2>q, TypeStep DEF TypeOK
    <3>2. DOMAIN requests' = 1 .. Len(requests')
      BY <3>1, LenProperties
    <3>3. Len(requests') = Len(requests) + 1
          /\ \A i \in 1 .. Len(requests) : requests'[i] = requests[i]
      BY <2>1, <2>q, EnqueueFacts
    <3>4. Range(requests) \subseteq Range(requests')
      BY <2>d, <3>2, <3>3 DEF Range
    <3> QED BY <3>4 DEF NoneLeaves
  <2>2. CASE PopLastRequest
    <3>1. CASE requests = <<>>
      BY <2>2, <2>q, <3>1, PopFacts DEF NoneLeaves
    <3>2. CASE requests # <<>>
      <4>1. cpc = "pop" /\ called[requests[1]] > 0
        BY <2>2, <3>2 DEF PopLastRequest, FrontCalled
      <4>2. requests' \in Seq(Numbers)
        BY <2>q, TypeStep DEF TypeOK
      <4>3. DOMAIN requests' = 1 .. Len(requests')
        BY <4>2, LenProperties
      <4>4. /\ Len(requests') = Len(requests) - 1
            /\ \A i \in 1 .. Len(requests) - 1 : requests'[i] = requests[i + 1]
        BY <2>2, <2>q, <3>2, PopFacts
      <4>5. ASSUME NEW i \in 1 .. Len(requests), i # 1
            PROVE  requests[i] \in Range(requests')
        <5>1. i - 1 \in 1 .. Len(requests') /\ (i - 1) + 1 = i
          BY <4>4, <4>5, <2>d
        <5>2. requests'[i - 1] = requests[i]
          BY <5>1, <4>4
        <5> QED BY <5>1, <5>2, <4>3 DEF Range
      <4>6. \A s \in Range(requests) : s = requests[1] \/ s \in Range(requests')
        BY <4>5, <2>d DEF Range
      <4> QED BY <4>1, <4>6 DEF NoneLeaves
    <3> QED BY <3>1, <3>2
  <2>3. CASE requests' = requests
    BY <2>3 DEF NoneLeaves
  <2> QED
    BY <2>1, <2>2, <2>3
    DEF Next, DrawNumber, OnResponse, PerformNextRequest, LoseCall, OnFailedCall, TakeResponse
<1> QED BY <1>1, CallInvariant, PTL DEF Spec, NoRequestSkipped

\* Client: while requests wait and no call has been lost, there is a call on
\* the wire or a callback has still to make one.
THEOREM NothingStalls == Spec => []NoStall
<1>1. Init => NoStall
  BY DEF Init, NoStall
<1>2. CallInv /\ NoStall /\ [Next]_vars => NoStall'
  <2> SUFFICES ASSUME CallInv, NoStall, [Next]_vars PROVE NoStall'
    OBVIOUS
  <2>q. QueueInv /\ TypeOK
    BY DEF CallInv, QueueInv
  <2>c. calls \in [Numbers -> Nat]
    BY <2>q DEF TypeOK
  <2>1. ASSUME NEW t \in Senders, EnqueueRequest(t) PROVE NoStall'
    <3>1. CASE requests = <<>>
      <4>1. holds[t] \in Numbers /\ calls'[holds[t]] > 0
        BY <2>1, <2>q, <2>c, <3>1, EnqueueFacts, CallCounts
      <4> QED BY <4>1 DEF NoStall
    <3>2. CASE requests # <<>>
      BY <2>1, <2>q, <3>2, EnqueueFacts DEF NoStall, EnqueueRequest
    <3> QED BY <3>1, <3>2
  <2>2. CASE PerformNextRequest
    <3>1. CASE requests = <<>>
      BY <2>2, <3>1 DEF PerformNextRequest, NoStall
    <3>2. CASE requests # <<>>
      <4>1. requests[1] \in Numbers /\ calls'[requests[1]] > 0
        BY <2>2, <2>q, <2>c, <3>2, PerformFacts, CallCounts
      <4> QED BY <4>1 DEF NoStall
    <3> QED BY <3>1, <3>2
  <2>3. CASE cpc' # "idle" \/ crashed' \/ lost'
    BY <2>3 DEF NoStall
  <2>4. CASE UNCHANGED <<requests, calls, cpc, crashed, lost>>
    BY <2>4 DEF NoStall
  <2> QED
    BY <2>1, <2>2, <2>3, <2>4
    DEF Next, vars, DrawNumber, OnResponse, LoseCall, OnFailedCall, PopLastRequest, TakeResponse
<1> QED BY <1>1, <1>2, CallInvariant, PTL DEF Spec

\* Client: OnResponse pops an empty queue only after that race.
THEOREM RaceBeforeCrash == Spec => []SurvivesWithoutRace
<1>1. Init => SurvivesWithoutRace
  BY DEF Init, SurvivesWithoutRace
<1>2. CallInv /\ SurvivesWithoutRace /\ [Next]_vars => SurvivesWithoutRace'
  <2> SUFFICES ASSUME CallInv, SurvivesWithoutRace, [Next]_vars, ~CallsMayFail, crashed', ~raced'
               PROVE  FALSE
    BY DEF SurvivesWithoutRace
  <2>1. ~raced /\ ~crashed
    BY RacedStays DEF SurvivesWithoutRace
  <2>2. cpc = "pop" => requests # <<>>
    BY <2>1 DEF CallInv, Undisturbed, CalledOnce, FrontOnWire
  <2> QED
    BY <2>1, <2>2
    DEF Next, vars, DrawNumber, EnqueueRequest, OnResponse, PopLastRequest, PerformNextRequest,
        LoseCall, OnFailedCall, TakeResponse
<1> QED BY <1>1, <1>2, CallInvariant, PTL DEF Spec

-----------------------------------------------------------------------------
(* The order of the answers                                                *)

LEMMA GotFacts ==
  ASSUME TypeOK
  PROVE  Got \in Seq(Numbers) /\ Len(Got) \in Nat
BY ConcatProperties, LenProperties DEF TypeOK, Got

\* A callback appends its number to what the application gets; the other
\* steps leave that as it is.
LEMMA TakeKeepsGot == ASSUME TypeOK, TakeResponse PROVE Got' = Got
BY MoveHead DEF TypeOK, TakeResponse, Got

LEMMA GotStep ==
  ASSUME TypeOK, [Next]_vars
  PROVE  \/ Got' = Got
         \/ \E s \in Numbers : OnResponse(s) /\ Got' = Append(Got, s)
<1>1. taken \in Seq(Numbers) /\ responses \in Seq(Numbers)
  BY DEF TypeOK
<1>2. ASSUME NEW s \in Numbers, OnResponse(s) PROVE Got' = Append(Got, s)
  BY <1>1, <1>2, AppendBehind DEF OnResponse, Got
<1>3. CASE TakeResponse
  BY <1>3, TakeKeepsGot
<1>4. CASE UNCHANGED <<taken, responses>>
  BY <1>4 DEF Got
<1> QED
  BY <1>2, <1>3, <1>4
  DEF Next, vars, DrawNumber, EnqueueRequest, LoseCall, OnFailedCall, PopLastRequest,
      PerformNextRequest

\* What is said about a sequence of numbers drawn by others stays true when a
\* number is drawn.
LEMMA DrawFacts ==
  ASSUME QueueInv, NEW t \in Senders, DrawNumber(t)
  PROVE  /\ UNCHANGED <<requests, taken, responses, cpc>>
         /\ \A s \in Drawn : s \in Drawn' /\ sender'[s + 1] = sender[s + 1] /\ s < nextNumber
         /\ holds'[t] = nextNumber /\ \A u \in Senders \ {t} : holds'[u] = holds[u]
         /\ nextNumber \in Nat
<1>1. nextNumber \in Nat /\ Len(sender) = nextNumber /\ nextNumber' = nextNumber + 1
  BY ClientAssumption DEF QueueInv, TypeOK, DrawNumber
<1>2. \A i \in 1 .. nextNumber : sender'[i] = sender[i]
  BY <1>1, AppendFacts DEF QueueInv, TypeOK, DrawNumber
<1>3. \A s \in Drawn : s + 1 \in 1 .. nextNumber /\ s \in Drawn' /\ s < nextNumber
  BY <1>1 DEF Drawn
<1>4. holds'[t] = nextNumber /\ \A u \in Senders \ {t} : holds'[u] = holds[u]
  BY DEF QueueInv, TypeOK, DrawNumber
<1> QED BY <1>1, <1>2, <1>3, <1>4 DEF DrawNumber

LEMMA GotOKStep == CallInv /\ GotOK /\ [Next]_vars /\ ~raced' => GotOK'
<1> SUFFICES ASSUME CallInv, GotOK, [Next]_vars, ~raced' PROVE GotOK'
  OBVIOUS
<1>t. TypeOK /\ QueueInv /\ Undisturbed
  BY RacedStays DEF CallInv, QueueInv
<1>1. \A s \in Drawn : s \in Drawn'
  <2>1. ASSUME NEW t \in Senders, DrawNumber(t) PROVE \A s \in Drawn : s \in Drawn'
    BY <1>t, <2>1, DrawFacts
  <2>2. CASE nextNumber' = nextNumber
    BY <2>2 DEF Drawn
  <2> QED
    BY <2>1, <2>2
    DEF Next, vars, EnqueueRequest, OnResponse, LoseCall, OnFailedCall, PopLastRequest,
        PerformNextRequest, TakeResponse
<1>2. CASE Got' = Got
  BY <1>1, <1>2 DEF GotOK
<1>3. ASSUME NEW s \in Numbers, OnResponse(s), Got' = Append(Got, s) PROVE GotOK'
  <2>1. s = requests[1] /\ requests # <<>>
    BY <1>3, <1>t DEF OnResponse, Undisturbed, CalledOnce, FrontOnWire
  <2>2. s \in Drawn
    BY <2>1, <1>t, PlaceFacts DEF QueueInv, OwnPlace
  <2>3. /\ Len(Got) \in Nat /\ Len(Got') = Len(Got) + 1 /\ Got'[Len(Got) + 1] = s
        /\ \A i \in 1 .. Len(Got) : Got'[i] = Got[i]
    BY <1>3, <1>t, GotFacts, AppendFacts
  <2>4. \A i \in 1 .. Len(Got') : i \in 1 .. Len(Got) \/ i = Len(Got) + 1
    BY <2>3
  <2> QED BY <2>2, <2>3, <2>4, <1>1 DEF GotOK
<1> QED BY <1>2, <1>3, <1>t, GotStep

LEMMA GrowingStep == OrderInv /\ [Next]_vars /\ ~raced' => Growing'
<1> SUFFICES ASSUME OrderInv, [Next]_vars, ~raced' PROVE Growing'
  OBVIOUS
<1>t. TypeOK /\ QueueInv /\ Undisturbed /\ Growing /\ GotOK /\ ~raced
  BY RacedStays DEF OrderInv, CallInv, QueueInv
<1>n. Len(Got) \in Nat /\ Len(requests) \in Nat
  BY <1>t, GotFacts, PlaceFacts
<1>d. \A i \in 1 .. Len(requests) : requests[i] \in Drawn
  BY <1>t DEF QueueInv, OwnPlace
<1>1. ASSUME NEW t \in Senders, DrawNumber(t) PROVE Growing'
  <2>1. /\ Got' = Got /\ UNCHANGED <<requests, cpc>>
        /\ \A s \in Drawn : sender'[s + 1] = sender[s + 1] /\ s < nextNumber
        /\ holds'[t] = nextNumber /\ \A u \in Senders \ {t} : holds'[u] = holds[u]
    BY <1>1, <1>t, DrawFacts DEF Got
  <2>2. \A s, r \in Drawn : sender'[s + 1] = sender'[r + 1] => SameSender(s, r)
    BY <2>1 DEF SameSender
  <2>3. \A i, j \in 1 .. Len(Got) :
          i < j /\ sender'[Got[i] + 1] = sender'[Got[j] + 1] => Got[i] < Got[j]
    BY <2>2, <1>t DEF Growing, GotOK
  <2>4. \A i \in 1 .. Len(Got), j \in 1 .. Len(requests) :
          /\ sender'[Got[i] + 1] = sender'[requests[j] + 1]
          /\ ~(cpc = "pop" /\ j = 1)
          => Got[i] < requests[j]
    BY <2>2, <1>t, <1>d DEF Growing, GotOK
  <2>5. \A i, j \in 1 .. Len(requests) :
          i < j /\ sender'[requests[i] + 1] = sender'[requests[j] + 1]
          => requests[i] < requests[j]
    BY <2>2, <1>t, <1>d DEF Growing
  <2>6. /\ \A i \in 1 .. Len(Got) : Got[i] < holds'[t]
        /\ \A i \in 1 .. Len(requests) : requests[i] < holds'[t]
    BY <2>1, <1>t, <1>d DEF GotOK
  <2>7. \A u \in Senders \ {t} : holds'[u] # NoNumber =>
          /\ \A i \in 1 .. Len(Got) : sender'[Got[i] + 1] = u => Got[i] < holds'[u]
          /\ \A i \in 1 .. Len(requests) : sender'[requests[i] + 1] = u => requests[i] < holds'[u]
    BY <2>1, <1>t, <1>d DEF Growing, GotOK
  <2> QED BY <2>1, <2>3, <2>4, <2>5, <2>6, <2>7 DEF Growing, SameSender
<1>2. ASSUME NEW t \in Senders, EnqueueRequest(t) PROVE Growing'
  <2> DEFINE n == holds[t]
             k == Len(requests) + 1
  <2>1. /\ Got' = Got /\ UNCHANGED <<sender, cpc>>
        /\ n # NoNumber /\ sender[n + 1] = t
    BY <1>2, <1>t, EnqueueFacts DEF Got, EnqueueRequest
  <2>2. /\ Len(requests') = k /\ requests'[k] = n
        /\ \A i \in 1 .. Len(requests) : requests'[i] = requests[i]
        /\ holds'[t] = NoNumber /\ \A u \in Senders \ {t} : holds'[u] = holds[u]
    BY <1>2, <1>t, EnqueueFacts
  <2>3. /\ \A i \in 1 .. Len(Got) : sender[Got[i] + 1] = t => Got[i] < n
        /\ \A i \in 1 .. Len(requests) : sender[requests[i] + 1] = t => requests[i] < n
    BY <2>1, <1>t DEF Growing
  <2>4. cpc = "pop" => requests # <<>> /\ k # 1
    BY <1>t, <1>n, PlaceFacts DEF Undisturbed, CalledOnce, FrontOnWire
  <2> HIDE DEF n
  <2>5. \A i \in 1 .. Len(requests') : i \in 1 .. Len(requests) \/ i = k
    BY <2>2, <1>n
  <2>6. ASSUME NEW i \in 1 .. Len(Got), NEW j \in 1 .. Len(requests'),
               SameSender(Got[i], requests'[j]), ~(cpc = "pop" /\ j = 1)
        PROVE  Got[i] < requests'[j]
    <3>1. CASE j \in 1 .. Len(requests)
      BY <2>2, <2>6, <3>1, <1>t DEF Growing
    <3>2. CASE j = k
      BY <2>1, <2>2, <2>3, <2>6, <3>2 DEF SameSender
    <3> QED BY <2>5, <3>1, <3>2
  <2>7. ASSUME NEW i \in 1 .. Len(requests'), NEW j \in 1 .. Len(requests'),
               i < j, SameSender(requests'[i], requests'[j])
        PROVE  requests'[i] < requests'[j]
    <3>0. i \in 1 .. Len(requests)
      BY <2>2, <2>7, <1>n
    <3>1. CASE j \in 1 .. Len(requests)
      BY <2>2, <2>7, <3>0, <3>1, <1>t DEF Growing
    <3>2. CASE j = k
      BY <2>1, <2>2, <2>3, <2>7, <3>0, <3>2 DEF SameSender
    <3> QED BY <2>5, <3>1, <3>2
  <2>8. ASSUME NEW u \in Senders, holds'[u] # NoNumber
        PROVE  /\ \A i \in 1 .. Len(Got) : sender[Got[i] + 1] = u => Got[i] < holds'[u]
               /\ \A i \in 1 .. Len(requests') :
                    sender[requests'[i] + 1] = u => requests'[i] < holds'[u]
    <3>1. u # t /\ holds'[u] = holds[u]
      BY <2>2, <2>8
    <3> QED BY <2>1, <2>2, <2>5, <2>8, <3>1, <1>t DEF Growing
  <2> QED BY <2>1, <2>6, <2>7, <2>8, <1>t DEF Growing, SameSender
<1>3. ASSUME NEW s \in Numbers, OnResponse(s), Got' = Append(Got, s) PROVE Growing'
  <2>1. UNCHANGED <<sender, holds, requests>> /\ cpc = "idle" /\ cpc' = "pop"
    BY <1>3 DEF OnResponse
  <2>2. s = requests[1] /\ 1 \in 1 .. Len(requests)
    BY <1>3, <1>t, PlaceFacts DEF OnResponse, Undisturbed, CalledOnce, FrontOnWire
  <2>3. /\ Len(Got') = Len(Got) + 1 /\ Got'[Len(Got) + 1] = s
        /\ \A i \in 1 .. Len(Got) : Got'[i] = Got[i]
    BY <1>3, <1>t, GotFacts, AppendFacts
  <2>4. \A i \in 1 .. Len(Got') : i \in 1 .. Len(Got) \/ i = Len(Got) + 1
    BY <2>3, <1>n
  <2>5. ASSUME NEW i \in 1 .. Len(Got'), NEW j \in 1 .. Len(Got'),
               i < j, SameSender(Got'[i], Got'[j])
        PROVE  Got'[i] < Got'[j]
    <3>0. i \in 1 .. Len(Got)
      BY <2>3, <2>5, <1>n
    <3>1. CASE j \in 1 .. Len(Got)
      BY <2>3, <2>5, <3>0, <3>1, <1>t DEF Growing
    <3>2. CASE j = Len(Got) + 1
      BY <2>1, <2>2, <2>3, <2>5, <3>0, <3>2, <1>t DEF Growing
    <3> QED BY <2>4, <3>1, <3>2
  <2>6. ASSUME NEW i \in 1 .. Len(Got'), NEW j \in 1 .. Len(requests), j # 1,
               SameSender(Got'[i], requests[j])
        PROVE  Got'[i] < requests[j]
    <3>1. CASE i \in 1 .. Len(Got)
      BY <2>3, <2>6, <3>1, <1>t DEF Growing
    <3>2. CASE i = Len(Got) + 1
      BY <2>2, <2>3, <2>6, <3>2, <1>t DEF Growing
    <3> QED BY <2>4, <3>1, <3>2
  <2>7. ASSUME NEW u \in Senders, holds[u] # NoNumber
        PROVE  \A i \in 1 .. Len(Got') : sender[Got'[i] + 1] = u => Got'[i] < holds[u]
    BY <2>2, <2>3, <2>4, <2>7, <1>t DEF Growing
  <2> QED BY <2>1, <2>5, <2>6, <2>7, <1>t DEF Growing, SameSender
<1>4. CASE PopLastRequest
  <2>1. UNCHANGED <<sender, holds>> /\ cpc = "pop" /\ Got' = Got /\ requests # <<>>
    BY <1>4, <1>t DEF PopLastRequest, Got, Undisturbed, CalledOnce, FrontOnWire
  <2>2. /\ cpc' = "next" /\ Len(requests') = Len(requests) - 1
        /\ \A i \in 1 .. Len(requests) - 1 : requests'[i] = requests[i + 1]
    BY <1>4, <1>t, <2>1, PopFacts
  <2>3. \A i \in 1 .. Len(requests') :
          /\ i + 1 \in 1 .. Len(requests) /\ i + 1 # 1
          /\ requests'[i] = requests[i + 1]
    BY <2>2, <1>n
  <2>4. \A i \in 1 .. Len(Got), j \in 1 .. Len(requests') :
          SameSender(Got[i], requests'[j]) => Got[i] < requests'[j]
    BY <2>3, <1>t DEF Growing
  <2>5. \A i, j \in 1 .. Len(requests') :
          i < j /\ SameSender(requests'[i], requests'[j]) => requests'[i] < requests'[j]
    <3>1. \A i, j \in 1 .. Len(requests') : i < j => i + 1 < j + 1
      BY <1>n
    <3> QED BY <3>1, <2>3, <1>t DEF Growing
  <2>6. \A u \in Senders : holds[u] # NoNumber =>
          \A i \in 1 .. Len(requests') : sender[requests'[i] + 1] = u => requests'[i] < holds[u]
    BY <2>3, <1>t DEF Growing
  <2> QED BY <2>1, <2>4, <2>5, <2>6, <1>t DEF Growing, SameSender
<1>5. CASE Got' = Got /\ UNCHANGED <<sender, holds, requests>> /\ cpc # "pop"
           /\ cpc' # "pop"
  BY <1>5, <1>t DEF Growing, SameSender
<1>6. CASE Got' = Got /\ UNCHANGED <<sender, holds, requests, cpc>>
  BY <1>6, <1>t DEF Growing, SameSender
<1>7. CASE TakeResponse
  <2>1. Got' = Got /\ UNCHANGED <<sender, holds, requests, cpc>>
    BY <1>7, <1>t, TakeKeepsGot DEF TakeResponse
  <2> QED BY <1>6, <2>1
<1>8. ASSUME NEW s \in Numbers, OnResponse(s) PROVE Growing'
  <2>1. Got' = Append(Got, s)
    <3>1. taken \in Seq(Numbers) /\ responses \in Seq(Numbers)
      BY <1>t DEF TypeOK
    <3>2. Got' = taken \o Append(responses, s)
      BY <1>8 DEF OnResponse, Got
    <3> QED BY <3>1, <3>2, AppendBehind DEF Got
  <2> QED BY <1>3, <1>8, <2>1
<1>9. CASE PerformNextRequest
  BY <1>5, <1>9 DEF PerformNextRequest, Got
<1>10. ASSUME NEW s \in Numbers, LoseCall(s) \/ OnFailedCall(s) PROVE Growing'
  BY <1>6, <1>10 DEF LoseCall, OnFailedCall, Got
<1>11. CASE UNCHANGED vars
  BY <1>6, <1>11 DEF vars, Got
<1> QED BY <1>1, <1>2, <1>4, <1>7, <1>8, <1>9, <1>10, <1>11 DEF Next

\* Client: one thread's requests are answered in the order in which
\* it sent them, unless that race has happened.
THEOREM AnswersAreInOrder == Spec => []AnswersInOrder
<1>1. Init => OrderInv
  <2> SUFFICES ASSUME Init PROVE OrderInv
    OBVIOUS
  <2>1. Got = <<>> /\ Len(Got) = 0
    <3>1. <<>> \in Seq(Numbers) /\ Len(<<>>) = 0
      BY EmptySeq
    <3>2. <<>> \o <<>> = <<>>
      BY <3>1, ConcatEmptySeq
    <3> QED BY <3>1, <3>2 DEF Init, Got
  <2> QED BY <2>1, CallInit DEF OrderInv, GotOK, Growing, Init
<1>2. OrderInv /\ FrontCalled /\ [Next]_vars => OrderInv'
  <2> SUFFICES ASSUME OrderInv, FrontCalled, [Next]_vars PROVE OrderInv'
    OBVIOUS
  <2>1. CallInv'
    BY CallStep DEF OrderInv
  <2>2. ~raced' => GotOK' /\ Growing'
    BY GotOKStep, GrowingStep, RacedStays DEF OrderInv
  <2> QED BY <2>1, <2>2 DEF OrderInv
<1>3. OrderInv => AnswersInOrder
  BY DEF OrderInv, Growing, AnswersInOrder, Got, SameSender
<1> QED BY <1>1, <1>2, <1>3, CallInvariant, PTL DEF Spec

-----------------------------------------------------------------------------
(* Destruction: until it begins the client is Client, and afterwards no    *)
(* step of Client but the loss of a call is left.                          *)

LEMMA LifeStep == [LifeNext]_lifeVars => [Next]_vars
<1> SUFFICES ASSUME [LifeNext]_lifeVars PROVE [Next]_vars
  OBVIOUS
<1>1. CASE While("up", Next)
  BY <1>1 DEF While
<1>2. ASSUME NEW s \in Numbers, While("dying", LoseCall(s))
      PROVE  Next
  BY <1>2 DEF While, Next
<1>3. CASE DestroyClient \/ UseDestroyed \/ ClientIsGone \/ UNCHANGED lifeVars
  BY <1>3 DEF DestroyClient, UseDestroyed, ClientIsGone, lifeVars
<1> QED BY <1>1, <1>2, <1>3 DEF LifeNext

\* With destruction the client is still a Client, so that what is proved of
\* the steps of Client holds to the end.
THEOREM LifeIsClient == LifeSpec => Init /\ [][Next]_vars
<1>1. LifeInit => Init
  BY DEF LifeInit
<1> QED BY <1>1, LifeStep, PTL DEF LifeSpec

(* A quiet client stays quiet: nothing is on the wire, no callback runs.   *)
QuietInv ==
  /\ life = "up" => ~quiet
  /\ quiet /\ ~raced =>
       /\ requests = <<>> /\ cpc = "idle" /\ life # "fatal"
       /\ \A s \in Numbers : ~(calls[s] > 0)

LEMMA QuietStep == CallInv /\ QuietInv /\ [LifeNext]_lifeVars => QuietInv'
<1> SUFFICES ASSUME CallInv, QuietInv, [LifeNext]_lifeVars PROVE QuietInv'
  OBVIOUS
<1>1. CASE While("up", Next)
  BY <1>1 DEF While, QuietInv
<1>2. CASE DestroyClient
  <2>1. ~raced /\ requests = <<>> => \A s \in Numbers : ~(calls[s] > 0)
    BY DEF CallInv, Undisturbed, FrontOnWire
  <2>2. /\ life' = "dying" /\ UNCHANGED <<raced, requests, cpc, calls>>
        /\ quiet' => requests = <<>> /\ cpc = "idle"
    BY <1>2 DEF DestroyClient, vars
  <2> QED BY <2>1, <2>2 DEF QuietInv
<1>3. CASE UseDestroyed
  <2>1. ~(quiet /\ ~raced)
    BY <1>3 DEF UseDestroyed, QuietInv
  <2> QED BY <1>3, <2>1 DEF UseDestroyed, QuietInv, vars
<1>4. ASSUME NEW s \in Numbers, While("dying", LoseCall(s))
      PROVE  QuietInv'
  <2>1. ~(quiet /\ ~raced)
    BY <1>4 DEF While, LoseCall, QuietInv
  <2>2. UNCHANGED <<life, quiet, raced>> /\ life = "dying"
    BY <1>4 DEF While, LoseCall
  <2> QED BY <2>1, <2>2 DEF QuietInv
<1>5. CASE ClientIsGone
  BY <1>5 DEF ClientIsGone, QuietInv, vars
<1>6. CASE UNCHANGED lifeVars
  BY <1>6 DEF lifeVars, vars, QuietInv
<1> QED BY <1>1, <1>2, <1>3, <1>4, <1>5, <1>6 DEF LifeNext

\* Client: destroyed with an empty request queue and after its OnResponse, it
\* gets no callback that would use the destroyed queues, unless that race has
\* happened.
THEOREM QuietDestroyWorks == LifeSpec => []QuietDestroyIsSafe
<1>1. LifeInit => CallInv /\ FrontCalled /\ QuietInv
  BY CallInit DEF LifeInit, QuietInv
<1>2. CallInv /\ FrontCalled /\ [LifeNext]_lifeVars => CallInv' /\ FrontCalled'
  BY CallStep, LifeStep
<1>3. QuietInv => QuietDestroyIsSafe
  BY DEF QuietInv, QuietDestroyIsSafe
<1> QED BY <1>1, <1>2, <1>3, QuietStep, PTL DEF LifeSpec
==============================================================================
