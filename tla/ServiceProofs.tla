---------------------------- MODULE ServiceProofs ----------------------------
(***************************************************************************)
(* Proofs about Service, for any handlers, any number of requests, and     *)
(* with or without wakeups that nobody caused.                             *)
(***************************************************************************)
EXTENDS ServiceTeardown, SequenceTheorems, TLAPS

Once(q) == \A i, j \in 1 .. Len(q) : q[i] = q[j] => i = j

\* The ids that arrived, and those the containers refer to.
Arrived == {r \in Ids : r < nextId}
Referred == Range(pending) \cup current

(* A handler in OnRequest has a frame of its own. *)
FramesOK ==
  /\ \A h \in Handlers : frame[h] = NoFrame <=> hpc[h] = "idle"
  /\ \A h \in Handlers : frame[h] # NoFrame => frame[h] \in Arrived
  /\ \A h, g \in Handlers : frame[h] = frame[g] /\ frame[h] # NoFrame => h = g

(* A request is in one container at most, once; the one being answered is  *)
(* still in its container, with its answer moved in.                       *)
PlacesOK ==
  /\ Referred \subseteq Arrived
  /\ Range(pending) \cap current = {}
  /\ Once(pending)
  /\ notifying # NoFrame => notifying \in current /\ response[notifying] = notifying

(* What a handler that stopped waiting finds. *)
RepliesOK ==
  /\ \A r \in Ids : response[r] \in {r, Empty}
  /\ \A h \in Handlers : hpc[h] = "reply" =>
       \/ frame[h] \in woken
       \/ response[frame[h]] = frame[h] /\ frame[h] \notin Referred

(* A handler that is not about to reply will be notified, or was too early. *)
WaitersOK ==
  \A h \in Handlers : hpc[h] \in {"notify", "waiting"} => frame[h] \in Referred \cup hasty

IInv ==
  TypeOK /\ FramesOK /\ PlacesOK /\ RepliesOK /\ WaitersOK /\ OwnAnswer /\ ReferencesAlive

-----------------------------------------------------------------------------
(* The queue of references                                                 *)

LEMMA RangeOf ==
  ASSUME NEW S, NEW q \in Seq(S)
  PROVE  /\ Len(q) \in Nat
         /\ Range(q) = {q[i] : i \in 1 .. Len(q)}
BY LenProperties DEF Range

LEMMA Appended ==
  ASSUME NEW S, NEW q \in Seq(S), NEW e \in S
  PROVE  /\ Append(q, e) \in Seq(S)
         /\ Len(Append(q, e)) = Len(q) + 1
         /\ \A i \in 1 .. Len(q) : Append(q, e)[i] = q[i]
         /\ Append(q, e)[Len(q) + 1] = e
         /\ Range(Append(q, e)) = Range(q) \cup {e}
<1> DEFINE a == Append(q, e)
<1>1. /\ a \in Seq(S) /\ Len(q) \in Nat /\ Len(a) = Len(q) + 1
      /\ \A i \in 1 .. Len(q) : a[i] = q[i]
      /\ a[Len(q) + 1] = e
  BY AppendProperties, LenProperties
<1>2. Range(a) = {a[i] : i \in 1 .. Len(a)} /\ Range(q) = {q[i] : i \in 1 .. Len(q)}
  BY <1>1, RangeOf
<1> HIDE DEF a
<1>3. \A i \in 1 .. Len(a) : i \in 1 .. Len(q) \/ i = Len(q) + 1
  BY <1>1
<1>4. \A i \in 1 .. Len(q) : i \in 1 .. Len(a)
  BY <1>1
<1>5. Len(q) + 1 \in 1 .. Len(a)
  BY <1>1
<1>6. Range(a) = Range(q) \cup {e}
  BY <1>1, <1>2, <1>3, <1>4, <1>5
<1> QED BY <1>1, <1>6 DEF a

LEMMA Popped ==
  ASSUME NEW S, NEW q \in Seq(S), q # <<>>
  PROVE  /\ Head(q) \in S /\ Head(q) = q[1] /\ Head(q) \in Range(q)
         /\ Tail(q) \in Seq(S)
         /\ Len(Tail(q)) = Len(q) - 1
         /\ \A i \in 1 .. Len(q) - 1 : Tail(q)[i] = q[i + 1]
         /\ Range(q) = Range(Tail(q)) \cup {Head(q)}
<1> DEFINE h == Head(q)
           t == Tail(q)
<1>1. /\ h \in S /\ h = q[1] /\ t \in Seq(S) /\ Len(t) = Len(q) - 1
      /\ \A i \in 1 .. Len(q) - 1 : t[i] = q[i + 1]
      /\ Len(q) \in Nat \ {0}
  <2>1. Len(q) \in Nat \ {0} /\ h = q[1]
    BY EmptySeq
  <2>2. h \in S /\ t \in Seq(S) /\ Len(t) = Len(q) - 1
    BY HeadTailProperties
  <2>3. \A i \in 1 .. Len(t) : t[i] = q[i + 1]
    BY HeadTailProperties
  <2> HIDE DEF h, t
  <2>4. \A i \in 1 .. Len(q) - 1 : t[i] = q[i + 1]
    BY <2>2, <2>3
  <2> QED BY <2>1, <2>2, <2>4
<1> HIDE DEF h, t
<1>2. Range(t) = {t[i] : i \in 1 .. Len(t)} /\ Range(q) = {q[i] : i \in 1 .. Len(q)}
  <2>1. t \in Seq(S)
    BY <1>1
  <2> QED BY <2>1, RangeOf
<1>3. ASSUME NEW i \in 1 .. Len(q) PROVE q[i] \in Range(t) \cup {h}
  <2>1. CASE i = 1
    BY <1>1, <2>1
  <2>2. CASE i # 1
    <3>1. i - 1 \in 1 .. Len(t) /\ i - 1 \in 1 .. Len(q) - 1 /\ (i - 1) + 1 = i
      BY <1>1, <2>2
    <3>2. t[i - 1] = q[i]
      BY <1>1, <3>1
    <3> QED BY <1>2, <3>1, <3>2
  <2> QED BY <2>1, <2>2
<1>4. ASSUME NEW i \in 1 .. Len(t) PROVE t[i] \in Range(q)
  <2>1. i + 1 \in 1 .. Len(q) /\ t[i] = q[i + 1]
    BY <1>1
  <2> QED BY <1>2, <2>1
<1>5. h \in Range(q)
  <2>1. 1 \in 1 .. Len(q)
    BY <1>1
  <2> QED BY <1>1, <1>2, <2>1
<1>6. Range(q) = Range(t) \cup {h}
  <2>1. \A e \in Range(q) : e \in Range(t) \cup {h}
    BY <1>2, <1>3
  <2>2. \A e \in Range(t) : e \in Range(q)
    BY <1>2, <1>4
  <2> QED BY <2>1, <2>2, <1>5
<1> QED BY <1>1, <1>5, <1>6 DEF h, t

\* The head of a queue that holds everything once is not in its tail.
LEMMA HeadIsGone ==
  ASSUME NEW S, NEW q \in Seq(S), q # <<>>,
         Once(q)
  PROVE  /\ Head(q) \notin Range(Tail(q))
         /\ Once(Tail(q))
<1> DEFINE h == Head(q)
           t == Tail(q)
<1>1. /\ h = q[1] /\ Len(t) = Len(q) - 1 /\ Len(q) \in Nat \ {0}
      /\ \A i \in 1 .. Len(q) - 1 : t[i] = q[i + 1]
      /\ t \in Seq(S)
  <2>1. Len(q) \in Nat \ {0} /\ h = q[1]
    BY EmptySeq
  <2>2. t \in Seq(S) /\ Len(t) = Len(q) - 1
    BY HeadTailProperties
  <2>3. \A i \in 1 .. Len(t) : t[i] = q[i + 1]
    BY HeadTailProperties
  <2> HIDE DEF h, t
  <2>4. \A i \in 1 .. Len(q) - 1 : t[i] = q[i + 1]
    BY <2>2, <2>3
  <2> QED BY <2>1, <2>2, <2>4
<1>2. Range(t) = {t[i] : i \in 1 .. Len(t)}
  BY <1>1, RangeOf
<1> HIDE DEF h, t
<1>3. \A i \in 1 .. Len(t) : i + 1 \in 1 .. Len(q) /\ i + 1 # 1 /\ t[i] = q[i + 1]
  BY <1>1
<1>4. 1 \in 1 .. Len(q)
  BY <1>1
<1>5. h \notin Range(t)
  BY <1>1, <1>2, <1>3, <1>4 DEF Once
<1>6. \A i, j \in 1 .. Len(t) : t[i] = t[j] => i + 1 = j + 1
  BY <1>3 DEF Once
<1>7. \A i, j \in 1 .. Len(t) : i + 1 = j + 1 => i = j
  BY <1>1
<1> QED BY <1>5, <1>6, <1>7 DEF h, t, Once

-----------------------------------------------------------------------------
(* Types                                                                   *)

LEMMA Constants ==
  /\ MaxRequests \in Nat \ {0} /\ NoFrame \notin Ids /\ Empty \notin Ids /\ NoReply \notin Ids
  /\ Empty # NoReply
  /\ \A r \in Ids : r \in Nat /\ r < MaxRequests
BY ServiceAssumption DEF Ids

LEMMA Initially == Init => IInv
<1> SUFFICES ASSUME Init PROVE IInv
  OBVIOUS
<1>1. TypeOK
  <2>1. nextId \in 0 .. MaxRequests
    BY Constants DEF Init
  <2>2. pending \in Seq(Ids)
    BY EmptySeq DEF Init
  <2> QED BY <2>1, <2>2 DEF Init, TypeOK
<1>2. Range(pending) = {} /\ current = {}
  BY DEF Init, Range
<1>3. FramesOK /\ RepliesOK /\ WaitersOK /\ OwnAnswer
  BY DEF Init, FramesOK, RepliesOK, WaitersOK, OwnAnswer
<1>4. PlacesOK /\ ReferencesAlive
  BY <1>2 DEF Init, PlacesOK, ReferencesAlive, Referred, Once
<1> QED BY <1>1, <1>3, <1>4 DEF IInv

LEMMA TypeStep == TypeOK /\ FramesOK /\ [Next]_vars => TypeOK'
<1> SUFFICES ASSUME TypeOK, FramesOK, [Next]_vars PROVE TypeOK'
  OBVIOUS
<1> USE DEF TypeOK, Use
<1>1. ASSUME NEW h \in Handlers, OnRequest(h) PROVE TypeOK'
  <2>1. nextId \in Ids /\ nextId + 1 \in 0 .. MaxRequests
    BY <1>1, Constants DEF OnRequest, Ids
  <2>2. pending' \in Seq(Ids)
    BY <1>1, <2>1, Appended DEF OnRequest
  <2> QED BY <1>1, <2>1, <2>2 DEF OnRequest
<1>2. ASSUME NEW h \in Handlers, WaitForResponse(h) PROVE TypeOK'
  BY <1>2 DEF WaitForResponse
<1>3. ASSUME NEW h \in Handlers, SpuriousWakeup(h) PROVE TypeOK'
  <2>1. frame[h] \in Ids
    BY <1>3 DEF SpuriousWakeup, FramesOK, Arrived
  <2> QED BY <1>3, <2>1 DEF SpuriousWakeup
<1>4. ASSUME NEW h \in Handlers, Reply(h) PROVE TypeOK'
  <2>1. frame[h] \in Ids
    BY <1>4 DEF Reply, FramesOK, Arrived
  <2>2. replies' \in [Ids -> Ids \cup {Empty, NoReply}]
    BY <1>4, <2>1 DEF Reply
  <2>3. /\ hpc' \in [Handlers -> {"idle", "notify", "waiting", "reply"}]
        /\ frame' \in [Handlers -> Ids \cup {NoFrame}]
    BY <1>4 DEF Reply
  <2> QED BY <1>4, <2>2, <2>3 DEF Reply
<1>5. CASE TakeRequest
  <2>1. Head(pending) \in Ids /\ Tail(pending) \in Seq(Ids)
    BY <1>5, Popped DEF TakeRequest
  <2>2. pending' \in Seq(Ids) /\ current' \subseteq Ids /\ crashed' \in BOOLEAN
    BY <1>5, <2>1 DEF TakeRequest
  <2> QED BY <1>5, <2>2 DEF TakeRequest
<1>6. ASSUME NEW r \in Ids, SendResponse(r) PROVE TypeOK'
  BY <1>6 DEF SendResponse
<1>7. CASE NotifyHandler
  <2>1. hpc' \in [Handlers -> {"idle", "notify", "waiting", "reply"}]
    <3>1. CASE hpc' = hpc
      BY <3>1
    <3>2. CASE hpc' = [hpc EXCEPT ![HandlerOf(notifying)] = IF @ = "waiting" THEN "reply" ELSE @]
      <4> DEFINE g == HandlerOf(notifying)
      <4>1. hpc' = [hpc EXCEPT ![g] = IF @ = "waiting" THEN "reply" ELSE @]
        BY <3>2
      <4> HIDE DEF g
      <4> QED BY <4>1
    <3> QED BY <1>7, <3>1, <3>2 DEF NotifyHandler
  <2>2. hasty' \subseteq Ids
    BY <1>7 DEF NotifyHandler
  <2> QED BY <1>7, <2>1, <2>2 DEF NotifyHandler
<1>8. CASE UNCHANGED vars
  BY <1>8 DEF vars
<1> QED BY <1>1, <1>2, <1>3, <1>4, <1>5, <1>6, <1>7, <1>8 DEF Next

-----------------------------------------------------------------------------
(* One step per operation                                                  *)

(* The rest of the invariant, of which each step keeps every part. *)
Rest == FramesOK /\ PlacesOK /\ RepliesOK /\ WaitersOK /\ OwnAnswer /\ ReferencesAlive

\* A new request is behind the others, and its frame is new.
LEMMA RequestStep ==
  ASSUME IInv, NEW h \in Handlers, OnRequest(h)
  PROVE  Rest'
<1>t. TypeOK /\ Rest
  BY DEF IInv, Rest
<1>1. /\ nextId \in Ids /\ nextId # NoFrame /\ nextId' = nextId + 1
      /\ UNCHANGED <<response, current, notifying, replies, hasty, woken, crashed>>
  <2>1. nextId \in Nat /\ nextId < MaxRequests
    BY <1>t, Constants DEF OnRequest, TypeOK
  <2>2. nextId \in Ids
    BY <2>1, Constants DEF Ids
  <2> QED BY <2>2, Constants DEF OnRequest
<1>2. /\ nextId \notin Arrived /\ Arrived' = Arrived \cup {nextId}
  <2>1. nextId \in Nat /\ \A r \in Ids : r \in Nat
    BY <1>1, Constants
  <2>2. \A r \in Ids : r < nextId + 1 <=> r < nextId \/ r = nextId
    BY <2>1
  <2>3. \A r \in Ids : r < nextId' <=> r < nextId \/ r = nextId
    BY <2>2, <1>1
  <2>4. ~(nextId < nextId)
    BY <2>1
  <2> QED BY <2>3, <2>4, <1>1 DEF Arrived
<1>3. /\ frame'[h] = nextId /\ hpc'[h] = "notify" /\ hpc[h] = "idle"
      /\ \A g \in Handlers \ {h} : frame'[g] = frame[g] /\ hpc'[g] = hpc[g]
  BY <1>t DEF OnRequest, TypeOK
<1>4. /\ Range(pending') = Range(pending) \cup {nextId}
      /\ Len(pending') = Len(pending) + 1 /\ pending'[Len(pending) + 1] = nextId
      /\ \A i \in 1 .. Len(pending) : pending'[i] = pending[i]
      /\ Len(pending) \in Nat
      /\ \A i \in 1 .. Len(pending) : pending[i] \in Range(pending)
  BY <1>1, <1>t, Appended, RangeOf DEF OnRequest, TypeOK
<1>5. Referred' = Referred \cup {nextId} /\ nextId \notin Referred
  BY <1>1, <1>2, <1>4, <1>t DEF Referred, Rest, PlacesOK
<1>6. FramesOK'
  <2>1. \A g \in Handlers \ {h} : frame[g] # nextId
    BY <1>1, <1>2, <1>t DEF Rest, FramesOK
  <2> QED BY <1>1, <1>2, <1>3, <2>1, <1>t DEF Rest, FramesOK
<1>7. PlacesOK'
  <2>1. Referred' \subseteq Arrived'
    BY <1>2, <1>5, <1>t DEF Rest, PlacesOK
  <2>2. Range(pending') \cap current' = {}
    BY <1>1, <1>4, <1>5, <1>t DEF Rest, PlacesOK, Referred
  <2>3. \A i \in 1 .. Len(pending') : i \in 1 .. Len(pending) \/ i = Len(pending) + 1
    BY <1>4
  <2>4. \A i \in 1 .. Len(pending) : pending[i] # nextId
    BY <1>4, <1>5 DEF Referred
  <2>5. \A i, j \in 1 .. Len(pending') : pending'[i] = pending'[j] => i = j
    BY <1>4, <2>3, <2>4, <1>t DEF Rest, PlacesOK, Once
  <2> QED BY <1>1, <2>1, <2>2, <2>5, <1>t DEF Rest, PlacesOK, Once
<1>8. RepliesOK'
  <2>1. \A g \in Handlers : hpc'[g] = "reply" =>
          g # h /\ hpc[g] = "reply" /\ frame'[g] = frame[g] /\ frame[g] # nextId
    BY <1>2, <1>3, <1>t DEF Rest, FramesOK
  <2> QED BY <1>1, <1>5, <2>1, <1>t DEF Rest, RepliesOK
<1>9. WaitersOK'
  BY <1>1, <1>3, <1>5, <1>t DEF Rest, WaitersOK
<1>10. OwnAnswer'
  BY <1>1, <1>t DEF Rest, OwnAnswer
<1>11. ReferencesAlive'
  <2>1. ASSUME NEW r \in Referred, NEW g \in Handlers, frame[g] = r
        PROVE  frame'[g] = r
    <3>1. r # NoFrame
      BY <1>t, Constants DEF Rest, PlacesOK, Arrived
    <3>2. g # h
      BY <2>1, <3>1, <1>3, <1>t DEF Rest, FramesOK
    <3> QED BY <2>1, <3>2, <1>3
  <2>2. \A r \in Referred : (\E g \in Handlers : frame[g] = r)
                             => \E g \in Handlers : frame'[g] = r
    BY <2>1
  <2>3. \E g \in Handlers : frame'[g] = nextId
    BY <1>3
  <2>4. \A r \in Referred : (\E g \in Handlers : frame[g] = r) \/ r \in woken
    BY <1>t DEF Rest, ReferencesAlive, Referred, Alive
  <2>5. \A r \in Referred' : (\E g \in Handlers : frame'[g] = r) \/ r \in woken'
    BY <1>1, <1>5, <2>2, <2>3, <2>4
  <2>6. crashed' => woken' # {}
    BY <1>1, <1>t DEF Rest, ReferencesAlive
  <2> QED BY <2>5, <2>6 DEF ReferencesAlive, Referred, Alive
<1> QED BY <1>6, <1>7, <1>8, <1>9, <1>10, <1>11 DEF Rest

\* A handler that goes on to wait keeps its frame.
LEMMA WaitStep ==
  ASSUME IInv, NEW h \in Handlers, WaitForResponse(h)
  PROVE  Rest'
<1>t. TypeOK /\ Rest
  BY DEF IInv, Rest
<1>1. /\ hpc[h] = "notify" /\ hpc'[h] = "waiting"
      /\ \A g \in Handlers \ {h} : hpc'[g] = hpc[g]
      /\ UNCHANGED <<nextId, frame, response, pending, current, notifying, replies,
                     hasty, woken, crashed>>
  BY <1>t DEF WaitForResponse, TypeOK
<1>2. Referred' = Referred /\ Arrived' = Arrived
  BY <1>1 DEF Referred, Arrived
<1>3. FramesOK' /\ PlacesOK'
  BY <1>1, <1>2, <1>t DEF Rest, FramesOK, PlacesOK
<1>4. RepliesOK' /\ WaitersOK'
  BY <1>1, <1>2, <1>t DEF Rest, RepliesOK, WaitersOK
<1>5. OwnAnswer' /\ ReferencesAlive'
  BY <1>1, <1>t DEF Rest, OwnAnswer, ReferencesAlive, Alive
<1> QED BY <1>3, <1>4, <1>5 DEF Rest

LEMMA WakeStep ==
  ASSUME IInv, NEW h \in Handlers, SpuriousWakeup(h)
  PROVE  Rest'
<1>t. TypeOK /\ Rest
  BY DEF IInv, Rest
<1>1. /\ hpc[h] = "waiting" /\ hpc'[h] = "reply"
      /\ \A g \in Handlers \ {h} : hpc'[g] = hpc[g]
      /\ woken' = woken \cup {frame[h]}
      /\ UNCHANGED <<nextId, frame, response, pending, current, notifying, replies,
                     hasty, crashed>>
  BY <1>t DEF SpuriousWakeup, TypeOK
<1>2. Referred' = Referred /\ Arrived' = Arrived
  BY <1>1 DEF Referred, Arrived
<1>3. FramesOK' /\ PlacesOK'
  BY <1>1, <1>2, <1>t DEF Rest, FramesOK, PlacesOK
<1>4. RepliesOK' /\ WaitersOK'
  BY <1>1, <1>2, <1>t DEF Rest, RepliesOK, WaitersOK
<1>5. OwnAnswer' /\ ReferencesAlive'
  BY <1>1, <1>t DEF Rest, OwnAnswer, ReferencesAlive, Alive
<1> QED BY <1>3, <1>4, <1>5 DEF Rest

\* A frame that goes is referred to no more, unless its handler woke by itself.
LEMMA ReplyStep ==
  ASSUME IInv, NEW h \in Handlers, Reply(h)
  PROVE  Rest'
<1>t. TypeOK /\ Rest
  BY DEF IInv, Rest
<1> DEFINE r == frame[h]
<1>1. /\ hpc[h] = "reply" /\ r # NoFrame /\ r \in Arrived /\ r \in Ids
      /\ r \in woken \/ (response[r] = r /\ r \notin Referred)
  BY <1>t DEF Reply, Rest, FramesOK, RepliesOK, Arrived
<1>2. /\ frame'[h] = NoFrame /\ hpc'[h] = "idle" /\ replies'[r] = response[r]
      /\ \A g \in Handlers \ {h} : frame'[g] = frame[g] /\ hpc'[g] = hpc[g]
      /\ \A s \in Ids \ {r} : replies'[s] = replies[s]
      /\ UNCHANGED <<nextId, response, pending, current, notifying, hasty, woken, crashed>>
  BY <1>1, <1>t DEF Reply, TypeOK
<1> HIDE DEF r
<1>3. Referred' = Referred /\ Arrived' = Arrived
  BY <1>2 DEF Referred, Arrived
<1>4. FramesOK' /\ PlacesOK'
  BY <1>2, <1>3, <1>t DEF Rest, FramesOK, PlacesOK
<1>5. RepliesOK' /\ WaitersOK'
  BY <1>2, <1>3, <1>t DEF Rest, RepliesOK, WaitersOK
<1>6. OwnAnswer'
  <2>1. response[r] = r \/ (response[r] = Empty /\ r \in woken)
    BY <1>1, <1>t DEF Rest, RepliesOK
  <2> QED BY <1>1, <1>2, <2>1, <1>t DEF Rest, OwnAnswer
<1>7. ReferencesAlive'
  <2>1. \A s \in Referred : (\E g \in Handlers : frame[g] = s) \/ s \in woken
    BY <1>t DEF Rest, ReferencesAlive, Referred, Alive
  <2>2. ASSUME NEW s \in Referred, s \notin woken
        PROVE  \E g \in Handlers : frame'[g] = s
    <3>1. PICK g \in Handlers : frame[g] = s
      BY <2>1, <2>2
    <3>2. g # h
      BY <3>1, <2>2, <1>1 DEF r
    <3> QED BY <3>1, <3>2, <1>2
  <2> QED BY <2>2, <1>2, <1>3, <1>t DEF Rest, ReferencesAlive, Referred, Alive
<1> QED BY <1>4, <1>5, <1>6, <1>7 DEF Rest

\* Taking moves the oldest reference from one container to the other.
LEMMA TakeStep ==
  ASSUME IInv, TakeRequest
  PROVE  Rest'
<1>t. TypeOK /\ Rest
  BY DEF IInv, Rest
<1> DEFINE r == Head(pending)
<1>0. pending # <<>> /\ notifying = NoFrame /\ ~crashed
  BY DEF TakeRequest
<1>p. pending \in Seq(Ids) /\ Once(pending)
  BY <1>t DEF TypeOK, Rest, PlacesOK
<1>1. /\ r \in Ids /\ r \in Range(pending) /\ r \notin Range(Tail(pending))
      /\ Range(pending) = Range(Tail(pending)) \cup {r}
      /\ Once(Tail(pending))
  BY <1>0, <1>p, Popped, HeadIsGone
<1>2. CASE Alive(r) /\ UNCHANGED crashed /\ pending' = Tail(pending)
           /\ current' = current \cup {r}
           /\ UNCHANGED <<nextId, hpc, frame, response, notifying, replies, hasty, woken>>
  <2> HIDE DEF r
  <2>1. Referred' = Referred /\ Arrived' = Arrived
    BY <1>1, <1>2 DEF Referred, Arrived
  <2>2. PlacesOK'
    <3>1. Range(pending') \cap current' = {}
      BY <1>1, <1>2, <1>t DEF Rest, PlacesOK
    <3> QED BY <1>0, <1>1, <1>2, <2>1, <3>1, <1>t DEF Rest, PlacesOK
  <2>3. FramesOK' /\ RepliesOK' /\ WaitersOK' /\ OwnAnswer'
    BY <1>2, <2>1, <1>t DEF Rest, FramesOK, RepliesOK, WaitersOK, OwnAnswer
  <2>4. ReferencesAlive'
    BY <1>2, <2>1, <1>t DEF Rest, ReferencesAlive, Referred, Alive
  <2> QED BY <2>2, <2>3, <2>4 DEF Rest
<1>3. CASE /\ ~Alive(r) /\ crashed'
           /\ UNCHANGED <<nextId, hpc, frame, response, pending, current, notifying,
                          replies, hasty, woken>>
  <2>1. woken # {}
    BY <1>1, <1>3, <1>t DEF Rest, ReferencesAlive
  <2>2. Referred' = Referred /\ Arrived' = Arrived
    BY <1>3 DEF Referred, Arrived
  <2>3. FramesOK' /\ PlacesOK' /\ RepliesOK' /\ WaitersOK' /\ OwnAnswer'
    BY <1>3, <2>2, <1>t DEF Rest, FramesOK, PlacesOK, RepliesOK, WaitersOK, OwnAnswer
  <2>4. ReferencesAlive'
    BY <1>3, <2>1, <1>t DEF Rest, ReferencesAlive, Alive
  <2> QED BY <2>3, <2>4 DEF Rest
<1> QED BY <1>2, <1>3 DEF TakeRequest, Use

\* Only the request answered changes its response.
LEMMA SendStep ==
  ASSUME IInv, NEW r \in Ids, SendResponse(r)
  PROVE  Rest'
<1>t. TypeOK /\ Rest
  BY DEF IInv, Rest
<1>0. r \in current /\ ~crashed /\ notifying = NoFrame
  BY DEF SendResponse
<1>1. CASE Alive(r) /\ UNCHANGED crashed /\ response' = [response EXCEPT ![r] = r]
           /\ notifying' = r
           /\ UNCHANGED <<nextId, hpc, frame, pending, current, replies, hasty, woken>>
  <2>1. response'[r] = r /\ \A s \in Ids \ {r} : response'[s] = response[s]
    BY <1>1, <1>t DEF TypeOK
  <2>2. Referred' = Referred /\ Arrived' = Arrived /\ r \in Referred
    BY <1>0, <1>1 DEF Referred, Arrived
  <2>3. FramesOK' /\ WaitersOK' /\ OwnAnswer'
    BY <1>1, <2>2, <1>t DEF Rest, FramesOK, WaitersOK, OwnAnswer
  <2>4. PlacesOK'
    BY <1>0, <1>1, <2>1, <2>2, <1>t DEF Rest, PlacesOK
  <2>5. RepliesOK'
    <3>1. \A s \in Ids : response'[s] \in {s, Empty}
      BY <2>1, <1>t DEF Rest, RepliesOK
    <3>2. \A h \in Handlers : hpc[h] = "reply" => frame[h] \in Ids
      BY <1>t DEF Rest, FramesOK, Arrived
    <3> QED BY <1>1, <2>1, <2>2, <3>1, <3>2, <1>t DEF Rest, RepliesOK
  <2>6. ReferencesAlive'
    BY <1>1, <1>t DEF Rest, ReferencesAlive, Alive
  <2> QED BY <2>3, <2>4, <2>5, <2>6 DEF Rest
<1>2. CASE /\ ~Alive(r) /\ crashed'
           /\ UNCHANGED <<nextId, hpc, frame, response, pending, current, notifying,
                          replies, hasty, woken>>
  <2>1. woken # {}
    BY <1>0, <1>2, <1>t DEF Rest, ReferencesAlive
  <2>2. Referred' = Referred /\ Arrived' = Arrived
    BY <1>2 DEF Referred, Arrived
  <2>3. FramesOK' /\ PlacesOK' /\ RepliesOK' /\ WaitersOK' /\ OwnAnswer'
    BY <1>2, <2>2, <1>t DEF Rest, FramesOK, PlacesOK, RepliesOK, WaitersOK, OwnAnswer
  <2>4. ReferencesAlive'
    BY <1>2, <2>1, <1>t DEF Rest, ReferencesAlive, Alive
  <2> QED BY <2>3, <2>4 DEF Rest
<1> QED BY <1>1, <1>2 DEF SendResponse, Use

\* Notifying moves the one handler of that request on, if it waits, and drops
\* the last reference to it.
LEMMA NotifyStep ==
  ASSUME IInv, NotifyHandler
  PROVE  Rest'
<1>t. TypeOK /\ Rest
  BY DEF IInv, Rest
<1> DEFINE r == notifying
           g == HandlerOf(r)
<1>0. /\ r # NoFrame /\ r \in current /\ response[r] = r /\ ~crashed
      /\ r \notin Range(pending)
  BY <1>t DEF NotifyHandler, Rest, PlacesOK
<1>1. CASE /\ Alive(r) /\ UNCHANGED crashed
           /\ hpc' = [hpc EXCEPT ![g] = IF @ = "waiting" THEN "reply" ELSE @]
           /\ hasty' = IF hpc[g] = "notify" THEN hasty \cup {r} ELSE hasty
           /\ current' = current \ {r} /\ notifying' = NoFrame
           /\ UNCHANGED <<nextId, frame, response, pending, replies, woken>>
  <2>1. g \in Handlers /\ frame[g] = r
    BY <1>1 DEF HandlerOf, Alive
  <2>2. \A h \in Handlers : frame[h] = r => h = g
    BY <2>1, <1>0, <1>t DEF Rest, FramesOK
  <2> HIDE DEF g
  <2>3. /\ hpc[g] = "waiting" => hpc'[g] = "reply"
        /\ hpc[g] # "waiting" => hpc'[g] = hpc[g]
        /\ \A h \in Handlers \ {g} : hpc'[h] = hpc[h]
    BY <1>1, <2>1, <1>t DEF TypeOK
  <2>4. Referred' = Referred \ {r} /\ Arrived' = Arrived
    BY <1>0, <1>1 DEF Referred, Arrived
  <2>5. FramesOK'
    BY <1>1, <2>1, <2>3, <2>4, <1>t DEF Rest, FramesOK
  <2>6. PlacesOK'
    BY <1>1, <2>4, <1>t DEF Rest, PlacesOK
  <2>7. RepliesOK'
    <3>1. ASSUME NEW h \in Handlers, hpc'[h] = "reply"
          PROVE  frame[h] \in woken \/ (response[frame[h]] = frame[h] /\ frame[h] \notin Referred')
      <4>1. CASE h = g
        BY <1>0, <2>1, <2>4, <4>1
      <4>2. CASE h # g
        BY <2>3, <2>4, <3>1, <4>2, <1>t DEF Rest, RepliesOK
      <4> QED BY <4>1, <4>2
    <3> QED BY <1>1, <3>1, <1>t DEF Rest, RepliesOK
  <2>8. WaitersOK'
    <3>1. ASSUME NEW h \in Handlers, hpc'[h] \in {"notify", "waiting"}
          PROVE  frame[h] \in Referred' \cup hasty'
      <4>1. CASE h = g
        <5>1. hpc[g] = "notify" \/ hpc[g] \notin {"notify", "waiting"}
          BY <2>3, <3>1, <4>1
        <5>2. hpc[g] = "notify"
          BY <2>3, <3>1, <4>1, <5>1
        <5> QED BY <1>1, <2>1, <4>1, <5>2
      <4>2. CASE h # g
        <5>1. frame[h] \in Referred \cup hasty /\ frame[h] # r
          BY <2>2, <2>3, <3>1, <4>2, <1>t DEF Rest, WaitersOK
        <5>2. hasty \subseteq hasty'
          BY <1>1
        <5> QED BY <2>4, <5>1, <5>2
      <4> QED BY <4>1, <4>2
    <3> QED BY <1>1, <3>1 DEF WaitersOK
  <2>9. OwnAnswer' /\ ReferencesAlive'
    BY <1>1, <2>4, <1>t DEF Rest, OwnAnswer, ReferencesAlive, Referred, Alive
  <2> QED BY <2>5, <2>6, <2>7, <2>8, <2>9 DEF Rest
<1>2. CASE /\ ~Alive(r) /\ crashed'
           /\ UNCHANGED <<nextId, hpc, frame, response, pending, current, notifying,
                          replies, hasty, woken>>
  <2>1. woken # {}
    BY <1>0, <1>2, <1>t DEF Rest, ReferencesAlive
  <2>2. Referred' = Referred /\ Arrived' = Arrived
    BY <1>2 DEF Referred, Arrived
  <2>3. FramesOK' /\ PlacesOK' /\ RepliesOK' /\ WaitersOK' /\ OwnAnswer'
    BY <1>2, <2>2, <1>t DEF Rest, FramesOK, PlacesOK, RepliesOK, WaitersOK, OwnAnswer
  <2>4. ReferencesAlive'
    BY <1>2, <2>1, <1>t DEF Rest, ReferencesAlive, Alive
  <2> QED BY <2>3, <2>4 DEF Rest
<1> QED BY <1>1, <1>2 DEF NotifyHandler, Use

LEMMA Inductive == IInv /\ [Next]_vars => IInv'
<1> SUFFICES ASSUME IInv, [Next]_vars PROVE IInv'
  OBVIOUS
<1>1. TypeOK'
  BY TypeStep DEF IInv
<1>2. CASE Next
  <2>1. Rest'
    BY <1>2, RequestStep, WaitStep, WakeStep, ReplyStep, TakeStep, SendStep, NotifyStep DEF Next
  <2> QED BY <1>1, <2>1 DEF IInv, Rest
<1>3. CASE UNCHANGED vars
  <2>1. FramesOK' /\ PlacesOK' /\ RepliesOK' /\ WaitersOK'
    BY <1>3 DEF vars, IInv, FramesOK, PlacesOK, RepliesOK, WaitersOK, Referred, Arrived, Once
  <2>2. OwnAnswer' /\ ReferencesAlive'
    BY <1>3 DEF vars, IInv, OwnAnswer, ReferencesAlive, Alive
  <2> QED BY <1>1, <2>1, <2>2 DEF IInv
<1> QED BY <1>2, <1>3

LEMMA Invariance == Spec => []IInv
BY Initially, Inductive, PTL DEF Spec

-----------------------------------------------------------------------------

\* Service: ids, program points and answers have their types.
THEOREM TypeCorrect == Spec => []TypeOK
BY Invariance, PTL DEF IInv

\* Service: a client gets the answer to its own request, or an empty
\* one if its handler woke by itself.
THEOREM AnswersAreOwn == Spec => []OwnAnswer
BY Invariance, PTL DEF IInv

\* Service: no reference is left to a frame that is gone, and none
\* is used, unless a handler woke by itself.
THEOREM FramesAreThere == Spec => []ReferencesAlive
BY Invariance, PTL DEF IInv

\* Service: a handler that nobody will notify is one that was
\* answered before it waited.
THEOREM SleepersAreKnown == Spec => []NoSleeperForgotten
<1>1. IInv => NoSleeperForgotten
  BY DEF IInv, WaitersOK, NoSleeperForgotten, Referred
<1> QED BY <1>1, Invariance, PTL

-----------------------------------------------------------------------------
(* Destruction: until it begins the service is Service, and afterwards its *)
(* handlers go on.                                                         *)

LEMMA LifeStep == [LifeNext]_lifeVars => [Next]_vars
<1> SUFFICES ASSUME [LifeNext]_lifeVars PROVE [Next]_vars
  OBVIOUS
<1>1. CASE While("up", Next)
  BY <1>1 DEF While
<1>2. ASSUME NEW h \in Handlers, While("dying", Finish(h) \/ SpuriousWakeup(h))
      PROVE  Next
  BY <1>2 DEF While, Finish, Next
<1>3. CASE DestroyService \/ (\E h \in Handlers : UseDestroyed(h)) \/ ServerIsGone
           \/ UNCHANGED lifeVars
  BY <1>3 DEF DestroyService, UseDestroyed, ServerIsGone, lifeVars
<1> QED BY <1>1, <1>2, <1>3 DEF LifeNext

\* With destruction the service is still a Service, so that what is proved of
\* the steps of Service holds to the end.
THEOREM LifeIsService == LifeSpec => Init /\ [][Next]_vars
<1>1. LifeInit => Init
  BY DEF LifeInit
<1> QED BY <1>1, LifeStep, PTL DEF LifeSpec

(* Containers that were empty stay so: nobody fills or empties them.       *)
QuietInv ==
  /\ life = "up" => ~quiet
  /\ quiet => pending = <<>> /\ current = {}

LEMMA QuietStep == QuietInv /\ [LifeNext]_lifeVars => QuietInv'
<1> SUFFICES ASSUME QuietInv, [LifeNext]_lifeVars PROVE QuietInv'
  OBVIOUS
<1>1. CASE While("up", Next)
  BY <1>1 DEF While, QuietInv
<1>2. ASSUME NEW h \in Handlers, While("dying", Finish(h) \/ SpuriousWakeup(h))
      PROVE  QuietInv'
  BY <1>2 DEF While, Finish, WaitForResponse, Reply, SpuriousWakeup, QuietInv
<1>3. CASE DestroyService
  BY <1>3 DEF DestroyService, QuietInv, vars
<1>4. CASE (\E h \in Handlers : UseDestroyed(h)) \/ ServerIsGone \/ UNCHANGED lifeVars
  BY <1>4 DEF UseDestroyed, ServerIsGone, lifeVars, vars, QuietInv
<1> QED BY <1>1, <1>2, <1>3, <1>4 DEF LifeNext

\* Service: when every request that was queued has been answered, the only
\* handlers that its destruction can wait for in vain are those whose answer
\* came before they waited.
THEOREM QuietDestroyWaits ==
  LifeSpec =>
    [](quiet => \A h \in Handlers : hpc[h] = "waiting" => frame[h] \in hasty)
<1>1. LifeInit => IInv /\ QuietInv
  BY Initially DEF LifeInit, QuietInv
<1>2. IInv /\ [LifeNext]_lifeVars => IInv'
  BY Inductive, LifeStep
<1>3. IInv /\ QuietInv =>
        (quiet => \A h \in Handlers : hpc[h] = "waiting" => frame[h] \in hasty)
  BY DEF IInv, WaitersOK, Referred, QuietInv, Range
<1> QED BY <1>1, <1>2, <1>3, QuietStep, PTL DEF LifeSpec
==============================================================================
