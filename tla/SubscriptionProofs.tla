-------------------------- MODULE SubscriptionProofs --------------------------
(***************************************************************************)
(* Proofs about Subscription, for any takers and bounds.                   *)
(***************************************************************************)
EXTENDS Subscription, TLAPS

(* Where the threads are. *)
ControlInv ==
  /\ \A t \in Takers : pc[t] = "deserialize" <=> hand[t] # None
  /\ phase # "alive" => \A t \in Takers : pc[t] = "idle"
  /\ callback # "idle" => received > 0
  /\ phase = "cleaned" /\ ~late => queue = <<>>
  /\ phase = "gone" => callback = "idle"

(* Buffers are new when they are saved. *)
FreshInv == heap \subseteq 1 .. received /\ lost \subseteq heap

BufferInv ==
  ControlInv /\ FreshInv /\ NothingDangles /\ OneHolder /\ NothingLeaks

(* While no two takers have overlapped, only one is past HasData, and it    *)
(* finds what HasData saw.                                                  *)
PopInv ==
  /\ CrashNeedsRace
  /\ ~overlapped /\ ~crashed => \A t \in Takers : pc[t] = "pop" => queue # <<>>

(* The numbers of the messages popped and queued are their positions. *)
OrderInv ==
  phase = "alive" =>
    /\ Len(taken) + Len(queue) = arrivedBar
    /\ \A i \in 1 .. Len(taken) : taken[i] = i
    /\ \A i \in 1 .. Len(queue) : queue[i] = Len(taken) + i

SlotsInv ==
  \A t \in Takers :
    /\ Len(slots[t]) <= count[t]
    /\ pc[t] \in {"pop", "deserialize"} => Len(slots[t]) < count[t]
    /\ kind[t] # "sequence" /\ pc[t] # "idle" => slots[t] = <<>>
    /\ hand[t] <= Len(taken)
    /\ \A i \in 1 .. Len(slots[t]) : slots[t][i] <= Len(taken)
    /\ pc[t] = "deserialize" => \A i \in 1 .. Len(slots[t]) : slots[t][i] < hand[t]
    /\ \A i, j \in 1 .. Len(slots[t]) : i < j => slots[t][i] < slots[t][j]

IInv == TypeOK /\ BufferInv /\ PopInv /\ OrderInv /\ SlotsInv

-----------------------------------------------------------------------------
(* The queue's operations.                                                 *)

Distinct(q) == \A i, j \in DOMAIN q : q[i] = q[j] => i = j

LEMMA AppendFacts ==
  ASSUME NEW q \in Seq(Messages), NEW m \in Messages
  PROVE  /\ Append(q, m) \in Seq(Messages)
         /\ Len(Append(q, m)) = Len(q) + 1
         /\ \A i \in 1 .. Len(q) : Append(q, m)[i] = q[i]
         /\ Append(q, m)[Len(q) + 1] = m
         /\ DOMAIN Append(q, m) = 1 .. Len(q) + 1
OBVIOUS

LEMMA AppendRange ==
  ASSUME NEW q \in Seq(Messages), NEW m \in Messages
  PROVE  Range(Append(q, m)) = Range(q) \cup {m}
<1>1. DOMAIN q = 1 .. Len(q) /\ Len(q) \in Nat
  OBVIOUS
<1> QED BY <1>1, AppendFacts DEF Range

LEMMA AppendDistinct ==
  ASSUME NEW q \in Seq(Messages), NEW m \in Messages, Distinct(q), m \notin Range(q)
  PROVE  Distinct(Append(q, m))
<1>1. DOMAIN q = 1 .. Len(q) /\ Len(q) \in Nat
  OBVIOUS
<1> QED BY <1>1, AppendFacts DEF Range, Distinct

LEMMA RestFacts ==
  ASSUME NEW q \in Seq(Messages), q # <<>>
  PROVE  /\ Front(q) = q[1]
         /\ Front(q) \in Messages
         /\ Rest(q) \in Seq(Messages)
         /\ Len(q) \in Nat \ {0}
         /\ Len(Rest(q)) = Len(q) - 1
         /\ \A i \in 1 .. Len(q) - 1 : Rest(q)[i] = q[i + 1]
         /\ DOMAIN Rest(q) = 1 .. Len(q) - 1
BY DEF Front, Rest

LEMMA RestRange ==
  ASSUME NEW q \in Seq(Messages), q # <<>>, Distinct(q)
  PROVE  /\ Front(q) \in Range(q)
         /\ Range(Rest(q)) = Range(q) \ {Front(q)}
         /\ Distinct(Rest(q))
<1>1. DOMAIN q = 1 .. Len(q) /\ Len(q) \in Nat \ {0}
  BY RestFacts
<1>2. Front(q) \in Range(q)
  BY <1>1, RestFacts DEF Range
<1>3. ASSUME NEW m \in Range(Rest(q))
      PROVE  m \in Range(q) \ {Front(q)}
  <2>1. PICK i \in 1 .. Len(q) - 1 : Rest(q)[i] = m
    BY <1>3, RestFacts DEF Range
  <2>2. q[i + 1] = m /\ i + 1 \in 1 .. Len(q) /\ i + 1 # 1
    BY <1>1, <2>1, RestFacts
  <2>3. m \in Range(q)
    BY <1>1, <2>2 DEF Range
  <2>4. q[i + 1] # q[1]
    BY <1>1, <2>2 DEF Distinct
  <2> QED BY <2>2, <2>3, <2>4, RestFacts
<1>4. ASSUME NEW m \in Range(q) \ {Front(q)}
      PROVE  m \in Range(Rest(q))
  <2>1. PICK i \in 1 .. Len(q) : q[i] = m
    BY <1>1, <1>4 DEF Range
  <2>2. i # 1
    BY <1>4, <2>1, RestFacts
  <2>3. i - 1 \in 1 .. Len(q) - 1 /\ Rest(q)[i - 1] = m
    BY <1>1, <2>1, <2>2, RestFacts
  <2> QED BY <2>3, RestFacts DEF Range
<1>5. Distinct(Rest(q))
  <2>1. SUFFICES ASSUME NEW i \in 1 .. Len(q) - 1, NEW j \in 1 .. Len(q) - 1,
                        Rest(q)[i] = Rest(q)[j]
                 PROVE  i = j
    BY RestFacts DEF Distinct
  <2>2. i + 1 \in 1 .. Len(q) /\ j + 1 \in 1 .. Len(q)
    BY <1>1
  <2>3. Rest(q)[i] = q[i + 1] /\ Rest(q)[j] = q[j + 1]
    BY RestFacts
  <2>4. i + 1 = j + 1
    BY <1>1, <2>1, <2>2, <2>3 DEF Distinct
  <2> QED BY <2>4
<1>6. Range(Rest(q)) = Range(q) \ {Front(q)}
  BY <1>3, <1>4
<1> QED BY <1>2, <1>5, <1>6

LEMMA QueueIsDistinct ==
  ASSUME TypeOK, OneHolder
  PROVE  Distinct(queue)
<1>1. \A i \in DOMAIN queue : queue[i] \in Messages
  BY DEF TypeOK
<1> QED BY <1>1 DEF OneHolder, Distinct

-----------------------------------------------------------------------------
(* Types                                                                   *)

LEMMA TypeInit == Init => TypeOK
<1> SUFFICES ASSUME Init PROVE TypeOK
  OBVIOUS
<1>1. /\ received \in 0 .. MaxMessages
      /\ count \in [Takers -> 0 .. MaxCount]
  BY SubscriptionAssumption DEF Init
<1>2. /\ queue \in Seq(Messages)
      /\ taken \in Seq(Messages)
      /\ slots \in [Takers -> Seq(Messages)]
  BY DEF Init
<1>3. kind \in [Takers -> Kinds]
  BY DEF Init, Kinds
<1> QED BY <1>1, <1>2, <1>3 DEF Init, TypeOK

LEMMA TypeStep == TypeOK /\ ControlInv /\ [Next]_vars => TypeOK'
<1> SUFFICES ASSUME TypeOK, ControlInv, [Next]_vars
             PROVE  TypeOK'
  OBVIOUS
<1> USE SubscriptionAssumption DEF TypeOK
<1>1. CASE SaveData
  BY <1>1 DEF SaveData, takerVars, Messages
<1>2. CASE EnqueueData
  <2>1. received \in Messages
    BY <1>2 DEF EnqueueData, ControlInv, Messages
  <2> QED BY <1>2, <2>1 DEF EnqueueData, takerVars
<1>3. CASE NotifyWaitSet
  BY <1>3 DEF NotifyWaitSet, takerVars
<1>4. ASSUME NEW t \in Takers, Take(t)
      PROVE  TypeOK'
  <2>1. CASE \E k \in Kinds, n \in 0 .. MaxCount : BeginTake(t, k, n)
    BY <2>1 DEF BeginTake
  <2>2. CASE HasData(t)
    BY <2>2 DEF HasData
  <2>3. CASE PopOfNothing(t)
    BY <2>3 DEF PopOfNothing, takerVars
  <2>4. CASE PopData(t)
    BY <2>4, RestFacts DEF PopData
  <2>5. CASE PopSerialized(t)
    BY <2>5, RestFacts DEF PopSerialized
  <2>6. CASE Deserialize(t)
    <3>1. hand[t] \in Messages
      BY <2>6 DEF Deserialize, ControlInv
    <3>2. Append(slots[t], hand[t]) \in Seq(Messages)
      BY <3>1
    <3> QED BY <2>6, <3>2 DEF Deserialize, None
  <2>7. CASE DeserializeThrows(t)
    BY <2>7 DEF DeserializeThrows, ControlInv, None
  <2>8. CASE FreeSerialized(t)
    BY <2>8 DEF FreeSerialized, None
  <2> QED BY <1>4, <2>1, <2>2, <2>3, <2>4, <2>5, <2>6, <2>7, <2>8 DEF Take
<1>5. CASE Destructor
  <2>1. CASE Destroy
    BY <2>1 DEF Destroy, takerVars
  <2>2. CASE CleanupData
    BY <2>2, RestFacts DEF CleanupData, takerVars
  <2>3. CASE CleanupEnds
    BY <2>3 DEF CleanupEnds, takerVars
  <2>4. CASE DestroyMembers
    BY <2>4 DEF DestroyMembers, takerVars
  <2>5. CASE DestroyECalSubscriber
    BY <2>5 DEF DestroyECalSubscriber, takerVars
  <2> QED BY <1>5, <2>1, <2>2, <2>3, <2>4, <2>5 DEF Destructor
<1>6. CASE UNCHANGED vars
  BY <1>6 DEF vars, takerVars
<1> QED BY <1>1, <1>2, <1>3, <1>4, <1>5, <1>6 DEF Next, OnReceiveData

-----------------------------------------------------------------------------
(* Where the threads are, and which buffers are new                        *)

LEMMA ControlInit == Init => ControlInv /\ FreshInv
BY DEF Init, ControlInv, FreshInv, None

LEMMA ControlStep == TypeOK /\ ControlInv /\ [Next]_vars => ControlInv'
<1> SUFFICES ASSUME TypeOK, ControlInv, [Next]_vars
             PROVE  ControlInv'
  OBVIOUS
<1> USE DEF TypeOK, ControlInv
<1>1. CASE SaveData
  BY <1>1 DEF SaveData, takerVars
<1>2. CASE EnqueueData
  BY <1>2 DEF EnqueueData, takerVars
<1>3. CASE NotifyWaitSet
  BY <1>3 DEF NotifyWaitSet, takerVars
<1>4. ASSUME NEW t \in Takers, Take(t)
      PROVE  ControlInv'
  <2>1. CASE \E k \in Kinds, n \in 0 .. MaxCount : BeginTake(t, k, n)
    BY <2>1 DEF BeginTake
  <2>2. CASE HasData(t)
    BY <2>2 DEF HasData
  <2>3. CASE PopOfNothing(t)
    BY <2>3 DEF PopOfNothing, takerVars
  <2>4. CASE PopData(t)
    <3>1. Front(queue) # None
      BY <2>4, RestFacts DEF PopData, None, Messages
    <3> QED BY <2>4, <3>1 DEF PopData
  <2>5. CASE PopSerialized(t)
    BY <2>5 DEF PopSerialized
  <2>6. CASE Deserialize(t)
    BY <2>6 DEF Deserialize
  <2>7. CASE DeserializeThrows(t)
    BY <2>7 DEF DeserializeThrows
  <2>8. CASE FreeSerialized(t)
    BY <2>8 DEF FreeSerialized
  <2> QED BY <1>4, <2>1, <2>2, <2>3, <2>4, <2>5, <2>6, <2>7, <2>8 DEF Take
<1>5. CASE Destructor
  BY <1>5 DEF Destructor, Destroy, CleanupData, CleanupEnds, DestroyMembers,
              DestroyECalSubscriber, takerVars
<1>6. CASE UNCHANGED vars
  BY <1>6 DEF vars, takerVars
<1> QED BY <1>1, <1>2, <1>3, <1>4, <1>5, <1>6 DEF Next, OnReceiveData

-----------------------------------------------------------------------------
(* Who holds a buffer                                                      *)

LEMMA FreshStep ==
  TypeOK /\ ControlInv /\ FreshInv /\ NothingDangles /\ OneHolder /\ [Next]_vars
    => FreshInv'
<1> SUFFICES ASSUME TypeOK, ControlInv, FreshInv, NothingDangles, OneHolder,
                    [Next]_vars
             PROVE  FreshInv'
  OBVIOUS
<1> USE DEF FreshInv
<1>1. CASE SaveData
  BY <1>1 DEF SaveData, TypeOK
<1>2. CASE EnqueueData \/ NotifyWaitSet
  BY <1>2 DEF EnqueueData, NotifyWaitSet
<1>3. ASSUME NEW t \in Takers, Take(t)
      PROVE  FreshInv'
  <2>1. CASE \E k \in Kinds, n \in 0 .. MaxCount : BeginTake(t, k, n)
    BY <2>1 DEF BeginTake
  <2>2. CASE HasData(t) \/ PopOfNothing(t) \/ PopData(t)
    BY <2>2 DEF HasData, PopOfNothing, PopData
  <2>3. CASE PopSerialized(t)
    <3>1. serial[t] # None => serial[t] \in heap
      BY DEF TypeOK, NothingDangles, InSerial
    <3> QED BY <2>3, <3>1 DEF PopSerialized
  <2>4. CASE Deserialize(t)
    <3>1. hand[t] \in Messages
      BY <2>4 DEF Deserialize, ControlInv, TypeOK
    <3>2. hand[t] \notin lost
      BY <3>1 DEF OneHolder, InHand
    <3> QED BY <2>4, <3>2 DEF Deserialize
  <2>5. CASE DeserializeThrows(t)
    <3>1. hand[t] \in Messages
      BY <2>5 DEF DeserializeThrows, ControlInv, TypeOK
    <3>2. hand[t] \in heap
      BY <3>1 DEF NothingDangles, InHand
    <3> QED BY <2>5, <3>2 DEF DeserializeThrows
  <2>6. CASE FreeSerialized(t)
    <3>1. serial[t] \in Messages
      BY <2>6 DEF FreeSerialized, TypeOK
    <3>2. serial[t] \notin lost
      BY <3>1 DEF OneHolder, InSerial
    <3> QED BY <2>6, <3>2 DEF FreeSerialized
  <2> QED BY <1>3, <2>1, <2>2, <2>3, <2>4, <2>5, <2>6 DEF Take
<1>4. CASE CleanupData
  <2>1. Front(queue) \in Messages /\ Front(queue) \in Range(queue)
    BY <1>4, RestFacts, RestRange, QueueIsDistinct DEF CleanupData, TypeOK
  <2>2. Front(queue) \notin lost
    BY <2>1 DEF OneHolder, InQueue
  <2> QED BY <1>4, <2>2 DEF CleanupData
<1>5. CASE Destroy \/ CleanupEnds \/ DestroyMembers \/ DestroyECalSubscriber
  BY <1>5 DEF Destroy, CleanupEnds, DestroyMembers, DestroyECalSubscriber
<1>6. CASE UNCHANGED vars
  BY <1>6 DEF vars
<1> QED BY <1>1, <1>2, <1>3, <1>4, <1>5, <1>6 DEF Next, OnReceiveData, Destructor

Held(m) == InCallback(m) \/ InQueue(m) \/ InHand(m) \/ InSerial(m)

(* The same three properties with Distinct instead of positions. *)
Owned ==
  /\ Distinct(queue)
  /\ \A m \in Messages :
       /\ Held(m) => m \in heap /\ m \notin lost
       /\ InCallback(m) => ~InQueue(m) /\ ~InHand(m) /\ ~InSerial(m)
       /\ InQueue(m) => ~InHand(m) /\ ~InSerial(m)
       /\ InHand(m) => ~InSerial(m)
       /\ \A t, u \in Takers : hand[t] = m /\ hand[u] = m => t = u
       /\ \A t, u \in Takers : serial[t] = m /\ serial[u] = m => t = u
       /\ ~late /\ ~crashed /\ m \in heap => Held(m) \/ m \in lost

LEMMA OwnedIsEnough ==
  ASSUME TypeOK, FreshInv
  PROVE  Owned <=> NothingDangles /\ OneHolder /\ NothingLeaks
<1>1. \A i \in DOMAIN queue : queue[i] \in Messages
  BY DEF TypeOK
<1>2. heap \subseteq Messages
  BY DEF TypeOK
<1>3. ASSUME Owned PROVE NothingDangles /\ OneHolder /\ NothingLeaks
  <2>1. NothingDangles
    BY <1>3 DEF Owned, NothingDangles, Held
  <2>2. OneHolder
    BY <1>3 DEF Owned, OneHolder, Held, Distinct
  <2>3. NothingLeaks
    BY <1>2, <1>3 DEF Owned, NothingLeaks, Held
  <2> QED BY <2>1, <2>2, <2>3
<1>4. ASSUME NothingDangles, OneHolder, NothingLeaks PROVE Owned
  <2>1. Distinct(queue)
    BY <1>4, QueueIsDistinct
  <2> QED BY <2>1, <1>4 DEF Owned, NothingDangles, OneHolder, NothingLeaks, Held
<1> QED BY <1>3, <1>4

LEMMA OwnedInit == Init => Owned
<1> SUFFICES ASSUME Init PROVE Owned
  OBVIOUS
<1>1. Range(queue) = {} /\ Distinct(queue)
  BY DEF Init, Range, Distinct
<1> QED BY <1>1 DEF Init, Owned, Held, InCallback, InQueue, InHand, InSerial, None,
                Messages

LEMMA OwnedStep ==
  TypeOK /\ TypeOK' /\ ControlInv /\ FreshInv /\ Owned /\ [Next]_vars => Owned'
<1> SUFFICES ASSUME TypeOK, TypeOK', ControlInv, FreshInv, Owned, [Next]_vars
             PROVE  Owned'
  OBVIOUS
<1> USE DEF Owned, Held, InCallback, InQueue, InHand, InSerial
<1>1. CASE SaveData
  <2>1. received + 1 \notin heap /\ received + 1 \in Messages
    BY <1>1 DEF SaveData, FreshInv, TypeOK, Messages
  <2>2. received + 1 \notin lost
    BY <2>1 DEF FreshInv
  <2> QED BY <1>1, <2>1, <2>2 DEF SaveData, takerVars
<1>2. CASE EnqueueData
  <2>1. received \in Messages
    BY <1>2 DEF EnqueueData, ControlInv, TypeOK, Messages
  <2>2. CASE phase = "dead"
    BY <1>2, <2>1, <2>2 DEF EnqueueData, takerVars
  <2>3. CASE phase # "dead"
    <3>1. received \notin Range(queue)
      BY <1>2, <2>1 DEF EnqueueData
    <3>2. Range(queue') = Range(queue) \cup {received} /\ Distinct(queue')
      BY <1>2, <2>1, <2>3, <3>1, AppendRange, AppendDistinct DEF EnqueueData, TypeOK
    <3> QED BY <1>2, <2>1, <2>3, <3>2 DEF EnqueueData, takerVars
  <2> QED BY <2>2, <2>3
<1>3. CASE NotifyWaitSet
  BY <1>3 DEF NotifyWaitSet, takerVars
<1>4. ASSUME NEW t \in Takers, Take(t)
      PROVE  Owned'
  <2>1. CASE \E k \in Kinds, n \in 0 .. MaxCount : BeginTake(t, k, n)
    BY <2>1 DEF BeginTake
  <2>2. CASE HasData(t)
    BY <2>2 DEF HasData
  <2>3. CASE PopOfNothing(t)
    BY <2>3 DEF PopOfNothing, takerVars
  <2>4. CASE PopData(t)
    <3>1. /\ Front(queue) \in Messages
          /\ Front(queue) \in Range(queue)
          /\ Range(queue') = Range(queue) \ {Front(queue)}
          /\ Distinct(queue')
      BY <2>4, RestFacts, RestRange DEF PopData, TypeOK
    <3>2. hand[t] \notin Messages
      BY <2>4 DEF PopData, ControlInv, None, Messages
    <3>3. hand' = [hand EXCEPT ![t] = Front(queue)] /\ hand \in [Takers -> Messages \cup {None}]
      BY <2>4 DEF PopData, TypeOK
    <3>4. \A m \in Messages : InHand(m)' <=> InHand(m) \/ m = Front(queue)
      BY <3>2, <3>3
    <3>5. \A m \in Messages : \A u, v \in Takers : hand'[u] = m /\ hand'[v] = m => u = v
      BY <3>1, <3>2, <3>3
    <3>6. \A m \in Messages : /\ InCallback(m)' <=> InCallback(m)
                              /\ InSerial(m)' <=> InSerial(m)
                              /\ InQueue(m)' <=> InQueue(m) /\ m # Front(queue)
      BY <2>4, <3>1 DEF PopData
    <3> HIDE DEF InCallback, InQueue, InHand, InSerial
    <3>7. InQueue(Front(queue))
      BY <3>1 DEF InQueue
    <3> QED BY <2>4, <3>1, <3>4, <3>5, <3>6, <3>7 DEF PopData
  <2>5. CASE PopSerialized(t)
    <3>1. /\ Front(queue) \in Messages
          /\ Front(queue) \in Range(queue)
          /\ Range(queue') = Range(queue) \ {Front(queue)}
          /\ Distinct(queue')
      BY <2>5, RestFacts, RestRange DEF PopSerialized, TypeOK
    <3>2. serial' = [serial EXCEPT ![t] = Front(queue)] /\ serial \in [Takers -> Messages \cup {None}]
      BY <2>5 DEF PopSerialized, TypeOK
    <3>3. \A m \in Messages :
            InSerial(m)' <=> (InSerial(m) /\ m # serial[t]) \/ m = Front(queue)
      BY <3>1, <3>2
    <3>4. \A m \in Messages :
            \A u, v \in Takers : serial'[u] = m /\ serial'[v] = m => u = v
      BY <3>1, <3>2
    <3>5. \A m \in Messages : /\ InCallback(m)' <=> InCallback(m)
                              /\ InHand(m)' <=> InHand(m)
                              /\ InQueue(m)' <=> InQueue(m) /\ m # Front(queue)
      BY <2>5, <3>1 DEF PopSerialized
    <3>6. /\ InQueue(Front(queue))
          /\ \A m \in Messages : m = serial[t] => InSerial(m)
      BY <3>1
    <3>7. \A m \in Messages : m \in lost' <=> m \in lost \/ m = serial[t]
      BY <2>5 DEF PopSerialized, None, Messages
    <3> HIDE DEF InCallback, InQueue, InHand, InSerial
    <3> QED BY <2>5, <3>1, <3>3, <3>4, <3>5, <3>6, <3>7 DEF PopSerialized
  <2>6. CASE Deserialize(t)
    <3>1. hand[t] \in Messages
      BY <2>6 DEF Deserialize, ControlInv, TypeOK
    <3>2. hand' = [hand EXCEPT ![t] = None] /\ hand \in [Takers -> Messages \cup {None}]
      BY <2>6 DEF Deserialize, TypeOK
    <3>3. \A m \in Messages : InHand(m)' <=> InHand(m) /\ m # hand[t]
      BY <3>2 DEF None, Messages
    <3>4. \A m \in Messages : \A u, v \in Takers : hand'[u] = m /\ hand'[v] = m => u = v
      BY <3>2 DEF None, Messages
    <3>5. InHand(hand[t])
      OBVIOUS
    <3>6. \A m \in Messages : /\ InCallback(m)' <=> InCallback(m)
                              /\ InSerial(m)' <=> InSerial(m)
                              /\ InQueue(m)' <=> InQueue(m)
      BY <2>6 DEF Deserialize
    <3> HIDE DEF InCallback, InQueue, InHand, InSerial
    <3> QED BY <2>6, <3>1, <3>3, <3>4, <3>5, <3>6 DEF Deserialize
  <2>7. CASE DeserializeThrows(t)
    <3>1. hand[t] \in Messages
      BY <2>7 DEF DeserializeThrows, ControlInv, TypeOK
    <3>2. hand' = [hand EXCEPT ![t] = None] /\ hand \in [Takers -> Messages \cup {None}]
      BY <2>7 DEF DeserializeThrows, TypeOK
    <3>3. \A m \in Messages : InHand(m)' <=> InHand(m) /\ m # hand[t]
      BY <3>2 DEF None, Messages
    <3>4. \A m \in Messages : \A u, v \in Takers : hand'[u] = m /\ hand'[v] = m => u = v
      BY <3>2 DEF None, Messages
    <3>5. InHand(hand[t])
      OBVIOUS
    <3>6. \A m \in Messages : /\ InCallback(m)' <=> InCallback(m)
                              /\ InSerial(m)' <=> InSerial(m)
                              /\ InQueue(m)' <=> InQueue(m)
      BY <2>7 DEF DeserializeThrows
    <3> HIDE DEF InCallback, InQueue, InHand, InSerial
    <3> QED BY <2>7, <3>1, <3>3, <3>4, <3>5, <3>6 DEF DeserializeThrows
  <2>8. CASE FreeSerialized(t)
    <3>1. serial[t] \in Messages
      BY <2>8 DEF FreeSerialized, TypeOK
    <3>2. serial' = [serial EXCEPT ![t] = None] /\ serial \in [Takers -> Messages \cup {None}]
      BY <2>8 DEF FreeSerialized, TypeOK
    <3>3. \A m \in Messages : InSerial(m)' <=> InSerial(m) /\ m # serial[t]
      BY <3>2 DEF None, Messages
    <3>4. \A m \in Messages :
            \A u, v \in Takers : serial'[u] = m /\ serial'[v] = m => u = v
      BY <3>2 DEF None, Messages
    <3>5. InSerial(serial[t])
      OBVIOUS
    <3>6. \A m \in Messages : /\ InCallback(m)' <=> InCallback(m)
                              /\ InHand(m)' <=> InHand(m)
                              /\ InQueue(m)' <=> InQueue(m)
      BY <2>8 DEF FreeSerialized
    <3> HIDE DEF InCallback, InQueue, InHand, InSerial
    <3> QED BY <2>8, <3>1, <3>3, <3>4, <3>5, <3>6 DEF FreeSerialized
  <2> QED BY <1>4, <2>1, <2>2, <2>3, <2>4, <2>5, <2>6, <2>7, <2>8 DEF Take
<1>5. CASE CleanupData
  <2>1. /\ Front(queue) \in Messages
        /\ Front(queue) \in Range(queue)
        /\ Range(queue') = Range(queue) \ {Front(queue)}
        /\ Distinct(queue')
    BY <1>5, RestFacts, RestRange DEF CleanupData, TypeOK
  <2> QED BY <1>5, <2>1 DEF CleanupData, takerVars
<1>6. CASE DestroyMembers
  <2>1. Range(queue') = {} /\ Distinct(queue')
    BY <1>6 DEF DestroyMembers, Range, Distinct
  <2>2. ~late => Range(queue) = {}
    BY <1>6 DEF DestroyMembers, ControlInv, Range
  <2> QED BY <1>6, <2>1, <2>2 DEF DestroyMembers, takerVars
<1>7. CASE Destroy \/ CleanupEnds \/ DestroyECalSubscriber
  BY <1>7 DEF Destroy, CleanupEnds, DestroyECalSubscriber, takerVars
<1>8. CASE UNCHANGED vars
  BY <1>8 DEF vars, takerVars
<1> QED BY <1>1, <1>2, <1>3, <1>4, <1>5, <1>6, <1>7, <1>8 DEF Next, OnReceiveData,
        Destructor

-----------------------------------------------------------------------------
(* What HasData saw is there                                               *)

LEMMA PopStep == TypeOK /\ ControlInv /\ PopInv /\ [Next]_vars => PopInv'
<1> SUFFICES ASSUME TypeOK, ControlInv, PopInv, [Next]_vars
             PROVE  PopInv'
  OBVIOUS
<1> USE DEF PopInv, CrashNeedsRace
<1>1. CASE SaveData
  BY <1>1 DEF SaveData, takerVars
<1>2. CASE EnqueueData
  <2>0. received \in Messages /\ queue \in Seq(Messages)
    BY <1>2 DEF EnqueueData, ControlInv, TypeOK, Messages
  <2>1. phase # "dead" => queue' # <<>>
    BY <1>2, <2>0, AppendFacts DEF EnqueueData
  <2> QED BY <1>2, <2>1 DEF EnqueueData, takerVars, TypeOK
<1>3. CASE NotifyWaitSet
  BY <1>3 DEF NotifyWaitSet, takerVars
<1>4. ASSUME NEW t \in Takers, Take(t)
      PROVE  PopInv'
  <2>1. CASE \E k \in Kinds, n \in 0 .. MaxCount : BeginTake(t, k, n)
    BY <2>1 DEF BeginTake, TypeOK
  <2>2. CASE HasData(t)
    BY <2>2 DEF HasData, TypeOK
  <2>3. CASE PopOfNothing(t)
    BY <2>3 DEF PopOfNothing, takerVars
  <2>4. CASE PopData(t)
    <3>1. ~overlapped' => \A u \in Takers : pc'[u] # "pop"
      BY <2>4 DEF PopData, Overlaps, TypeOK
    <3> QED BY <2>4, <3>1 DEF PopData
  <2>5. CASE PopSerialized(t)
    <3>1. ~overlapped' => \A u \in Takers : pc'[u] # "pop"
      BY <2>5 DEF PopSerialized, Overlaps, TypeOK
    <3> QED BY <2>5, <3>1 DEF PopSerialized
  <2>6. CASE Deserialize(t)
    BY <2>6 DEF Deserialize, TypeOK
  <2>7. CASE DeserializeThrows(t)
    BY <2>7 DEF DeserializeThrows, TypeOK
  <2>8. CASE FreeSerialized(t)
    BY <2>8 DEF FreeSerialized, TypeOK
  <2> QED BY <1>4, <2>1, <2>2, <2>3, <2>4, <2>5, <2>6, <2>7, <2>8 DEF Take
<1>5. CASE Destructor
  <2>1. \A t \in Takers : pc'[t] = "idle"
    BY <1>5 DEF Destructor, Destroy, CleanupData, CleanupEnds, DestroyMembers,
                DestroyECalSubscriber, ControlInv, takerVars
  <2> QED BY <1>5, <2>1 DEF Destructor, Destroy, CleanupData, CleanupEnds,
             DestroyMembers, DestroyECalSubscriber, takerVars
<1>6. CASE UNCHANGED vars
  BY <1>6 DEF vars, takerVars
<1> QED BY <1>1, <1>2, <1>3, <1>4, <1>5, <1>6 DEF Next, OnReceiveData

-----------------------------------------------------------------------------
(* Order                                                                   *)

LEMMA OrderInit == Init => OrderInv
BY DEF Init, OrderInv, arrivedBar

(* A taker pops the message behind those popped before. *)
LEMMA PopsNext ==
  ASSUME TypeOK, OrderInv, phase = "alive", queue # <<>>
  PROVE  Front(queue) = Len(taken) + 1
<1>1. queue[1] = Len(taken) + 1 /\ 1 \in 1 .. Len(queue)
  BY RestFacts DEF OrderInv, TypeOK
<1> QED BY <1>1, RestFacts DEF TypeOK

LEMMA PopKeepsOrder ==
  ASSUME TypeOK, OrderInv, phase = "alive", queue # <<>>, UNCHANGED <<received, callback>>,
         queue' = Rest(queue), taken' = Append(taken, Front(queue))
  PROVE  OrderInv'
<1>1. /\ Len(taken) \in Nat /\ Len(queue) \in Nat \ {0}
      /\ Front(queue) \in Messages /\ Front(queue) = Len(taken) + 1
  BY PopsNext, RestFacts DEF TypeOK
<1>2. /\ Len(taken') = Len(taken) + 1
      /\ Len(queue') = Len(queue) - 1
  BY <1>1, RestFacts, AppendFacts DEF TypeOK
<1>3. \A i \in 1 .. Len(taken') : taken'[i] = i
  BY <1>1, <1>2, AppendFacts DEF TypeOK, OrderInv
<1>4. ASSUME NEW i \in 1 .. Len(queue')
      PROVE  queue'[i] = Len(taken') + i
  <2>1. queue'[i] = queue[i + 1]
    BY <1>1, <1>2, RestFacts DEF TypeOK
  <2>2. i + 1 \in 1 .. Len(queue)
    BY <1>1, <1>2
  <2>3. queue[i + 1] = Len(taken) + (i + 1)
    BY <2>2 DEF OrderInv
  <2> QED BY <1>1, <1>2, <2>1, <2>3
<1>5. Len(taken') + Len(queue') = arrivedBar'
  <2>1. arrivedBar' = arrivedBar
    BY DEF arrivedBar
  <2>2. Len(taken) + Len(queue) = arrivedBar
    BY DEF OrderInv
  <2> QED BY <1>1, <1>2, <2>1, <2>2
<1> QED BY <1>3, <1>4, <1>5 DEF OrderInv

LEMMA OrderStep == TypeOK /\ ControlInv /\ OrderInv /\ [Next]_vars => OrderInv'
<1> SUFFICES ASSUME TypeOK, ControlInv, OrderInv, [Next]_vars
             PROVE  OrderInv'
  OBVIOUS
<1>0. Len(taken) \in Nat /\ Len(queue) \in Nat /\ received \in Nat
  BY DEF TypeOK
<1>1. CASE SaveData
  BY <1>0, <1>1 DEF SaveData, OrderInv, arrivedBar
<1>2. CASE EnqueueData
  <2>1. received \in Messages
    BY <1>2 DEF EnqueueData, ControlInv, TypeOK, Messages
  <2>2. SUFFICES ASSUME phase = "alive"
                 PROVE  OrderInv'
    BY <1>2 DEF EnqueueData, OrderInv
  <2>3. /\ queue' = Append(queue, received)
        /\ Len(queue') = Len(queue) + 1
        /\ received = Len(taken) + Len(queue) + 1
    BY <1>0, <1>2, <2>1, <2>2, AppendFacts DEF EnqueueData, OrderInv, arrivedBar, TypeOK
  <2>4. \A i \in 1 .. Len(queue') : queue'[i] = Len(taken) + i
    <3>1. ASSUME NEW i \in 1 .. Len(queue)
          PROVE  queue'[i] = Len(taken) + i
      <4>1. queue[i] = Len(taken) + i
        BY <2>2 DEF OrderInv
      <4>2. Append(queue, received)[i] = queue[i]
        BY <2>1, AppendFacts DEF TypeOK
      <4> QED BY <2>3, <4>1, <4>2
    <3>2. queue'[Len(queue) + 1] = received
      BY <2>1, <2>3, AppendFacts DEF TypeOK
    <3>3. \A i \in 1 .. Len(queue') : i \in 1 .. Len(queue) \/ i = Len(queue) + 1
      BY <1>0, <2>3
    <3> QED BY <1>0, <2>3, <3>1, <3>2, <3>3
  <2> QED BY <1>0, <1>2, <2>2, <2>3, <2>4 DEF EnqueueData, OrderInv, arrivedBar
<1>3. CASE NotifyWaitSet
  BY <1>3 DEF NotifyWaitSet, OrderInv, arrivedBar
<1>4. ASSUME NEW t \in Takers, Take(t)
      PROVE  OrderInv'
  <2>1. CASE PopData(t)
    <3>1. phase = "alive"
      BY <2>1 DEF PopData, ControlInv
    <3> QED BY <2>1, <3>1, PopKeepsOrder DEF PopData
  <2>2. CASE PopSerialized(t)
    <3>1. phase = "alive"
      BY <2>2 DEF PopSerialized, ControlInv
    <3> QED BY <2>2, <3>1, PopKeepsOrder DEF PopSerialized
  <2>3. CASE ~PopData(t) /\ ~PopSerialized(t)
    BY <1>4, <2>3 DEF Take, BeginTake, HasData, PopOfNothing, Deserialize,
                      DeserializeThrows, FreeSerialized, OrderInv, arrivedBar
  <2> QED BY <2>1, <2>2, <2>3
<1>5. CASE Destructor
  <2>1. phase' # "alive"
    BY <1>5 DEF Destructor, Destroy, CleanupData, CleanupEnds, DestroyMembers,
                DestroyECalSubscriber
  <2> QED BY <2>1 DEF OrderInv
<1>6. CASE UNCHANGED vars
  BY <1>6 DEF vars, OrderInv, arrivedBar
<1> QED BY <1>1, <1>2, <1>3, <1>4, <1>5, <1>6 DEF Next, OnReceiveData

LEMMA OrderIsEnough ==
  ASSUME TypeOK, OrderInv
  PROVE  TakenInOrder
<1> SUFFICES ASSUME phase = "alive", NEW i \in DOMAIN (taken \o queue)
             PROVE  (taken \o queue)[i] = i
  BY DEF TakenInOrder
<1>1. Len(taken) \in Nat /\ Len(queue) \in Nat /\ i \in 1 .. Len(taken) + Len(queue)
  BY DEF TypeOK
<1>2. CASE i <= Len(taken)
  <2>1. (taken \o queue)[i] = taken[i]
    BY <1>1, <1>2 DEF TypeOK
  <2> QED BY <1>1, <1>2, <2>1 DEF OrderInv
<1>3. CASE i > Len(taken)
  <2>1. (taken \o queue)[i] = queue[i - Len(taken)]
    BY <1>1, <1>3 DEF TypeOK
  <2>2. i - Len(taken) \in 1 .. Len(queue)
    BY <1>1, <1>3
  <2> QED BY <1>1, <2>1, <2>2 DEF OrderInv
<1> QED BY <1>1, <1>2, <1>3

-----------------------------------------------------------------------------
(* The caller's arrays                                                     *)

LEMMA SlotsInit == Init => SlotsInv
BY SubscriptionAssumption DEF Init, SlotsInv, None

(* A step that leaves the slots, or moves one taker to where less is asked. *)
LEMMA PopKeepsSlots ==
  ASSUME TypeOK, OrderInv, SlotsInv, phase = "alive", queue # <<>>, NEW t \in Takers,
         pc[t] = "pop", taken' = Append(taken, Front(queue)),
         UNCHANGED <<slots, kind, count>>,
         \/ hand' = hand /\ pc' = [pc EXCEPT ![t] = "idle"]
         \/ /\ hand' = [hand EXCEPT ![t] = Front(queue)]
            /\ pc' = [pc EXCEPT ![t] = "deserialize"]
  PROVE  SlotsInv'
<1>1. Front(queue) \in Messages /\ Front(queue) = Len(taken) + 1 /\ Len(taken) \in Nat
  BY PopsNext, RestFacts DEF TypeOK
<1>2. Len(taken') = Len(taken) + 1
  BY <1>1, AppendFacts DEF TypeOK
<1> SUFFICES ASSUME NEW u \in Takers
             PROVE  /\ Len(slots[u]) <= count[u]
                    /\ pc'[u] \in {"pop", "deserialize"} => Len(slots[u]) < count[u]
                    /\ kind[u] # "sequence" /\ pc'[u] # "idle" => slots[u] = <<>>
                    /\ hand'[u] <= Len(taken')
                    /\ \A i \in 1 .. Len(slots[u]) : slots[u][i] <= Len(taken')
                    /\ pc'[u] = "deserialize" =>
                         \A i \in 1 .. Len(slots[u]) : slots[u][i] < hand'[u]
                    /\ \A i, j \in 1 .. Len(slots[u]) :
                         i < j => slots[u][i] < slots[u][j]
  BY DEF SlotsInv
<1>3. /\ slots[u] \in Seq(Messages) /\ hand[u] \in Nat
      /\ \A i \in 1 .. Len(slots[u]) : slots[u][i] \in Nat
  <2>1. Messages \subseteq Nat /\ None \in Nat
    BY DEF Messages, None
  <2>2. slots[u] \in Seq(Messages) /\ hand[u] \in Messages \cup {None}
    BY DEF TypeOK
  <2>3. \A i \in 1 .. Len(slots[u]) : slots[u][i] \in Messages
    BY <2>2
  <2> QED BY <2>1, <2>2, <2>3
<1>4. ASSUME NEW i \in 1 .. Len(slots[u])
      PROVE  slots[u][i] <= Len(taken') /\ slots[u][i] < Front(queue)
  <2>1. slots[u][i] <= Len(taken) /\ slots[u][i] \in Nat
    BY <1>3 DEF SlotsInv
  <2> QED BY <1>1, <1>2, <2>1
<1>5. \/ u # t /\ hand'[u] = hand[u] /\ pc'[u] = pc[u]
      \/ u = t /\ pc'[u] = "idle"
      \/ u = t /\ pc'[u] = "deserialize" /\ hand'[u] = Front(queue)
  BY DEF TypeOK
<1>6. hand'[u] <= Len(taken')
  <2>1. hand[u] <= Len(taken)
    BY DEF SlotsInv
  <2>2. hand'[u] = hand[u] \/ hand'[u] = Front(queue)
    BY DEF TypeOK
  <2> QED BY <1>1, <1>2, <1>3, <2>1, <2>2
<1>7. pc'[u] = "deserialize" => \A i \in 1 .. Len(slots[u]) : slots[u][i] < hand'[u]
  <2>1. CASE u # t /\ hand'[u] = hand[u] /\ pc'[u] = pc[u]
    BY <2>1 DEF SlotsInv
  <2>2. CASE u = t /\ pc'[u] = "idle"
    BY <2>2
  <2>3. CASE u = t /\ hand'[u] = Front(queue)
    BY <1>4, <2>3
  <2> QED BY <1>5, <2>1, <2>2, <2>3
<1>8. pc'[u] \in {"pop", "deserialize"} => Len(slots[u]) < count[u]
  BY <1>5 DEF SlotsInv
<1>9. kind[u] # "sequence" /\ pc'[u] # "idle" => slots[u] = <<>>
  BY <1>5 DEF SlotsInv
<1> QED BY <1>4, <1>6, <1>7, <1>8, <1>9 DEF SlotsInv

LEMMA SlotsStep ==
  TypeOK /\ TypeOK' /\ ControlInv /\ OrderInv /\ SlotsInv /\ [Next]_vars => SlotsInv'
<1> SUFFICES ASSUME TypeOK, TypeOK', ControlInv, OrderInv, SlotsInv, [Next]_vars
             PROVE  SlotsInv'
  OBVIOUS
<1>1. CASE OnReceiveData
  BY <1>1 DEF OnReceiveData, SaveData, EnqueueData, NotifyWaitSet, takerVars, SlotsInv
<1>2. ASSUME NEW t \in Takers, Take(t)
      PROVE  SlotsInv'
  <2>1. ASSUME NEW k \in Kinds, NEW n \in 0 .. MaxCount, BeginTake(t, k, n)
        PROVE  SlotsInv'
    <3>1. n \in Nat /\ hand[t] = None
      BY <2>1, SubscriptionAssumption DEF BeginTake, ControlInv
    <3> QED BY <2>1, <3>1 DEF BeginTake, SlotsInv, TypeOK, None
  <2>2. CASE HasData(t)
    <3>1. /\ Len(slots[t]) \in Nat /\ count[t] \in Nat
          /\ pc'[t] = "pop" => Len(slots[t]) # count[t]
      BY <2>2 DEF HasData, WantsMore, TypeOK
    <3> QED BY <2>2, <3>1 DEF HasData, SlotsInv, TypeOK
  <2>3. CASE PopOfNothing(t)
    BY <2>3 DEF PopOfNothing, takerVars, SlotsInv
  <2>4. CASE PopData(t)
    <3>1. phase = "alive"
      BY <2>4 DEF PopData, ControlInv
    <3> QED BY <2>4, <3>1, PopKeepsSlots DEF PopData
  <2>5. CASE PopSerialized(t)
    <3>1. phase = "alive"
      BY <2>5 DEF PopSerialized, ControlInv
    <3> QED BY <2>5, <3>1, PopKeepsSlots DEF PopSerialized
  <2>6. CASE Deserialize(t)
    <3>1. hand[t] \in Messages /\ slots[t] \in Seq(Messages) /\ Len(slots[t]) \in Nat
      BY <2>6 DEF Deserialize, ControlInv, TypeOK
    <3>2. /\ slots'[t] = Append(slots[t], hand[t])
          /\ Len(slots'[t]) = Len(slots[t]) + 1
          /\ hand'[t] = None
          /\ pc'[t] = IF kind[t] = "sequence" THEN "check" ELSE "idle"
      BY <2>6, <3>1, AppendFacts DEF Deserialize, TypeOK
    <3>3. \A i \in 1 .. Len(slots'[t]) : i \in 1 .. Len(slots[t]) \/ i = Len(slots[t]) + 1
      BY <3>1, <3>2
    <3>4. /\ \A i \in 1 .. Len(slots[t]) : slots'[t][i] = slots[t][i]
          /\ slots'[t][Len(slots[t]) + 1] = hand[t]
      BY <3>1, <3>2, AppendFacts
    <3>5. /\ Len(slots[t]) < count[t] /\ count[t] \in Nat
          /\ hand[t] <= Len(taken) /\ Len(taken) \in Nat
          /\ \A i \in 1 .. Len(slots[t]) : slots[t][i] < hand[t]
      BY <2>6 DEF Deserialize, SlotsInv, TypeOK
    <3>6. \A i \in 1 .. Len(slots'[t]) : slots'[t][i] <= Len(taken)
      BY <3>3, <3>4, <3>5 DEF SlotsInv
    <3>7. ASSUME NEW i \in 1 .. Len(slots'[t]), NEW j \in 1 .. Len(slots'[t]), i < j
          PROVE  slots'[t][i] < slots'[t][j]
      <4>1. i \in 1 .. Len(slots[t])
        BY <3>1, <3>2, <3>7
      <4>2. CASE j \in 1 .. Len(slots[t])
        BY <3>4, <3>7, <4>1, <4>2 DEF SlotsInv
      <4>3. CASE j = Len(slots[t]) + 1
        BY <3>4, <3>5, <4>1, <4>3
      <4> QED BY <3>3, <4>2, <4>3
    <3>8. \A u \in Takers \ {t} : /\ slots'[u] = slots[u] /\ hand'[u] = hand[u]
                                  /\ pc'[u] = pc[u]
      BY <2>6 DEF Deserialize, TypeOK
    <3>9. UNCHANGED <<count, kind, taken>>
      BY <2>6 DEF Deserialize
    <3>10. Len(slots'[t]) <= count[t]
      BY <3>1, <3>2, <3>5
    <3>11. kind[t] = "sequence" \/ pc'[t] = "idle"
      BY <3>2
    <3>12. pc'[t] \notin {"pop", "deserialize"} /\ hand'[t] <= Len(taken)
      BY <3>2, <3>5 DEF None
    <3> SUFFICES ASSUME NEW u \in Takers
                 PROVE  /\ Len(slots'[u]) <= count[u]
                        /\ pc'[u] \in {"pop", "deserialize"} => Len(slots'[u]) < count[u]
                        /\ kind[u] # "sequence" /\ pc'[u] # "idle" => slots'[u] = <<>>
                        /\ hand'[u] <= Len(taken)
                        /\ \A i \in 1 .. Len(slots'[u]) : slots'[u][i] <= Len(taken)
                        /\ pc'[u] = "deserialize" =>
                             \A i \in 1 .. Len(slots'[u]) : slots'[u][i] < hand'[u]
                        /\ \A i, j \in 1 .. Len(slots'[u]) :
                             i < j => slots'[u][i] < slots'[u][j]
      BY <3>9 DEF SlotsInv
    <3>13. CASE u = t
      BY <3>6, <3>7, <3>10, <3>11, <3>12, <3>13
    <3>14. CASE u # t
      BY <3>8, <3>14 DEF SlotsInv
    <3> QED BY <3>13, <3>14
  <2>7. CASE DeserializeThrows(t)
    BY <2>7 DEF DeserializeThrows, SlotsInv, TypeOK, None
  <2>8. CASE FreeSerialized(t)
    BY <2>8 DEF FreeSerialized, SlotsInv
  <2> QED BY <1>2, <2>1, <2>2, <2>3, <2>4, <2>5, <2>6, <2>7, <2>8 DEF Take
<1>3. CASE Destructor
  BY <1>3 DEF Destructor, Destroy, CleanupData, CleanupEnds, DestroyMembers,
              DestroyECalSubscriber, takerVars, SlotsInv
<1>4. CASE UNCHANGED vars
  BY <1>4 DEF vars, takerVars, SlotsInv
<1> QED BY <1>1, <1>2, <1>3, <1>4 DEF Next

LEMMA SlotsAreEnough ==
  ASSUME TypeOK, SlotsInv
  PROVE  SequenceInOrder
<1> SUFFICES ASSUME NEW t \in Takers
             PROVE  /\ Len(slots[t]) <= count[t]
                    /\ \A i, j \in DOMAIN slots[t] : i < j => slots[t][i] < slots[t][j]
  BY DEF SequenceInOrder
<1>1. DOMAIN slots[t] = 1 .. Len(slots[t])
  BY DEF TypeOK
<1> QED BY <1>1 DEF SlotsInv

-----------------------------------------------------------------------------
(* Theorems                                                                *)

LEMMA IInvInit == Init => IInv
<1> SUFFICES ASSUME Init PROVE IInv
  OBVIOUS
<1>1. TypeOK /\ ControlInv /\ FreshInv /\ OrderInv /\ SlotsInv
  BY TypeInit, ControlInit, OrderInit, SlotsInit
<1>2. NothingDangles /\ OneHolder /\ NothingLeaks
  BY <1>1, OwnedInit, OwnedIsEnough
<1>3. PopInv
  BY DEF Init, PopInv, CrashNeedsRace
<1> QED BY <1>1, <1>2, <1>3 DEF IInv, BufferInv

LEMMA IInvStep == IInv /\ [Next]_vars => IInv'
<1> SUFFICES ASSUME IInv, [Next]_vars PROVE IInv'
  OBVIOUS
<1>1. /\ TypeOK /\ ControlInv /\ FreshInv /\ NothingDangles /\ OneHolder
      /\ NothingLeaks /\ PopInv /\ OrderInv /\ SlotsInv
  BY DEF IInv, BufferInv
<1>2. TypeOK' /\ ControlInv' /\ FreshInv'
  BY <1>1, TypeStep, ControlStep, FreshStep
<1>3. Owned
  BY <1>1, OwnedIsEnough
<1>4. Owned'
  BY <1>1, <1>2, <1>3, OwnedStep
<1>5. (Owned <=> NothingDangles /\ OneHolder /\ NothingLeaks)'
  BY <1>2, OwnedIsEnough, PTL
<1>6. PopInv' /\ OrderInv' /\ SlotsInv'
  BY <1>1, <1>2, PopStep, OrderStep, SlotsStep
<1> QED BY <1>2, <1>4, <1>5, <1>6 DEF IInv, BufferInv

LEMMA IInvHolds == Spec => []IInv
BY IInvInit, IInvStep, PTL DEF Spec

(* All variables of Subscription have their types, whatever the bounds. *)
THEOREM TypeCorrect == Spec => []TypeOK
<1>1. IInv => TypeOK
  BY DEF IInv
<1> QED BY <1>1, IInvHolds, PTL

(* No pointer the subscriber, its queue or a taker holds is to a buffer that *)
(* was deleted, and no two of them hold the same one.                        *)
THEOREM BuffersAreSafe == Spec => [](NothingDangles /\ OneHolder)
<1>1. IInv => NothingDangles /\ OneHolder
  BY DEF IInv, BufferInv
<1> QED BY <1>1, IInvHolds, PTL

(* Every buffer is deleted in the end, or handed over, or one of the known   *)
(* losses.                                                                   *)
THEOREM BuffersAreNotLeaked == Spec => []NothingLeaks
<1>1. IInv => NothingLeaks
  BY DEF IInv, BufferInv
<1> QED BY <1>1, IInvHolds, PTL

(* One thread that takes cannot pop an empty queue, with any callbacks.      *)
THEOREM CrashIsARace == Spec => []CrashNeedsRace
<1>1. IInv => CrashNeedsRace
  BY DEF IInv, PopInv
<1> QED BY <1>1, IInvHolds, PTL

(* Messages are taken in the order of arrival, each once and none skipped.   *)
THEOREM TakesAreInOrder == Spec => []TakenInOrder
<1>1. IInv => TakenInOrder
  BY OrderIsEnough DEF IInv
<1> QED BY <1>1, IInvHolds, PTL

(* So are those of one rmw_take_sequence, and it takes no more than count.   *)
THEOREM SequencesAreInOrder == Spec => []SequenceInOrder
<1>1. IInv => SequenceInOrder
  BY SlotsAreEnough DEF IInv
<1> QED BY <1>1, IInvHolds, PTL

-----------------------------------------------------------------------------
(* Subscription implements ReceiveQueue.                                   *)

\* What the abstract queue sees; each of its steps below is named in the
\* terms of Subscription.
seen == <<received, callback, queue, taken, phase>>

LEMMA InitImplements == Init => Queue!Init
  BY DEF Init, Queue!Init, arrivedBar

\* The message that EnqueueData queues is the next to arrive.
LEMMA EnqueueImplements ==
  ASSUME TypeOK, ControlInv, EnqueueData
  PROVE  Queue!Arrive
<1>1. received \in Nat /\ received > 0 /\ received' = received
  BY DEF TypeOK, ControlInv, EnqueueData
<1>2. arrivedBar = received - 1 /\ arrivedBar' = received
  BY <1>1 DEF EnqueueData, arrivedBar
<1>3. arrivedBar' = arrivedBar + 1
  BY <1>1, <1>2
<1>4. \/ queue' = Append(queue, arrivedBar')
      \/ phase # "alive" /\ queue' = queue
  BY <1>2 DEF EnqueueData
<1>5. taken' = taken /\ phase' = phase
  BY DEF EnqueueData
<1> QED
  BY <1>3, <1>4, <1>5 DEF Queue!Arrive

\* A taker that pops takes from a subscription that is alive.
LEMMA PopImplements ==
  ASSUME TypeOK, ControlInv, NEW t \in Takers, PopData(t) \/ PopSerialized(t)
  PROVE  Queue!HandOut
<1>1. phase = "alive"
  BY DEF ControlInv, PopData, PopSerialized
<1>2. /\ queue # <<>> /\ queue' = Tail(queue)
      /\ taken' = Append(taken, Head(queue))
      /\ UNCHANGED <<received, callback, phase>>
  BY DEF PopData, PopSerialized, Front, Rest
<1> QED
  BY <1>1, <1>2 DEF Queue!HandOut, arrivedBar

LEMMA StepImplements == TypeOK /\ ControlInv /\ [Next]_vars => [Queue!Next]_Queue!vars
<1> SUFFICES ASSUME TypeOK, ControlInv, [Next]_vars
             PROVE  [Queue!Next]_Queue!vars
  OBVIOUS
<1>1. CASE EnqueueData
  BY <1>1, EnqueueImplements DEF Queue!Next
<1>2. ASSUME NEW t \in Takers, PopData(t) \/ PopSerialized(t)
      PROVE  [Queue!Next]_Queue!vars
  BY <1>2, PopImplements DEF Queue!Next
<1>3. CASE Destroy
  BY <1>3 DEF Destroy, Queue!Next, Queue!Close, arrivedBar
<1>4. CASE CleanupData
  BY <1>4 DEF CleanupData, Rest, Queue!Next, Queue!Discard, arrivedBar
<1>5. CASE DestroyMembers
  <2>1. phase # "alive" /\ phase' # "alive" /\ queue' = <<>>
        /\ UNCHANGED <<received, callback, taken>>
    BY <1>5 DEF DestroyMembers
  <2>2. CASE queue = <<>>
    BY <2>1, <2>2 DEF Queue!vars, arrivedBar
  <2>3. CASE queue # <<>>
    BY <2>1, <2>3 DEF Queue!Next, Queue!Discard, arrivedBar
  <2> QED
    BY <2>2, <2>3
<1>6. CASE SaveData
  <2>1. /\ arrivedBar = received /\ arrivedBar' = received + 1 - 1
        /\ received \in Nat
        /\ UNCHANGED <<queue, taken, phase>>
    BY <1>6 DEF SaveData, arrivedBar, TypeOK
  <2>2. arrivedBar' = arrivedBar
    BY <2>1
  <2> QED
    BY <2>1, <2>2 DEF Queue!vars
<1>7. CASE CleanupEnds \/ DestroyECalSubscriber
  BY <1>7 DEF CleanupEnds, DestroyECalSubscriber, Queue!vars, arrivedBar
<1>8. CASE NotifyWaitSet
  BY <1>8 DEF NotifyWaitSet, Queue!vars, arrivedBar
<1>9. ASSUME UNCHANGED seen
      PROVE  [Queue!Next]_Queue!vars
  BY <1>9 DEF seen, Queue!vars, arrivedBar
<1>10. ASSUME NEW t \in Takers, Take(t), ~(PopData(t) \/ PopSerialized(t))
       PROVE  UNCHANGED seen
  BY <1>10 DEF Take, BeginTake, HasData, PopOfNothing, Deserialize,
               DeserializeThrows, FreeSerialized, seen
<1>11. UNCHANGED vars => UNCHANGED seen
  BY DEF vars, seen
<1> QED
  BY <1>1, <1>2, <1>3, <1>4, <1>5, <1>6, <1>7, <1>8, <1>9, <1>10, <1>11
     DEF Next, OnReceiveData, Destructor

\* However callback, takers and destructor interleave, and whatever becomes
\* of the buffers, the subscription is the queue of ReceiveQueue.
THEOREM ImplementsReceiveQueue == Spec => KeepsQueuePromise
<1>1. IInv => TypeOK /\ ControlInv
  BY DEF IInv, BufferInv
<1>2. Init => Queue!Init
  BY InitImplements
<1>3. TypeOK /\ ControlInv /\ [Next]_vars => [Queue!Next]_Queue!vars
  BY StepImplements
<1> QED
  BY IInvHolds, <1>1, <1>2, <1>3, PTL DEF Spec, KeepsQueuePromise, Queue!Spec
=============================================================================
