---------------------------- MODULE Subscription -----------------------------
(***************************************************************************)
(* internal/subscriber.hpp: the receive queue of one subscription and the  *)
(* heap buffers in it, from SaveData's new char[] to their delete[].       *)
(*                                                                         *)
(* eCAL calls OnReceiveData for one message at a time; messages are        *)
(* numbered in that order and a buffer has the number of its message.      *)
(* Takers are threads in the take functions of rmw.cpp.  One step is what  *)
(* a thread does between two locks of queue_mutex_.                        *)
(***************************************************************************)
EXTENDS Naturals, Sequences, Functions

CONSTANTS
  Takers,        \* threads that take messages
  MaxMessages,   \* bound: messages that arrive
  MaxCount       \* bound: the largest count passed to rmw_take_sequence

None == 0        \* no buffer
Messages == 1 .. MaxMessages
Kinds == {"message", "sequence", "serialized"}

ASSUME SubscriptionAssumption == MaxMessages \in Nat /\ MaxCount \in Nat

VARIABLES
  received,   \* how many messages SaveData has copied
  callback,   \* where OnReceiveData is: "idle", "saved" or "queued"
  queue,      \* data_
  heap,       \* buffers allocated and not yet deleted
  pc,         \* where a taker is: "idle", "check", "pop" or "deserialize"
  kind,       \* which take function it called
  count,      \* how many messages it asked for
  slots,      \* the messages deserialized into the caller's array, in order
  hand,       \* the buffer a taker has popped
  serial,     \* the buffer in the caller's rmw_serialized_message_t
  phase,      \* "alive", then the steps of the destructor: "cleaning",
              \* "cleaned", "dead" (members gone), "gone" (subscriber_ too)
  crashed,    \* pop of an empty queue, or use of a dead member
  lost,       \* buffers a caller's exception or reuse has left to nobody
  taken,      \* all messages popped by takers, in order
  overlapped, \* a taker popped while another was between HasData and PopData
  late        \* a callback ran after the destructor's loop had ended

takerVars == <<pc, kind, count, slots, hand, serial>>
vars == <<received, callback, queue, heap, takerVars, phase, crashed, lost,
          taken, overlapped, late>>

Init ==
  /\ received = 0
  /\ callback = "idle"
  /\ queue = <<>>
  /\ heap = {}
  /\ pc = [t \in Takers |-> "idle"]
  /\ kind = [t \in Takers |-> "message"]
  /\ count = [t \in Takers |-> 0]
  /\ slots = [t \in Takers |-> <<>>]
  /\ hand = [t \in Takers |-> None]
  /\ serial = [t \in Takers |-> None]
  /\ phase = "alive"
  /\ crashed = FALSE
  /\ lost = {}
  /\ taken = <<>>
  /\ overlapped = FALSE
  /\ late = FALSE

-----------------------------------------------------------------------------
(* OnReceiveData                                                           *)

\* SaveData: copies eCAL's buffer and touches no member.
SaveData ==
  /\ ~crashed
  /\ phase # "gone"
  /\ callback = "idle"
  /\ received < MaxMessages
  /\ received' = received + 1
  /\ heap' = heap \cup {received + 1}
  /\ callback' = "saved"
  /\ UNCHANGED <<queue, takerVars, phase, crashed, lost, taken, overlapped, late>>

EnqueueData ==
  /\ ~crashed
  /\ callback = "saved"
  /\ callback' = "queued"
  /\ queue' = IF phase = "dead" THEN queue ELSE Append(queue, received)
  /\ crashed' = (phase = "dead")
  /\ late' = (late \/ phase \in {"cleaned", "dead"})
  /\ UNCHANGED <<received, heap, takerVars, phase, lost, taken, overlapped>>

\* The part of NotifyWaitSet that belongs to the subscriber; WaitSet has the
\* rest.
NotifyWaitSet ==
  /\ ~crashed
  /\ callback = "queued"
  /\ callback' = "idle"
  /\ crashed' = (phase = "dead")
  /\ late' = (late \/ phase = "dead")
  /\ UNCHANGED <<received, queue, heap, takerVars, phase, lost, taken, overlapped>>

-----------------------------------------------------------------------------
(* rmw_take, rmw_take_with_info, rmw_take_sequence and                     *)
(* rmw_take_serialized_message                                             *)

BeginTake(t, k, n) ==
  /\ ~crashed
  /\ phase = "alive"
  /\ pc[t] = "idle"
  /\ n = 1 \/ k = "sequence"
  /\ pc' = [pc EXCEPT ![t] = "check"]
  /\ kind' = [kind EXCEPT ![t] = k]
  /\ count' = [count EXCEPT ![t] = n]
  /\ slots' = [slots EXCEPT ![t] = <<>>]
  /\ UNCHANGED <<received, callback, queue, heap, hand, serial, phase, crashed,
                 lost, taken, overlapped, late>>

\* The loop of rmw_take_sequence; the other functions take once.
WantsMore(t) == Len(slots[t]) # count[t]

(* Mutant: rmw_take_sequence asks HasData before its loop only. *)
HasDataOnce(t) ==
  /\ ~crashed
  /\ pc[t] = "check"
  /\ pc' = [pc EXCEPT ![t] = IF (queue # <<>> \/ slots[t] # <<>>) /\ WantsMore(t)
                             THEN "pop" ELSE "idle"]
  /\ UNCHANGED <<received, callback, queue, heap, kind, count, slots, hand, serial,
                 phase, crashed, lost, taken, overlapped, late>>

\* HasData, and the branch on its answer.
HasData(t) ==
  /\ ~crashed
  /\ pc[t] = "check"
  /\ pc' = [pc EXCEPT ![t] = IF queue # <<>> /\ WantsMore(t) THEN "pop" ELSE "idle"]
  /\ UNCHANGED <<received, callback, queue, heap, kind, count, slots, hand, serial,
                 phase, crashed, lost, taken, overlapped, late>>

(* Mutant: two takers see the front and only then remove it. *)
RestLeavesFront(q) == IF Len(q) > 1 THEN Tail(q) ELSE q

Front(q) == Head(q)
Rest(q) == Tail(q)

\* The race of two takers; it is not prevented by any lock.
Overlaps(t) == \E u \in Takers \ {t} : pc[u] = "pop"

PopOfNothing(t) ==
  /\ ~crashed
  /\ pc[t] = "pop"
  /\ queue = <<>>
  /\ crashed' = TRUE
  /\ overlapped' = (overlapped \/ Overlaps(t))
  /\ UNCHANGED <<received, callback, queue, heap, takerVars, phase, lost, taken, late>>

\* PopData before Deserialize.
PopData(t) ==
  /\ ~crashed
  /\ pc[t] = "pop"
  /\ kind[t] # "serialized"
  /\ queue # <<>>
  /\ hand' = [hand EXCEPT ![t] = Front(queue)]
  /\ queue' = Rest(queue)
  /\ pc' = [pc EXCEPT ![t] = "deserialize"]
  /\ taken' = Append(taken, Front(queue))
  /\ overlapped' = (overlapped \/ Overlaps(t))
  /\ UNCHANGED <<received, callback, heap, kind, count, slots, serial, phase,
                 crashed, lost, late>>

\* TakeLatestSerializedData: the buffer goes to the caller.  What the
\* caller's message held before is overwritten, not freed.
PopSerialized(t) ==
  /\ ~crashed
  /\ pc[t] = "pop"
  /\ kind[t] = "serialized"
  /\ queue # <<>>
  /\ serial' = [serial EXCEPT ![t] = Front(queue)]
  /\ lost' = lost \cup ({serial[t]} \ {None})
  /\ queue' = Rest(queue)
  /\ pc' = [pc EXCEPT ![t] = "idle"]
  /\ taken' = Append(taken, Front(queue))
  /\ overlapped' = (overlapped \/ Overlaps(t))
  /\ UNCHANGED <<received, callback, heap, kind, count, slots, hand, phase,
                 crashed, late>>

(* Mutant: the buffer is not deleted after it was deserialized. *)
DeserializeLeaks(t) ==
  /\ ~crashed
  /\ pc[t] = "deserialize"
  /\ slots' = [slots EXCEPT ![t] = Append(@, hand[t])]
  /\ hand' = [hand EXCEPT ![t] = None]
  /\ pc' = [pc EXCEPT ![t] = IF kind[t] = "sequence" THEN "check" ELSE "idle"]
  /\ UNCHANGED <<received, callback, queue, heap, kind, count, serial, phase,
                 crashed, lost, taken, overlapped, late>>

\* TakeLatestDataWithInfo after PopData: Deserialize, then delete[].
Deserialize(t) ==
  /\ ~crashed
  /\ pc[t] = "deserialize"
  /\ slots' = [slots EXCEPT ![t] = Append(@, hand[t])]
  /\ heap' = heap \ {hand[t]}
  /\ hand' = [hand EXCEPT ![t] = None]
  /\ pc' = [pc EXCEPT ![t] = IF kind[t] = "sequence" THEN "check" ELSE "idle"]
  /\ UNCHANGED <<received, callback, queue, kind, count, serial, phase, crashed,
                 lost, taken, overlapped, late>>

\* An exception of Deserialize (a length no memory is found for) passes
\* through all callers; nothing deletes the buffer.
DeserializeThrows(t) ==
  /\ ~crashed
  /\ pc[t] = "deserialize"
  /\ lost' = lost \cup {hand[t]}
  /\ hand' = [hand EXCEPT ![t] = None]
  /\ pc' = [pc EXCEPT ![t] = "idle"]
  /\ UNCHANGED <<received, callback, queue, heap, kind, count, slots, serial,
                 phase, crashed, taken, overlapped, late>>

\* The application frees a serialized message it was given.
FreeSerialized(t) ==
  /\ ~crashed
  /\ pc[t] = "idle"
  /\ serial[t] # None
  /\ heap' = heap \ {serial[t]}
  /\ serial' = [serial EXCEPT ![t] = None]
  /\ UNCHANGED <<received, callback, queue, pc, kind, count, slots, hand, phase,
                 crashed, lost, taken, overlapped, late>>

-----------------------------------------------------------------------------
(* rmw_destroy_subscription; no thread is in a take function then.         *)

Destroy ==
  /\ ~crashed
  /\ phase = "alive"
  /\ \A t \in Takers : pc[t] = "idle"
  /\ phase' = "cleaning"
  /\ UNCHANGED <<received, callback, queue, heap, takerVars, crashed, lost, taken,
                 overlapped, late>>

(* Mutant: the destructor deletes one message only. *)
CleanupOne ==
  /\ ~crashed
  /\ phase = "cleaning"
  /\ queue # <<>>
  /\ heap' = heap \ {Head(queue)}
  /\ queue' = Tail(queue)
  /\ phase' = "cleaned"
  /\ UNCHANGED <<received, callback, takerVars, crashed, lost, taken, overlapped,
                 late>>

\* One turn of the loop in CleanupData.
CleanupData ==
  /\ ~crashed
  /\ phase = "cleaning"
  /\ queue # <<>>
  /\ heap' = heap \ {Front(queue)}
  /\ queue' = Rest(queue)
  /\ UNCHANGED <<received, callback, takerVars, phase, crashed, lost, taken,
                 overlapped, late>>

\* HasData answers false and the loop ends.
CleanupEnds ==
  /\ ~crashed
  /\ phase = "cleaning"
  /\ queue = <<>>
  /\ phase' = "cleaned"
  /\ UNCHANGED <<received, callback, queue, heap, takerVars, crashed, lost, taken,
                 overlapped, late>>

\* The members declared after subscriber_ are destroyed before it: data_, the
\* mutexes.  A queue of pointers does not delete what they point to.
DestroyMembers ==
  /\ ~crashed
  /\ phase = "cleaned"
  /\ phase' = "dead"
  /\ queue' = <<>>
  /\ UNCHANGED <<received, callback, heap, takerVars, crashed, lost, taken,
                 overlapped, late>>

\* subscriber_ is destroyed; eCAL waits for a callback that is running.
DestroyECalSubscriber ==
  /\ ~crashed
  /\ phase = "dead"
  /\ callback = "idle"
  /\ phase' = "gone"
  /\ UNCHANGED <<received, callback, queue, heap, takerVars, crashed, lost, taken,
                 overlapped, late>>

-----------------------------------------------------------------------------

OnReceiveData == SaveData \/ EnqueueData \/ NotifyWaitSet

Take(t) ==
  \/ \E k \in Kinds, n \in 0 .. MaxCount : BeginTake(t, k, n)
  \/ HasData(t)
  \/ PopOfNothing(t)
  \/ PopData(t)
  \/ PopSerialized(t)
  \/ Deserialize(t)
  \/ DeserializeThrows(t)
  \/ FreeSerialized(t)

Destructor ==
  \/ Destroy
  \/ CleanupData
  \/ CleanupEnds
  \/ DestroyMembers
  \/ DestroyECalSubscriber

Next ==
  \/ OnReceiveData
  \/ \E t \in Takers : Take(t)
  \/ Destructor

Spec == Init /\ [][Next]_vars

-----------------------------------------------------------------------------
(* Properties                                                              *)

(* All variables have their types. *)
TypeOK ==
  /\ received \in 0 .. MaxMessages
  /\ callback \in {"idle", "saved", "queued"}
  /\ queue \in Seq(Messages)
  /\ heap \in SUBSET Messages
  /\ pc \in [Takers -> {"idle", "check", "pop", "deserialize"}]
  /\ kind \in [Takers -> Kinds]
  /\ count \in [Takers -> 0 .. MaxCount]
  /\ slots \in [Takers -> Seq(Messages)]
  /\ hand \in [Takers -> Messages \cup {None}]
  /\ serial \in [Takers -> Messages \cup {None}]
  /\ phase \in {"alive", "cleaning", "cleaned", "dead", "gone"}
  /\ crashed \in BOOLEAN
  /\ lost \in SUBSET Messages
  /\ taken \in Seq(Messages)
  /\ overlapped \in BOOLEAN
  /\ late \in BOOLEAN

\* The places that refer to buffer m.
InCallback(m) == callback = "saved" /\ m = received
InQueue(m) == m \in Range(queue)
InHand(m) == \E t \in Takers : hand[t] = m
InSerial(m) == \E t \in Takers : serial[t] = m

(* PopData and SaveData pass raw pointers on, and each take function has   *)
(* to know who deletes.  Nothing the code holds a pointer to is deleted.   *)
NothingDangles ==
  \A m \in Messages :
    InCallback(m) \/ InQueue(m) \/ InHand(m) \/ InSerial(m) => m \in heap

(* A buffer has one holder: nothing can be deleted twice, whatever the     *)
(* takers, the callback and the destructor do, even if takers race.        *)
OneHolder ==
  \A m \in Messages :
    /\ InCallback(m) => ~InQueue(m) /\ ~InHand(m) /\ ~InSerial(m)
    /\ InQueue(m) => ~InHand(m) /\ ~InSerial(m)
    /\ InHand(m) => ~InSerial(m)
    /\ m \in lost => ~InCallback(m) /\ ~InQueue(m) /\ ~InHand(m) /\ ~InSerial(m)
    /\ \A i, j \in DOMAIN queue : queue[i] = m /\ queue[j] = m => i = j
    /\ \A t, u \in Takers : hand[t] = m /\ hand[u] = m => t = u
    /\ \A t, u \in Takers : serial[t] = m /\ serial[u] = m => t = u

(* No buffer is forgotten, but by an exception of Deserialize, a serialized *)
(* message used twice, or a callback in the last steps of the destructor:   *)
(* ~Subscriber deletes what is queued and what is queued meanwhile.         *)
NothingLeaks ==
  ~late /\ ~crashed =>
    \A m \in heap :
      InCallback(m) \/ InQueue(m) \/ InHand(m) \/ InSerial(m) \/ m \in lost

(* HasData and PopData are two critical sections.  The process can only die *)
(* of their race if two takers overlap, or if a message arrives while the   *)
(* members of the subscriber are being destroyed.                           *)
CrashNeedsRace == crashed => overlapped \/ late

(* While the subscription lives, messages are popped in the order of their *)
(* arrival, without gaps and each once, by however many threads.           *)
TakenInOrder ==
  phase = "alive" => \A i \in DOMAIN (taken \o queue) : (taken \o queue)[i] = i

\* The messages enqueued so far.
arrivedBar == IF callback = "saved" THEN received - 1 ELSE received

Queue == INSTANCE ReceiveQueue WITH
  arrived <- arrivedBar, pending <- queue, handed <- taken, open <- phase = "alive"

(* Callback, takers and destructor together are the queue that ReceiveQueue *)
(* promises: what is popped is the oldest message, each is popped once, and *)
(* after the destructor has begun nobody is handed any, whatever happens to *)
(* the buffers of those that are left.                                      *)
KeepsQueuePromise == Queue!Spec

(* rmw_take_sequence never writes more messages than were asked for, and   *)
(* they are in the order of arrival, also when others take in between.     *)
SequenceInOrder ==
  \A t \in Takers :
    /\ Len(slots[t]) <= count[t]
    /\ \A i, j \in DOMAIN slots[t] : i < j => slots[t][i] < slots[t][j]
=============================================================================
