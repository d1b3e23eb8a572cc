--------------------------------- MODULE Wire ---------------------------------
(***************************************************************************)
(* Processes that exchange messages through the dynamic type support of    *)
(* rmw_ecal_dynamic_cpp, some with C++ messages and some with C messages.  *)
(*                                                                         *)
(* What a process copies whole depends on the types it has come across so  *)
(* far: AnalyzeType runs in the constructors of serializers and            *)
(* deserializers, and a string member cuts it short.  A sender and a       *)
(* receiver therefore disagree about which types are memcopyable, and the  *)
(* message must survive it.                                                *)
(*                                                                         *)
(* The two sets of type_info.hpp are static in a header that the           *)
(* serializer's and the deserializer's translation unit both include, and  *)
(* the functions over them are inline: a call may work on its own unit's   *)
(* sets or on those of the unit whose copy of the function was linked.     *)
(***************************************************************************)
EXTENDS CppCodec, CCodec, TLC

CONSTANTS
  Hosts,        \* processes
  HostLang,     \* HostLang[h]: the language of its messages
  Samples,      \* Samples[t]: the messages of type t that are sent
  MaxMade       \* bound: type supports, serializers and deserializers made

ASSUME HostsAssumption ==
  /\ HostLang \in [Hosts -> Langs]
  /\ \A t \in Types : Samples[t] \subseteq Values[t]

Units == {"serializer", "deserializer"}

\* Which unit's sets a call in each unit analyses into and looks into.
OwnSets == [analyze |-> [u \in Units |-> u], look |-> [u \in Units |-> u]]
LinkedTo(p) == [analyze |-> [u \in Units |-> p], look |-> [u \in Units |-> p]]
HalfLinkedTo(p) == [analyze |-> [u \in Units |-> p], look |-> [u \in Units |-> u]]
Builds == {OwnSets, LinkedTo("serializer")} \cup {HalfLinkedTo(p) : p \in Units}

Nothing == [type |-> "none"]

VARIABLES
  build,     \* how the library was linked
  statics,   \* analyzed_types_ and memcopyable_types_ of each unit of a process
  supports,  \* the type supports that exist: <<process, type>>
  made,      \* how many things with a constructor that analyses were made
  net,       \* the message last sent
  got,       \* what the last take of it left in the application's message
  refused    \* <<process, type>>: sending threw on a type support that exists

vars == <<build, statics, supports, made, net, got, refused>>

Init ==
  /\ build \in Builds
  /\ statics = [h \in Hosts |-> [u \in Units |-> NothingAnalyzed]]
  /\ supports = {}
  /\ made = 0
  /\ net = Nothing
  /\ got = Nothing
  /\ refused = {}

-----------------------------------------------------------------------------
\* The constructor of a serializer or deserializer: AnalyzeType.
Analyzed(h, sets, unit, t) ==
  LET into == build.analyze[unit]
  IN  [sets EXCEPT ![into] = AnalyzeType(HostLang[h], @, t)]

Threw(sets) == \E u \in Units : sets[u].threw
Settled(sets) == [u \in Units |-> [sets[u] EXCEPT !.threw = FALSE]]
Fast(sets, unit) == sets[build.look[unit]].memcopyable

\* The messages in which the switch of SerializeMessage comes to a wide
\* string.  It passes over an array of messages that is empty.
ElementsIn(m, x) ==
  IF IsStatic(m) \/ IsDynamic(m) THEN {x[k] : k \in DOMAIN x} ELSE {x}
WideMessages[t \in Types] ==
  {v \in Values[t] :
     \E i \in DOMAIN Members[t] :
       LET m == Members[t][i]
       IN  \/ m.kind = "wide"
           \/ m.kind = "message" /\ ElementsIn(m, v[i]) \cap WideMessages[m.sub] # {}}

Serialized(h, sets, t, v) ==
  IF HostLang[h] = "cpp"
  THEN CppSerializeMessage(Fast(sets, "serializer"), t, v)
  ELSE CSerializeMessage(Fast(sets, "serializer"), t, v)

Deserialized(h, sets, t, old, stream) ==
  IF HostLang[h] = "cpp"
  THEN CppDeserializeMessage(Fast(sets, "deserializer"), t, old, stream).val
  ELSE CDeserializeMessage(Fast(sets, "deserializer"), t, stream).val

\* A message type support makes a serializer, then a deserializer; when the
\* first throws there is no second and no type support.
CreateTypeSupport(h, t) ==
  /\ made < MaxMade
  /\ made' = made + 1
  /\ \E first \in {Analyzed(h, statics[h], "serializer", t)} :
     \E both \in {IF Threw(first) THEN first
                  ELSE Analyzed(h, first, "deserializer", t)} :
       /\ statics' = [statics EXCEPT ![h] = Settled(both)]
       /\ supports' = supports \cup (IF Threw(both) THEN {} ELSE {<<h, t>>})
  /\ UNCHANGED <<build, net, got, refused>>

\* Publisher::Publish and the service calls: a wide string throws.
Send(h, sets, t, v) ==
  IF v \in WideMessages[t]
  THEN /\ refused' = refused \cup {<<h, t>>}
       /\ UNCHANGED <<net, got>>
  ELSE /\ net' = [type |-> t, sent |-> v, stream |-> Serialized(h, sets, t, v)]
       /\ got' = Nothing
       /\ UNCHANGED refused

Publish(h, t, v) ==
  /\ <<h, t>> \in supports
  /\ Send(h, statics[h], t, v)
  /\ UNCHANGED <<build, statics, supports, made>>

\* rmw_serialize: a serializer for this one message.
SerializeOnce(h, t, v) ==
  /\ made < MaxMade
  /\ made' = made + 1
  /\ \E sets \in {Analyzed(h, statics[h], "serializer", t)} :
       /\ ~Threw(sets)
       /\ Send(h, sets, t, v)
       /\ statics' = [statics EXCEPT ![h] = sets]
  /\ UNCHANGED <<build, supports>>

\* The message is put over what the application's message held before.
Receive(h, sets, old) ==
  got' = [type |-> net.type, by |-> h, old |-> old,
          value |-> Deserialized(h, sets, net.type, old, net.stream)]

Take(h, old) ==
  /\ net # Nothing
  /\ <<h, net.type>> \in supports
  /\ old \in {CppFresh[net.type]} \cup Samples[net.type]
  /\ Receive(h, statics[h], old)
  /\ UNCHANGED <<build, statics, supports, made, net, refused>>

\* rmw_deserialize: a deserializer for this one message.
DeserializeOnce(h) ==
  /\ net # Nothing
  /\ made < MaxMade
  /\ made' = made + 1
  /\ \E sets \in {Settled(Analyzed(h, statics[h], "deserializer", net.type))} :
       /\ Receive(h, sets, CppFresh[net.type])
       /\ statics' = [statics EXCEPT ![h] = sets]
  /\ UNCHANGED <<build, supports, net, refused>>

Next ==
  \E h \in Hosts :
    \/ \E t \in Types : CreateTypeSupport(h, t)
    \/ \E t \in Types : \E v \in Samples[t] :
         Publish(h, t, v) \/ SerializeOnce(h, t, v)
    \/ net # Nothing /\ \E old \in {CppFresh[net.type]} \cup Samples[net.type] :
         Take(h, old)
    \/ DeserializeOnce(h)

Spec == Init /\ [][Next]_vars

-----------------------------------------------------------------------------
\* Padding in front of a member keeps its type from being copied whole.
PaddingIsDetected ==
  \A h \in Hosts, u \in Units : \A t \in statics[h][u].memcopyable :
    \A i \in DOMAIN Members[t] : Gap(HostLang[h], t, i) = 0

\* Whether no C process knows a type with a char in front of padding.
CharsAreNotPadded ==
  \A h \in Hosts : HostLang[h] = "c" =>
    \A t \in Types : \A i \in DOMAIN Members[t] :
      Members[t][i].kind = "char" => Gap("c", t, i + 1) = 0

\* Whether the memory of a message of type t is its wire form, when that
\* goes for the types in fast: nothing between its members or behind them,
\* no member that owns memory elsewhere.
Solid(lang, fast, t) ==
  /\ \A i \in 1 .. Len(Members[t]) + 1 : Gap(lang, t, i) = 0
  /\ \A i \in DOMAIN Members[t] :
       LET m == Members[t][i]
       IN  /\ ~IsDynamic(m)
           /\ \/ IsScalar(m)
              \/ m.kind = "message" /\ m.sub \in fast

\* The types a process copies whole are solid, down to the messages nested
\* in them, in whatever order it came across them.
CopiedWholeAreSolid ==
  \A h \in Hosts, u \in Units :
    LET fast == statics[h][u].memcopyable
    IN  \A t \in fast : Solid(HostLang[h], fast, t)

\* What is sent does not depend on what the sender has analysed, on how its
\* library was linked or on its language: it is the form that the receiver
\* of a type it has never copied whole expects.
OneWireForm ==
  net # Nothing => net.stream = CppSerializeMessage({}, net.type, net.sent)

\* A take into a fresh message yields the message that was sent, whatever
\* each side has analysed by then.
FreshTakeIsExact ==
  got # Nothing /\ got.old = CppFresh[got.type] => got.value = net.sent

\* Whether the C++ deserializer appends to a member of the type.
Appends[t \in Types] ==
  \E i \in DOMAIN Members[t] :
    LET m == Members[t][i]
    IN  \/ m.kind = "string"
        \/ m.kind = "bool" /\ IsDynamic(m)
        \/ m.kind = "message" /\ Appends[m.sub]

\* A take into a message that held another one leaves nothing of it, except
\* in C++ where text and sequences of booleans are appended to.
ReusedTakeIsExact ==
  got # Nothing /\ (HostLang[got.by] = "c" \/ ~Appends[got.type])
    => got.value = net.sent

\* Whether a message of type t can hold a wide string.
HasWide[t \in Types] ==
  \E i \in DOMAIN Members[t] :
    \/ Members[t][i].kind = "wide"
    \/ Members[t][i].kind = "message" /\ HasWide[Members[t][i].sub]

\* Whether a wide string is out of the analysis's sight, in t or in a
\* message nested in it: a string in front of it ends the analysis.
Hidden[t \in Types] ==
  \E j \in DOMAIN Members[t] :
    LET m == Members[t][j]
    IN  \/ m.kind = "message" /\ Hidden[m.sub]
        \/ /\ \/ m.kind = "wide"
              \/ m.kind = "message" /\ HasWide[m.sub]
           /\ \E i \in 1 .. j - 1 : Members[t][i].kind = "string"

\* A type with wide strings is refused when an endpoint or a serializer for
\* it is made, unless the wide string hides behind a string: then the
\* endpoint exists and every send on it throws.
RefusedEarly == \A s \in refused : Hidden[s[2]]
=============================================================================
