------------------------------- MODULE CppCodec -------------------------------
(***************************************************************************)
(* serializer_cpp.cpp and deserializer_cpp.cpp: the wire format of C++     *)
(* messages.  fast is the set of types IsMemcopyable answers yes for.      *)
(* A message is the sequence of its members' values, a string that of its  *)
(* characters, an array that of its elements.                              *)
(***************************************************************************)
EXTENDS TypeInfo

-----------------------------------------------------------------------------
(* CppSerializer                                                           *)

CppSerializeString(s) ==
  ArraySize(Len(s)) \o [k \in DOMAIN s |-> Cell(Width.char, "data", s[k])]

\* Copying an array of memcopyable messages whole is copying them in turn.
\* For a wide string the code throws, and nothing is sent.
CppSerializeSingle(message, m, x) ==
  CASE IsScalar(m) -> Scalar(m.kind, x)
    [] m.kind = "string" -> CppSerializeString(x)
    [] m.kind = "message" -> message[m.sub][x]
    [] m.kind = "wide" -> <<>>

CppSerializeArray(message, m, xs) ==
  FlattenSeq([k \in DOMAIN xs |-> CppSerializeSingle(message, m, xs[k])])

CppSerializeDynamicArray(message, m, xs) ==
  ArraySize(Len(xs)) \o CppSerializeArray(message, m, xs)

CppSerializeMember(message, m, x) ==
  CASE IsStatic(m) -> CppSerializeArray(message, m, x)
    [] IsDynamic(m) -> CppSerializeDynamicArray(message, m, x)
    [] OTHER -> CppSerializeSingle(message, m, x)

CppSerializeMembers(message, t, v) ==
  FlattenSeq([i \in DOMAIN Members[t] |->
                CppSerializeMember(message, Members[t][i], v[i])])

CppSerializeMessage(fast, t, v) ==
  LET message[u \in Types] ==
        [x \in Values[u] |-> IF u \in fast THEN Image("cpp", u, x)
                             ELSE CppSerializeMembers(message, u, x)]
  IN  message[t][v]

-----------------------------------------------------------------------------
(* CppDeserializer, into a message that may hold values already            *)

\* A default-constructed message, and one more element of an array.
CppFreshElement(fresh, m) ==
  CASE m.kind = "string" -> <<>>
    [] m.kind = "message" -> fresh[m.sub]
    [] OTHER -> 0

CppFreshMember(fresh, m) ==
  CASE IsStatic(m) -> [k \in 1 .. m.count |-> CppFreshElement(fresh, m)]
    [] IsDynamic(m) -> <<>>
    [] OTHER -> CppFreshElement(fresh, m)

CppFresh[t \in Types] ==
  [i \in DOMAIN Members[t] |-> CppFreshMember(CppFresh, Members[t][i])]

\* A message like any other.
ASSUME FreshAssumption == \A t \in Types : CppFresh[t] \in Values[t]

\* str->append: what the string held stays in front.
CppDeserializeString(old, in) ==
  LET chars == ReadCounted([k \in Nat |-> [rest \in Streams |-> Read(1, rest)]], in)
  IN  [chars EXCEPT !.val = old \o @]

CppDeserializeSingle(message, m, old, in) ==
  CASE IsScalar(m) -> Read(Width[m.kind], in)
    [] m.kind = "string" -> CppDeserializeString(old, in)
    [] m.kind = "message" -> message[m.sub][old][in]
    [] m.kind = "wide" -> NothingRead

CppDeserializeArray(message, m, olds, in) ==
  ReadSeq([k \in 1 .. m.count |->
             [rest \in Streams |-> CppDeserializeSingle(message, m, olds[k], rest)]],
          m.count, in)

\* A bug: elements are added behind those there are.
CppDeserializeDynamicArrayBehind(message, m, olds, in) ==
  LET added == ReadCounted(
        [k \in Nat |->
           [rest \in Streams |->
              CppDeserializeSingle(message, m, CppFreshElement(CppFresh, m), rest)]],
        in)
  IN  [added EXCEPT !.val = olds \o @]

\* resize keeps the elements there are and adds fresh ones.  An array of
\* messages is resized as a vector<char>: the new elements are zero bytes,
\* which libstdc++ reads as empty strings and vectors, and those moved to a
\* larger block lose track of their short strings.
CppDeserializeDynamicArray(message, m, olds, in) ==
  ReadCounted(
    [k \in Nat |->
       [rest \in Streams |->
          CppDeserializeSingle(message, m, IF k \in DOMAIN olds THEN olds[k]
                                           ELSE CppFreshElement(CppFresh, m), rest)]],
    in)

\* vector<bool> is filled with push_back after a reserve.
CppDeserializeBools(olds, in) ==
  LET bools == ReadCounted([k \in Nat |-> [rest \in Streams |-> Read(1, rest)]], in)
  IN  [bools EXCEPT !.val = olds \o @]

CppDeserializeMember(message, m, old, in) ==
  CASE IsStatic(m) -> CppDeserializeArray(message, m, old, in)
    [] IsDynamic(m) /\ m.kind = "bool" -> CppDeserializeBools(old, in)
    [] IsDynamic(m) /\ m.kind # "bool" ->
         CppDeserializeDynamicArray(message, m, old, in)
    [] OTHER -> CppDeserializeSingle(message, m, old, in)

CppDeserializeMembers(message, t, old, in) ==
  ReadSeq([i \in DOMAIN Members[t] |->
             [rest \in Streams |->
                CppDeserializeMember(message, Members[t][i], old[i], rest)]],
          Len(Members[t]), in)

CppDeserializeMessage(fast, t, old, in) ==
  LET message[u \in Types] ==
        [was \in Values[u] |->
           [rest \in Streams |->
              IF u \in fast THEN ReadImage("cpp", u, rest)
              ELSE CppDeserializeMembers(message, u, was, rest)]]
  IN  message[t][old][in]
=============================================================================
