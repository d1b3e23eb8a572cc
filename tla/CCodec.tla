-------------------------------- MODULE CCodec --------------------------------
(***************************************************************************)
(* serializer_c.cpp and deserializer_c.cpp: the wire format of C messages. *)
(* A C string is a sequence of characters like any other.  Nothing of what *)
(* a message held before is kept: strings are initialised again and        *)
(* sequences get a new block.                                              *)
(***************************************************************************)
EXTENDS TypeInfo

-----------------------------------------------------------------------------
(* CSerializer                                                             *)

CSerializeString(s) ==
  ArraySize(Len(s)) \o [k \in DOMAIN s |-> Cell(Width.char, "data", s[k])]

CSerializeSingle(message, m, x) ==
  CASE IsScalar(m) -> Scalar(m.kind, x)
    [] m.kind = "string" -> CSerializeString(x)
    [] m.kind = "message" -> message[m.sub][x]
    [] m.kind = "wide" -> <<>>   \* throws

CSerializeArray(message, m, xs) ==
  FlattenSeq([k \in DOMAIN xs |-> CSerializeSingle(message, m, xs[k])])

\* A bug: no size in front of arrays of messages.
CSerializeDynamicArrayBare(message, m, xs) ==
  (IF m.kind = "message" THEN <<>> ELSE ArraySize(Len(xs)))
    \o CSerializeArray(message, m, xs)
CSerializeDynamicArray(message, m, xs) ==
  ArraySize(Len(xs)) \o CSerializeArray(message, m, xs)

CSerializeMember(message, m, x) ==
  CASE IsStatic(m) -> CSerializeArray(message, m, x)
    [] IsDynamic(m) -> CSerializeDynamicArray(message, m, x)
    [] OTHER -> CSerializeSingle(message, m, x)

CSerializeMembers(message, t, v) ==
  FlattenSeq([i \in DOMAIN Members[t] |->
                CSerializeMember(message, Members[t][i], v[i])])

CSerializeMessage(fast, t, v) ==
  LET message[u \in Types] ==
        [x \in Values[u] |-> IF u \in fast THEN Image("c", u, x)
                             ELSE CSerializeMembers(message, u, x)]
  IN  message[t][v]

-----------------------------------------------------------------------------
(* CDeserializer                                                           *)

\* A bug: the stream is not moved past the characters.
CDeserializeStringStuck(in) ==
  [ReadCounted([k \in Nat |-> [rest \in Streams |-> Read(1, rest)]], in)
     EXCEPT !.rest = ReadSize(in).rest]
CDeserializeString(in) ==
  ReadCounted([k \in Nat |-> [rest \in Streams |-> Read(1, rest)]], in)

CDeserializeSingle(message, m, in) ==
  CASE IsScalar(m) -> Read(Width[m.kind], in)
    [] m.kind = "string" -> CDeserializeString(in)
    [] m.kind = "message" -> message[m.sub][in]
    [] m.kind = "wide" -> NothingRead

CDeserializeArray(message, m, in) ==
  ReadSeq([k \in 1 .. m.count |->
             [rest \in Streams |-> CDeserializeSingle(message, m, rest)]],
          m.count, in)

CDeserializeDynamicArray(message, m, in) ==
  ReadCounted([k \in Nat |->
                 [rest \in Streams |-> CDeserializeSingle(message, m, rest)]], in)

CDeserializeMember(message, m, in) ==
  CASE IsStatic(m) -> CDeserializeArray(message, m, in)
    [] IsDynamic(m) -> CDeserializeDynamicArray(message, m, in)
    [] OTHER -> CDeserializeSingle(message, m, in)

CDeserializeMembers(message, t, in) ==
  ReadSeq([i \in DOMAIN Members[t] |->
             [rest \in Streams |-> CDeserializeMember(message, Members[t][i], rest)]],
          Len(Members[t]), in)

CDeserializeMessage(fast, t, in) ==
  LET message[u \in Types] ==
        [rest \in Streams |-> IF u \in fast THEN ReadImage("c", u, rest)
                              ELSE CDeserializeMembers(message, u, rest)]
  IN  message[t][in]
=============================================================================
