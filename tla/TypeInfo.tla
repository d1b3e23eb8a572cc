------------------------------- MODULE TypeInfo -------------------------------
(***************************************************************************)
(* serialization/type_info.hpp: which message types may be copied whole.   *)
(*                                                                         *)
(* A message type is a sequence of members.  A member has a kind, may be   *)
(* an array (static with a count, or dynamic, which bounded arrays are     *)
(* too) and names its own type when it is a message.  Kinds of the same    *)
(* width are one kind: "byte" stands for the 8-bit integers, "float" for   *)
(* the 32-bit kinds, "double" for the 64-bit ones, "wide" for wstring and  *)
(* wchar.                                                                  *)
(*                                                                         *)
(* Memory is a sequence of cells, one per scalar, one per run of padding   *)
(* and one per object that owns heap memory, each with its width in bytes. *)
(*                                                                         *)
(* What the code computes by recursion over nested messages is here a      *)
(* recursive function over the types; the operator that is its body has it *)
(* as first parameter, under a name in lower case.                         *)
(***************************************************************************)
EXTENDS Integers, SequencesExt

CONSTANTS
  Types,    \* names of message types
  Members,  \* Members[t]: the introspection data of t
  Depth,    \* Depth[t]: how deep messages are nested in t
  Values,   \* Values[t]: messages of type t
  Layout    \* Layout[lang][t]: where the compiler puts the members of t

Langs == {"cpp", "c"}

ScalarKinds == {"byte", "char", "bool", "float", "double"}
Width == [byte |-> 1, char |-> 1, bool |-> 1, float |-> 4, double |-> 8]

IsScalar(m) == m.kind \in ScalarKinds
\* What is_array_, array_size_ and is_upper_bound_ tell apart.
IsStatic(m) == m.array = "static"
IsDynamic(m) == m.array = "dynamic"

\* Members of messages are of types that nest less deep; no array is empty
\* for good.
ASSUME TypesAssumption ==
  /\ Members \in [Types -> Seq([kind  : ScalarKinds \cup {"string", "wide", "message"},
                                array : {"no", "static", "dynamic"},
                                count : Nat,
                                sub   : Types \cup {"none"}])]
  /\ Depth \in [Types -> Nat]
  /\ \A t \in Types : \A i \in DOMAIN Members[t] :
       LET m == Members[t][i]
       IN  /\ m.kind = "message" => m.sub \in Types /\ Depth[m.sub] < Depth[t]
           /\ IsStatic(m) => m.count > 0

\* What a member of a message may hold.
OneValue(m) ==
  CASE m.kind = "message" -> Values[m.sub]
    [] m.kind = "string" -> Seq(Int)
    [] OTHER -> Int
MemberValues(m) ==
  CASE IsStatic(m) -> [1 .. m.count -> OneValue(m)]
    [] IsDynamic(m) -> Seq(OneValue(m))
    [] OTHER -> OneValue(m)

\* A message is the sequence of its members' values.
ASSUME ValuesAssumption ==
  \A t \in Types : \A v \in Values[t] :
    /\ v = [i \in DOMAIN Members[t] |-> v[i]]
    /\ \A i \in DOMAIN Members[t] : v[i] \in MemberValues(Members[t][i])

-----------------------------------------------------------------------------
(* How the compiler lays a message out.                                    *)

Offset(lang, t, i) == Layout[lang][t].offset[i]
ElementSize(lang, t, i) == Layout[lang][t].element[i]
SizeOf(lang, t) == Layout[lang][t].size

\* Where a member ends; a vector or its C counterpart has three words.
VectorSize == 24
End(lang, t, i) ==
  LET m == Members[t][i]
  IN  Offset(lang, t, i) + CASE IsDynamic(m) -> VectorSize
                             [] IsStatic(m) -> m.count * ElementSize(lang, t, i)
                             [] OTHER -> ElementSize(lang, t, i)

\* Bytes of padding before member i, or behind the last one.
Gap(lang, t, i) ==
  (IF i > Len(Members[t]) THEN SizeOf(lang, t) ELSE Offset(lang, t, i))
    - (IF i = 1 THEN 0 ELSE End(lang, t, i - 1))

\* Members are in order and do not overlap, in any layout.
ASSUME LayoutAssumption ==
  \A lang \in Langs : \A t \in Types :
    /\ SizeOf(lang, t) \in Nat
    /\ \A i \in DOMAIN Members[t] :
         LET m == Members[t][i]
         IN  /\ Offset(lang, t, i) \in Nat
             /\ ElementSize(lang, t, i) \in Nat
             /\ IsScalar(m) => ElementSize(lang, t, i) = Width[m.kind]
             /\ m.kind = "message" => ElementSize(lang, t, i) = SizeOf(lang, m.sub)
    /\ \A i \in 1 .. Len(Members[t]) + 1 : Gap(lang, t, i) >= 0

-----------------------------------------------------------------------------
(* Memory and streams.                                                     *)

Streams == Seq([width : Nat, tag : {"data", "size", "padding", "pointer"}, x : Int])

Cell(width, tag, x) == [width |-> width, tag |-> tag, x |-> x]
Scalar(kind, x) == <<Cell(Width[kind], "data", x)>>
ArraySize(n) == <<Cell(8, "size", n)>>
Padding(n) == IF n = 0 THEN <<>> ELSE <<Cell(n, "padding", 0)>>
Garbage == -1

\* The cells of a message in memory: what memcpy reads.
ImageSingle(image, lang, t, i, x) ==
  LET m == Members[t][i]
  IN  CASE IsScalar(m) -> Scalar(m.kind, x)
        [] m.kind = "message" -> image[m.sub][x]
        [] OTHER -> <<Cell(ElementSize(lang, t, i), "pointer", 0)>>

ImageMember(image, lang, t, i, x) ==
  CASE IsDynamic(Members[t][i]) -> <<Cell(VectorSize, "pointer", 0)>>
    [] IsStatic(Members[t][i]) ->
         FlattenSeq([k \in DOMAIN x |-> ImageSingle(image, lang, t, i, x[k])])
    [] OTHER -> ImageSingle(image, lang, t, i, x)

ImageMessage(image, lang, t, v) ==
  FlattenSeq([i \in DOMAIN Members[t] |->
                Padding(Gap(lang, t, i)) \o ImageMember(image, lang, t, i, v[i])])
    \o Padding(Gap(lang, t, Len(Members[t]) + 1))

Image(lang, t, v) ==
  LET image[u \in Types] == [x \in Values[u] |-> ImageMessage(image, lang, u, x)]
  IN  image[t][v]

\* What a reader that is off the track leaves: nothing after it is right.
NothingRead == [val |-> Garbage, rest |-> <<>>]

\* A reader takes cells off the front of a stream.  Reading at a width that
\* is not the next cell's leaves it off the track.
Read(width, in) ==
  IF in # <<>> /\ Head(in).width = width
  THEN [val |-> IF Head(in).tag = "data" THEN Head(in).x ELSE Garbage,
        rest |-> Tail(in)]
  ELSE NothingRead

ReadSize(in) ==
  IF in # <<>> /\ Head(in).tag = "size"
  THEN [val |-> Head(in).x, rest |-> Tail(in)]
  ELSE NothingRead

\* n readings in a row, the i-th by reader[i].
ReadSeq(reader, n, in) ==
  LET done[i \in 0 .. n] ==
        IF i = 0 THEN [val |-> <<>>, rest |-> in]
        ELSE LET before == done[i - 1]
                 next == reader[i][before.rest]
             IN  [val |-> Append(before.val, next.val), rest |-> next.rest]
  IN  done[n]

\* A count, then as many readings; a count that is none leaves garbage.
ReadCounted(reader, in) ==
  LET size == ReadSize(in)
  IN  IF size.val < 0 THEN [val |-> <<Garbage>>, rest |-> <<>>]
      ELSE ReadSeq(reader, size.val, size.rest)

\* What memcpy writes into a message of type t.
Skip(n, in) == IF n = 0 THEN in ELSE Read(n, in).rest

ReadImageSingle(image, lang, t, i, in) ==
  IF Members[t][i].kind = "message" THEN image[Members[t][i].sub][in]
  ELSE Read(ElementSize(lang, t, i), in)

ReadImageMember(image, lang, t, i, in) ==
  CASE IsDynamic(Members[t][i]) -> Read(VectorSize, in)
    [] IsStatic(Members[t][i]) ->
         ReadSeq([k \in 1 .. Members[t][i].count |->
                    [rest \in Streams |-> ReadImageSingle(image, lang, t, i, rest)]],
                 Members[t][i].count, in)
    [] OTHER -> ReadImageSingle(image, lang, t, i, in)

ReadImageMessage(image, lang, t, in) ==
  LET all == ReadSeq(
        [i \in DOMAIN Members[t] |->
           [rest \in Streams |->
              ReadImageMember(image, lang, t, i, Skip(Gap(lang, t, i), rest))]],
        Len(Members[t]), in)
  IN  [all EXCEPT !.rest = Skip(Gap(lang, t, Len(Members[t]) + 1), @)]

ReadImage(lang, t, in) ==
  LET image[u \in Types] == [rest \in Streams |-> ReadImageMessage(image, lang, u, rest)]
  IN  image[t][in]

-----------------------------------------------------------------------------
(* AnalyzeType, over the two static sets.                                  *)

Statics == [analyzed : SUBSET Types, memcopyable : SUBSET Types, threw : BOOLEAN]
NothingAnalyzed == [analyzed |-> {}, memcopyable |-> {}, threw |-> FALSE]

AlreadyAnalyzed(statics, t) == t \in statics.analyzed
SetAnalyzed(statics, t) == [statics EXCEPT !.analyzed = @ \cup {t}]
IsMemcopyable(statics, t) == t \in statics.memcopyable
SetMemcopyable(statics, t) == [statics EXCEPT !.memcopyable = @ \cup {t}]

\* What the switch adds to actual_data_size.  In C the char case has no
\* break and falls into the float case.
CountedCpp == Width
CountedC == [Width EXCEPT !.char = Width.float]
Counted(lang) == IF lang = "cpp" THEN CountedCpp ELSE CountedC

\* A wide string throws out of the function, and of those that called it.
UnsupportedSkipped(scan) == scan   \* a bug: the throw is missing
Unsupported(scan) == [scan EXCEPT !.left = TRUE, !.statics = [@ EXCEPT !.threw = TRUE]]

\* A member that is a message, once its own type was analysed.
Entered(lang, m, scan, solid, inner) ==
  LET whole == IsMemcopyable(inner, m.sub)
  IN  [statics    |-> inner,
       left       |-> inner.threw,
       memcpyable |-> solid /\ whole,
       actual     |-> scan.actual + IF whole THEN SizeOf(lang, m.sub) ELSE 0]

\* One turn of the loop.  Each element of an array is counted once.
AnalyzeMember(analyze, lang, t, i, scan) ==
  LET m == Members[t][i]
      solid == scan.memcpyable /\ Offset(lang, t, i) = scan.actual /\ ~IsDynamic(m)
  IN  CASE scan.left -> scan
        [] ~scan.left /\ m.kind = "string" -> [scan EXCEPT !.left = TRUE]
        [] ~scan.left /\ m.kind = "wide" -> Unsupported(scan)
        [] ~scan.left /\ m.kind = "message" ->
             Entered(lang, m, scan, solid, analyze[m.sub][scan.statics])
        [] ~scan.left /\ IsScalar(m) ->
             [scan EXCEPT !.memcpyable = solid,
                          !.actual = @ + Counted(lang)[m.kind]]

\* All of the struct was counted.
Unpadded(lang, t, scan) == scan.memcpyable /\ scan.actual = SizeOf(lang, t)

\* A string member makes the function return, and a wide one throw, before
\* the type is recorded.
Recorded(lang, t, scan) ==
  CASE scan.left -> scan.statics
    [] ~scan.left /\ Unpadded(lang, t, scan) ->
         SetMemcopyable(SetAnalyzed(scan.statics, t), t)
    [] ~scan.left /\ ~Unpadded(lang, t, scan) -> SetAnalyzed(scan.statics, t)

AnalyzeMembers(analyze, lang, t, statics) ==
  LET scan[i \in 0 .. Len(Members[t])] ==
        IF i = 0
        THEN [statics |-> statics, left |-> FALSE, memcpyable |-> TRUE, actual |-> 0]
        ELSE AnalyzeMember(analyze, lang, t, i, scan[i - 1])
  IN  scan[Len(Members[t])]

AnalyzeType(lang, statics, t) ==
  LET analyze[u \in Types] ==
        [s \in Statics |->
           IF AlreadyAnalyzed(s, u) THEN s
           ELSE Recorded(lang, u, AnalyzeMembers(analyze, lang, u, s))]
  IN  analyze[t][statics]
=============================================================================
