-------------------------------- MODULE MCWire --------------------------------
(***************************************************************************)
(* Message types for Wire, each the smallest that shows one thing.         *)
(***************************************************************************)
EXTENDS Wire

One(kind) == [kind |-> kind, array |-> "no", count |-> 0, sub |-> "none"]
Static(kind, n) == [One(kind) EXCEPT !.array = "static", !.count = n]
Dynamic(kind) == [One(kind) EXCEPT !.array = "dynamic"]
Sub(t) == [One("message") EXCEPT !.sub = t]
StaticSub(t, n) == [Sub(t) EXCEPT !.array = "static", !.count = n]
DynamicSub(t) == [Sub(t) EXCEPT !.array = "dynamic"]

MCMembers ==
  [point   |-> <<One("float"), One("float")>>,           \* memcopyable
   letters |-> <<One("char"), One("char")>>,             \* memcopyable in C++
   gap     |-> <<One("byte"), One("float")>>,            \* padded inside
   tail    |-> <<One("float"), Static("byte", 2)>>,      \* padded behind
   path    |-> <<StaticSub("point", 2), DynamicSub("point")>>,
   named   |-> <<One("string"), Sub("letters"), Dynamic("bool")>>,
   wide    |-> <<One("byte"), One("wide")>>,             \* refused early
   hidden  |-> <<One("string"), One("wide")>>,           \* refused late
   holder  |-> <<DynamicSub("hidden"), One("byte")>>]    \* unless it is empty

MCSamples ==
  [point   |-> {<<1, 2>>},
   letters |-> {<<1, 2>>},
   gap     |-> {<<1, 2>>},
   tail    |-> {<<1, <<2, 3>>>>},
   path    |-> {<<<<<<1, 2>>, <<3, 4>>>>, <<<<5, 6>>>>>>},
   named   |-> {<<<<3>>, <<1, 2>>, <<0>>>>},
   wide    |-> {<<1, 2>>},
   hidden  |-> {<<<<>>, 2>>},
   holder  |-> {<<<<>>, 1>>, <<<<<<<<>>, 2>>>>, 1>>}]

\* A char in front of padding, and a message that holds it.
MCCharMembers ==
  [label |-> <<One("char"), One("float")>>,
   tags  |-> <<One("string"), Sub("label")>>]
MCCharSamples == [label |-> {<<1, 2>>}, tags |-> {<<<<3>>, <<1, 2>>>>}]
MCCharTypes == DOMAIN MCCharMembers

MCTypes == DOMAIN MCMembers
MCHostLang == [cpphost |-> "cpp", chost |-> "c"]
MCHosts == DOMAIN MCHostLang

\* No message here is nested two deep.
MCDepth == [t \in Types |->
  IF \E i \in DOMAIN Members[t] : Members[t][i].kind = "message" THEN 1 ELSE 0]

\* What is sent, what it holds and what it is taken into.
MCNested == [t \in Types |-> IF t = "point" THEN {<<3, 4>>, <<5, 6>>} ELSE {}]
MCValues == [t \in Types |-> Samples[t] \cup MCNested[t] \cup {CppFresh[t]}]

-----------------------------------------------------------------------------
(* The layout of gcc and clang on a 64-bit machine.                        *)

MaxNat(a, b) == IF a > b THEN a ELSE b
RoundUp(n, alignment) == ((n + alignment - 1) \div alignment) * alignment

Laid[lang \in Langs, t \in Types] ==
  LET align(m) == CASE IsDynamic(m) -> 8
                    [] IsScalar(m) /\ ~IsDynamic(m) -> Width[m.kind]
                    [] m.kind = "message" /\ ~IsDynamic(m) -> Laid[lang, m.sub].align
                    [] OTHER -> 8
      element(m) == CASE IsScalar(m) -> Width[m.kind]
                      [] m.kind = "message" -> Laid[lang, m.sub].size
                      [] OTHER -> IF lang = "cpp" THEN 32 ELSE 24
      size(m) == CASE IsDynamic(m) -> VectorSize
                   [] IsStatic(m) -> m.count * element(m)
                   [] OTHER -> element(m)
      \* the next member starts at the next place with its alignment
      place(done, m) ==
        LET start == RoundUp(done.end, align(m))
        IN  [offset |-> Append(done.offset, start), end |-> start + size(m)]
      placed == FoldLeft(place, [offset |-> <<>>, end |-> 0], Members[t])
      all == FoldLeft(LAMBDA a, m : MaxNat(a, align(m)), 1, Members[t])
  IN  [offset  |-> placed.offset,
       element |-> [i \in DOMAIN Members[t] |-> element(Members[t][i])],
       size    |-> RoundUp(placed.end, all),
       align   |-> all]

MCLayout == [lang \in Langs |-> [t \in Types |-> Laid[lang, t]]]

\* What the theorems about messages ask of the types holds of the nine and
\* not of the two.
ASSUME MCCharsAssumption ==
  IF Types = MCTypes THEN CharsAreNotPadded ELSE ~CharsAreNotPadded
=============================================================================
