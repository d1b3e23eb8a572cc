----------------------------- MODULE WireProofs ------------------------------
(***************************************************************************)
(* Proofs about Wire, for any message types, values, layouts, languages    *)
(* and processes.                                                          *)
(*                                                                         *)
(* A type nests types of less depth only.  So a statement about all types  *)
(* can be proved by induction over their depth, and each recursive         *)
(* definition over the types (AnalyzeType, the serializers, the            *)
(* deserializers) has a solution and does what it says.  With that:        *)
(*   - the analysis refuses a wide string that no string hides;            *)
(*   - it takes a type for memcopyable only if its memory is its wire form;*)
(*   - so there is one wire form, whatever was analysed before, and one    *)
(*     way to read it;                                                     *)
(*   - reading takes back what writing wrote.                              *)
(***************************************************************************)
EXTENDS Wire, WellFoundedInduction, SequenceTheorems, TLAPS

-----------------------------------------------------------------------------
(* Induction and recursion over ranks.                                     *)

\* A set of numbers with 0 and, with every number, the next one is all of them.
LEMMA Induction ==
  ASSUME NEW T, 0 \in T, \A n \in Nat : n \in T => n + 1 \in T
  PROVE  Nat \subseteq T
<1> DEFINE Out == Nat \ T
<1> SUFFICES ASSUME Out # {} PROVE FALSE
  OBVIOUS
<1>1. PICK x \in Out : \A y \in Out : ~ (<<y, x>> \in OpToRel(<, Nat))
  BY NatLessThanWellFounded, WFMin
<1>2. x # 0 /\ x - 1 \in Nat
  OBVIOUS
<1>3. <<x - 1, x>> \in OpToRel(<, Nat)
  BY <1>2 DEF OpToRel
<1>4. x - 1 \in T
  BY <1>1, <1>2, <1>3
<1> QED BY <1>2, <1>4

\* Whatever holds of a member of S as soon as it holds of those of a lower
\* rank holds of all of S.
LEMMA RankInduction ==
  ASSUME NEW S, NEW Rank \in [S -> Nat], NEW T,
         \A x \in S : (\A y \in S : Rank[y] < Rank[x] => y \in T) => x \in T
  PROVE  S \subseteq T
<1> DEFINE L == {n \in Nat : \A x \in S : Rank[x] < n => x \in T}
<1>1. 0 \in L
  OBVIOUS
<1>2. ASSUME NEW n \in Nat, n \in L PROVE n + 1 \in L
  <2>1. ASSUME NEW x \in S, Rank[x] < n + 1 PROVE x \in T
    <3>1. ASSUME NEW y \in S, Rank[y] < Rank[x] PROVE y \in T
      <4>1. Rank[y] \in Nat /\ Rank[x] \in Nat
        OBVIOUS
      <4>2. Rank[y] < n
        BY <2>1, <3>1, <4>1
      <4> QED BY <4>2, <1>2
    <3> QED BY <3>1
  <2> QED BY <2>1
<1>3. Nat \subseteq L
  <2> HIDE DEF L
  <2> QED BY <1>1, <1>2, Induction
<1>4. ASSUME NEW x \in S PROVE x \in T
  <2>1. Rank[x] \in Nat /\ Rank[x] + 1 \in Nat /\ Rank[x] < Rank[x] + 1
    OBVIOUS
  <2>2. Rank[x] + 1 \in L
    BY <1>3, <2>1
  <2> QED BY <2>1, <2>2
<1> QED BY <1>4

\* The functions over S whose value at x is in V[x].
Dependent(S, V) ==
  {f \in [S -> UNION {V[x] : x \in S}] : \A x \in S : f[x] \in V[x]}

\* f and g agree on all that has a lower rank than x.
SameBelow(S, Rank, f, g, x) ==
  \A y \in S : Rank[y] < Rank[x] => f[y] = g[y]

\* What G makes of f at x depends on f at lower ranks only.
Contracts(S, Rank, D, G) ==
  \A f, g \in D : \A x \in S : SameBelow(S, Rank, f, g, x) => G[f][x] = G[g][x]

\* No V[x] is empty.
Inhabited(S, V) == \A x \in S : V[x] # {}

\* Every member of S has a rank.
Ranked(S, Rank) == Rank \in [S -> Nat]

\* G takes a function of D to another.
Maps(D, G) == G \in [D -> D]

\* Some function is what G makes of it.
Solved(D, G) == \E f \in D : G[f] = f

\* A definition of f that refers to f at lower ranks only has a solution.
LEMMA Recursion ==
  ASSUME NEW S, NEW Rank, Ranked(S, Rank), NEW V, Inhabited(S, V),
         NEW G, Maps(Dependent(S, V), G), Contracts(S, Rank, Dependent(S, V), G)
  PROVE  Solved(Dependent(S, V), G)
<1> USE DEF Contracts, Inhabited, Ranked, Maps, Solved
<1> DEFINE D == Dependent(S, V)
           Good(f, n) == \A x \in S : Rank[x] < n => G[f][x] = f[x]
           L == {n \in Nat : \E f \in D : Good(f, n)}
<1>0. ASSUME NEW f \in D, NEW x \in S
      PROVE  f[x] \in V[x]
  BY <1>0 DEF Dependent
<1>1. ASSUME NEW f \in [S -> UNION {V[x] : x \in S}], \A x \in S : f[x] \in V[x]
      PROVE  f \in D
  BY <1>1 DEF Dependent
<1>2. \E f : f \in D
  <2> DEFINE f == [x \in S |-> CHOOSE v \in V[x] : TRUE]
  <2>1. \A x \in S : f[x] \in V[x]
    OBVIOUS
  <2>2. f \in [S -> UNION {V[x] : x \in S}]
    BY <2>1
  <2> HIDE DEF f
  <2>3. f \in D
    BY <1>1, <2>1, <2>2
  <2> QED BY <2>3
<1>3. 0 \in L
  BY <1>2
<1>4. ASSUME NEW n \in Nat, n \in L PROVE n + 1 \in L
  <2>1. PICK f \in D : Good(f, n)
    BY <1>4
  <2>2. G[f] \in D
    OBVIOUS
  <2>3. ASSUME NEW x \in S, Rank[x] < n + 1 PROVE G[G[f]][x] = G[f][x]
    <3>1. \A y \in S : Rank[y] < Rank[x] => Rank[y] < n
      <4>1. Rank[x] \in Nat /\ \A y \in S : Rank[y] \in Nat
        OBVIOUS
      <4> QED BY <2>3, <4>1
    <3>2. SameBelow(S, Rank, G[f], f, x)
      BY <3>1, <2>1 DEF SameBelow
    <3> QED BY <3>2, <2>2
  <2>4. Good(G[f], n + 1)
    BY <2>3
  <2> QED BY <2>2, <2>4
<1>5. Nat \subseteq L
  <2> HIDE DEF L
  <2> QED BY <1>3, <1>4, Induction
\* Two partial solutions agree as far as both go.
<1>6. ASSUME NEW f \in D, NEW g \in D, NEW n \in Nat, Good(f, n), Good(g, n)
      PROVE  \A x \in S : Rank[x] < n => f[x] = g[x]
  <2> DEFINE T == {x \in S : Rank[x] < n => f[x] = g[x]}
  <2>1. ASSUME NEW x \in S, \A y \in S : Rank[y] < Rank[x] => y \in T
        PROVE  x \in T
    <3> SUFFICES ASSUME Rank[x] < n PROVE f[x] = g[x]
      OBVIOUS
    <3>1. \A y \in S : Rank[y] < Rank[x] => Rank[y] < n
      <4>1. Rank[x] \in Nat /\ \A y \in S : Rank[y] \in Nat
        OBVIOUS
      <4> QED BY <4>1
    <3>2. SameBelow(S, Rank, f, g, x)
      BY <3>1, <2>1 DEF SameBelow
    <3>3. G[f][x] = G[g][x]
      BY <3>2
    <3> QED BY <3>3, <1>6
  <2>2. S \subseteq T
    <3> HIDE DEF T
    <3> QED BY <2>1, RankInduction
  <2> QED BY <2>2
<1> DEFINE P(x) == CHOOSE f \in D : Good(f, Rank[x] + 1)
<1>7. ASSUME NEW x \in S PROVE P(x) \in D /\ Good(P(x), Rank[x] + 1)
  <2>1. Rank[x] + 1 \in L
    BY <1>5
  <2>2. \E f \in D : Good(f, Rank[x] + 1)
    BY <2>1
  <2> HIDE DEF D, Good
  <2> QED BY <2>2
<1> DEFINE h == [x \in S |-> P(x)[x]]
<1> HIDE DEF P
<1>8. h \in D
  <2>1. \A x \in S : h[x] \in V[x]
    BY <1>7, <1>0
  <2>2. h \in [S -> UNION {V[x] : x \in S}]
    BY <2>1
  <2> HIDE DEF h
  <2> QED BY <1>1, <2>1, <2>2
<1>9. ASSUME NEW x \in S PROVE G[h][x] = h[x]
  <2>1. ASSUME NEW y \in S, Rank[y] < Rank[x] PROVE h[y] = P(x)[y]
    <3>0. Rank[x] \in Nat /\ Rank[y] \in Nat /\ Rank[y] + 1 \in Nat
      OBVIOUS
    <3>1. Good(P(x), Rank[y] + 1)
      <4>1. \A z \in S : Rank[z] < Rank[y] + 1 => Rank[z] < Rank[x] + 1
        BY <2>1, <3>0
      <4> QED BY <4>1, <1>7
    <3>2. P(y)[y] = P(x)[y]
      <4> HIDE DEF Good, D
      <4>1. Rank[y] < Rank[y] + 1
        BY <3>0
      <4> QED BY <4>1, <3>0, <3>1, <1>6, <1>7
    <3> QED BY <3>2
  <2>2. SameBelow(S, Rank, h, P(x), x)
    BY <2>1 DEF SameBelow
  <2>3. G[h][x] = G[P(x)][x]
    <3> HIDE DEF h
    <3> QED BY <2>2, <1>7, <1>8
  <2>4. Rank[x] < Rank[x] + 1
    OBVIOUS
  <2>5. G[P(x)][x] = P(x)[x]
    BY <1>7, <2>4
  <2> QED BY <2>3, <2>5
<1>10. G[h] = h
  <2>1. G[h] \in D
    BY <1>8
  <2>2. G[h] \in [S -> UNION {V[x] : x \in S}] /\ h \in [S -> UNION {V[x] : x \in S}]
    BY <1>8, <2>1 DEF Dependent
  <2> HIDE DEF h, D
  <2> QED BY <2>2, <1>9
<1> QED BY <1>8, <1>10

-----------------------------------------------------------------------------
(* The types: what nests less deep has a lower rank.                       *)

\* What holds of a type as soon as it holds of the types it may nest holds
\* of all types: a message never contains one of its own type.
LEMMA TypesInduction ==
  ASSUME NEW T,
         \A t \in Types : (\A u \in Types : Depth[u] < Depth[t] => u \in T) => t \in T
  PROVE  Types \subseteq T
BY RankInduction, TypesAssumption

\* A definition into one set.
LEMMA RecursionInto ==
  ASSUME NEW S, NEW Rank, Ranked(S, Rank), NEW C, C # {},
         NEW G, Maps([S -> C], G), Contracts(S, Rank, [S -> C], G)
  PROVE  Solved([S -> C], G)
<1> DEFINE V == [x \in S |-> C]
<1>1. Dependent(S, V) = [S -> C]
  <2>1. ASSUME NEW f \in Dependent(S, V) PROVE f \in [S -> C]
    BY <2>1 DEF Dependent
  <2>2. ASSUME NEW f \in [S -> C] PROVE f \in Dependent(S, V)
    <3>1. \A x \in S : f[x] \in V[x]
      OBVIOUS
    <3>2. f \in [S -> UNION {V[x] : x \in S}]
      BY <3>1
    <3> QED BY <3>1, <3>2 DEF Dependent
  <2> QED BY <2>1, <2>2
<1>2. Inhabited(S, V)
  BY DEF Inhabited
<1> HIDE DEF V
<1> QED BY <1>1, <1>2, Recursion

\* A loop of n turns, the i-th by step[i, _], ends.
Turns(n, C, step) == step \in [1 .. n -> [C -> C]]

\* The loop whose i-th turn is step[i] has a value after every turn.
Looped(n, C, start, step) ==
  \E f \in [0 .. n -> C] :
    f = [i \in 0 .. n |-> IF i = 0 THEN start ELSE step[i][f[i - 1]]]

\* Every loop of a known number of turns has.
LEMMA Loop ==
  ASSUME NEW n \in Nat, NEW C, NEW start \in C, NEW step, Turns(n, C, step)
  PROVE  Looped(n, C, start, step)
<1> USE DEF Turns, Looped
<1> DEFINE S == 0 .. n
           D == [S -> C]
           Rank == [i \in S |-> i]
           G == [f \in D |->
                   [i \in S |-> IF i = 0 THEN start ELSE step[i][f[i - 1]]]]
<1>1. ASSUME NEW f \in [S -> C], NEW i \in S
      PROVE  (IF i = 0 THEN start ELSE step[i][f[i - 1]]) \in C
  <2>1. CASE i = 0 BY <2>1
  <2>2. CASE i # 0
    <3>1. i \in 1 .. n /\ i - 1 \in S
      BY <2>2
    <3> QED BY <3>1, <2>2
  <2> QED BY <2>1, <2>2
<1>2. G \in [D -> D]
  BY <1>1
<1>3. Rank \in [S -> Nat]
  OBVIOUS
<1>4. ASSUME NEW f \in [S -> C], NEW g \in [S -> C], NEW i \in S,
             SameBelow(S, Rank, f, g, i)
      PROVE  G[f][i] = G[g][i]
  <2>1. CASE i = 0 BY <2>1
  <2>2. CASE i # 0
    <3>1. i - 1 \in S /\ Rank[i - 1] < Rank[i]
      BY <2>2
    <3>2. f[i - 1] = g[i - 1]
      BY <3>1, <1>4 DEF SameBelow
    <3> QED BY <3>2
  <2> QED BY <2>1, <2>2
<1>5. Solved(D, G)
  <2>1. C # {} /\ Ranked(S, Rank) /\ Maps(D, G) /\ Contracts(S, Rank, D, G)
    BY <1>2, <1>3, <1>4 DEF Contracts, Ranked, Maps
  <2> HIDE DEF S, Rank, G
  <2> QED BY <2>1, RecursionInto
<1> QED BY <1>5 DEF Solved

-----------------------------------------------------------------------------
\* A type has a wide string when a member is one or nests a type that has.
LEMMA HasWideEquation ==
  /\ HasWide \in [Types -> BOOLEAN]
  /\ \A t \in Types :
       HasWide[t] <=>
         \E i \in DOMAIN Members[t] :
           \/ Members[t][i].kind = "wide"
           \/ Members[t][i].kind = "message" /\ HasWide[Members[t][i].sub]
<1> DEFINE Body(f, t) ==
             \E i \in DOMAIN Members[t] :
               \/ Members[t][i].kind = "wide"
               \/ Members[t][i].kind = "message" /\ f[Members[t][i].sub]
           D == [Types -> BOOLEAN]
           G == [f \in D |-> [t \in Types |-> Body(f, t)]]
<1>1. G \in [D -> D]
  OBVIOUS
<1>2. ASSUME NEW f \in [Types -> BOOLEAN], NEW g \in [Types -> BOOLEAN],
             NEW t \in Types, SameBelow(Types, Depth, f, g, t)
      PROVE  G[f][t] = G[g][t]
  <2>1. ASSUME NEW i \in DOMAIN Members[t], Members[t][i].kind = "message"
        PROVE  f[Members[t][i].sub] = g[Members[t][i].sub]
    BY <1>2, <2>1, TypesAssumption DEF SameBelow
  <2>2. Body(f, t) <=> Body(g, t)
    BY <2>1
  <2> QED BY <2>2
<1>3. Solved(D, G)
  <2>1. BOOLEAN # {} /\ Ranked(Types, Depth)
    BY TypesAssumption DEF Ranked
  <2>2. Maps(D, G) /\ Contracts(Types, Depth, D, G)
    BY <1>1, <1>2 DEF Contracts, Maps
  <2> HIDE DEF G
  <2> QED BY <2>1, <2>2, RecursionInto
<1>4. PICK f \in D : f = [t \in Types |-> Body(f, t)]
  BY <1>3 DEF Solved
<1>5. HasWide = [t \in Types |-> Body(HasWide, t)]
  BY <1>4 DEF HasWide
<1> QED BY <1>5

\* Where the switch comes to a wide string in a message of type t.
MeetsWide(t, v) ==
  \E i \in DOMAIN Members[t] :
    \/ Members[t][i].kind = "wide"
    \/ /\ Members[t][i].kind = "message"
       /\ ElementsIn(Members[t][i], v[i]) \cap WideMessages[Members[t][i].sub] # {}

\* A message has a wide string when a member is one or a message in it has.
LEMMA WideMessagesEquation ==
  \A t \in Types : WideMessages[t] = {v \in Values[t] : MeetsWide(t, v)}
<1> DEFINE Meets(f, t, v) ==
             \E i \in DOMAIN Members[t] :
               \/ Members[t][i].kind = "wide"
               \/ /\ Members[t][i].kind = "message"
                  /\ ElementsIn(Members[t][i], v[i]) \cap f[Members[t][i].sub] # {}
           Body(f, t) == {v \in Values[t] : Meets(f, t, v)}
           C == SUBSET UNION {Values[t] : t \in Types}
           D == [Types -> C]
           G == [f \in D |-> [t \in Types |-> Body(f, t)]]
<1>1. \A f : \A t \in Types : Body(f, t) \in C
  OBVIOUS
<1>2. ASSUME NEW f, NEW g, NEW t \in Types, SameBelow(Types, Depth, f, g, t)
      PROVE  Body(f, t) = Body(g, t)
  <2>1. ASSUME NEW i \in DOMAIN Members[t], Members[t][i].kind = "message"
        PROVE  f[Members[t][i].sub] = g[Members[t][i].sub]
    BY <1>2, <2>1, TypesAssumption DEF SameBelow
  <2>2. \A v : Meets(f, t, v) <=> Meets(g, t, v)
    BY <2>1
  <2> HIDE DEF Meets
  <2> QED BY <2>2
<1>3. WideMessages = CHOOSE f : f = [t \in Types |-> Body(f, t)]
  BY DEF WideMessages
<1> HIDE DEF Body, C
<1>4. Solved(D, G)
  <2>1. C # {} /\ Ranked(Types, Depth)
    BY TypesAssumption DEF Ranked, C
  <2>2. Maps(D, G) /\ Contracts(Types, Depth, D, G)
    BY <1>1, <1>2 DEF Contracts, Maps
  <2> HIDE DEF G
  <2> QED BY <2>1, <2>2, RecursionInto
<1>5. PICK f \in D : f = [t \in Types |-> Body(f, t)]
  BY <1>4 DEF Solved
<1>6. WideMessages = [t \in Types |-> Body(WideMessages, t)]
  BY <1>3, <1>5
<1>7. \A t \in Types : WideMessages[t] = Body(WideMessages, t)
  BY <1>6
<1> QED BY <1>7 DEF Body, MeetsWide

\* Its type has one too.
LEMMA WideTypes ==
  \A t \in Types : WideMessages[t] # {} => HasWide[t]
<1> DEFINE T == {t \in Types : WideMessages[t] # {} => HasWide[t]}
<1>1. ASSUME NEW t \in Types, \A u \in Types : Depth[u] < Depth[t] => u \in T
      PROVE  t \in T
  <2> SUFFICES ASSUME NEW v \in WideMessages[t]
               PROVE  HasWide[t]
    OBVIOUS
  <2>1. PICK i \in DOMAIN Members[t] :
          \/ Members[t][i].kind = "wide"
          \/ /\ Members[t][i].kind = "message"
             /\ WideMessages[Members[t][i].sub] # {}
    BY WideMessagesEquation DEF MeetsWide
  <2>2. Members[t][i].kind = "message" =>
          Members[t][i].sub \in Types /\ Depth[Members[t][i].sub] < Depth[t]
    BY TypesAssumption
  <2>3. Members[t][i].kind = "message" =>
          (WideMessages[Members[t][i].sub] # {} => HasWide[Members[t][i].sub])
    BY <1>1, <2>2
  <2> QED BY <2>1, <2>3, HasWideEquation
<1>2. Types \subseteq T
  <2> HIDE DEF T
  <2> QED BY <1>1, TypesInduction
<1> QED BY <1>2

-----------------------------------------------------------------------------
(* The analysis of a type, a turn at a time.                               *)

\* What AnalyzeType has found when it is between two members.
Scans == [statics : Statics, left : BOOLEAN, memcpyable : BOOLEAN, actual : Int]

\* What it starts with.
ScanStart(s) ==
  [statics |-> s, left |-> FALSE, memcpyable |-> TRUE, actual |-> 0]

\* analyze does what AnalyzeType does as far as types are concerned.
AnalyzesBelow(analyze, t) ==
  \A u \in Types : Depth[u] < Depth[t] => analyze[u] \in [Statics -> Statics]

\* What is known of a member of a type: its kind, its array, and that a nested
\* type is less deep than the one that nests it.
LEMMA MemberTypes ==
  ASSUME NEW t \in Types, NEW i \in DOMAIN Members[t]
  PROVE  /\ Members[t][i].kind \in ScalarKinds \cup {"string", "wide", "message"}
         /\ Members[t][i].array \in {"no", "static", "dynamic"}
         /\ Members[t][i].count \in Nat
         /\ Members[t][i].kind = "message" =>
              /\ Members[t][i].sub \in Types
              /\ Depth[Members[t][i].sub] < Depth[t]
         /\ Members[t][i].array = "static" => Members[t][i].count > 0
         /\ Len(Members[t]) \in Nat
         /\ DOMAIN Members[t] = 1 .. Len(Members[t])
<1> DEFINE M == [kind  : ScalarKinds \cup {"string", "wide", "message"},
                 array : {"no", "static", "dynamic"},
                 count : Nat,
                 sub   : Types \cup {"none"}]
<1>1. Members[t] \in Seq(M)
  BY TypesAssumption
<1>2. Members[t][i] \in M
  <2> HIDE DEF M
  <2> QED BY <1>1
<1>3. /\ Members[t][i].kind = "message" =>
           Members[t][i].sub \in Types /\ Depth[Members[t][i].sub] < Depth[t]
      /\ Members[t][i].array = "static" => Members[t][i].count > 0
  BY TypesAssumption DEF IsStatic
<1>4. Len(Members[t]) \in Nat /\ DOMAIN Members[t] = 1 .. Len(Members[t])
  <2> HIDE DEF M
  <2> QED BY <1>1
<1> QED BY <1>2, <1>3, <1>4

\* The members of a type are numbered from 1.
LEMMA MemberCount ==
  ASSUME NEW t \in Types
  PROVE  Len(Members[t]) \in Nat /\ DOMAIN Members[t] = 1 .. Len(Members[t])
<1>1. PICK M : Members[t] \in Seq(M)
  BY TypesAssumption
<1> QED BY <1>1

\* Sizes and offsets are numbers, a scalar has the size of its kind, and
\* members do not overlap.
LEMMA Sizes ==
  ASSUME NEW lang \in Langs, NEW t \in Types
  PROVE  /\ SizeOf(lang, t) \in Nat
         /\ \A i \in DOMAIN Members[t] :
              /\ Offset(lang, t, i) \in Nat
              /\ ElementSize(lang, t, i) \in Nat
              /\ IsScalar(Members[t][i]) =>
                   ElementSize(lang, t, i) = Width[Members[t][i].kind]
              /\ Members[t][i].kind = "message" =>
                   ElementSize(lang, t, i) = SizeOf(lang, Members[t][i].sub)
         /\ \A i \in 1 .. Len(Members[t]) + 1 : Gap(lang, t, i) >= 0
BY LayoutAssumption

\* What the analysis counts for a scalar is its size, except for a char in C,
\* for which it counts more.
LEMMA CountedType ==
  ASSUME NEW lang \in Langs, NEW k \in ScalarKinds
  PROVE  /\ Width[k] \in Nat
         /\ Counted(lang)[k] \in Nat
         /\ Counted(lang)[k] >= Width[k]
         /\ k # "char" \/ lang = "cpp" => Counted(lang)[k] = Width[k]
BY DEF Counted, CountedCpp, CountedC, Width, ScalarKinds, Langs

\* One turn of AnalyzeType keeps what it knows well typed.
LEMMA AnalyzeMemberType ==
  ASSUME NEW lang \in Langs, NEW t \in Types, NEW analyze,
         AnalyzesBelow(analyze, t),
         NEW i \in DOMAIN Members[t], NEW scan \in Scans
  PROVE  AnalyzeMember(analyze, lang, t, i, scan) \in Scans
<1> DEFINE m == Members[t][i]
           solid == scan.memcpyable /\ Offset(lang, t, i) = scan.actual /\ ~IsDynamic(m)
<1>0. /\ scan.statics \in Statics /\ scan.left \in BOOLEAN /\ scan.memcpyable \in BOOLEAN
      /\ scan.actual \in Int
      /\ scan = [statics |-> scan.statics, left |-> scan.left,
                 memcpyable |-> scan.memcpyable, actual |-> scan.actual]
  BY DEF Scans
<1>1. CASE scan.left
  BY <1>1 DEF AnalyzeMember
<1>2. CASE ~scan.left /\ m.kind = "string"
  <2>1. AnalyzeMember(analyze, lang, t, i, scan) = [scan EXCEPT !.left = TRUE]
    BY <1>2 DEF AnalyzeMember, IsScalar, ScalarKinds
  <2>2. [scan EXCEPT !.left = TRUE] \in Scans
    BY DEF Scans
  <2> QED BY <2>1, <2>2
<1>3. CASE ~scan.left /\ m.kind = "wide"
  <2>1. AnalyzeMember(analyze, lang, t, i, scan) = Unsupported(scan)
    BY <1>3 DEF AnalyzeMember, IsScalar, ScalarKinds
  <2> DEFINE r == [scan.statics EXCEPT !.threw = TRUE]
  <2>2. r \in Statics
    BY <1>0 DEF Statics
  <2>3. Unsupported(scan) = [scan EXCEPT !.left = TRUE, !.statics = r]
    BY DEF Unsupported
  <2> HIDE DEF r
  <2>4. [scan EXCEPT !.left = TRUE, !.statics = r] \in Scans
    BY <2>2 DEF Scans
  <2> QED BY <2>1, <2>3, <2>4
<1>4. CASE ~scan.left /\ m.kind = "message"
  <2> DEFINE inner == analyze[m.sub][scan.statics]
  <2>1. AnalyzeMember(analyze, lang, t, i, scan) = Entered(lang, m, scan, solid, inner)
    BY <1>4 DEF AnalyzeMember, IsScalar, ScalarKinds
  <2>2. m.sub \in Types /\ Depth[m.sub] < Depth[t]
    BY <1>4, MemberTypes
  <2>3. inner \in Statics
    BY <2>2, <1>0 DEF AnalyzesBelow
  <2>4. SizeOf(lang, m.sub) \in Nat
    BY <2>2, Sizes
  <2>5. inner.threw \in BOOLEAN
    BY <2>3 DEF Statics
  <2>6. (solid /\ IsMemcopyable(inner, m.sub)) \in BOOLEAN
    OBVIOUS
  <2>7. scan.actual + (IF IsMemcopyable(inner, m.sub) THEN SizeOf(lang, m.sub) ELSE 0) \in Int
    BY <2>4, <1>0
  <2> HIDE DEF m, inner, solid
  <2> QED BY <2>1, <2>3, <2>5, <2>6, <2>7 DEF Entered, Scans
<1>5. CASE ~scan.left /\ IsScalar(m)
  <2>1. AnalyzeMember(analyze, lang, t, i, scan) =
          [scan EXCEPT !.memcpyable = solid, !.actual = @ + Counted(lang)[m.kind]]
    BY <1>5 DEF AnalyzeMember, IsScalar, ScalarKinds
  <2>2. Counted(lang)[m.kind] \in Nat
    BY <1>5, CountedType DEF IsScalar
  <2>3. solid \in BOOLEAN
    OBVIOUS
  <2>4. scan.actual + Counted(lang)[m.kind] \in Int
    BY <2>2, <1>0
  <2> HIDE DEF m, solid
  <2> QED BY <2>1, <2>3, <2>4, <1>0 DEF Scans
<1> QED BY <1>1, <1>2, <1>3, <1>4, <1>5, MemberTypes DEF IsScalar

\* The loop over the members of t, turn by turn.
Scan(analyze, lang, t, s, scan) ==
  /\ scan \in [0 .. Len(Members[t]) -> Scans]
  /\ scan[0] = ScanStart(s)
  /\ \A i \in 1 .. Len(Members[t]) :
       scan[i] = AnalyzeMember(analyze, lang, t, i, scan[i - 1])
  /\ AnalyzeMembers(analyze, lang, t, s) = scan[Len(Members[t])]

\* AnalyzeType goes through its turns one after the other.
LEMMA AnalyzeMembersScan ==
  ASSUME NEW lang \in Langs, NEW t \in Types, NEW analyze,
         AnalyzesBelow(analyze, t), NEW s \in Statics
  PROVE  \E scan : Scan(analyze, lang, t, s, scan)
<1> DEFINE n == Len(Members[t])
           Turn(i, x) == AnalyzeMember(analyze, lang, t, i, x)
           step == [i \in 1 .. n |-> [x \in Scans |-> Turn(i, x)]]
           Is(f) == f = [i \in 0 .. n |-> IF i = 0 THEN ScanStart(s) ELSE Turn(i, f[i - 1])]
           scan == CHOOSE f : Is(f)
<1>1. n \in Nat /\ DOMAIN Members[t] = 1 .. n
  BY MemberCount
<1>2. \A i \in 1 .. n : \A x \in Scans : Turn(i, x) \in Scans
  BY <1>1, AnalyzeMemberType
<1>3. ScanStart(s) \in Scans
  BY DEF ScanStart, Scans
<1> HIDE DEF Turn
<1>4. Turns(n, Scans, step)
  BY <1>2 DEF Turns
<1>5. PICK f \in [0 .. n -> Scans] :
        f = [i \in 0 .. n |-> IF i = 0 THEN ScanStart(s) ELSE step[i][f[i - 1]]]
  <2>1. Looped(n, Scans, ScanStart(s), step)
    <3> HIDE DEF step, n
    <3> QED BY <1>1, <1>3, <1>4, Loop
  <2> QED BY <2>1 DEF Looped
<1>6. \A i \in 0 .. n : i # 0 => step[i][f[i - 1]] = Turn(i, f[i - 1])
  <2>1. \A i \in 0 .. n : i # 0 => i \in 1 .. n /\ i - 1 \in 0 .. n
    BY <1>1
  <2> HIDE DEF n
  <2> QED BY <2>1
<1>7. Is(f)
  <2> HIDE DEF step, n
  <2> QED BY <1>5, <1>6
<1>8. Is(scan)
  <2> HIDE DEF Is
  <2> QED BY <1>7
<1>9. AnalyzeMembers(analyze, lang, t, s) = scan[n]
  BY DEF AnalyzeMembers, Turn, ScanStart
<1> HIDE DEF scan, n
<1>10. scan[0] = ScanStart(s)
  BY <1>8, <1>1
<1>11. \A i \in 1 .. n : scan[i] = Turn(i, scan[i - 1])
  BY <1>8, <1>1
<1>12. \A i \in 0 .. n : scan[i] \in Scans
  <2> DEFINE T == {i \in Nat : i <= n => scan[i] \in Scans}
  <2>1. 0 \in T
    BY <1>10, <1>3
  <2>2. ASSUME NEW i \in Nat, i \in T PROVE i + 1 \in T
    <3> SUFFICES ASSUME i + 1 <= n PROVE scan[i + 1] \in Scans
      OBVIOUS
    <3>1. i + 1 \in 1 .. n /\ (i + 1) - 1 = i /\ i <= n
      BY <1>1
    <3>2. scan[i] \in Scans
      BY <3>1, <2>2
    <3>3. scan[i + 1] = Turn(i + 1, scan[i])
      BY <3>1, <1>11
    <3> QED BY <3>1, <3>2, <3>3, <1>2
  <2>3. Nat \subseteq T
    <3> HIDE DEF T
    <3> QED BY <2>1, <2>2, Induction
  <2> QED BY <2>3, <1>1
<1>13. scan \in [0 .. n -> Scans]
  BY <1>8, <1>12
<1>14. Scan(analyze, lang, t, s, scan)
  BY <1>9, <1>10, <1>11, <1>13 DEF Scan, Turn, n
<1> QED BY <1>14

\* What AnalyzeType stores at its end are sets of types.
LEMMA RecordedType ==
  ASSUME NEW lang, NEW t \in Types, NEW scan \in Scans
  PROVE  Recorded(lang, t, scan) \in Statics
<1>1. scan.statics \in Statics /\ scan.left \in BOOLEAN
  BY DEF Scans
<1>2. SetAnalyzed(scan.statics, t) \in Statics
  BY <1>1 DEF SetAnalyzed, Statics
<1>3. SetMemcopyable(SetAnalyzed(scan.statics, t), t) \in Statics
  BY <1>2 DEF SetMemcopyable, Statics
<1> QED BY <1>1, <1>2, <1>3 DEF Recorded

\* The loop asks analyze about the types of members only.
LEMMA SameAnalysis ==
  ASSUME NEW lang \in Langs, NEW t \in Types, NEW s \in Statics, NEW f, NEW g,
         AnalyzesBelow(f, t), AnalyzesBelow(g, t), SameBelow(Types, Depth, f, g, t)
  PROVE  AnalyzeMembers(f, lang, t, s) = AnalyzeMembers(g, lang, t, s)
<1> DEFINE n == Len(Members[t])
<1>1. PICK a : Scan(f, lang, t, s, a)
  BY AnalyzeMembersScan
<1>2. PICK b : Scan(g, lang, t, s, b)
  BY AnalyzeMembersScan
<1>3. n \in Nat /\ DOMAIN Members[t] = 1 .. n
  BY MemberCount
<1>4. ASSUME NEW i \in 1 .. n, NEW x
      PROVE  AnalyzeMember(f, lang, t, i, x) = AnalyzeMember(g, lang, t, i, x)
  <2>1. Members[t][i].kind = "message" => f[Members[t][i].sub] = g[Members[t][i].sub]
    BY <1>3, MemberTypes DEF SameBelow
  <2>2. CASE Members[t][i].kind # "message"
    BY <2>2 DEF AnalyzeMember
  <2>3. CASE Members[t][i].kind = "message"
    BY <2>1, <2>3 DEF AnalyzeMember
  <2> QED BY <2>2, <2>3
<1> DEFINE T == {i \in Nat : i <= n => a[i] = b[i]}
<1>5. 0 \in T
  BY <1>1, <1>2 DEF Scan
<1>6. ASSUME NEW i \in Nat, i \in T PROVE i + 1 \in T
  <2> SUFFICES ASSUME i + 1 <= n PROVE a[i + 1] = b[i + 1]
    OBVIOUS
  <2>1. i + 1 \in 1 .. n /\ (i + 1) - 1 = i /\ i <= n
    BY <1>3
  <2>2. a[i] = b[i]
    BY <2>1, <1>6
  <2>3. a[i + 1] = AnalyzeMember(f, lang, t, i + 1, a[i])
    BY <1>1, <2>1 DEF Scan
  <2>4. b[i + 1] = AnalyzeMember(g, lang, t, i + 1, b[i])
    BY <1>2, <2>1 DEF Scan
  <2> QED BY <1>4, <2>1, <2>2, <2>3, <2>4
<1>7. n \in T
  <2>1. Nat \subseteq T
    <3> HIDE DEF T
    <3> QED BY <1>5, <1>6, Induction
  <2> QED BY <2>1, <1>3
<1>8. a[n] = b[n]
  BY <1>3, <1>7
<1> QED BY <1>1, <1>2, <1>8 DEF Scan

\* analyze is AnalyzeType, one type at a time.
Analysis(lang, analyze) ==
  /\ analyze \in [Types -> [Statics -> Statics]]
  /\ \A t \in Types, s \in Statics :
       /\ analyze[t][s] = IF AlreadyAnalyzed(s, t) THEN s
                          ELSE Recorded(lang, t, AnalyzeMembers(analyze, lang, t, s))
       /\ AnalyzeType(lang, s, t) = analyze[t][s]

\* AnalyzeType is what its definition says, one type at a time.
LEMMA AnalyzeTypeEquation ==
  ASSUME NEW lang \in Langs
  PROVE  \E analyze : Analysis(lang, analyze)
<1> DEFINE Turn(f, t, s) ==
             IF AlreadyAnalyzed(s, t) THEN s
             ELSE Recorded(lang, t, AnalyzeMembers(f, lang, t, s))
           C == [Statics -> Statics]
           D == [Types -> C]
           G == [f \in D |-> [t \in Types |-> [s \in Statics |-> Turn(f, t, s)]]]
           Is(f) == f = [t \in Types |-> [s \in Statics |-> Turn(f, t, s)]]
           analyze == CHOOSE f : Is(f)
<1>1. ASSUME NEW f, NEW t \in Types, AnalyzesBelow(f, t), NEW s \in Statics
      PROVE  Turn(f, t, s) \in Statics
  <2>1. PICK scan : Scan(f, lang, t, s, scan)
    BY <1>1, AnalyzeMembersScan
  <2>2. AnalyzeMembers(f, lang, t, s) \in Scans
    BY <2>1, MemberCount DEF Scan
  <2> QED BY <2>2, RecordedType
<1>2. ASSUME NEW f \in D, NEW t \in Types PROVE AnalyzesBelow(f, t)
  BY DEF AnalyzesBelow
<1>3. ASSUME NEW f, NEW g, NEW t \in Types, AnalyzesBelow(f, t), AnalyzesBelow(g, t),
             SameBelow(Types, Depth, f, g, t), NEW s \in Statics
      PROVE  Turn(f, t, s) = Turn(g, t, s)
  BY <1>3, SameAnalysis
<1> HIDE DEF Turn
<1>4. Maps(D, G)
  BY <1>1, <1>2 DEF Maps
<1>5. Contracts(Types, Depth, D, G)
  <2> SUFFICES ASSUME NEW f \in D, NEW g \in D, NEW t \in Types,
                      SameBelow(Types, Depth, f, g, t)
               PROVE  G[f][t] = G[g][t]
    BY DEF Contracts
  <2>1. AnalyzesBelow(f, t) /\ AnalyzesBelow(g, t)
    BY <1>2
  <2>2. \A s \in Statics : Turn(f, t, s) = Turn(g, t, s)
    BY <1>3, <2>1
  <2> HIDE DEF D
  <2> QED BY <2>2
<1>6. C # {}
  <2>1. [s \in Statics |-> s] \in C
    OBVIOUS
  <2> QED BY <2>1
<1>7. Solved(D, G)
  <2>1. Ranked(Types, Depth)
    BY TypesAssumption DEF Ranked
  <2> HIDE DEF C, G
  <2> QED BY <2>1, <1>4, <1>5, <1>6, RecursionInto
<1>8. Is(analyze)
  <2>1. \E f : Is(f)
    BY <1>7 DEF Solved
  <2> HIDE DEF Is
  <2> QED BY <2>1
<1>9. \A t \in Types, s \in Statics :
        analyze[t][s] = Turn(analyze, t, s) /\ AnalyzeType(lang, s, t) = analyze[t][s]
  <2>1. \A t \in Types, s \in Statics : AnalyzeType(lang, s, t) = analyze[t][s]
    BY DEF AnalyzeType, Turn
  <2> HIDE DEF analyze
  <2> QED BY <1>8, <2>1
<1> HIDE DEF analyze
<1>10. \A t \in Types : analyze[t] \in C
  <2> DEFINE T == {t \in Types : analyze[t] \in C}
  <2>1. ASSUME NEW t \in Types, \A u \in Types : Depth[u] < Depth[t] => u \in T
        PROVE  t \in T
    <3>1. AnalyzesBelow(analyze, t)
      BY <2>1 DEF AnalyzesBelow
    <3>2. analyze[t] = [s \in Statics |-> Turn(analyze, t, s)]
      BY <1>8
    <3>3. \A s \in Statics : Turn(analyze, t, s) \in Statics
      BY <1>1, <3>1
    <3> QED BY <3>2, <3>3
  <2>2. Types \subseteq T
    <3> HIDE DEF T
    <3> QED BY <2>1, TypesInduction
  <2> QED BY <2>2
<1>11. analyze \in D
  BY <1>8, <1>10
<1>12. Analysis(lang, analyze)
  BY <1>9, <1>11 DEF Analysis, Turn
<1> QED BY <1>12

-----------------------------------------------------------------------------
(* What the analysis overlooks.                                            *)

\* A type is hidden when a string member stands before its wide string, or
\* when a type it nests is hidden.
LEMMA HiddenEquation ==
  /\ Hidden \in [Types -> BOOLEAN]
  /\ \A t \in Types :
       Hidden[t] <=>
         \E j \in DOMAIN Members[t] :
           \/ Members[t][j].kind = "message" /\ Hidden[Members[t][j].sub]
           \/ /\ \/ Members[t][j].kind = "wide"
                 \/ Members[t][j].kind = "message" /\ HasWide[Members[t][j].sub]
              /\ \E i \in 1 .. j - 1 : Members[t][i].kind = "string"
<1> DEFINE Body(f, t) ==
             \E j \in DOMAIN Members[t] :
               \/ Members[t][j].kind = "message" /\ f[Members[t][j].sub]
               \/ /\ \/ Members[t][j].kind = "wide"
                     \/ Members[t][j].kind = "message" /\ HasWide[Members[t][j].sub]
                  /\ \E i \in 1 .. j - 1 : Members[t][i].kind = "string"
           D == [Types -> BOOLEAN]
           G == [f \in D |-> [t \in Types |-> Body(f, t)]]
<1>1. G \in [D -> D]
  OBVIOUS
<1>2. ASSUME NEW f \in D, NEW g \in D, NEW t \in Types,
             SameBelow(Types, Depth, f, g, t)
      PROVE  G[f][t] = G[g][t]
  <2>1. ASSUME NEW j \in DOMAIN Members[t], Members[t][j].kind = "message"
        PROVE  f[Members[t][j].sub] = g[Members[t][j].sub]
    BY <1>2, <2>1, TypesAssumption DEF SameBelow
  <2>2. Body(f, t) <=> Body(g, t)
    BY <2>1
  <2> QED BY <2>2
<1>3. Solved(D, G)
  <2>1. BOOLEAN # {} /\ Ranked(Types, Depth)
    BY TypesAssumption DEF Ranked
  <2>2. Maps(D, G) /\ Contracts(Types, Depth, D, G)
    BY <1>1, <1>2 DEF Contracts, Maps
  <2> HIDE DEF G
  <2> QED BY <2>1, <2>2, RecursionInto
<1>4. PICK f \in D : f = [t \in Types |-> Body(f, t)]
  BY <1>3 DEF Solved
<1>5. Hidden = [t \in Types |-> Body(Hidden, t)]
  BY <1>4 DEF Hidden
<1> QED BY <1>5

-----------------------------------------------------------------------------
\* The types on record have no wide string in sight.
Sighted(s) == \A t \in s.analyzed : HasWide[t] => Hidden[t]

\* Nothing in member j that the analysis should throw at.
Clear(t, j) ==
  /\ Members[t][j].kind # "wide"
  /\ Members[t][j].kind = "message" =>
       (HasWide[Members[t][j].sub] => Hidden[Members[t][j].sub])

\* What a turn of the loop has seen.
Seen(t, i, scan) ==
  /\ Sighted(scan.statics)
  /\ scan.statics.threw => scan.left
  /\ ~scan.statics.threw /\ ~scan.left => \A j \in 1 .. i : Clear(t, j)
  /\ ~scan.statics.threw /\ scan.left =>
       \E k \in 1 .. i : /\ Members[t][k].kind = "string"
                         /\ \A j \in 1 .. k - 1 : Clear(t, j)

\* Analysing t throws, or t's wide strings hide.
Sights(analyze, t) ==
  \A s \in Statics :
    Sighted(s) /\ ~s.threw =>
      /\ Sighted(analyze[t][s])
      /\ analyze[t][s].threw \/ (HasWide[t] => Hidden[t])

\* One more member seen: the scan either goes on with nothing overlooked, or
\* has stopped at a wide string, or at a string with nothing overlooked
\* before it.
LEMMA SeenMember ==
  ASSUME NEW lang \in Langs, NEW analyze, Analysis(lang, analyze), NEW t \in Types,
         \A u \in Types : Depth[u] < Depth[t] => Sights(analyze, u),
         NEW i \in DOMAIN Members[t], NEW scan \in Scans, Seen(t, i - 1, scan)
  PROVE  Seen(t, i, AnalyzeMember(analyze, lang, t, i, scan))
<1> DEFINE m == Members[t][i]
           next == AnalyzeMember(analyze, lang, t, i, scan)
<1> SUFFICES Seen(t, i, next)
  OBVIOUS
<1>0. /\ i \in 1 .. Len(Members[t]) /\ Len(Members[t]) \in Nat
      /\ scan.left \in BOOLEAN /\ scan.statics \in Statics /\ scan.statics.threw \in BOOLEAN
  BY MemberCount DEF Scans, Statics
<1>1. CASE scan.left
  <2>1. next = scan
    BY <1>1 DEF AnalyzeMember
  <2>2. ~scan.statics.threw =>
          \E k \in 1 .. i : /\ Members[t][k].kind = "string"
                            /\ \A j \in 1 .. k - 1 : Clear(t, j)
    BY <1>0, <1>1 DEF Seen
  <2> HIDE DEF next
  <2> QED BY <1>1, <2>1, <2>2 DEF Seen
<1>2. CASE ~scan.left /\ m.kind = "string"
  <2>1. next = [scan EXCEPT !.left = TRUE]
    BY <1>2 DEF AnalyzeMember, IsScalar, ScalarKinds
  <2>2. next.left /\ next.statics = scan.statics
    BY <2>1 DEF Scans
  <2>3. ~scan.statics.threw /\ i \in 1 .. i /\ \A j \in 1 .. i - 1 : Clear(t, j)
    BY <1>0, <1>2 DEF Seen
  <2> HIDE DEF next
  <2> QED BY <1>2, <2>2, <2>3 DEF Seen
<1>3. CASE ~scan.left /\ m.kind = "wide"
  <2>1. next = Unsupported(scan)
    BY <1>3 DEF AnalyzeMember, IsScalar, ScalarKinds
  <2>2. next.left /\ next.statics = [scan.statics EXCEPT !.threw = TRUE]
    BY <2>1 DEF Scans, Unsupported
  <2>3. next.statics.threw /\ next.statics.analyzed = scan.statics.analyzed
    BY <1>0, <2>2 DEF Statics
  <2> HIDE DEF next
  <2> QED BY <2>2, <2>3 DEF Seen, Sighted
<1>4. CASE ~scan.left /\ m.kind = "message"
  <2> DEFINE inner == analyze[m.sub][scan.statics]
  <2>1. m.sub \in Types /\ Depth[m.sub] < Depth[t]
    BY <1>4, MemberTypes
  <2>2. Sighted(scan.statics) /\ ~scan.statics.threw /\ \A j \in 1 .. i - 1 : Clear(t, j)
    BY <1>4 DEF Seen
  <2>3. Sighted(inner) /\ (inner.threw \/ (HasWide[m.sub] => Hidden[m.sub]))
    BY <1>0, <2>1, <2>2 DEF Sights
  <2>4. next.statics = inner /\ next.left = inner.threw
    BY <1>4 DEF AnalyzeMember, IsScalar, ScalarKinds, Entered
  <2>5. ASSUME ~inner.threw, NEW j \in 1 .. i PROVE Clear(t, j)
    <3>1. CASE j = i
      BY <1>4, <2>3, <2>5, <3>1 DEF Clear
    <3>2. CASE j # i
      <4>1. j \in 1 .. i - 1
        BY <1>0, <3>2
      <4> QED BY <2>2, <4>1
    <3> QED BY <3>1, <3>2
  <2> HIDE DEF next, inner
  <2> QED BY <2>3, <2>4, <2>5 DEF Seen
<1>5. CASE ~scan.left /\ IsScalar(m)
  <2>1. next.statics = scan.statics /\ next.left = scan.left
    BY <1>5 DEF AnalyzeMember, IsScalar, ScalarKinds, Scans
  <2>2. Sighted(scan.statics) /\ ~scan.statics.threw /\ \A j \in 1 .. i - 1 : Clear(t, j)
    BY <1>5 DEF Seen
  <2>3. ASSUME NEW j \in 1 .. i PROVE Clear(t, j)
    <3>1. CASE j = i
      BY <1>5, <3>1 DEF Clear, IsScalar, ScalarKinds
    <3>2. CASE j # i
      <4>1. j \in 1 .. i - 1
        BY <1>0, <3>2
      <4> QED BY <2>2, <4>1
    <3> QED BY <3>1, <3>2
  <2> HIDE DEF next
  <2> QED BY <1>5, <2>1, <2>2, <2>3 DEF Seen
<1> QED BY <1>1, <1>2, <1>3, <1>4, <1>5, MemberTypes DEF IsScalar

\* AnalyzeType throws for every type with a wide string that is not hidden.
LEMMA SightsTypes ==
  ASSUME NEW lang \in Langs, NEW analyze, Analysis(lang, analyze)
  PROVE  \A t \in Types : Sights(analyze, t)
<1> DEFINE T == {t \in Types : Sights(analyze, t)}
<1>1. ASSUME NEW t \in Types, \A u \in Types : Depth[u] < Depth[t] => u \in T
      PROVE  t \in T
  <2> DEFINE n == Len(Members[t])
  <2> SUFFICES ASSUME NEW s \in Statics, Sighted(s), ~s.threw
               PROVE  /\ Sighted(analyze[t][s])
                      /\ analyze[t][s].threw \/ (HasWide[t] => Hidden[t])
    BY DEF Sights
  <2>0. n \in Nat /\ DOMAIN Members[t] = 1 .. n
    BY MemberCount
  <2>1. CASE AlreadyAnalyzed(s, t)
    <3>1. analyze[t][s] = s
      BY <2>1 DEF Analysis
    <3> QED BY <2>1, <3>1 DEF AlreadyAnalyzed, Sighted
  <2>2. CASE ~AlreadyAnalyzed(s, t)
    <3>1. analyze[t][s] = Recorded(lang, t, AnalyzeMembers(analyze, lang, t, s))
      BY <2>2 DEF Analysis
    <3>2. AnalyzesBelow(analyze, t)
      BY DEF Analysis, AnalyzesBelow
    <3>3. PICK scan : Scan(analyze, lang, t, s, scan)
      BY <3>2, AnalyzeMembersScan
    <3> DEFINE L == {i \in Nat : i <= n => Seen(t, i, scan[i])}
    <3>4. 0 \in L
      BY <3>3 DEF Scan, ScanStart, Seen
    <3>5. ASSUME NEW i \in Nat, i \in L PROVE i + 1 \in L
      <4> SUFFICES ASSUME i + 1 <= n PROVE Seen(t, i + 1, scan[i + 1])
        OBVIOUS
      <4>1. i + 1 \in 1 .. n /\ (i + 1) - 1 = i /\ i <= n /\ i \in 0 .. n
        BY <2>0
      <4>2. Seen(t, i, scan[i]) /\ scan[i] \in Scans
        BY <3>3, <3>5, <4>1 DEF Scan
      <4>3. scan[i + 1] = AnalyzeMember(analyze, lang, t, i + 1, scan[i])
        BY <3>3, <4>1 DEF Scan
      <4> HIDE DEF T, L, n
      <4>4. \A u \in Types : Depth[u] < Depth[t] => Sights(analyze, u)
        BY <1>1 DEF T
      <4> QED BY <2>0, <4>1, <4>2, <4>3, <4>4, SeenMember
    <3>6. n \in L
      <4>1. Nat \subseteq L
        <5> HIDE DEF L
        <5> QED BY <3>4, <3>5, Induction
      <4> QED BY <4>1, <2>0
    <3> DEFINE last == scan[n]
    <3>7. Seen(t, n, last) /\ last \in Scans /\ last = AnalyzeMembers(analyze, lang, t, s)
      BY <2>0, <3>3, <3>6 DEF Scan
    <3> HIDE DEF last, L
    <3>8. last.left \in BOOLEAN /\ last.statics \in Statics /\ last.statics.threw \in BOOLEAN
      BY <3>7 DEF Scans, Statics
    <3>9. ASSUME ~last.statics.threw, HasWide[t] PROVE Hidden[t]
      <4>1. PICK j \in DOMAIN Members[t] :
              \/ Members[t][j].kind = "wide"
              \/ Members[t][j].kind = "message" /\ HasWide[Members[t][j].sub]
        BY <3>9, HasWideEquation
      <4>2. CASE Clear(t, j)
        <5>1. Members[t][j].kind = "message" /\ Hidden[Members[t][j].sub]
          BY <4>1, <4>2 DEF Clear
        <5> QED BY <5>1, HiddenEquation
      <4>3. CASE ~Clear(t, j)
        <5>1. last.left
          BY <2>0, <3>7, <3>8, <3>9, <4>3 DEF Seen
        <5>2. PICK k \in 1 .. n : /\ Members[t][k].kind = "string"
                                  /\ \A l \in 1 .. k - 1 : Clear(t, l)
          BY <3>7, <3>9, <5>1 DEF Seen
        <5>3. j # k /\ ~(j < k)
          BY <2>0, <4>1, <4>3, <5>2
        <5>4. k \in 1 .. j - 1
          BY <2>0, <5>3
        <5> QED BY <4>1, <5>2, <5>4, HiddenEquation
      <4> QED BY <4>2, <4>3
    <3>10. Sighted(last.statics)
      BY <3>7 DEF Seen
    <3>11. CASE last.left
      <4>1. analyze[t][s] = last.statics
        BY <3>1, <3>7, <3>11 DEF Recorded
      <4> QED BY <3>8, <3>9, <3>10, <4>1
    <3>12. CASE ~last.left
      <4>1. ~last.statics.threw
        BY <3>7, <3>12 DEF Seen
      <4>2. analyze[t][s].analyzed = last.statics.analyzed \cup {t}
        BY <3>1, <3>7, <3>8, <3>12
           DEF Recorded, SetAnalyzed, SetMemcopyable, Statics
      <4>3. Sighted(analyze[t][s])
        BY <3>9, <3>10, <4>1, <4>2 DEF Sighted
      <4> QED BY <3>9, <4>1, <4>3
    <3> QED BY <3>8, <3>11, <3>12
  <2> QED BY <2>1, <2>2
<1> HIDE DEF T
<1>2. Types \subseteq T
  BY <1>1, TypesInduction
<1> QED BY <1>2 DEF T

-----------------------------------------------------------------------------
(* What the analysis takes for memcopyable is solid.                       *)

\* A char is not in front of padding, where the C analysis looks.
CharsFit(lang) ==
  lang = "c" => \A t \in Types : \A i \in DOMAIN Members[t] :
                  Members[t][i].kind = "char" => Gap("c", t, i + 1) = 0

\* What the analysis takes for the size of a member.
Weight(lang, m) ==
  IF IsScalar(m) THEN Counted(lang)[m.kind] ELSE SizeOf(lang, m.sub)

\* Every type that is copied whole is solid.
Sound(lang, s) == \A t \in s.memcopyable : Solid(lang, s.memcopyable, t)

\* What a turn of the loop, begun with s, knows of the members it has passed.
Copied(lang, t, s, i, scan) ==
  /\ Sound(lang, scan.statics)
  /\ s.memcopyable \subseteq scan.statics.memcopyable
  /\ ~scan.left /\ scan.memcpyable =>
       /\ scan.actual = IF i = 0 THEN 0
                        ELSE Offset(lang, t, i) + Weight(lang, Members[t][i])
       /\ \A j \in 1 .. i :
            /\ Gap(lang, t, j) = 0
            /\ ~IsDynamic(Members[t][j])
            /\ \/ IsScalar(Members[t][j])
               \/ /\ Members[t][j].kind = "message"
                  /\ Members[t][j].sub \in scan.statics.memcopyable

\* AnalyzeType of type t leaves sets sound and forgets no type.
Preserves(lang, analyze, t) ==
  \A s \in Statics : Sound(lang, s) =>
    /\ Sound(lang, analyze[t][s])
    /\ s.memcopyable \subseteq analyze[t][s].memcopyable

\* A positive number of elements takes no less room than one.
LEMMA Times ==
  ASSUME NEW n \in Nat, n > 0, NEW e \in Nat
  PROVE  n * e \in Nat /\ n * e >= e
<1>1. n * e = e + (n - 1) * e
  OBVIOUS
<1>2. (n - 1) * e >= 0 /\ (n - 1) * e \in Int
  OBVIOUS
<1> QED BY <1>1, <1>2

\* Where the analysis finds that a member starts at the end of the one before
\* it, as it counts it, there is no padding.  With chars in front of padding
\* this fails in C, where a char counts as much as a float.
LEMMA NoGap ==
  ASSUME NEW lang \in Langs, CharsFit(lang), NEW t \in Types,
         NEW i \in 0 .. Len(Members[t]),
         (IF i + 1 > Len(Members[t]) THEN SizeOf(lang, t) ELSE Offset(lang, t, i + 1)) =
           (IF i = 0 THEN 0 ELSE Offset(lang, t, i) + Weight(lang, Members[t][i])),
         i > 0 => /\ ~IsDynamic(Members[t][i])
                  /\ IsScalar(Members[t][i]) \/ Members[t][i].kind = "message"
  PROVE  Gap(lang, t, i + 1) = 0
<1>0. Len(Members[t]) \in Nat /\ DOMAIN Members[t] = 1 .. Len(Members[t])
  BY MemberCount
<1>1. CASE i = 0
  BY <1>0, <1>1 DEF Gap
<1>2. CASE i # 0
  <2> DEFINE m == Members[t][i]
             e == ElementSize(lang, t, i)
             o == Offset(lang, t, i)
  <2>1. i \in DOMAIN Members[t] /\ i + 1 \in 1 .. Len(Members[t]) + 1
    BY <1>0, <1>2
  <2>2. o \in Nat /\ e \in Nat /\ Gap(lang, t, i + 1) >= 0
    BY <2>1, Sizes
  <2>3. CASE m.kind = "char" /\ lang = "c"
    BY <2>1, <2>3 DEF CharsFit
  <2>4. CASE ~(m.kind = "char" /\ lang = "c")
    <3>1. Weight(lang, m) = e
      <4>1. CASE IsScalar(m)
        <5>1. Counted(lang)[m.kind] = Width[m.kind]
          BY <2>4, <4>1, CountedType DEF IsScalar, Langs
        <5> QED BY <2>1, <4>1, <5>1, Sizes DEF Weight
      <4>2. CASE ~IsScalar(m) /\ m.kind = "message"
        BY <2>1, <4>2, Sizes DEF Weight
      <4> QED BY <1>2, <4>1, <4>2
    <3> DEFINE p == IF i + 1 > Len(Members[t]) THEN SizeOf(lang, t)
                    ELSE Offset(lang, t, i + 1)
               z == End(lang, t, i)
    <3>2. Gap(lang, t, i + 1) = p - z
      <4>1. i + 1 # 1 /\ (i + 1) - 1 = i
        BY <1>2
      <4> QED BY <4>1 DEF Gap
    <3>3. p = o + e
      BY <1>2, <3>1
    <3>4. z \in Nat /\ z >= o + e
      <4>1. CASE IsStatic(m)
        <5>1. m.count \in Nat /\ m.count > 0
          BY <2>1, <4>1, MemberTypes DEF IsStatic
        <5>2. m.count * e \in Nat /\ m.count * e >= e
          BY <2>2, <5>1, Times
        <5>3. z = o + m.count * e
          BY <1>2, <4>1 DEF End
        <5> HIDE DEF o, e, m, z
        <5> QED BY <2>2, <5>2, <5>3
      <4>2. CASE ~IsStatic(m)
        <5>1. z = o + e
          BY <1>2, <4>2 DEF End
        <5> HIDE DEF o, e, m, z
        <5> QED BY <2>2, <5>1
      <4> QED BY <4>1, <4>2
    <3> HIDE DEF o, e, p, z
    <3> QED BY <2>2, <3>2, <3>3, <3>4
  <2> QED BY <2>3, <2>4
<1> QED BY <1>1, <1>2

\* One more member seen: what was true of those before it is true of it.
LEMMA CopiedMember ==
  ASSUME NEW lang \in Langs, CharsFit(lang), NEW analyze, Analysis(lang, analyze),
         NEW t \in Types, NEW s \in Statics,
         \A u \in Types : Depth[u] < Depth[t] => Preserves(lang, analyze, u),
         NEW i \in DOMAIN Members[t], NEW scan \in Scans,
         Copied(lang, t, s, i - 1, scan)
  PROVE  Copied(lang, t, s, i, AnalyzeMember(analyze, lang, t, i, scan))
<1> DEFINE m == Members[t][i]
           next == AnalyzeMember(analyze, lang, t, i, scan)
           solid == scan.memcpyable /\ Offset(lang, t, i) = scan.actual /\ ~IsDynamic(m)
<1> SUFFICES Copied(lang, t, s, i, next)
  OBVIOUS
<1>0. /\ i \in 1 .. Len(Members[t]) /\ Len(Members[t]) \in Nat
      /\ scan.left \in BOOLEAN /\ scan.memcpyable \in BOOLEAN /\ scan.statics \in Statics
      /\ Sound(lang, scan.statics) /\ s.memcopyable \subseteq scan.statics.memcopyable
  BY MemberCount DEF Scans, Copied
\* As long as all members are solid, the next one follows without a gap.
<1>1. ASSUME ~scan.left, solid, IsScalar(m) \/ m.kind = "message"
      PROVE  \A j \in 1 .. i :
               /\ Gap(lang, t, j) = 0
               /\ ~IsDynamic(Members[t][j])
               /\ \/ IsScalar(Members[t][j])
                  \/ /\ Members[t][j].kind = "message"
                     /\ j < i => Members[t][j].sub \in scan.statics.memcopyable
  <2>1. /\ scan.actual = IF i - 1 = 0 THEN 0
                         ELSE Offset(lang, t, i - 1) + Weight(lang, Members[t][i - 1])
        /\ \A j \in 1 .. i - 1 :
             /\ Gap(lang, t, j) = 0
             /\ ~IsDynamic(Members[t][j])
             /\ \/ IsScalar(Members[t][j])
                \/ /\ Members[t][j].kind = "message"
                   /\ Members[t][j].sub \in scan.statics.memcopyable
    BY <1>1 DEF Copied
  <2> DEFINE before == i - 1
  <2>2. before \in 0 .. Len(Members[t]) /\ before + 1 = i /\ ~(i > Len(Members[t]))
    BY <1>0
  <2>3. before > 0 => before \in 1 .. i - 1
    BY <1>0
  <2>4. (IF before + 1 > Len(Members[t]) THEN SizeOf(lang, t) ELSE Offset(lang, t, before + 1))
          = (IF before = 0 THEN 0 ELSE Offset(lang, t, before) + Weight(lang, Members[t][before]))
    BY <1>1, <2>1, <2>2
  <2>5. before > 0 => /\ ~IsDynamic(Members[t][before])
                      /\ IsScalar(Members[t][before]) \/ Members[t][before].kind = "message"
    BY <2>1, <2>3
  <2> HIDE DEF before
  <2>6. Gap(lang, t, i) = 0
    BY <2>2, <2>4, <2>5, NoGap
  <2>7. \A j \in 1 .. i : j = i \/ (j \in 1 .. i - 1 /\ j < i)
    BY <1>0
  <2> QED BY <1>1, <2>1, <2>6, <2>7
<1>2. CASE scan.left
  <2>1. next = scan
    BY <1>2 DEF AnalyzeMember
  <2> HIDE DEF next
  <2> QED BY <1>0, <1>2, <2>1 DEF Copied
<1>3. CASE ~scan.left /\ m.kind = "string"
  <2>1. next = [scan EXCEPT !.left = TRUE]
    BY <1>3 DEF AnalyzeMember, IsScalar, ScalarKinds
  <2>2. next.left /\ next.statics = scan.statics
    BY <2>1 DEF Scans
  <2> HIDE DEF next
  <2> QED BY <1>0, <2>2 DEF Copied
<1>4. CASE ~scan.left /\ m.kind = "wide"
  <2>1. next = Unsupported(scan)
    BY <1>4 DEF AnalyzeMember, IsScalar, ScalarKinds
  <2>2. next.left /\ next.statics = [scan.statics EXCEPT !.threw = TRUE]
    BY <2>1 DEF Scans, Unsupported
  <2>3. next.statics.memcopyable = scan.statics.memcopyable
    BY <1>0, <2>2 DEF Statics
  <2> HIDE DEF next
  <2> QED BY <1>0, <2>2, <2>3 DEF Copied, Sound
<1>5. CASE ~scan.left /\ m.kind = "message"
  <2> DEFINE inner == analyze[m.sub][scan.statics]
  <2>1. m.sub \in Types /\ Depth[m.sub] < Depth[t]
    BY <1>5, MemberTypes
  <2>2. Sound(lang, inner) /\ scan.statics.memcopyable \subseteq inner.memcopyable
    BY <1>0, <2>1 DEF Preserves
  <2>3. next = Entered(lang, m, scan, solid, inner)
    BY <1>5 DEF AnalyzeMember, IsScalar, ScalarKinds
  <2>4. /\ next.statics = inner
        /\ next.memcpyable = (solid /\ m.sub \in inner.memcopyable)
        /\ next.actual = scan.actual + IF m.sub \in inner.memcopyable
                                       THEN SizeOf(lang, m.sub) ELSE 0
    BY <2>3 DEF Entered, IsMemcopyable
  <2> HIDE DEF next, inner
  <2>5. ASSUME ~next.left, next.memcpyable
        PROVE  /\ next.actual = Offset(lang, t, i) + Weight(lang, m)
               /\ \A j \in 1 .. i :
                    /\ Gap(lang, t, j) = 0
                    /\ ~IsDynamic(Members[t][j])
                    /\ \/ IsScalar(Members[t][j])
                       \/ /\ Members[t][j].kind = "message"
                          /\ Members[t][j].sub \in inner.memcopyable
    <3>1. solid /\ m.sub \in inner.memcopyable
      BY <2>4, <2>5
    <3>2. next.actual = Offset(lang, t, i) + Weight(lang, m)
      BY <1>5, <2>4, <3>1 DEF Weight, IsScalar, ScalarKinds
    <3>3. \A j \in 1 .. i : j = i \/ j < i
      BY <1>0
    <3> QED BY <1>1, <1>5, <2>2, <3>1, <3>2, <3>3
  <2>6. i # 0
    BY <1>0
  <2> QED BY <1>0, <2>2, <2>4, <2>5, <2>6 DEF Copied
<1>6. CASE ~scan.left /\ IsScalar(m)
  <2>1. next = [scan EXCEPT !.memcpyable = solid, !.actual = @ + Counted(lang)[m.kind]]
    BY <1>6 DEF AnalyzeMember, IsScalar, ScalarKinds
  <2>2. /\ next.statics = scan.statics
        /\ next.memcpyable = solid
        /\ next.actual = scan.actual + Counted(lang)[m.kind]
    BY <2>1 DEF Scans
  <2> HIDE DEF next
  <2>3. ASSUME ~next.left, next.memcpyable
        PROVE  /\ next.actual = Offset(lang, t, i) + Weight(lang, m)
               /\ \A j \in 1 .. i :
                    /\ Gap(lang, t, j) = 0
                    /\ ~IsDynamic(Members[t][j])
                    /\ \/ IsScalar(Members[t][j])
                       \/ /\ Members[t][j].kind = "message"
                          /\ Members[t][j].sub \in scan.statics.memcopyable
    <3>1. solid
      BY <2>2, <2>3
    <3>2. next.actual = Offset(lang, t, i) + Weight(lang, m)
      BY <1>6, <2>2, <3>1 DEF Weight
    <3>3. \A j \in 1 .. i : j = i \/ j < i
      BY <1>0
    <3> QED BY <1>1, <1>6, <3>1, <3>2, <3>3
  <2>4. i # 0
    BY <1>0
  <2> QED BY <1>0, <2>2, <2>3, <2>4 DEF Copied
<1> QED BY <1>2, <1>3, <1>4, <1>5, <1>6, MemberTypes DEF IsScalar

\* AnalyzeType takes only solid types for memcopyable.
LEMMA PreservesTypes ==
  ASSUME NEW lang \in Langs, CharsFit(lang), NEW analyze, Analysis(lang, analyze)
  PROVE  \A t \in Types : Preserves(lang, analyze, t)
<1> DEFINE T == {t \in Types : Preserves(lang, analyze, t)}
<1>1. ASSUME NEW t \in Types, \A u \in Types : Depth[u] < Depth[t] => u \in T
      PROVE  t \in T
  <2> DEFINE n == Len(Members[t])
  <2> SUFFICES ASSUME NEW s \in Statics, Sound(lang, s)
               PROVE  /\ Sound(lang, analyze[t][s])
                      /\ s.memcopyable \subseteq analyze[t][s].memcopyable
    BY DEF Preserves
  <2>0. n \in Nat /\ DOMAIN Members[t] = 1 .. n
    BY MemberCount
  <2>1. CASE AlreadyAnalyzed(s, t)
    <3>1. analyze[t][s] = s
      BY <2>1 DEF Analysis
    <3> QED BY <3>1
  <2>2. CASE ~AlreadyAnalyzed(s, t)
    <3>1. analyze[t][s] = Recorded(lang, t, AnalyzeMembers(analyze, lang, t, s))
      BY <2>2 DEF Analysis
    <3>2. AnalyzesBelow(analyze, t)
      BY DEF Analysis, AnalyzesBelow
    <3>3. PICK scan : Scan(analyze, lang, t, s, scan)
      BY <3>2, AnalyzeMembersScan
    <3> DEFINE L == {i \in Nat : i <= n => Copied(lang, t, s, i, scan[i])}
    <3>4. 0 \in L
      BY <3>3 DEF Scan, ScanStart, Copied
    <3>5. ASSUME NEW i \in Nat, i \in L PROVE i + 1 \in L
      <4> SUFFICES ASSUME i + 1 <= n PROVE Copied(lang, t, s, i + 1, scan[i + 1])
        OBVIOUS
      <4>1. i + 1 \in 1 .. n /\ (i + 1) - 1 = i /\ i <= n /\ i \in 0 .. n
        BY <2>0
      <4>2. Copied(lang, t, s, i, scan[i]) /\ scan[i] \in Scans
        BY <3>3, <3>5, <4>1 DEF Scan
      <4>3. scan[i + 1] = AnalyzeMember(analyze, lang, t, i + 1, scan[i])
        BY <3>3, <4>1 DEF Scan
      <4> HIDE DEF T, L, n
      <4>4. \A u \in Types : Depth[u] < Depth[t] => Preserves(lang, analyze, u)
        BY <1>1 DEF T
      <4> QED BY <2>0, <4>1, <4>2, <4>3, <4>4, CopiedMember
    <3>6. n \in L
      <4>1. Nat \subseteq L
        <5> HIDE DEF L
        <5> QED BY <3>4, <3>5, Induction
      <4> QED BY <4>1, <2>0
    <3> DEFINE last == scan[n]
               fast == last.statics.memcopyable
    <3>7. /\ Copied(lang, t, s, n, last)
          /\ last \in Scans
          /\ last = AnalyzeMembers(analyze, lang, t, s)
      BY <2>0, <3>3, <3>6 DEF Scan
    <3> HIDE DEF last, L
    <3>8. last.left \in BOOLEAN /\ last.statics \in Statics
      BY <3>7 DEF Scans
    <3>9. Sound(lang, last.statics) /\ s.memcopyable \subseteq fast
      BY <3>7 DEF Copied
    <3>10. CASE last.left
      <4>1. analyze[t][s] = last.statics
        BY <3>1, <3>7, <3>10 DEF Recorded
      <4> QED BY <3>9, <4>1
    <3>11. CASE ~last.left /\ ~Unpadded(lang, t, last)
      <4>1. analyze[t][s].memcopyable = fast
        BY <3>1, <3>7, <3>8, <3>11 DEF Recorded, SetAnalyzed, Statics
      <4> QED BY <3>9, <4>1 DEF Sound
    <3>12. CASE ~last.left /\ Unpadded(lang, t, last)
      <4>1. analyze[t][s].memcopyable = fast \cup {t}
        BY <3>1, <3>7, <3>8, <3>12 DEF Recorded, SetAnalyzed, SetMemcopyable, Statics
      <4>2. /\ SizeOf(lang, t) = IF n = 0 THEN 0
                                 ELSE Offset(lang, t, n) + Weight(lang, Members[t][n])
            /\ \A j \in 1 .. n :
                 /\ Gap(lang, t, j) = 0
                 /\ ~IsDynamic(Members[t][j])
                 /\ \/ IsScalar(Members[t][j])
                    \/ /\ Members[t][j].kind = "message"
                       /\ Members[t][j].sub \in fast
        BY <3>7, <3>12 DEF Copied, Unpadded
      <4>3. n > 0 => n \in 1 .. n
        BY <2>0
      <4>4. n \in 0 .. Len(Members[t]) /\ n + 1 > Len(Members[t])
        BY <2>0
      <4>5. Gap(lang, t, n + 1) = 0
        <5> HIDE DEF fast
        <5>1. n > 0 => /\ ~IsDynamic(Members[t][n])
                       /\ IsScalar(Members[t][n]) \/ Members[t][n].kind = "message"
          BY <4>2, <4>3
        <5> QED BY <4>2, <4>4, <5>1, NoGap
      <4>6. \A j \in 1 .. n + 1 : j \in 1 .. n \/ j = n + 1
        BY <2>0
      <4>7. Solid(lang, fast \cup {t}, t)
        BY <2>0, <4>2, <4>5, <4>6 DEF Solid
      <4>8. \A u \in fast : Solid(lang, fast \cup {t}, u)
        BY <3>9 DEF Sound, Solid
      <4> QED BY <3>9, <4>1, <4>7, <4>8 DEF Sound
    <3> QED BY <3>8, <3>10, <3>11, <3>12
  <2> QED BY <2>1, <2>2
<1> HIDE DEF T
<1>2. Types \subseteq T
  BY <1>1, TypesInduction
<1> QED BY <1>2 DEF T

-----------------------------------------------------------------------------
(* Streams.                                                                *)

\* The turns of FlattenSeq's loop.
Flattens(seqs, flat) ==
  /\ flat[0] = <<>>
  /\ \A i \in 1 .. Len(seqs) : flat[i] = flat[i - 1] \o seqs[i]
  /\ FlattenSeq(seqs) = flat[Len(seqs)]

\* FlattenSeq goes through the sequences one after the other.
LEMMA Flatten ==
  ASSUME NEW S, NEW seqs \in Seq(Seq(S))
  PROVE  \E flat \in [0 .. Len(seqs) -> Seq(S)] : Flattens(seqs, flat)
<1> DEFINE n == Len(seqs)
           I == 1 .. n
           Rank == [i \in I |-> i]
           D == [I -> Seq(S)]
           Body(f, i) == IF i = 1 THEN seqs[i] ELSE f[i - 1] \o seqs[i]
           G == [f \in D |-> [i \in I |-> Body(f, i)]]
           Is(f) == f = [i \in I |-> Body(f, i)]
           flatten == CHOOSE f : Is(f)
           flat == [i \in 0 .. n |-> IF i = 0 THEN <<>> ELSE flatten[i]]
<1>0. n \in Nat /\ \A i \in I : seqs[i] \in Seq(S)
  OBVIOUS
<1>1. ASSUME NEW f, NEW i \in I, i # 1 => f[i - 1] \in Seq(S)
      PROVE  Body(f, i) \in Seq(S)
  BY <1>0, <1>1
<1>2. Maps(D, G)
  <2>1. ASSUME NEW f \in D, NEW i \in I PROVE Body(f, i) \in Seq(S)
    <3>1. i # 1 => i - 1 \in I
      BY <1>0
    <3> HIDE DEF Body
    <3> QED BY <1>1, <3>1
  <2> HIDE DEF Body
  <2> QED BY <2>1 DEF Maps
<1>3. Ranked(I, Rank)
  BY <1>0 DEF Ranked
<1>4. Contracts(I, Rank, D, G)
  <2> SUFFICES ASSUME NEW f \in D, NEW g \in D, NEW i \in I, SameBelow(I, Rank, f, g, i)
               PROVE  G[f][i] = G[g][i]
    BY DEF Contracts
  <2>1. CASE i = 1 BY <2>1
  <2>2. CASE i # 1
    <3>1. i - 1 \in I /\ Rank[i - 1] < Rank[i]
      BY <1>0, <2>2
    <3>2. f[i - 1] = g[i - 1]
      BY <3>1 DEF SameBelow
    <3> QED BY <3>2
  <2> QED BY <2>1, <2>2
<1>5. Solved(D, G)
  <2>1. Seq(S) # {}
    BY EmptySeq
  <2> HIDE DEF I, Rank, G
  <2> QED BY <2>1, <1>2, <1>3, <1>4, RecursionInto
<1>6. Is(flatten)
  <2>1. \E f : Is(f)
    BY <1>5 DEF Solved
  <2> HIDE DEF Is
  <2> QED BY <2>1
<1>7. FlattenSeq(seqs) = IF n = 0 THEN seqs ELSE flatten[n]
  BY DEF FlattenSeq
<1> HIDE DEF flatten
<1>8. \A i \in I : flatten[i] = Body(flatten, i)
  BY <1>6
<1>9. \A i \in 1 .. n : flat[i] = flat[i - 1] \o seqs[i]
  <2> SUFFICES ASSUME NEW i \in 1 .. n PROVE flat[i] = flat[i - 1] \o seqs[i]
    OBVIOUS
  <2>1. CASE i = 1
    <3>1. flat[i - 1] = <<>> /\ flat[i] = seqs[i]
      BY <1>0, <1>8, <2>1
    <3>2. <<>> \o seqs[i] = seqs[i]
      BY <1>0
    <3> QED BY <3>1, <3>2
  <2>2. CASE i # 1
    <3>1. i - 1 \in 0 .. n /\ i - 1 # 0 /\ i \in 0 .. n /\ i # 0
      BY <1>0, <2>2
    <3> QED BY <1>8, <2>2, <3>1
  <2> QED BY <2>1, <2>2
<1>10. flat[0] = <<>>
  BY <1>0
<1>11. FlattenSeq(seqs) = flat[n]
  <2>1. CASE n = 0
    <3>1. seqs = <<>>
      BY <2>1
    <3> QED BY <1>7, <1>10, <2>1, <3>1
  <2>2. CASE n # 0
    BY <1>0, <1>7, <2>2
  <2> QED BY <2>1, <2>2
<1>12. \A i \in 0 .. n : flat[i] \in Seq(S)
  <2> DEFINE T == {i \in Nat : i <= n => flat[i] \in Seq(S)}
  <2> HIDE DEF flat
  <2>1. 0 \in T
    <3>1. flat[0] \in Seq(S)
      BY <1>10, EmptySeq
    <3> QED BY <3>1
  <2>2. ASSUME NEW i \in Nat, i \in T PROVE i + 1 \in T
    <3> SUFFICES ASSUME i + 1 <= n PROVE flat[i + 1] \in Seq(S)
      OBVIOUS
    <3>1. i + 1 \in 1 .. n /\ (i + 1) - 1 = i /\ i <= n
      BY <1>0
    <3>2. flat[i] \in Seq(S) /\ seqs[i + 1] \in Seq(S)
      BY <1>0, <2>2, <3>1
    <3>3. flat[i + 1] = flat[i] \o seqs[i + 1]
      BY <1>9, <3>1
    <3> QED BY <3>2, <3>3
  <2>3. Nat \subseteq T
    <3> HIDE DEF T
    <3> QED BY <2>1, <2>2, Induction
  <2> QED BY <2>3, <1>0
<1>13. flat \in [0 .. n -> Seq(S)]
  <2>1. flat = [i \in 0 .. n |-> flat[i]]
    BY <1>0
  <2> HIDE DEF flat
  <2> QED BY <1>12, <2>1
<1>14. Flattens(seqs, flat)
  BY <1>9, <1>10, <1>11 DEF Flattens
<1> HIDE DEF flat
<1> QED BY <1>13, <1>14

\* Streams that are joined are a stream.
LEMMA FlattenType ==
  ASSUME NEW S, NEW seqs \in Seq(Seq(S))
  PROVE  FlattenSeq(seqs) \in Seq(S)
<1>1. PICK flat \in [0 .. Len(seqs) -> Seq(S)] : Flattens(seqs, flat)
  BY Flatten
<1>2. Len(seqs) \in 0 .. Len(seqs)
  OBVIOUS
<1> QED BY <1>1, <1>2 DEF Flattens

-----------------------------------------------------------------------------
\* The cells of a stream.
Cells == [width : Nat, tag : {"data", "size", "padding", "pointer"}, x : Int]

\* What is written first of all is a stream.
LEMMA CellTypes ==
  /\ Streams = Seq(Cells)
  /\ <<>> \in Streams
  /\ \A w \in Nat, x \in Int, tag \in {"data", "size", "padding", "pointer"} :
       Cell(w, tag, x) \in Cells /\ <<Cell(w, tag, x)>> \in Streams
  /\ \A k \in ScalarKinds, x \in Int : Scalar(k, x) \in Streams
  /\ \A n \in Nat : ArraySize(n) \in Streams /\ Padding(n) \in Streams
  /\ \A s \in Seq(Int) : [k \in DOMAIN s |-> Cell(Width.char, "data", s[k])] \in Streams
<1>1. Streams = Seq(Cells) /\ <<>> \in Streams
  BY DEF Streams, Cells
<1>2. ASSUME NEW w \in Nat, NEW x \in Int, NEW tag \in {"data", "size", "padding", "pointer"}
      PROVE  Cell(w, tag, x) \in Cells /\ <<Cell(w, tag, x)>> \in Streams
  <2>1. Cell(w, tag, x) \in Cells
    BY DEF Cell, Cells
  <2> QED BY <1>1, <2>1
<1>3. \A k \in ScalarKinds : Width[k] \in Nat
  BY DEF ScalarKinds, Width
<1>4. \A k \in ScalarKinds, x \in Int : Scalar(k, x) \in Streams
  BY <1>2, <1>3 DEF Scalar
<1>5. \A n \in Nat : ArraySize(n) \in Streams /\ Padding(n) \in Streams
  BY <1>1, <1>2 DEF ArraySize, Padding
<1>6. ASSUME NEW s \in Seq(Int)
      PROVE  [k \in DOMAIN s |-> Cell(Width.char, "data", s[k])] \in Streams
  <2>1. Width.char \in Nat
    BY DEF Width
  <2>2. ASSUME NEW k \in DOMAIN s PROVE Cell(Width.char, "data", s[k]) \in Cells
    <3>1. s[k] \in Int
      OBVIOUS
    <3> QED BY <1>2, <2>1, <3>1
  <2>3. DOMAIN s = 1 .. Len(s) /\ Len(s) \in Nat
    OBVIOUS
  <2> HIDE DEF Cells
  <2> QED BY <1>1, <2>2, <2>3
<1> QED BY <1>1, <1>2, <1>4, <1>5, <1>6

-----------------------------------------------------------------------------
(* The memory of a message.                                                *)

\* As many streams as there are elements join to one.
LEMMA JoinType ==
  ASSUME NEW n \in Nat, NEW e \in [1 .. n -> Streams]
  PROVE  FlattenSeq(e) \in Streams
<1>1. e \in Seq(Seq(Cells))
  BY CellTypes
<1> QED BY <1>1, FlattenType, CellTypes

\* The value of a member is what its declaration says.
LEMMA ValueTypes ==
  ASSUME NEW t \in Types, NEW v \in Values[t], NEW i \in DOMAIN Members[t]
  PROVE  LET m == Members[t][i]
         IN  /\ IsStatic(m) => v[i] \in [1 .. m.count -> OneValue(m)]
             /\ IsDynamic(m) => v[i] \in Seq(OneValue(m))
             /\ ~IsStatic(m) /\ ~IsDynamic(m) => v[i] \in OneValue(m)
             /\ IsScalar(m) => OneValue(m) = Int
             /\ m.kind = "wide" => OneValue(m) = Int
             /\ m.kind = "string" => OneValue(m) = Seq(Int)
             /\ m.kind = "message" => OneValue(m) = Values[m.sub]
<1>1. v[i] \in MemberValues(Members[t][i])
  BY ValuesAssumption
<1>2. IsStatic(Members[t][i]) => ~IsDynamic(Members[t][i])
  BY DEF IsStatic, IsDynamic
<1> QED BY <1>1, <1>2 DEF MemberValues, OneValue, IsScalar, ScalarKinds

\* f writes the messages that nest less deep than those of type t.
WritesBelow(f, t) ==
  \A u \in Types : Depth[u] < Depth[t] => f[u] \in [Values[u] -> Streams]

\* Functions that write messages of any type.
Writers == Dependent(Types, [u \in Types |-> [Values[u] -> Streams]])

\* A writer writes streams, of messages of any type it may nest.
LEMMA WriterTypes ==
  /\ \A f \in Writers : \A u \in Types : f[u] \in [Values[u] -> Streams]
  /\ \A f \in Writers : \A t \in Types : WritesBelow(f, t)
  /\ \A f : f = [u \in Types |-> f[u]] /\ (\A u \in Types : f[u] \in [Values[u] -> Streams])
              => f \in Writers
  /\ Inhabited(Types, [u \in Types |-> [Values[u] -> Streams]])
<1> DEFINE V == [u \in Types |-> [Values[u] -> Streams]]
<1>1. \A f \in Writers : \A u \in Types : f[u] \in [Values[u] -> Streams]
  BY DEF Writers, Dependent
<1>2. \A f \in Writers : \A t \in Types : WritesBelow(f, t)
  BY <1>1 DEF WritesBelow
<1>3. ASSUME NEW f, f = [u \in Types |-> f[u]],
             \A u \in Types : f[u] \in [Values[u] -> Streams]
      PROVE  f \in Writers
  <2>1. \A u \in Types : f[u] \in V[u]
    BY <1>3
  <2>2. f \in [Types -> UNION {V[u] : u \in Types}]
    BY <1>3, <2>1
  <2> QED BY <2>1, <2>2 DEF Writers, Dependent
<1>4. ASSUME NEW u \in Types PROVE V[u] # {}
  <2>1. [x \in Values[u] |-> <<>>] \in [Values[u] -> Streams]
    BY CellTypes
  <2> QED BY <2>1
<1> QED BY <1>1, <1>2, <1>3, <1>4 DEF Inhabited

-----------------------------------------------------------------------------
\* The memory of one element is a stream.
LEMMA ImageSingleType ==
  ASSUME NEW lang \in Langs, NEW t \in Types, NEW f, WritesBelow(f, t),
         NEW i \in DOMAIN Members[t], NEW x \in OneValue(Members[t][i])
  PROVE  ImageSingle(f, lang, t, i, x) \in Streams
<1> DEFINE m == Members[t][i]
<1>1. CASE IsScalar(m)
  <2>1. x \in Int
    BY <1>1 DEF OneValue, IsScalar, ScalarKinds
  <2>2. ImageSingle(f, lang, t, i, x) = Scalar(m.kind, x)
    BY <1>1 DEF ImageSingle, IsScalar, ScalarKinds
  <2>3. m.kind \in ScalarKinds
    BY <1>1 DEF IsScalar
  <2> HIDE DEF m
  <2> QED BY <2>1, <2>2, <2>3, CellTypes
<1>2. CASE ~IsScalar(m) /\ m.kind = "message"
  <2>1. x \in Values[m.sub] /\ f[m.sub] \in [Values[m.sub] -> Streams]
    BY <1>2, MemberTypes DEF OneValue, WritesBelow
  <2> QED BY <1>2, <2>1 DEF ImageSingle
<1>3. CASE ~IsScalar(m) /\ m.kind # "message"
  <2>1. ElementSize(lang, t, i) \in Nat
    BY Sizes
  <2>2. <<Cell(ElementSize(lang, t, i), "pointer", 0)>> \in Streams
    BY <2>1, CellTypes
  <2> QED BY <1>3, <2>2 DEF ImageSingle
<1> QED BY <1>1, <1>2, <1>3

\* So is the memory of a member, an array or not.
LEMMA ImageMemberType ==
  ASSUME NEW lang \in Langs, NEW t \in Types, NEW f, WritesBelow(f, t),
         NEW i \in DOMAIN Members[t], NEW v \in Values[t]
  PROVE  ImageMember(f, lang, t, i, v[i]) \in Streams
<1> DEFINE m == Members[t][i]
<1>1. CASE IsDynamic(m)
  <2>1. ImageMember(f, lang, t, i, v[i]) = <<Cell(24, "pointer", 0)>>
    BY <1>1 DEF ImageMember, VectorSize, IsDynamic, IsStatic
  <2>2. <<Cell(24, "pointer", 0)>> \in Streams
    BY CellTypes
  <2> QED BY <2>1, <2>2
<1>2. CASE ~IsDynamic(m) /\ IsStatic(m)
  <2>1. v[i] \in [1 .. m.count -> OneValue(m)] /\ m.count \in Nat
    BY <1>2, ValueTypes, MemberTypes
  <2> DEFINE e == [k \in DOMAIN v[i] |-> ImageSingle(f, lang, t, i, v[i][k])]
  <2>2. e \in [1 .. m.count -> Streams]
    BY <2>1, ImageSingleType
  <2>3. ImageMember(f, lang, t, i, v[i]) = FlattenSeq(e)
    BY <1>2 DEF ImageMember
  <2> HIDE DEF e
  <2> QED BY <2>1, <2>2, <2>3, JoinType
<1>3. CASE ~IsDynamic(m) /\ ~IsStatic(m)
  <2>1. v[i] \in OneValue(m)
    BY <1>3, ValueTypes
  <2> QED BY <1>3, <2>1, ImageSingleType DEF ImageMember
<1> QED BY <1>1, <1>2, <1>3

\* So is the memory of a message, with its padding.
LEMMA ImageMessageType ==
  ASSUME NEW lang \in Langs, NEW t \in Types, NEW f, WritesBelow(f, t), NEW v \in Values[t]
  PROVE  ImageMessage(f, lang, t, v) \in Streams
<1> DEFINE n == Len(Members[t])
           e == [i \in DOMAIN Members[t] |->
                   Padding(Gap(lang, t, i)) \o ImageMember(f, lang, t, i, v[i])]
<1>0. n \in Nat /\ DOMAIN Members[t] = 1 .. n
  BY MemberCount
<1>1. ASSUME NEW i \in 1 .. n + 1 PROVE Padding(Gap(lang, t, i)) \in Streams
  <2>1. Gap(lang, t, i) \in Nat
    <3>1. Gap(lang, t, i) >= 0
      BY Sizes
    <3>2. Gap(lang, t, i) \in Int
      <4>1. /\ SizeOf(lang, t) \in Int
            /\ \A j \in 1 .. n : Offset(lang, t, j) \in Int /\ End(lang, t, j) \in Int
        BY <1>0, Sizes, MemberTypes DEF End, VectorSize
      <4>2. i > n \/ i \in 1 .. n
        BY <1>0
      <4>3. i = 1 \/ i - 1 \in 1 .. n
        BY <1>0
      <4> QED BY <4>1, <4>2, <4>3 DEF Gap
    <3> QED BY <3>1, <3>2
  <2> QED BY <2>1, CellTypes
<1>2. e \in [1 .. n -> Streams]
  <2>1. ASSUME NEW i \in 1 .. n
        PROVE  Padding(Gap(lang, t, i)) \o ImageMember(f, lang, t, i, v[i]) \in Streams
    <3>1. Padding(Gap(lang, t, i)) \in Streams
      BY <1>0, <1>1
    <3>2. ImageMember(f, lang, t, i, v[i]) \in Streams
      BY <1>0, ImageMemberType
    <3> QED BY <3>1, <3>2, CellTypes
  <2> QED BY <1>0, <2>1
<1>3. ImageMessage(f, lang, t, v) = FlattenSeq(e) \o Padding(Gap(lang, t, n + 1))
  BY DEF ImageMessage
<1>4. FlattenSeq(e) \in Streams
  <2> HIDE DEF e
  <2> QED BY <1>0, <1>2, JoinType
<1>5. Padding(Gap(lang, t, n + 1)) \in Streams
  BY <1>0, <1>1
<1> HIDE DEF e, n
<1> QED BY <1>3, <1>4, <1>5, CellTypes

\* The memory of a message depends on that of the messages in it only.
LEMMA SameImage ==
  ASSUME NEW lang, NEW t \in Types, NEW f, NEW g,
         SameBelow(Types, Depth, f, g, t), NEW v
  PROVE  ImageMessage(f, lang, t, v) = ImageMessage(g, lang, t, v)
<1>1. ASSUME NEW i \in DOMAIN Members[t], NEW x
      PROVE  ImageSingle(f, lang, t, i, x) = ImageSingle(g, lang, t, i, x)
  <2>1. Members[t][i].kind = "message" => f[Members[t][i].sub] = g[Members[t][i].sub]
    BY MemberTypes DEF SameBelow
  <2> QED BY <2>1 DEF ImageSingle
<1>2. ASSUME NEW i \in DOMAIN Members[t]
      PROVE  ImageMember(f, lang, t, i, v[i]) = ImageMember(g, lang, t, i, v[i])
  <2>1. [k \in DOMAIN v[i] |-> ImageSingle(f, lang, t, i, v[i][k])] =
          [k \in DOMAIN v[i] |-> ImageSingle(g, lang, t, i, v[i][k])]
    BY <1>1
  <2> QED BY <1>1, <2>1 DEF ImageMember
<1>3. [i \in DOMAIN Members[t] |->
         Padding(Gap(lang, t, i)) \o ImageMember(f, lang, t, i, v[i])] =
        [i \in DOMAIN Members[t] |->
           Padding(Gap(lang, t, i)) \o ImageMember(g, lang, t, i, v[i])]
  BY <1>2
<1> QED BY <1>3 DEF ImageMessage

\* image is Image, one type at a time.
Images(lang, image) ==
  /\ image \in Writers
  /\ \A t \in Types : \A v \in Values[t] :
       /\ image[t][v] = ImageMessage(image, lang, t, v)
       /\ Image(lang, t, v) = image[t][v]

\* Image is what its definition says, one type at a time.
LEMMA ImageEquation ==
  ASSUME NEW lang \in Langs
  PROVE  \E image : Images(lang, image)
<1> DEFINE Body(f, t) == [x \in Values[t] |-> ImageMessage(f, lang, t, x)]
           D == Writers
           G == [f \in D |-> [t \in Types |-> Body(f, t)]]
           Is(f) == f = [t \in Types |-> Body(f, t)]
           image == CHOOSE f : Is(f)
<1>1. ASSUME NEW f, NEW t \in Types, WritesBelow(f, t)
      PROVE  Body(f, t) \in [Values[t] -> Streams]
  BY <1>1, ImageMessageType
<1>2. ASSUME NEW f, NEW g, NEW t \in Types, SameBelow(Types, Depth, f, g, t)
      PROVE  Body(f, t) = Body(g, t)
  BY <1>2, SameImage
<1>3. \A t \in Types : \A v \in Values[t] : Image(lang, t, v) = image[t][v]
  BY DEF Image
<1>4. \A f : Is(f) => \A t \in Types : \A v \in Values[t] : f[t][v] = ImageMessage(f, lang, t, v)
  OBVIOUS
<1> HIDE DEF Body
<1>5. Maps(D, G)
  <2>1. ASSUME NEW f \in D PROVE G[f] \in D
    <3>1. \A t \in Types : G[f][t] \in [Values[t] -> Streams]
      BY <1>1, WriterTypes
    <3>2. G[f] = [t \in Types |-> G[f][t]]
      OBVIOUS
    <3> HIDE DEF G
    <3> QED BY <3>1, <3>2, WriterTypes
  <2> QED BY <2>1 DEF Maps
<1>6. Contracts(Types, Depth, D, G)
  BY <1>2 DEF Contracts
<1>7. Solved(D, G)
  <2>1. Ranked(Types, Depth)
    BY TypesAssumption DEF Ranked
  <2> HIDE DEF G
  <2> QED BY <2>1, <1>5, <1>6, Recursion, WriterTypes DEF Writers
<1>8. Is(image)
  <2>1. \E f : Is(f)
    BY <1>7 DEF Solved
  <2> HIDE DEF Is
  <2> QED BY <2>1
<1> HIDE DEF image
<1>9. image \in Writers
  <2> DEFINE T == {t \in Types : image[t] \in [Values[t] -> Streams]}
  <2>1. ASSUME NEW t \in Types, \A u \in Types : Depth[u] < Depth[t] => u \in T
        PROVE  t \in T
    <3>1. WritesBelow(image, t)
      BY <2>1 DEF WritesBelow
    <3>2. image[t] = Body(image, t)
      BY <1>8
    <3> QED BY <3>1, <3>2, <1>1
  <2>2. Types \subseteq T
    <3> HIDE DEF T
    <3> QED BY <2>1, TypesInduction
  <2>3. image = [t \in Types |-> image[t]]
    BY <1>8
  <2> QED BY <2>2, <2>3, WriterTypes
<1> QED BY <1>3, <1>4, <1>8, <1>9 DEF Images

-----------------------------------------------------------------------------
(* What the two serializers write.                                         *)

\* What a serializer writes of one element is a stream.
LEMMA SerializeSingleType ==
  ASSUME NEW t \in Types, NEW f, WritesBelow(f, t),
         NEW i \in DOMAIN Members[t], NEW x \in OneValue(Members[t][i])
  PROVE  CppSerializeSingle(f, Members[t][i], x) \in Streams
<1> DEFINE m == Members[t][i]
<1>1. CASE IsScalar(m)
  <2>1. x \in Int
    BY <1>1 DEF OneValue, IsScalar, ScalarKinds
  <2>2. CppSerializeSingle(f, m, x) = Scalar(m.kind, x)
    BY <1>1 DEF CppSerializeSingle, IsScalar, ScalarKinds
  <2>3. m.kind \in ScalarKinds
    BY <1>1 DEF IsScalar
  <2> HIDE DEF m
  <2> QED BY <2>1, <2>2, <2>3, CellTypes DEF m
<1>2. CASE m.kind = "message"
  <2>1. x \in Values[m.sub] /\ f[m.sub] \in [Values[m.sub] -> Streams]
    BY <1>2, MemberTypes DEF OneValue, WritesBelow
  <2>2. CppSerializeSingle(f, m, x) = f[m.sub][x]
    BY <1>2 DEF CppSerializeSingle, IsScalar, ScalarKinds
  <2> QED BY <2>1, <2>2
<1>3. CASE m.kind = "string"
  <2>1. x \in Seq(Int) /\ Len(x) \in Nat
    BY <1>3 DEF OneValue
  <2>2. CppSerializeSingle(f, m, x) = CppSerializeString(x)
    BY <1>3 DEF CppSerializeSingle, IsScalar, ScalarKinds
  <2>3. /\ ArraySize(Len(x)) \in Streams
        /\ [k \in DOMAIN x |-> Cell(Width.char, "data", x[k])] \in Streams
    BY <2>1, CellTypes
  <2>4. CppSerializeString(x) \in Streams
    BY <2>3, CellTypes DEF CppSerializeString
  <2> QED BY <2>2, <2>4
<1>4. CASE m.kind = "wide"
  <2>1. CppSerializeSingle(f, m, x) = <<>>
    BY <1>4 DEF CppSerializeSingle, IsScalar, ScalarKinds
  <2> QED BY <2>1, CellTypes
<1> QED BY <1>1, <1>2, <1>3, <1>4, MemberTypes DEF IsScalar

\* So is what it writes of a member.
LEMMA SerializeMemberType ==
  ASSUME NEW t \in Types, NEW f, WritesBelow(f, t),
         NEW i \in DOMAIN Members[t], NEW v \in Values[t]
  PROVE  CppSerializeMember(f, Members[t][i], v[i]) \in Streams
<1> DEFINE m == Members[t][i]
           e == [k \in DOMAIN v[i] |-> CppSerializeSingle(f, m, v[i][k])]
<1>0. CppSerializeArray(f, m, v[i]) = FlattenSeq(e)
  BY DEF CppSerializeArray
<1>1. CASE IsDynamic(m)
  <2>1. v[i] \in Seq(OneValue(m))
    BY <1>1, ValueTypes
  <2>2. Len(v[i]) \in Nat /\ DOMAIN v[i] = 1 .. Len(v[i]) /\ \A k \in 1 .. Len(v[i]) : v[i][k] \in OneValue(m)
    BY <2>1
  <2>3. e \in [1 .. Len(v[i]) -> Streams]
    BY <2>2, SerializeSingleType
  <2>4. FlattenSeq(e) \in Streams
    <3> HIDE DEF e
    <3> QED BY <2>2, <2>3, JoinType
  <2>5. CppSerializeMember(f, m, v[i]) = ArraySize(Len(v[i])) \o FlattenSeq(e)
    BY <1>0, <1>1 DEF CppSerializeMember, CppSerializeDynamicArray, IsDynamic, IsStatic
  <2>6. ArraySize(Len(v[i])) \in Streams
    BY <2>2, CellTypes
  <2> HIDE DEF e, m
  <2> QED BY <2>4, <2>5, <2>6, CellTypes DEF m
<1>2. CASE IsStatic(m)
  <2>1. v[i] \in [1 .. m.count -> OneValue(m)] /\ m.count \in Nat
    BY <1>2, ValueTypes, MemberTypes
  <2>2. e \in [1 .. m.count -> Streams]
    BY <2>1, SerializeSingleType
  <2>3. CppSerializeMember(f, m, v[i]) = FlattenSeq(e)
    BY <1>0, <1>2 DEF CppSerializeMember, IsDynamic, IsStatic
  <2> HIDE DEF e
  <2> QED BY <2>1, <2>2, <2>3, JoinType
<1>3. CASE ~IsDynamic(m) /\ ~IsStatic(m)
  <2>1. v[i] \in OneValue(m)
    BY <1>3, ValueTypes
  <2>2. CppSerializeMember(f, m, v[i]) = CppSerializeSingle(f, m, v[i])
    BY <1>3 DEF CppSerializeMember
  <2> QED BY <2>1, <2>2, SerializeSingleType
<1> QED BY <1>1, <1>2, <1>3

\* So is what it writes of a message, member by member.
LEMMA SerializeMembersType ==
  ASSUME NEW t \in Types, NEW f, WritesBelow(f, t), NEW v \in Values[t]
  PROVE  CppSerializeMembers(f, t, v) \in Streams
<1> DEFINE e == [i \in DOMAIN Members[t] |-> CppSerializeMember(f, Members[t][i], v[i])]
<1>1. Len(Members[t]) \in Nat /\ e \in [1 .. Len(Members[t]) -> Streams]
  BY MemberCount, SerializeMemberType
<1>2. CppSerializeMembers(f, t, v) = FlattenSeq(e)
  BY DEF CppSerializeMembers
<1> HIDE DEF e
<1> QED BY <1>1, <1>2, JoinType

\* What is written of a message depends on the messages in it only.
LEMMA SameSerialize ==
  ASSUME NEW t \in Types, NEW f, NEW g, SameBelow(Types, Depth, f, g, t), NEW v
  PROVE  /\ CppSerializeMembers(f, t, v) = CppSerializeMembers(g, t, v)
         /\ \A i \in DOMAIN Members[t] :
              CppSerializeMember(f, Members[t][i], v[i]) =
                CppSerializeMember(g, Members[t][i], v[i])
<1>1. ASSUME NEW i \in DOMAIN Members[t], NEW x
      PROVE  CppSerializeSingle(f, Members[t][i], x) = CppSerializeSingle(g, Members[t][i], x)
  <2>1. Members[t][i].kind = "message" => f[Members[t][i].sub] = g[Members[t][i].sub]
    BY MemberTypes DEF SameBelow
  <2> QED BY <2>1 DEF CppSerializeSingle
<1>2. ASSUME NEW i \in DOMAIN Members[t]
      PROVE  CppSerializeMember(f, Members[t][i], v[i]) =
               CppSerializeMember(g, Members[t][i], v[i])
  <2>1. [k \in DOMAIN v[i] |-> CppSerializeSingle(f, Members[t][i], v[i][k])] =
          [k \in DOMAIN v[i] |-> CppSerializeSingle(g, Members[t][i], v[i][k])]
    BY <1>1
  <2> QED BY <1>1, <2>1 DEF CppSerializeMember, CppSerializeArray, CppSerializeDynamicArray
<1>3. [i \in DOMAIN Members[t] |-> CppSerializeMember(f, Members[t][i], v[i])] =
        [i \in DOMAIN Members[t] |-> CppSerializeMember(g, Members[t][i], v[i])]
  BY <1>2
<1> QED BY <1>2, <1>3 DEF CppSerializeMembers

\* The two serializers write the members of a message alike.
LEMMA CSerializesAlike ==
  ASSUME NEW f, NEW t, NEW v
  PROVE  CSerializeMembers(f, t, v) = CppSerializeMembers(f, t, v)
<1>1. \A m, x : CSerializeSingle(f, m, x) = CppSerializeSingle(f, m, x)
  BY DEF CSerializeSingle, CppSerializeSingle, CSerializeString, CppSerializeString
<1>2. ASSUME NEW m, NEW x PROVE CSerializeMember(f, m, x) = CppSerializeMember(f, m, x)
  <2>1. [k \in DOMAIN x |-> CSerializeSingle(f, m, x[k])] =
          [k \in DOMAIN x |-> CppSerializeSingle(f, m, x[k])]
    BY <1>1
  <2> QED BY <1>1, <2>1 DEF CSerializeMember, CSerializeArray, CSerializeDynamicArray,
                            CppSerializeMember, CppSerializeArray, CppSerializeDynamicArray
<1>3. [i \in DOMAIN Members[t] |-> CSerializeMember(f, Members[t][i], v[i])] =
        [i \in DOMAIN Members[t] |-> CppSerializeMember(f, Members[t][i], v[i])]
  BY <1>2
<1> QED BY <1>3 DEF CSerializeMembers, CppSerializeMembers

-----------------------------------------------------------------------------
\* What Serialize writes in either language, fast being the memcopyable types.
SerializeMessage(lang, fast, t, v) ==
  IF lang = "cpp" THEN CppSerializeMessage(fast, t, v) ELSE CSerializeMessage(fast, t, v)

\* message is the serializer of a language, one type at a time.
Messages(lang, fast, message) ==
  /\ message \in Writers
  /\ \A t \in Types : \A v \in Values[t] :
       /\ message[t][v] = IF t \in fast THEN Image(lang, t, v)
                          ELSE CppSerializeMembers(message, t, v)
       /\ SerializeMessage(lang, fast, t, v) = message[t][v]

\* SerializeMessage is what its definition says, one type at a time.
LEMMA MessageEquation ==
  ASSUME NEW lang \in Langs, NEW fast
  PROVE  \E message : Messages(lang, fast, message)
<1> DEFINE One(f, t, x) == IF t \in fast THEN Image(lang, t, x)
                           ELSE CppSerializeMembers(f, t, x)
           Body(f, t) == [x \in Values[t] |-> One(f, t, x)]
           D == Writers
           G == [f \in D |-> [t \in Types |-> Body(f, t)]]
           Is(f) == f = [t \in Types |-> Body(f, t)]
           message == CHOOSE f : Is(f)
<1>0. \A t \in Types : \A x \in Values[t] : Image(lang, t, x) \in Streams
  <2>1. PICK image : Images(lang, image)
    BY ImageEquation
  <2> QED BY <2>1, WriterTypes DEF Images
<1>1. ASSUME NEW f, NEW t \in Types, WritesBelow(f, t)
      PROVE  Body(f, t) \in [Values[t] -> Streams]
  BY <1>0, <1>1, SerializeMembersType
<1>2. ASSUME NEW f, NEW g, NEW t \in Types, SameBelow(Types, Depth, f, g, t)
      PROVE  Body(f, t) = Body(g, t)
  <2>1. \A x \in Values[t] : One(f, t, x) = One(g, t, x)
    BY <1>2, SameSerialize
  <2> HIDE DEF One
  <2> QED BY <2>1
<1>3. \A t \in Types : \A v \in Values[t] : SerializeMessage(lang, fast, t, v) = message[t][v]
  <2>1. CASE lang = "cpp"
    BY <2>1 DEF SerializeMessage, CppSerializeMessage
  <2>2. CASE lang # "cpp"
    <3>1. lang = "c"
      BY <2>2 DEF Langs
    <3> DEFINE COne(f, t, x) == IF t \in fast THEN Image("c", t, x)
                                ELSE CSerializeMembers(f, t, x)
               CIs(f) == f = [t \in Types |-> [x \in Values[t] |-> COne(f, t, x)]]
    <3>2. \A t \in Types : \A v \in Values[t] :
            SerializeMessage(lang, fast, t, v) = (CHOOSE f : CIs(f))[t][v]
      BY <3>1 DEF SerializeMessage, CSerializeMessage
    <3>3. \A f, t, x : COne(f, t, x) = One(f, t, x)
      BY <3>1, CSerializesAlike
    <3>4. \A f : CIs(f) <=> Is(f)
      <4> SUFFICES ASSUME NEW f PROVE CIs(f) <=> Is(f)
        OBVIOUS
      <4>1. [t \in Types |-> [x \in Values[t] |-> COne(f, t, x)]] =
              [t \in Types |-> Body(f, t)]
        <5> HIDE DEF COne, One
        <5> QED BY <3>3
      <4> HIDE DEF COne, Body
      <4> QED BY <4>1
    <3>5. (CHOOSE f : CIs(f)) = (CHOOSE f : Is(f))
      <4> HIDE DEF CIs, Is
      <4> QED BY <3>4
    <3> QED BY <3>2, <3>5
  <2> QED BY <2>1, <2>2
<1>4. \A f : Is(f) => \A t \in Types : \A v \in Values[t] : f[t][v] = One(f, t, v)
  <2> HIDE DEF One
  <2> QED OBVIOUS
<1> HIDE DEF Body
<1>5. Maps(D, G)
  <2>1. ASSUME NEW f \in D PROVE G[f] \in D
    <3>1. \A t \in Types : G[f][t] \in [Values[t] -> Streams]
      BY <1>1, WriterTypes
    <3>2. G[f] = [t \in Types |-> G[f][t]]
      OBVIOUS
    <3> HIDE DEF G
    <3> QED BY <3>1, <3>2, WriterTypes
  <2> QED BY <2>1 DEF Maps
<1>6. Contracts(Types, Depth, D, G)
  BY <1>2 DEF Contracts
<1>7. Solved(D, G)
  <2>1. Ranked(Types, Depth)
    BY TypesAssumption DEF Ranked
  <2> HIDE DEF G
  <2> QED BY <2>1, <1>5, <1>6, Recursion, WriterTypes DEF Writers
<1>8. Is(message)
  <2>1. \E f : Is(f)
    BY <1>7 DEF Solved
  <2> HIDE DEF Is
  <2> QED BY <2>1
<1> HIDE DEF message
<1>9. message \in Writers
  <2> DEFINE T == {t \in Types : message[t] \in [Values[t] -> Streams]}
  <2>1. ASSUME NEW t \in Types, \A u \in Types : Depth[u] < Depth[t] => u \in T
        PROVE  t \in T
    <3>1. WritesBelow(message, t)
      BY <2>1 DEF WritesBelow
    <3>2. message[t] = Body(message, t)
      BY <1>8
    <3> QED BY <3>1, <3>2, <1>1
  <2>2. Types \subseteq T
    <3> HIDE DEF T
    <3> QED BY <2>1, TypesInduction
  <2>3. message = [t \in Types |-> message[t]]
    BY <1>8
  <2> QED BY <2>2, <2>3, WriterTypes
<1> QED BY <1>3, <1>4, <1>8, <1>9 DEF Messages

-----------------------------------------------------------------------------
(* There is one wire form.                                                 *)

\* The memory of a solid type is its wire form.
LEMMA SolidImage ==
  ASSUME NEW lang \in Langs, NEW fast, NEW t \in Types, Solid(lang, fast, t),
         NEW image \in Writers, NEW plain \in Writers,
         \A u \in Types : Depth[u] < Depth[t] /\ u \in fast =>
           \A x \in Values[u] : image[u][x] = plain[u][x],
         NEW v \in Values[t]
  PROVE  ImageMessage(image, lang, t, v) = CppSerializeMembers(plain, t, v)
<1> DEFINE n == Len(Members[t])
           a == [i \in DOMAIN Members[t] |->
                   Padding(Gap(lang, t, i)) \o ImageMember(image, lang, t, i, v[i])]
           b == [i \in DOMAIN Members[t] |-> CppSerializeMember(plain, Members[t][i], v[i])]
<1>0. n \in Nat /\ DOMAIN Members[t] = 1 .. n
  BY MemberCount
<1>1. \A i \in 1 .. n + 1 : Padding(Gap(lang, t, i)) = <<>>
  BY DEF Solid, Padding
<1>2. ASSUME NEW i \in DOMAIN Members[t]
      PROVE  ImageMember(image, lang, t, i, v[i]) =
               CppSerializeMember(plain, Members[t][i], v[i])
  <2> DEFINE m == Members[t][i]
  <2>1. ~IsDynamic(m) /\ (IsScalar(m) \/ (m.kind = "message" /\ m.sub \in fast))
    BY DEF Solid
  <2>2. ASSUME NEW x \in OneValue(m)
        PROVE  ImageSingle(image, lang, t, i, x) = CppSerializeSingle(plain, m, x)
    <3>1. CASE IsScalar(m)
      BY <3>1 DEF ImageSingle, CppSerializeSingle, IsScalar, ScalarKinds
    <3>2. CASE m.kind = "message" /\ m.sub \in fast
      <4>1. x \in Values[m.sub] /\ m.sub \in Types /\ Depth[m.sub] < Depth[t]
        BY <3>2, MemberTypes DEF OneValue
      <4>2. image[m.sub][x] = plain[m.sub][x]
        BY <3>2, <4>1
      <4> QED BY <3>2, <4>2 DEF ImageSingle, CppSerializeSingle, IsScalar, ScalarKinds
    <3> QED BY <2>1, <3>1, <3>2
  <2>3. CASE IsStatic(m)
    <3>1. v[i] \in [1 .. m.count -> OneValue(m)]
      BY <2>3, ValueTypes
    <3>2. [k \in DOMAIN v[i] |-> ImageSingle(image, lang, t, i, v[i][k])] =
            [k \in DOMAIN v[i] |-> CppSerializeSingle(plain, m, v[i][k])]
      BY <2>2, <3>1
    <3> QED BY <2>1, <2>3, <3>2 DEF ImageMember, CppSerializeMember, CppSerializeArray
  <2>4. CASE ~IsStatic(m)
    <3>1. v[i] \in OneValue(m)
      BY <2>1, <2>4, ValueTypes
    <3> QED BY <2>1, <2>2, <2>4, <3>1 DEF ImageMember, CppSerializeMember
  <2> QED BY <2>3, <2>4
<1>3. \A i \in DOMAIN Members[t] : CppSerializeMember(plain, Members[t][i], v[i]) \in Streams
  BY WriterTypes, SerializeMemberType
<1>4. a = b
  <2>1. ASSUME NEW i \in DOMAIN Members[t] PROVE a[i] = b[i]
    <3>0. i \in 1 .. n + 1
      BY <1>0
    <3>1. a[i] = <<>> \o b[i]
      BY <1>1, <1>2, <3>0
    <3>2. b[i] \in Streams
      BY <1>3
    <3> HIDE DEF a, b
    <3> QED BY <3>1, <3>2, CellTypes
  <2> QED BY <2>1
<1>5. ImageMessage(image, lang, t, v) = FlattenSeq(a) \o <<>>
  <2>1. n + 1 \in 1 .. n + 1
    BY <1>0
  <2>2. ImageMessage(image, lang, t, v) = FlattenSeq(a) \o Padding(Gap(lang, t, n + 1))
    BY DEF ImageMessage
  <2> HIDE DEF a
  <2> QED BY <1>1, <2>1, <2>2
<1>6. CppSerializeMembers(plain, t, v) = FlattenSeq(b)
  BY DEF CppSerializeMembers
<1>7. FlattenSeq(b) \in Streams
  <2>1. b \in [1 .. n -> Streams]
    BY <1>0, <1>3
  <2> HIDE DEF b
  <2> QED BY <1>0, <2>1, JoinType
<1> HIDE DEF a, b
<1> QED BY <1>4, <1>5, <1>6, <1>7, CellTypes

\* Every serializer that copies solid types only writes the one wire form.
THEOREM WireForm ==
  ASSUME NEW lang \in Langs, NEW fast, \A t \in fast : Solid(lang, fast, t)
  PROVE  \A t \in Types : \A v \in Values[t] :
           SerializeMessage(lang, fast, t, v) = CppSerializeMessage({}, t, v)
<1>1. PICK message : Messages(lang, fast, message)
  BY MessageEquation
<1>2. PICK plain : Messages("cpp", {}, plain)
  BY MessageEquation DEF Langs
<1>3. PICK image : Images(lang, image)
  BY ImageEquation
<1> DEFINE T == {t \in Types :
                   /\ message[t] = plain[t]
                   /\ t \in fast => \A v \in Values[t] : image[t][v] = plain[t][v]}
<1>4. ASSUME NEW t \in Types, \A u \in Types : Depth[u] < Depth[t] => u \in T
      PROVE  t \in T
  <2>1. \A v \in Values[t] : plain[t][v] = CppSerializeMembers(plain, t, v)
    BY <1>2 DEF Messages
  <2>2. ASSUME t \in fast, NEW v \in Values[t] PROVE image[t][v] = plain[t][v]
    <3>1. image \in Writers /\ plain \in Writers
      BY <1>2, <1>3 DEF Messages, Images
    <3>2. \A u \in Types : Depth[u] < Depth[t] /\ u \in fast =>
            \A x \in Values[u] : image[u][x] = plain[u][x]
      BY <1>4
    <3>3. ImageMessage(image, lang, t, v) = CppSerializeMembers(plain, t, v)
      <4> HIDE DEF T
      <4> QED BY <2>2, <3>1, <3>2, SolidImage
    <3>4. image[t][v] = ImageMessage(image, lang, t, v)
      BY <1>3 DEF Images
    <3> QED BY <2>1, <3>3, <3>4
  <2>3. ASSUME NEW v \in Values[t] PROVE message[t][v] = plain[t][v]
    <3>1. CASE t \in fast
      BY <1>1, <1>3, <2>2, <3>1 DEF Messages, Images
    <3>2. CASE t \notin fast
      <4>1. SameBelow(Types, Depth, message, plain, t)
        BY <1>4 DEF SameBelow
      <4>2. message[t][v] = CppSerializeMembers(message, t, v)
        BY <1>1, <3>2 DEF Messages
      <4> HIDE DEF T
      <4> QED BY <2>1, <4>1, <4>2, SameSerialize
    <3> QED BY <3>1, <3>2
  <2>4. message[t] = plain[t]
    <3>1. message[t] \in [Values[t] -> Streams] /\ plain[t] \in [Values[t] -> Streams]
      BY <1>1, <1>2, WriterTypes DEF Messages
    <3> QED BY <2>3, <3>1
  <2> QED BY <2>2, <2>4
<1>5. Types \subseteq T
  <2> HIDE DEF T
  <2> QED BY <1>4, TypesInduction
<1>6. \A t \in Types : \A v \in Values[t] : SerializeMessage("cpp", {}, t, v) = plain[t][v]
  BY <1>2 DEF Messages
<1>7. \A t \in Types : \A v \in Values[t] : SerializeMessage(lang, fast, t, v) = message[t][v]
  BY <1>1 DEF Messages
<1> QED BY <1>5, <1>6, <1>7 DEF SerializeMessage

-----------------------------------------------------------------------------
(* The processes: what is refused.                                         *)

\* The sets of a process's units, between two calls.
Clean(sets) ==
  /\ sets \in [Units -> Statics]
  /\ \A u \in Units : ~sets[u].threw /\ Sighted(sets[u])

\* Whether the types a process copies whole are solid.
SolidSets(h, sets) == \A u \in Units : Sound(HostLang[h], sets[u])

\* The linker gives every unit one of the units' sets.
LEMMA BuildUnits ==
  ASSUME NEW b \in Builds, NEW u \in Units
  PROVE  b.analyze[u] \in Units /\ b.look[u] \in Units
BY DEF Builds, OwnSets, LinkedTo, HalfLinkedTo, Units

\* A construction throws, or the type shows its wide string to nobody; the
\* sets it leaves are sound when they were.
LEMMA AnalyzedSets ==
  ASSUME build \in Builds, NEW h \in Hosts, NEW sets, Clean(sets),
         NEW unit \in Units, NEW t \in Types
  PROVE  LET r == Analyzed(h, sets, unit, t)
         IN  /\ r \in [Units -> Statics]
             /\ \A u \in Units : Sighted(r[u])
             /\ Threw(r) \/ (HasWide[t] => Hidden[t])
             /\ CharsAreNotPadded /\ SolidSets(h, sets) => SolidSets(h, r)
<1> DEFINE lang == HostLang[h]
           into == build.analyze[unit]
           new == AnalyzeType(lang, sets[into], t)
           r == Analyzed(h, sets, unit, t)
<1>1. lang \in Langs
  BY HostsAssumption
<1>2. into \in Units
  BY BuildUnits
<1>3. PICK analyze : Analysis(lang, analyze)
  BY <1>1, AnalyzeTypeEquation
<1>4. sets[into] \in Statics /\ ~sets[into].threw /\ Sighted(sets[into])
  BY <1>2 DEF Clean
<1>5. new = analyze[t][sets[into]] /\ new \in Statics
  BY <1>3, <1>4 DEF Analysis
<1>6. Sighted(new) /\ (new.threw \/ (HasWide[t] => Hidden[t]))
  <2> HIDE DEF lang, into, new
  <2> QED BY <1>1, <1>3, <1>4, <1>5, SightsTypes DEF Sights
<1>7. CharsFit(lang) /\ Sound(lang, sets[into]) => Sound(lang, new)
  <2> HIDE DEF lang, into, new
  <2> QED BY <1>1, <1>3, <1>4, <1>5, PreservesTypes DEF Preserves
<1>8. r = [sets EXCEPT ![into] = new]
  BY DEF Analyzed
<1> HIDE DEF into, new, r
<1>9. r \in [Units -> Statics] /\ r[into] = new
  BY <1>2, <1>5, <1>8 DEF Clean
<1>10. \A u \in Units : u # into => r[u] = sets[u]
  BY <1>8 DEF Clean
<1>11. \A u \in Units : Sighted(r[u])
  BY <1>6, <1>9, <1>10 DEF Clean
<1>12. Threw(r) \/ (HasWide[t] => Hidden[t])
  BY <1>2, <1>6, <1>9 DEF Threw
<1>13. CharsAreNotPadded /\ SolidSets(h, sets) => SolidSets(h, r)
  <2>1. CharsAreNotPadded => CharsFit(lang)
    BY DEF CharsAreNotPadded, CharsFit, lang
  <2> QED BY <1>2, <1>7, <1>9, <1>10, <2>1 DEF SolidSets, lang
<1> QED BY <1>9, <1>11, <1>12, <1>13 DEF r

\* So are the sets after a call, whether it threw or not.
LEMMA SettledSets ==
  ASSUME NEW h, NEW sets \in [Units -> Statics], \A u \in Units : Sighted(sets[u])
  PROVE  /\ Clean(Settled(sets))
         /\ SolidSets(h, sets) => SolidSets(h, Settled(sets))
<1>1. ASSUME NEW u \in Units
      PROVE  /\ Settled(sets)[u] \in Statics
             /\ ~Settled(sets)[u].threw
             /\ Settled(sets)[u].analyzed = sets[u].analyzed
             /\ Settled(sets)[u].memcopyable = sets[u].memcopyable
  BY DEF Settled, Statics
<1>2. Settled(sets) = [u \in Units |-> Settled(sets)[u]]
  BY DEF Settled
<1>3. Settled(sets) \in [Units -> Statics]
  <2> DEFINE r == Settled(sets)
  <2>1. \A u \in Units : r[u] \in Statics
    BY <1>1
  <2>2. r = [u \in Units |-> r[u]]
    BY <1>2
  <2> HIDE DEF r
  <2>3. r \in [Units -> Statics]
    BY <2>1, <2>2
  <2> QED BY <2>3 DEF r
<1>4. \A u \in Units : Sighted(Settled(sets)[u])
  BY <1>1 DEF Sighted
<1>5. SolidSets(h, sets) => SolidSets(h, Settled(sets))
  BY <1>1 DEF SolidSets, Sound
<1> QED BY <1>1, <1>3, <1>4, <1>5 DEF Clean

-----------------------------------------------------------------------------
\* What the sets of a process hold, and what is known of the types in use.
WireInv ==
  /\ build \in Builds
  /\ DOMAIN statics = Hosts
  /\ \A h \in Hosts : Clean(statics[h])
  /\ supports \subseteq Hosts \X Types
  /\ \A s \in supports : HasWide[s[2]] => Hidden[s[2]]
  /\ net # Nothing => /\ net.type \in Types
                      /\ net.sent \in Values[net.type]
                      /\ net.sent \notin WideMessages[net.type]
  /\ RefusedEarly

\* Before the first call all of it holds.
LEMMA WireInvInit ==
  ASSUME Init
  PROVE  WireInv
<1>1. Clean([u \in Units |-> NothingAnalyzed])
  <2>1. NothingAnalyzed \in Statics
    BY DEF NothingAnalyzed, Statics
  <2> QED BY <2>1 DEF Clean, Sighted, NothingAnalyzed
<1> HIDE DEF Clean
<1> QED BY <1>1 DEF Init, WireInv, RefusedEarly

\* A call that has not thrown leaves the sets as it found them.
LEMMA CleanSettles ==
  ASSUME NEW sets \in [Units -> Statics], \A u \in Units : Sighted(sets[u]), ~Threw(sets)
  PROVE  Clean(sets)
<1>1. \A u \in Units : ~sets[u].threw
  BY DEF Threw
<1> QED BY <1>1 DEF Clean

\* What is sent has no wide string: a message with one throws in the
\* serializer, and its type hides it.
LEMMA SendInv ==
  ASSUME WireInv, NEW h \in Hosts, NEW sets, NEW t \in Types, NEW v \in Samples[t],
         HasWide[t] => Hidden[t], Send(h, sets, t, v)
  PROVE  /\ net' # Nothing => /\ net'.type \in Types
                              /\ net'.sent \in Values[net'.type]
                              /\ net'.sent \notin WideMessages[net'.type]
         /\ RefusedEarly'
<1>1. CASE v \in WideMessages[t]
  <2>1. refused' = refused \cup {<<h, t>>} /\ UNCHANGED net
    BY <1>1 DEF Send
  <2>2. RefusedEarly'
    BY <1>1, <2>1, WideTypes DEF RefusedEarly, WireInv
  <2> QED BY <2>1, <2>2 DEF WireInv
<1>2. CASE v \notin WideMessages[t]
  <2>1. net'.type = t /\ net'.sent = v /\ UNCHANGED refused
    BY <1>2 DEF Send
  <2>2. v \in Values[t]
    BY HostsAssumption
  <2> QED BY <1>2, <2>1, <2>2 DEF WireInv, RefusedEarly
<1> QED BY <1>1, <1>2

\* Every call keeps it.
LEMMA WireInvNext ==
  ASSUME WireInv, [Next]_vars
  PROVE  WireInv'
<1>0. SUFFICES ASSUME Next PROVE WireInv'
  <2>1. CASE UNCHANGED vars
    BY <2>1 DEF vars, WireInv, RefusedEarly
  <2> QED BY <2>1
<1>1. ASSUME NEW h \in Hosts, NEW t \in Types, CreateTypeSupport(h, t) PROVE WireInv'
  <2> DEFINE first == Analyzed(h, statics[h], "serializer", t)
             both == IF Threw(first) THEN first ELSE Analyzed(h, first, "deserializer", t)
  <2>1. /\ statics' = [statics EXCEPT ![h] = Settled(both)]
        /\ supports' = supports \cup (IF Threw(both) THEN {} ELSE {<<h, t>>})
        /\ UNCHANGED <<build, net, got, refused>>
    BY <1>1 DEF CreateTypeSupport
  <2>2. /\ first \in [Units -> Statics]
        /\ \A u \in Units : Sighted(first[u])
        /\ Threw(first) \/ (HasWide[t] => Hidden[t])
    BY AnalyzedSets DEF WireInv, Units
  <2> HIDE DEF first
  <2>3. ~Threw(first) => Clean(first)
    BY <2>2, CleanSettles
  <2>4. /\ both \in [Units -> Statics]
        /\ \A u \in Units : Sighted(both[u])
        /\ Threw(both) \/ (HasWide[t] => Hidden[t])
    <3>1. CASE Threw(first)
      BY <2>2, <3>1
    <3>2. CASE ~Threw(first)
      BY <2>3, <3>2, AnalyzedSets DEF WireInv, Units
    <3> QED BY <3>1, <3>2
  <2> HIDE DEF both
  <2>5. Clean(Settled(both))
    BY <2>4, SettledSets
  <2>6. \A g \in Hosts : Clean(statics'[g])
    BY <2>1, <2>5 DEF WireInv
  <2>7. /\ supports' \subseteq Hosts \X Types
        /\ \A s \in supports' : HasWide[s[2]] => Hidden[s[2]]
    BY <2>1, <2>4 DEF WireInv
  <2> QED BY <2>1, <2>6, <2>7 DEF WireInv, RefusedEarly
<1>2. ASSUME NEW h \in Hosts, NEW t \in Types, NEW v \in Samples[t], Publish(h, t, v)
      PROVE  WireInv'
  <2>1. HasWide[t] => Hidden[t]
    BY <1>2 DEF Publish, WireInv
  <2>2. /\ net' # Nothing => /\ net'.type \in Types
                             /\ net'.sent \in Values[net'.type]
                             /\ net'.sent \notin WideMessages[net'.type]
        /\ RefusedEarly'
    BY <1>2, <2>1, SendInv DEF Publish
  <2> QED BY <1>2, <2>2 DEF Publish, WireInv
<1>3. ASSUME NEW h \in Hosts, NEW t \in Types, NEW v \in Samples[t], SerializeOnce(h, t, v)
      PROVE  WireInv'
  <2> DEFINE sets == Analyzed(h, statics[h], "serializer", t)
  <2>1. /\ ~Threw(sets)
        /\ Send(h, sets, t, v)
        /\ statics' = [statics EXCEPT ![h] = sets]
        /\ UNCHANGED <<build, supports>>
    BY <1>3 DEF SerializeOnce
  <2>2. /\ sets \in [Units -> Statics]
        /\ \A u \in Units : Sighted(sets[u])
        /\ Threw(sets) \/ (HasWide[t] => Hidden[t])
    BY AnalyzedSets DEF WireInv, Units
  <2> HIDE DEF sets
  <2>3. Clean(sets)
    BY <2>1, <2>2, CleanSettles
  <2>4. /\ net' # Nothing => /\ net'.type \in Types
                             /\ net'.sent \in Values[net'.type]
                             /\ net'.sent \notin WideMessages[net'.type]
        /\ RefusedEarly'
    BY <2>1, <2>2, SendInv
  <2>5. \A g \in Hosts : Clean(statics'[g])
    BY <2>1, <2>3 DEF WireInv
  <2> QED BY <2>1, <2>4, <2>5 DEF WireInv
<1>4. ASSUME NEW h \in Hosts, NEW old, Take(h, old) PROVE WireInv'
  BY <1>4 DEF Take, WireInv, RefusedEarly
<1>5. ASSUME NEW h \in Hosts, DeserializeOnce(h) PROVE WireInv'
  <2> DEFINE new == Analyzed(h, statics[h], "deserializer", net.type)
             sets == Settled(new)
  <2>1. /\ net # Nothing
        /\ statics' = [statics EXCEPT ![h] = sets]
        /\ UNCHANGED <<build, supports, net, refused>>
    BY <1>5 DEF DeserializeOnce
  <2>2. net.type \in Types
    BY <2>1 DEF WireInv
  <2>3. new \in [Units -> Statics] /\ \A u \in Units : Sighted(new[u])
    BY <2>2, AnalyzedSets DEF WireInv, Units
  <2> HIDE DEF new
  <2>4. Clean(sets)
    BY <2>3, SettledSets
  <2> HIDE DEF sets
  <2>5. \A g \in Hosts : Clean(statics'[g])
    BY <2>1, <2>4 DEF WireInv
  <2> QED BY <2>1, <2>5 DEF WireInv, RefusedEarly
<1> QED BY <1>0, <1>1, <1>2, <1>3, <1>4, <1>5 DEF Next

\* A construction, or a one-off serialization, of a type whose wide string no
\* string member hides is refused, in every process, for every type, and
\* whatever was analysed before: the analysis throws, not the sending
\* (type_info.hpp:153).
THEOREM WideRefusedEarly == Spec => []RefusedEarly
<1>1. WireInv => RefusedEarly
  BY DEF WireInv
<1> QED BY <1>1, WireInvInit, WireInvNext, PTL DEF Spec

-----------------------------------------------------------------------------
(* What a message can hold.                                                *)

\* A set of numbers, sequences of them, sequences of those, and so on.
Closed(U) == Int \subseteq U /\ Seq(U) \subseteq U

\* All of these together: what a message can hold.
Universe == CHOOSE U : Closed(U)

\* The first n + 1 rungs on the way there.
Ladder(n, g) == g[0] = Int /\ \A i \in 1 .. n : g[i] = g[i - 1] \cup Seq(g[i - 1])

\* One can climb as high as one likes.
LEMMA LadderExists ==
  ASSUME NEW n \in Nat
  PROVE  \E g : Ladder(n, g)
<1> DEFINE T == {k \in Nat : \E g : Ladder(k, g)}
<1>1. 0 \in T
  <2>1. Ladder(0, [i \in {0} |-> Int])
    BY DEF Ladder
  <2> QED BY <2>1
<1>2. ASSUME NEW k \in Nat, k \in T PROVE k + 1 \in T
  <2>1. PICK g : Ladder(k, g)
    BY <1>2
  <2> DEFINE h == [i \in 0 .. k + 1 |-> IF i <= k THEN g[i] ELSE g[k] \cup Seq(g[k])]
  <2>2. h[0] = Int
    BY <2>1 DEF Ladder
  <2>3. ASSUME NEW i \in 1 .. k + 1 PROVE h[i] = h[i - 1] \cup Seq(h[i - 1])
    <3>1. i - 1 \in 0 .. k + 1 /\ i - 1 <= k /\ h[i - 1] = g[i - 1]
      OBVIOUS
    <3>2. CASE i <= k
      BY <2>1, <3>1, <3>2 DEF Ladder
    <3>3. CASE ~(i <= k)
      <4>1. i = k + 1 /\ i - 1 = k
        BY <3>3
      <4> QED BY <3>1, <3>3, <4>1
    <3> QED BY <3>2, <3>3
  <2> HIDE DEF h
  <2>4. Ladder(k + 1, h)
    BY <2>2, <2>3 DEF Ladder
  <2> QED BY <2>4
<1>3. Nat \subseteq T
  <2> HIDE DEF T
  <2> QED BY <1>1, <1>2, Induction
<1> QED BY <1>3

\* And always over the same rungs.
LEMMA LadderUnique ==
  ASSUME NEW n \in Nat, NEW m \in Nat, n <= m, NEW g, Ladder(n, g), NEW h, Ladder(m, h)
  PROVE  \A i \in 0 .. n : g[i] = h[i]
<1> DEFINE T == {i \in Nat : i <= n => g[i] = h[i]}
<1>1. 0 \in T
  BY DEF Ladder
<1>2. ASSUME NEW i \in Nat, i \in T PROVE i + 1 \in T
  <2> SUFFICES ASSUME i + 1 <= n PROVE g[i + 1] = h[i + 1]
    OBVIOUS
  <2>1. i + 1 \in 1 .. n /\ i + 1 \in 1 .. m /\ (i + 1) - 1 = i /\ i <= n
    OBVIOUS
  <2>2. g[i] = h[i]
    BY <1>2, <2>1
  <2> QED BY <2>1, <2>2 DEF Ladder
<1>3. Nat \subseteq T
  <2> HIDE DEF T
  <2> QED BY <1>1, <1>2, Induction
<1> QED BY <1>3

\* The rungs together are closed, so there is such a set.
LEMMA UniverseClosed == Closed(Universe)
<1> DEFINE P(n) == CHOOSE g : Ladder(n, g)
           L(n) == P(n)[n]
           U == UNION {L(n) : n \in Nat}
<1>1. \A n \in Nat : Ladder(n, P(n))
  BY LadderExists
<1> HIDE DEF P
<1>2. L(0) = Int
  BY <1>1 DEF Ladder
<1>3. ASSUME NEW n \in Nat PROVE L(n + 1) = L(n) \cup Seq(L(n))
  <2>1. P(n)[n] = P(n + 1)[n]
    <3>1. n + 1 \in Nat /\ n <= n + 1 /\ n \in 0 .. n
      OBVIOUS
    <3> QED BY <1>1, <3>1, LadderUnique
  <2>2. P(n + 1)[n + 1] = P(n + 1)[n] \cup Seq(P(n + 1)[n])
    <3>1. n + 1 \in 1 .. n + 1 /\ (n + 1) - 1 = n /\ n + 1 \in Nat
      OBVIOUS
    <3> QED BY <1>1, <3>1 DEF Ladder
  <2> QED BY <2>1, <2>2
<1> HIDE DEF L
<1>4. ASSUME NEW n \in Nat PROVE \A k \in Nat : L(n) \subseteq L(n + k)
  <2> DEFINE T == {k \in Nat : L(n) \subseteq L(n + k)}
  <2>1. 0 \in T
    OBVIOUS
  <2>2. ASSUME NEW k \in Nat, k \in T PROVE k + 1 \in T
    <3>1. n + k \in Nat /\ n + (k + 1) = (n + k) + 1
      OBVIOUS
    <3>2. L(n + k) \subseteq L((n + k) + 1)
      BY <1>3, <3>1
    <3>3. L(n) \subseteq L(n + (k + 1))
      BY <2>2, <3>1, <3>2
    <3> QED BY <3>3
  <2>3. Nat \subseteq T
    <3> HIDE DEF T
    <3> QED BY <2>1, <2>2, Induction
  <2> QED BY <2>3
<1>5. ASSUME NEW n \in Nat, NEW m \in Nat, n <= m PROVE L(n) \subseteq L(m)
  <2>1. m - n \in Nat /\ n + (m - n) = m
    BY <1>5
  <2> QED BY <1>4, <2>1
<1>6. ASSUME NEW s \in Seq(U) PROVE s \in U
  <2> DEFINE T == {k \in Nat : k <= Len(s) =>
                     \E n \in Nat : \A i \in 1 .. k : s[i] \in L(n)}
  <2>0. Len(s) \in Nat /\ DOMAIN s = 1 .. Len(s) /\ \A i \in 1 .. Len(s) : s[i] \in U
    <3> HIDE DEF U
    <3> QED OBVIOUS
  <2>1. 0 \in T
    OBVIOUS
  <2>2. ASSUME NEW k \in Nat, k \in T PROVE k + 1 \in T
    <3> SUFFICES ASSUME k + 1 <= Len(s)
                 PROVE  \E n \in Nat : \A i \in 1 .. k + 1 : s[i] \in L(n)
      OBVIOUS
    <3>1. PICK n \in Nat : \A i \in 1 .. k : s[i] \in L(n)
      BY <2>0, <2>2
    <3>2. PICK m \in Nat : s[k + 1] \in L(m)
      BY <2>0
    <3>3. PICK p \in Nat : n <= p /\ m <= p
      <4>1. n <= n + m /\ m <= n + m /\ n + m \in Nat
        OBVIOUS
      <4> QED BY <4>1
    <3>4. \A i \in 1 .. k + 1 : i \in 1 .. k \/ i = k + 1
      OBVIOUS
    <3>5. \A i \in 1 .. k + 1 : s[i] \in L(p)
      BY <1>5, <3>1, <3>2, <3>3, <3>4
    <3> QED BY <3>5
  <2>3. Nat \subseteq T
    <3> HIDE DEF T
    <3> QED BY <2>1, <2>2, Induction
  <2>4. PICK n \in Nat : \A i \in 1 .. Len(s) : s[i] \in L(n)
    <3>1. Len(s) \in T
      <4> HIDE DEF T
      <4> QED BY <2>0, <2>3
    <3> HIDE DEF U
    <3> QED BY <2>0, <3>1
  <2>5. s \in Seq(L(n))
    <3>1. s = [i \in 1 .. Len(s) |-> s[i]]
      <4> HIDE DEF U
      <4> QED OBVIOUS
    <3>2. [i \in 1 .. Len(s) |-> s[i]] \in Seq(L(n))
      BY <2>0, <2>4
    <3> QED BY <3>1, <3>2
  <2>6. s \in L(n + 1) /\ n + 1 \in Nat
    BY <1>3, <2>5
  <2> QED BY <2>6
<1>7. Int \subseteq U
  BY <1>2
<1>8. Closed(U)
  <2> HIDE DEF U
  <2> QED BY <1>6, <1>7 DEF Closed
<1> QED BY <1>8 DEF Universe

\* Numbers, sequences and arrays of what is in the universe are in it.
LEMMA UniverseHas ==
  /\ Int \subseteq Universe
  /\ Seq(Universe) \subseteq Universe
  /\ <<>> \in Universe
  /\ \A n \in Nat : [1 .. n -> Universe] \subseteq Universe
<1>1. Int \subseteq Universe /\ Seq(Universe) \subseteq Universe
  BY UniverseClosed DEF Closed
<1>2. <<>> \in Seq(Universe)
  BY EmptySeq
<1>3. \A n \in Nat : [1 .. n -> Universe] \subseteq Seq(Universe)
  OBVIOUS
<1> QED BY <1>1, <1>2, <1>3

-----------------------------------------------------------------------------
\* A message that was just made holds what its definition says.
LEMMA FreshEquation ==
  \A t \in Types :
    CppFresh[t] = [i \in DOMAIN Members[t] |-> CppFreshMember(CppFresh, Members[t][i])]
<1> DEFINE Body(f, t) ==
             [i \in DOMAIN Members[t] |-> CppFreshMember(f, Members[t][i])]
           D == [Types -> Universe]
           G == [f \in D |-> [t \in Types |-> Body(f, t)]]
<1>1. ASSUME NEW f \in D, NEW t \in Types, NEW i \in DOMAIN Members[t]
      PROVE  CppFreshMember(f, Members[t][i]) \in Universe
  <2> DEFINE m == Members[t][i]
  <2>1. CppFreshElement(f, m) \in Universe
    <3>1. m.kind = "message" => f[m.sub] \in Universe
      BY MemberTypes
    <3>2. 0 \in Universe /\ <<>> \in Universe
      BY UniverseHas
    <3> QED BY <3>1, <3>2 DEF CppFreshElement
  <2>2. [k \in 1 .. m.count |-> CppFreshElement(f, m)] \in Universe
    <3>1. m.count \in Nat
      BY MemberTypes
    <3>2. [k \in 1 .. m.count |-> CppFreshElement(f, m)] \in [1 .. m.count -> Universe]
      BY <2>1
    <3> QED BY <3>1, <3>2, UniverseHas
  <2>3. <<>> \in Universe
    BY UniverseHas
  <2> HIDE DEF m
  <2> QED BY <2>1, <2>2, <2>3 DEF CppFreshMember, m
<1>2. ASSUME NEW f \in D, NEW t \in Types PROVE Body(f, t) \in Universe
  <2>1. Body(f, t) \in [1 .. Len(Members[t]) -> Universe] /\ Len(Members[t]) \in Nat
    BY <1>1, MemberCount
  <2> HIDE DEF Body
  <2> QED BY <2>1, UniverseHas
<1>3. ASSUME NEW f \in D, NEW g \in D, NEW t \in Types, SameBelow(Types, Depth, f, g, t)
      PROVE  Body(f, t) = Body(g, t)
  <2>1. ASSUME NEW i \in DOMAIN Members[t]
        PROVE  CppFreshMember(f, Members[t][i]) = CppFreshMember(g, Members[t][i])
    <3>1. Members[t][i].kind = "message" => f[Members[t][i].sub] = g[Members[t][i].sub]
      BY <1>3, MemberTypes DEF SameBelow
    <3>2. CppFreshElement(f, Members[t][i]) = CppFreshElement(g, Members[t][i])
      BY <3>1 DEF CppFreshElement
    <3> QED BY <3>2 DEF CppFreshMember
  <2> QED BY <2>1
<1>4. \A f : f = [t \in Types |-> Body(f, t)] =>
               CppFresh = [t \in Types |-> Body(CppFresh, t)]
  BY DEF CppFresh
<1> HIDE DEF Body
<1>5. Maps(D, G) /\ Contracts(Types, Depth, D, G)
  BY <1>2, <1>3 DEF Maps, Contracts
<1>6. Solved(D, G)
  <2>1. Ranked(Types, Depth) /\ Universe # {}
    BY TypesAssumption, UniverseHas DEF Ranked
  <2> HIDE DEF G
  <2> QED BY <1>5, <2>1, RecursionInto
<1>7. PICK f \in D : f = [t \in Types |-> Body(f, t)]
  BY <1>6 DEF Solved
<1>8. CppFresh = [t \in Types |-> Body(CppFresh, t)]
  BY <1>4, <1>7
<1> QED BY <1>8 DEF Body

-----------------------------------------------------------------------------
(* What readers leave.                                                     *)

\* What readers leave: something that was read and the rest of the stream.
Results == [val : Universe, rest : Streams]

\* The same of an array.
Runs == [val : Seq(Universe), rest : Streams]

\* An array that was read is something that was read.
LEMMA RunsAreResults ==
  ASSUME NEW r \in Runs
  PROVE  r \in Results
BY UniverseHas DEF Runs, Results

\* The readings a reader is made of leave something read and a stream.
LEMMA ReadTypes ==
  /\ NothingRead \in Results
  /\ \A in \in Streams :
       /\ ReadSize(in) \in [val : Int, rest : Streams]
       /\ \A w \in Nat : Read(w, in) \in Results /\ Skip(w, in) \in Streams
<1>1. -1 \in Int /\ -1 \in Universe /\ <<>> \in Streams
  BY UniverseHas, CellTypes
<1>2. NothingRead \in [val : Int, rest : Streams] /\ NothingRead \in Results
  BY <1>1 DEF NothingRead, Garbage, Results
<1>3. ASSUME NEW in \in Streams, in # <<>>
      PROVE  Head(in).x \in Int /\ Tail(in) \in Streams
  <2>1. in \in Seq(Cells)
    BY CellTypes
  <2>2. Head(in) \in Cells /\ Tail(in) \in Seq(Cells)
    <3> HIDE DEF Cells
    <3> QED BY <1>3, <2>1
  <2> QED BY <2>2, CellTypes DEF Cells
<1>4. ASSUME NEW in \in Streams PROVE ReadSize(in) \in [val : Int, rest : Streams]
  BY <1>2, <1>3 DEF ReadSize
<1>5. ASSUME NEW in \in Streams, NEW w \in Nat
      PROVE  Read(w, in) \in Results /\ Skip(w, in) \in Streams
  <2>1. CASE in # <<>> /\ Head(in).width = w
    <3>1. (IF Head(in).tag = "data" THEN Head(in).x ELSE Garbage) \in Universe
      BY <1>1, <1>3, <2>1, UniverseHas DEF Garbage
    <3>2. Read(w, in) \in Results
      BY <1>3, <2>1, <3>1 DEF Read, Results
    <3> QED BY <3>2 DEF Skip, Results
  <2>2. CASE ~(in # <<>> /\ Head(in).width = w)
    <3>1. Read(w, in) = NothingRead
      BY <2>2 DEF Read
    <3> QED BY <1>2, <3>1 DEF Skip, Results
  <2> QED BY <2>1, <2>2
<1> QED BY <1>2, <1>4, <1>5

-----------------------------------------------------------------------------
\* reader[1] to reader[n] read what they are given.
Readers(n, reader) == \A i \in 1 .. n : reader[i] \in [Streams -> Results]

\* What is read by the i-th reader after what was read before.
Further(reader, i, r) ==
  [val  |-> Append(r.val, reader[i][r.rest].val),
   rest |-> reader[i][r.rest].rest]

\* done is the sequence of readings of ReadSeq.
Reading(n, reader, in, done) ==
  /\ done \in [0 .. n -> Runs]
  /\ done[0] = [val |-> <<>>, rest |-> in]
  /\ \A i \in 1 .. n : done[i] = Further(reader, i, done[i - 1])
  /\ ReadSeq(reader, n, in) = done[n]

\* One more element read.
LEMMA FurtherType ==
  ASSUME NEW n \in Nat, NEW reader, Readers(n, reader), NEW i \in 1 .. n, NEW r \in Runs
  PROVE  Further(reader, i, r) \in Runs
<1>1. reader[i][r.rest] \in Results /\ r.val \in Seq(Universe)
  BY DEF Readers, Runs
<1> QED BY <1>1 DEF Further, Runs, Results

\* ReadSeq reads the elements one after the other.
LEMMA ReadSeqRun ==
  ASSUME NEW n \in Nat, NEW reader, Readers(n, reader), NEW in \in Streams
  PROVE  \E done : Reading(n, reader, in, done)
<1> DEFINE step == [i \in 1 .. n |-> [r \in Runs |-> Further(reader, i, r)]]
           start == [val |-> <<>>, rest |-> in]
           Is(f) == f = [i \in 0 .. n |-> IF i = 0 THEN start ELSE Further(reader, i, f[i - 1])]
           done == CHOOSE f : Is(f)
<1>1. \A i \in 1 .. n : \A r \in Runs : Further(reader, i, r) \in Runs
  BY FurtherType
<1>2. start \in Runs
  <2>1. <<>> \in Seq(Universe)
    BY EmptySeq
  <2> QED BY <2>1 DEF Runs
<1>3. Turns(n, Runs, step)
  BY <1>1 DEF Turns
<1>4. ReadSeq(reader, n, in) = done[n]
  BY DEF ReadSeq, Further
<1> HIDE DEF start
<1>5. PICK f \in [0 .. n -> Runs] :
        f = [i \in 0 .. n |-> IF i = 0 THEN start ELSE step[i][f[i - 1]]]
  <2>1. Looped(n, Runs, start, step)
    <3> HIDE DEF step
    <3> QED BY <1>2, <1>3, Loop
  <2> QED BY <2>1 DEF Looped
<1>6. \A i \in 0 .. n : i # 0 => step[i][f[i - 1]] = Further(reader, i, f[i - 1])
  <2>1. \A i \in 0 .. n : i # 0 => i \in 1 .. n /\ i - 1 \in 0 .. n
    OBVIOUS
  <2> QED BY <2>1
<1>7. Is(f)
  <2> HIDE DEF step
  <2> QED BY <1>5, <1>6
<1>8. Is(done)
  <2> HIDE DEF Is
  <2> QED BY <1>7
<1> HIDE DEF done
<1>9. done[0] = start
  BY <1>8
<1>10. \A i \in 1 .. n : done[i] = Further(reader, i, done[i - 1])
  BY <1>8
<1>11. \A i \in 0 .. n : done[i] \in Runs
  <2> DEFINE T == {i \in Nat : i <= n => done[i] \in Runs}
  <2>1. 0 \in T
    BY <1>2, <1>9
  <2>2. ASSUME NEW i \in Nat, i \in T PROVE i + 1 \in T
    <3> SUFFICES ASSUME i + 1 <= n PROVE done[i + 1] \in Runs
      OBVIOUS
    <3>1. i + 1 \in 1 .. n /\ (i + 1) - 1 = i /\ i <= n
      OBVIOUS
    <3>2. done[i] \in Runs
      BY <2>2, <3>1
    <3>3. done[i + 1] = Further(reader, i + 1, done[i])
      BY <1>10, <3>1
    <3> QED BY <1>1, <3>1, <3>2, <3>3
  <2>3. Nat \subseteq T
    <3> HIDE DEF T
    <3> QED BY <2>1, <2>2, Induction
  <2> QED BY <2>3
<1>12. done \in [0 .. n -> Runs]
  <2>1. done = [i \in 0 .. n |-> done[i]]
    BY <1>8
  <2> QED BY <1>11, <2>1
<1>13. Reading(n, reader, in, done)
  BY <1>4, <1>9, <1>10, <1>12 DEF Reading, start
<1> QED BY <1>13

\* What it has read is an array.
LEMMA ReadSeqType ==
  ASSUME NEW n \in Nat, NEW reader, Readers(n, reader), NEW in \in Streams
  PROVE  ReadSeq(reader, n, in) \in Runs
<1>1. PICK done : Reading(n, reader, in, done)
  BY ReadSeqRun
<1> QED BY <1>1 DEF Reading

\* So is what is read after its own number of elements.
LEMMA ReadCountedType ==
  ASSUME NEW reader, \A n \in Nat : Readers(n, reader), NEW in \in Streams
  PROVE  ReadCounted(reader, in) \in Runs
<1> DEFINE size == ReadSize(in)
<1>1. size.val \in Int /\ size.rest \in Streams
  BY ReadTypes
<1>2. CASE size.val < 0
  <2>1. <<Garbage>> \in Seq(Universe)
    <3>1. Garbage \in Universe
      BY UniverseHas DEF Garbage
    <3> QED BY <3>1
  <2>2. [val |-> <<Garbage>>, rest |-> <<>>] \in Runs
    BY <2>1, CellTypes DEF Runs
  <2> QED BY <1>2, <2>2 DEF ReadCounted
<1>3. CASE ~(size.val < 0)
  <2>1. size.val \in Nat
    BY <1>1, <1>3
  <2>2. ReadCounted(reader, in) = ReadSeq(reader, size.val, size.rest)
    BY <1>3 DEF ReadCounted
  <2> HIDE DEF size
  <2> QED BY <1>1, <2>1, <2>2, ReadSeqType
<1> QED BY <1>2, <1>3

-----------------------------------------------------------------------------
(* The C deserializer, and memcpy out of a stream.                         *)

\* f reads the messages that nest less deep than those of type t.
ReadsBelow(f, t) ==
  \A u \in Types : Depth[u] < Depth[t] => f[u] \in [Streams -> Results]

\* Functions that read messages of any type.
TypeReaders == [Types -> [Streams -> Results]]

\* The readers of the characters of a string.
Characters == [k \in Nat |-> [rest \in Streams |-> Read(1, rest)]]

\* A string is read as a sequence.
LEMMA CharactersType ==
  ASSUME NEW in \in Streams
  PROVE  ReadCounted(Characters, in) \in Runs
<1>1. \A n \in Nat : Readers(n, Characters)
  BY ReadTypes DEF Readers, Characters
<1> QED BY <1>1, ReadCountedType

\* Every scalar has a width.
LEMMA ScalarWidths == \A k \in ScalarKinds : Width[k] \in Nat
BY DEF ScalarKinds, Width

\* What the C deserializer leaves after one element.
LEMMA CReadSingleType ==
  ASSUME NEW t \in Types, NEW f, ReadsBelow(f, t),
         NEW i \in DOMAIN Members[t], NEW in \in Streams
  PROVE  CDeserializeSingle(f, Members[t][i], in) \in Results
<1> DEFINE m == Members[t][i]
<1>1. CASE IsScalar(m)
  <2>1. CDeserializeSingle(f, m, in) = Read(Width[m.kind], in)
    BY <1>1 DEF CDeserializeSingle, IsScalar, ScalarKinds
  <2>2. Width[m.kind] \in Nat
    BY <1>1, ScalarWidths DEF IsScalar
  <2> QED BY <2>1, <2>2, ReadTypes
<1>2. CASE m.kind = "string"
  <2>1. CDeserializeSingle(f, m, in) = ReadCounted(Characters, in)
    BY <1>2 DEF CDeserializeSingle, CDeserializeString, Characters, IsScalar, ScalarKinds
  <2> QED BY <2>1, CharactersType, RunsAreResults
<1>3. CASE m.kind = "message"
  <2>1. CDeserializeSingle(f, m, in) = f[m.sub][in]
    BY <1>3 DEF CDeserializeSingle, IsScalar, ScalarKinds
  <2>2. f[m.sub] \in [Streams -> Results]
    BY <1>3, MemberTypes DEF ReadsBelow
  <2> QED BY <2>1, <2>2
<1>4. CASE m.kind = "wide"
  <2>1. CDeserializeSingle(f, m, in) = NothingRead
    BY <1>4 DEF CDeserializeSingle, IsScalar, ScalarKinds
  <2> QED BY <2>1, ReadTypes
<1> QED BY <1>1, <1>2, <1>3, <1>4, MemberTypes DEF IsScalar

\* What it leaves after a member.
LEMMA CReadMemberType ==
  ASSUME NEW t \in Types, NEW f, ReadsBelow(f, t),
         NEW i \in DOMAIN Members[t], NEW in \in Streams
  PROVE  CDeserializeMember(f, Members[t][i], in) \in Results
<1> DEFINE m == Members[t][i]
<1>0. \A rest \in Streams : CDeserializeSingle(f, m, rest) \in Results
  BY CReadSingleType
<1>1. CASE IsDynamic(m)
  <2> DEFINE reader == [k \in Nat |-> [rest \in Streams |-> CDeserializeSingle(f, m, rest)]]
  <2>1. CDeserializeMember(f, m, in) = ReadCounted(reader, in)
    BY <1>1 DEF CDeserializeMember, CDeserializeDynamicArray, IsDynamic, IsStatic
  <2>2. \A n \in Nat : Readers(n, reader)
    BY <1>0 DEF Readers
  <2> HIDE DEF reader
  <2> QED BY <2>1, <2>2, ReadCountedType, RunsAreResults
<1>2. CASE IsStatic(m)
  <2> DEFINE reader == [k \in 1 .. m.count |->
                          [rest \in Streams |-> CDeserializeSingle(f, m, rest)]]
  <2>1. CDeserializeMember(f, m, in) = ReadSeq(reader, m.count, in)
    BY <1>2 DEF CDeserializeMember, CDeserializeArray, IsDynamic, IsStatic
  <2>2. Readers(m.count, reader)
    BY <1>0 DEF Readers
  <2>3. m.count \in Nat
    BY MemberTypes
  <2> HIDE DEF reader
  <2> QED BY <2>1, <2>2, <2>3, ReadSeqType, RunsAreResults
<1>3. CASE ~IsDynamic(m) /\ ~IsStatic(m)
  BY <1>0, <1>3 DEF CDeserializeMember
<1> QED BY <1>1, <1>2, <1>3

\* What it leaves after a message.
LEMMA CReadMembersType ==
  ASSUME NEW t \in Types, NEW f, ReadsBelow(f, t), NEW in \in Streams
  PROVE  CDeserializeMembers(f, t, in) \in Results
<1> DEFINE n == Len(Members[t])
           reader == [i \in DOMAIN Members[t] |->
                        [rest \in Streams |-> CDeserializeMember(f, Members[t][i], rest)]]
<1>1. n \in Nat /\ DOMAIN Members[t] = 1 .. n
  BY MemberCount
<1>2. Readers(n, reader)
  BY <1>1, CReadMemberType DEF Readers
<1>3. CDeserializeMembers(f, t, in) = ReadSeq(reader, n, in)
  BY DEF CDeserializeMembers
<1> HIDE DEF reader, n
<1> QED BY <1>1, <1>2, <1>3, ReadSeqType, RunsAreResults

\* What is read of a message depends on the readers of the messages in it.
LEMMA SameCReading ==
  ASSUME NEW t \in Types, NEW f, NEW g, SameBelow(Types, Depth, f, g, t), NEW in
  PROVE  CDeserializeMembers(f, t, in) = CDeserializeMembers(g, t, in)
<1>1. ASSUME NEW i \in DOMAIN Members[t], NEW rest
      PROVE  CDeserializeSingle(f, Members[t][i], rest) =
               CDeserializeSingle(g, Members[t][i], rest)
  <2>1. Members[t][i].kind = "message" => f[Members[t][i].sub] = g[Members[t][i].sub]
    BY MemberTypes DEF SameBelow
  <2> QED BY <2>1 DEF CDeserializeSingle
<1>2. ASSUME NEW i \in DOMAIN Members[t], NEW rest
      PROVE  CDeserializeMember(f, Members[t][i], rest) =
               CDeserializeMember(g, Members[t][i], rest)
  <2> DEFINE m == Members[t][i]
  <2>1. [k \in Nat |-> [r \in Streams |-> CDeserializeSingle(f, m, r)]] =
          [k \in Nat |-> [r \in Streams |-> CDeserializeSingle(g, m, r)]]
    BY <1>1
  <2>2. [k \in 1 .. m.count |-> [r \in Streams |-> CDeserializeSingle(f, m, r)]] =
          [k \in 1 .. m.count |-> [r \in Streams |-> CDeserializeSingle(g, m, r)]]
    BY <1>1
  <2>3. CDeserializeSingle(f, m, rest) = CDeserializeSingle(g, m, rest)
    BY <1>1
  <2> HIDE DEF m
  <2>4. CDeserializeMember(f, m, rest) = CDeserializeMember(g, m, rest)
    BY <2>1, <2>2, <2>3 DEF CDeserializeMember, CDeserializeArray, CDeserializeDynamicArray
  <2> QED BY <2>4 DEF m
<1>3. [i \in DOMAIN Members[t] |->
         [rest \in Streams |-> CDeserializeMember(f, Members[t][i], rest)]] =
        [i \in DOMAIN Members[t] |->
           [rest \in Streams |-> CDeserializeMember(g, Members[t][i], rest)]]
  BY <1>2
<1> QED BY <1>3 DEF CDeserializeMembers

-----------------------------------------------------------------------------
\* What memcpy into a member leaves.
LEMMA ReadImageMemberType ==
  ASSUME NEW lang \in Langs, NEW t \in Types, NEW f, ReadsBelow(f, t),
         NEW i \in DOMAIN Members[t], NEW in \in Streams
  PROVE  ReadImageMember(f, lang, t, i, in) \in Results
<1> DEFINE m == Members[t][i]
<1>0. ASSUME NEW rest \in Streams PROVE ReadImageSingle(f, lang, t, i, rest) \in Results
  <2>1. CASE m.kind = "message"
    <3>1. f[m.sub] \in [Streams -> Results]
      BY <2>1, MemberTypes DEF ReadsBelow
    <3> QED BY <2>1, <3>1 DEF ReadImageSingle
  <2>2. CASE m.kind # "message"
    <3>1. ElementSize(lang, t, i) \in Nat
      BY Sizes
    <3> QED BY <2>2, <3>1, ReadTypes DEF ReadImageSingle
  <2> QED BY <2>1, <2>2
<1>1. CASE IsDynamic(m)
  <2>1. ReadImageMember(f, lang, t, i, in) = Read(24, in)
    BY <1>1 DEF ReadImageMember, VectorSize, IsDynamic, IsStatic
  <2> QED BY <2>1, ReadTypes
<1>2. CASE IsStatic(m)
  <2> DEFINE reader == [k \in 1 .. m.count |->
                          [rest \in Streams |-> ReadImageSingle(f, lang, t, i, rest)]]
  <2>1. ReadImageMember(f, lang, t, i, in) = ReadSeq(reader, m.count, in)
    BY <1>2 DEF ReadImageMember, IsDynamic, IsStatic
  <2>2. Readers(m.count, reader)
    BY <1>0 DEF Readers
  <2>3. m.count \in Nat
    BY MemberTypes
  <2> HIDE DEF reader
  <2> QED BY <2>1, <2>2, <2>3, ReadSeqType, RunsAreResults
<1>3. CASE ~IsDynamic(m) /\ ~IsStatic(m)
  BY <1>0, <1>3 DEF ReadImageMember
<1> QED BY <1>1, <1>2, <1>3

\* Padding has a size.
LEMMA GapType ==
  ASSUME NEW lang \in Langs, NEW t \in Types, NEW i \in 1 .. Len(Members[t]) + 1
  PROVE  Gap(lang, t, i) \in Nat
<1> DEFINE n == Len(Members[t])
<1>0. n \in Nat /\ DOMAIN Members[t] = 1 .. n
  BY MemberCount
<1>1. Gap(lang, t, i) >= 0
  BY Sizes
<1>2. /\ SizeOf(lang, t) \in Int
      /\ \A j \in 1 .. n : Offset(lang, t, j) \in Int /\ End(lang, t, j) \in Int
  BY <1>0, Sizes, MemberTypes DEF End, VectorSize
<1>3. i > n \/ i \in 1 .. n
  BY <1>0
<1>4. i = 1 \/ i - 1 \in 1 .. n
  BY <1>0
<1>5. Gap(lang, t, i) \in Int
  BY <1>2, <1>3, <1>4 DEF Gap
<1> QED BY <1>1, <1>5

\* What memcpy into a message leaves.
LEMMA ReadImageMessageType ==
  ASSUME NEW lang \in Langs, NEW t \in Types, NEW f, ReadsBelow(f, t), NEW in \in Streams
  PROVE  ReadImageMessage(f, lang, t, in) \in Results
<1> DEFINE n == Len(Members[t])
           reader == [i \in DOMAIN Members[t] |->
                        [rest \in Streams |->
                           ReadImageMember(f, lang, t, i, Skip(Gap(lang, t, i), rest))]]
           all == ReadSeq(reader, n, in)
<1>1. n \in Nat /\ DOMAIN Members[t] = 1 .. n
  BY MemberCount
<1>2. ASSUME NEW i \in 1 .. n, NEW rest \in Streams
      PROVE  ReadImageMember(f, lang, t, i, Skip(Gap(lang, t, i), rest)) \in Results
  <2>1. Gap(lang, t, i) \in Nat
    BY <1>1, GapType
  <2>2. Skip(Gap(lang, t, i), rest) \in Streams
    BY <2>1, ReadTypes
  <2> QED BY <1>1, <2>2, ReadImageMemberType
<1>3. Readers(n, reader)
  BY <1>1, <1>2 DEF Readers
<1>4. ReadImageMessage(f, lang, t, in) =
        [all EXCEPT !.rest = Skip(Gap(lang, t, n + 1), @)]
  BY DEF ReadImageMessage
<1>5. all \in Runs
  <2> HIDE DEF reader
  <2> QED BY <1>1, <1>3, ReadSeqType
<1>6. Gap(lang, t, n + 1) \in Nat
  BY <1>1, GapType
<1>7. Skip(Gap(lang, t, n + 1), all.rest) \in Streams
  <2>1. all.rest \in Streams
    BY <1>5 DEF Runs
  <2> HIDE DEF all, n
  <2> QED BY <1>6, <2>1, ReadTypes
<1> HIDE DEF all, n
<1>8. ReadImageMessage(f, lang, t, in) \in Runs
  BY <1>4, <1>5, <1>7 DEF Runs
<1> QED BY <1>8, RunsAreResults

\* What memcpy does to a message depends on the messages in it only.
LEMMA SameImageReading ==
  ASSUME NEW lang, NEW t \in Types, NEW f, NEW g, SameBelow(Types, Depth, f, g, t), NEW in
  PROVE  ReadImageMessage(f, lang, t, in) = ReadImageMessage(g, lang, t, in)
<1>1. ASSUME NEW i \in DOMAIN Members[t], NEW rest
      PROVE  ReadImageSingle(f, lang, t, i, rest) = ReadImageSingle(g, lang, t, i, rest)
  <2>1. Members[t][i].kind = "message" => f[Members[t][i].sub] = g[Members[t][i].sub]
    BY MemberTypes DEF SameBelow
  <2> QED BY <2>1 DEF ReadImageSingle
<1>2. ASSUME NEW i \in DOMAIN Members[t], NEW rest
      PROVE  ReadImageMember(f, lang, t, i, rest) = ReadImageMember(g, lang, t, i, rest)
  <2>1. [k \in 1 .. Members[t][i].count |->
           [r \in Streams |-> ReadImageSingle(f, lang, t, i, r)]] =
          [k \in 1 .. Members[t][i].count |->
             [r \in Streams |-> ReadImageSingle(g, lang, t, i, r)]]
    BY <1>1
  <2> QED BY <1>1, <2>1 DEF ReadImageMember
<1>3. [i \in DOMAIN Members[t] |->
         [rest \in Streams |->
            ReadImageMember(f, lang, t, i, Skip(Gap(lang, t, i), rest))]] =
        [i \in DOMAIN Members[t] |->
           [rest \in Streams |->
              ReadImageMember(g, lang, t, i, Skip(Gap(lang, t, i), rest))]]
  BY <1>2
<1> QED BY <1>3 DEF ReadImageMessage

\* There is a reader.
LEMMA ResultsInhabited == [Streams -> Results] # {}
<1>1. [in \in Streams |-> NothingRead] \in [Streams -> Results]
  BY ReadTypes
<1> QED BY <1>1

\* image is ReadImage, one type at a time.
ReadImages(lang, image) ==
  /\ image \in TypeReaders
  /\ \A t \in Types : \A in \in Streams :
       /\ image[t][in] = ReadImageMessage(image, lang, t, in)
       /\ ReadImage(lang, t, in) = image[t][in]

\* ReadImage is what its definition says, one type at a time.
LEMMA ReadImageEquation ==
  ASSUME NEW lang \in Langs
  PROVE  \E image : ReadImages(lang, image)
<1> DEFINE C == [Streams -> Results]
           Body(f, t) == [rest \in Streams |-> ReadImageMessage(f, lang, t, rest)]
           D == [Types -> C]
           G == [f \in D |-> [t \in Types |-> Body(f, t)]]
           Is(f) == f = [t \in Types |-> Body(f, t)]
           image == CHOOSE f : Is(f)
<1>1. ASSUME NEW f, NEW t \in Types, ReadsBelow(f, t) PROVE Body(f, t) \in C
  BY <1>1, ReadImageMessageType
<1>2. ASSUME NEW f, NEW g, NEW t \in Types, SameBelow(Types, Depth, f, g, t)
      PROVE  Body(f, t) = Body(g, t)
  BY <1>2, SameImageReading
<1>3. \A t \in Types : \A in \in Streams : ReadImage(lang, t, in) = image[t][in]
  BY DEF ReadImage
<1>4. \A f : Is(f) => \A t \in Types : \A in \in Streams :
        f[t][in] = ReadImageMessage(f, lang, t, in)
  OBVIOUS
<1> HIDE DEF Body
<1>5. Maps(D, G)
  <2>1. \A f \in D : \A t \in Types : ReadsBelow(f, t)
    BY DEF ReadsBelow
  <2>2. \A f \in D : \A t \in Types : Body(f, t) \in C
    BY <1>1, <2>1
  <2> HIDE DEF C
  <2> QED BY <2>2 DEF Maps
<1>6. Contracts(Types, Depth, D, G)
  BY <1>2 DEF Contracts
<1>7. Solved(D, G)
  <2>1. Ranked(Types, Depth) /\ C # {}
    BY TypesAssumption, ResultsInhabited DEF Ranked
  <2> HIDE DEF G, C
  <2> QED BY <2>1, <1>5, <1>6, RecursionInto
<1>8. Is(image)
  <2>1. \E f : Is(f)
    BY <1>7 DEF Solved
  <2> HIDE DEF Is
  <2> QED BY <2>1
<1> HIDE DEF image
<1>9. image \in TypeReaders
  <2> DEFINE T == {t \in Types : image[t] \in C}
  <2>1. ASSUME NEW t \in Types, \A u \in Types : Depth[u] < Depth[t] => u \in T
        PROVE  t \in T
    <3>1. ReadsBelow(image, t)
      BY <2>1 DEF ReadsBelow
    <3>2. image[t] = Body(image, t)
      BY <1>8
    <3> QED BY <3>1, <3>2, <1>1
  <2>2. Types \subseteq T
    <3> HIDE DEF T
    <3> QED BY <2>1, TypesInduction
  <2>3. image = [t \in Types |-> image[t]]
    BY <1>8
  <2> QED BY <2>2, <2>3 DEF TypeReaders
<1> QED BY <1>3, <1>4, <1>8, <1>9 DEF ReadImages

\* message is the C deserializer, one type at a time.
CReads(fast, message) ==
  /\ message \in TypeReaders
  /\ \A t \in Types : \A in \in Streams :
       /\ message[t][in] = IF t \in fast THEN ReadImage("c", t, in)
                           ELSE CDeserializeMembers(message, t, in)
       /\ CDeserializeMessage(fast, t, in) = message[t][in]

\* CDeserializeMessage is what its definition says, one type at a time.
LEMMA CReadEquation ==
  ASSUME NEW fast
  PROVE  \E message : CReads(fast, message)
<1> DEFINE C == [Streams -> Results]
           One(f, t, in) == IF t \in fast THEN ReadImage("c", t, in)
                            ELSE CDeserializeMembers(f, t, in)
           Body(f, t) == [rest \in Streams |-> One(f, t, rest)]
           D == [Types -> C]
           G == [f \in D |-> [t \in Types |-> Body(f, t)]]
           Is(f) == f = [t \in Types |-> Body(f, t)]
           message == CHOOSE f : Is(f)
<1>0. \A t \in Types : \A in \in Streams : ReadImage("c", t, in) \in Results
  <2>1. PICK image : ReadImages("c", image)
    BY ReadImageEquation DEF Langs
  <2> QED BY <2>1 DEF ReadImages, TypeReaders
<1>1. ASSUME NEW f, NEW t \in Types, ReadsBelow(f, t) PROVE Body(f, t) \in C
  BY <1>0, <1>1, CReadMembersType
<1>2. ASSUME NEW f, NEW g, NEW t \in Types, SameBelow(Types, Depth, f, g, t)
      PROVE  Body(f, t) = Body(g, t)
  <2>1. \A in \in Streams : One(f, t, in) = One(g, t, in)
    BY <1>2, SameCReading
  <2> HIDE DEF One
  <2> QED BY <2>1
<1>3. \A t \in Types : \A in \in Streams : CDeserializeMessage(fast, t, in) = message[t][in]
  BY DEF CDeserializeMessage
<1>4. \A f : Is(f) => \A t \in Types : \A in \in Streams : f[t][in] = One(f, t, in)
  <2> HIDE DEF One
  <2> QED OBVIOUS
<1> HIDE DEF Body
<1>5. Maps(D, G)
  <2>1. \A f \in D : \A t \in Types : ReadsBelow(f, t)
    BY DEF ReadsBelow
  <2>2. \A f \in D : \A t \in Types : Body(f, t) \in C
    BY <1>1, <2>1
  <2> HIDE DEF C
  <2> QED BY <2>2 DEF Maps
<1>6. Contracts(Types, Depth, D, G)
  BY <1>2 DEF Contracts
<1>7. Solved(D, G)
  <2>1. Ranked(Types, Depth) /\ C # {}
    BY TypesAssumption, ResultsInhabited DEF Ranked
  <2> HIDE DEF G, C
  <2> QED BY <2>1, <1>5, <1>6, RecursionInto
<1>8. Is(message)
  <2>1. \E f : Is(f)
    BY <1>7 DEF Solved
  <2> HIDE DEF Is
  <2> QED BY <2>1
<1> HIDE DEF message
<1>9. message \in TypeReaders
  <2> DEFINE T == {t \in Types : message[t] \in C}
  <2>1. ASSUME NEW t \in Types, \A u \in Types : Depth[u] < Depth[t] => u \in T
        PROVE  t \in T
    <3>1. ReadsBelow(message, t)
      BY <2>1 DEF ReadsBelow
    <3>2. message[t] = Body(message, t)
      BY <1>8
    <3> QED BY <3>1, <3>2, <1>1
  <2>2. Types \subseteq T
    <3> HIDE DEF T
    <3> QED BY <2>1, TypesInduction
  <2>3. message = [t \in Types |-> message[t]]
    BY <1>8
  <2> QED BY <2>2, <2>3 DEF TypeReaders
<1> QED BY <1>3, <1>4, <1>8, <1>9 DEF CReads

-----------------------------------------------------------------------------
\* Copying into a solid type is reading its members one by one.
LEMMA SolidReading ==
  ASSUME NEW lang \in Langs, NEW fast, NEW t \in Types, Solid(lang, fast, t),
         NEW image, NEW plain \in TypeReaders,
         \A u \in Types : Depth[u] < Depth[t] /\ u \in fast => image[u] = plain[u],
         NEW in \in Streams
  PROVE  ReadImageMessage(image, lang, t, in) = CDeserializeMembers(plain, t, in)
<1> DEFINE n == Len(Members[t])
           a == [i \in DOMAIN Members[t] |->
                   [rest \in Streams |->
                      ReadImageMember(image, lang, t, i, Skip(Gap(lang, t, i), rest))]]
           b == [i \in DOMAIN Members[t] |->
                   [rest \in Streams |-> CDeserializeMember(plain, Members[t][i], rest)]]
<1>0. n \in Nat /\ DOMAIN Members[t] = 1 .. n
  BY MemberCount
<1>1. \A i \in 1 .. n + 1 : \A rest : Skip(Gap(lang, t, i), rest) = rest
  BY DEF Solid, Skip
<1>2. ASSUME NEW i \in DOMAIN Members[t], NEW rest
      PROVE  ReadImageMember(image, lang, t, i, rest) =
               CDeserializeMember(plain, Members[t][i], rest)
  <2> DEFINE m == Members[t][i]
  <2>1. ~IsDynamic(m) /\ (IsScalar(m) \/ (m.kind = "message" /\ m.sub \in fast))
    BY DEF Solid
  <2>2. ASSUME NEW r
        PROVE  ReadImageSingle(image, lang, t, i, r) = CDeserializeSingle(plain, m, r)
    <3>1. CASE IsScalar(m)
      <4>1. ElementSize(lang, t, i) = Width[m.kind]
        BY <3>1, Sizes
      <4> QED BY <3>1, <4>1 DEF ReadImageSingle, CDeserializeSingle, IsScalar, ScalarKinds
    <3>2. CASE m.kind = "message" /\ m.sub \in fast
      <4>1. image[m.sub] = plain[m.sub]
        BY <3>2, MemberTypes
      <4> QED BY <3>2, <4>1 DEF ReadImageSingle, CDeserializeSingle, IsScalar, ScalarKinds
    <3> QED BY <2>1, <3>1, <3>2
  <2>3. [k \in 1 .. m.count |-> [r \in Streams |-> ReadImageSingle(image, lang, t, i, r)]] =
          [k \in 1 .. m.count |-> [r \in Streams |-> CDeserializeSingle(plain, m, r)]]
    BY <2>2
  <2>4. CASE IsStatic(m)
    BY <2>1, <2>3, <2>4 DEF ReadImageMember, CDeserializeMember, CDeserializeArray
  <2>5. CASE ~IsStatic(m)
    BY <2>1, <2>2, <2>5 DEF ReadImageMember, CDeserializeMember
  <2> QED BY <2>4, <2>5
<1>3. a = b
  <2>1. \A i \in DOMAIN Members[t] : i \in 1 .. n + 1
    BY <1>0
  <2> QED BY <1>1, <1>2, <2>1
<1>4. CDeserializeMembers(plain, t, in) = ReadSeq(b, n, in)
  BY DEF CDeserializeMembers
<1>5. ReadImageMessage(image, lang, t, in) =
        [ReadSeq(a, n, in) EXCEPT !.rest = Skip(Gap(lang, t, n + 1), @)]
  BY DEF ReadImageMessage
<1>6. n + 1 \in 1 .. n + 1
  BY <1>0
<1>7. Readers(n, b)
  <2>1. ReadsBelow(plain, t)
    BY DEF ReadsBelow, TypeReaders
  <2> QED BY <1>0, <2>1, CReadMemberType DEF Readers
<1> HIDE DEF a, b, n
<1>8. ReadSeq(b, n, in) \in Runs
  BY <1>0, <1>7, ReadSeqType
<1>9. ReadImageMessage(image, lang, t, in) =
        [ReadSeq(b, n, in) EXCEPT !.rest = ReadSeq(b, n, in).rest]
  BY <1>1, <1>3, <1>5, <1>6
<1>10. ASSUME NEW r \in Runs PROVE [r EXCEPT !.rest = r.rest] = r
  BY DEF Runs
<1> QED BY <1>4, <1>8, <1>9, <1>10

\* Every C deserializer that copies solid types only reads alike, and so does
\* memcpy into those types.
LEMMA CReadsAlike ==
  ASSUME NEW lang \in Langs, NEW fast, \A t \in fast : Solid(lang, fast, t),
         NEW plain, CReads({}, plain), NEW image, ReadImages(lang, image)
  PROVE  \A t \in Types : t \in fast => image[t] = plain[t]
<1> DEFINE T == {t \in Types : t \in fast => image[t] = plain[t]}
<1>1. ASSUME NEW t \in Types, \A u \in Types : Depth[u] < Depth[t] => u \in T
      PROVE  t \in T
  <2> SUFFICES ASSUME t \in fast PROVE image[t] = plain[t]
    OBVIOUS
  <2>1. plain \in TypeReaders /\ image \in TypeReaders
    BY DEF CReads, ReadImages
  <2>2. \A u \in Types : Depth[u] < Depth[t] /\ u \in fast => image[u] = plain[u]
    BY <1>1
  <2>3. ASSUME NEW in \in Streams PROVE image[t][in] = plain[t][in]
    <3>1. image[t][in] = ReadImageMessage(image, lang, t, in)
      BY DEF ReadImages
    <3>2. plain[t][in] = CDeserializeMembers(plain, t, in)
      BY DEF CReads
    <3> HIDE DEF T
    <3> QED BY <2>1, <2>2, <3>1, <3>2, SolidReading
  <2>4. image[t] \in [Streams -> Results] /\ plain[t] \in [Streams -> Results]
    BY <2>1 DEF TypeReaders
  <2> QED BY <2>3, <2>4
<1>2. Types \subseteq T
  <2> HIDE DEF T
  <2> QED BY <1>1, TypesInduction
<1> QED BY <1>2

\* A C deserializer that copies solid types only reads what one that copies
\* none reads.
THEOREM CReadForm ==
  ASSUME NEW fast, \A t \in fast : Solid("c", fast, t), NEW plain, CReads({}, plain)
  PROVE  \A t \in Types : \A in \in Streams : CDeserializeMessage(fast, t, in) = plain[t][in]
<1>1. PICK image : ReadImages("c", image)
  BY ReadImageEquation DEF Langs
<1>2. PICK message : CReads(fast, message)
  BY CReadEquation
<1>3. \A t \in Types : t \in fast => image[t] = plain[t]
  BY <1>1, CReadsAlike DEF Langs
<1> DEFINE T == {t \in Types : message[t] = plain[t]}
<1>4. ASSUME NEW t \in Types, \A u \in Types : Depth[u] < Depth[t] => u \in T
      PROVE  t \in T
  <2>1. ASSUME NEW in \in Streams PROVE message[t][in] = plain[t][in]
    <3>1. CASE t \in fast
      BY <1>1, <1>2, <1>3, <3>1 DEF CReads, ReadImages
    <3>2. CASE t \notin fast
      <4>1. SameBelow(Types, Depth, message, plain, t)
        BY <1>4 DEF SameBelow
      <4>2. message[t][in] = CDeserializeMembers(message, t, in)
        BY <1>2, <3>2 DEF CReads
      <4>3. plain[t][in] = CDeserializeMembers(plain, t, in)
        BY DEF CReads
      <4> HIDE DEF T
      <4> QED BY <4>1, <4>2, <4>3, SameCReading
    <3> QED BY <3>1, <3>2
  <2>2. message[t] \in [Streams -> Results] /\ plain[t] \in [Streams -> Results]
    BY <1>2 DEF CReads, TypeReaders
  <2> QED BY <2>1, <2>2
<1>5. Types \subseteq T
  <2> HIDE DEF T
  <2> QED BY <1>4, TypesInduction
<1> QED BY <1>2, <1>5 DEF CReads

-----------------------------------------------------------------------------
\* f reads the messages that nest less deep than those of type t, over what
\* the application's message held.
CppReadsBelow(f, t) ==
  \A u \in Types : Depth[u] < Depth[t] => f[u] \in [Values[u] -> [Streams -> Results]]

\* Functions that read messages of any type over what the target holds.
CppReaders == Dependent(Types, [u \in Types |-> [Values[u] -> [Streams -> Results]]])

\* A reader in C++ reads streams into messages of any type it may nest.
LEMMA CppReaderTypes ==
  /\ \A f \in CppReaders : \A u \in Types : f[u] \in [Values[u] -> [Streams -> Results]]
  /\ \A f \in CppReaders : \A t \in Types : CppReadsBelow(f, t)
  /\ \A f : f = [u \in Types |-> f[u]]
            /\ (\A u \in Types : f[u] \in [Values[u] -> [Streams -> Results]])
              => f \in CppReaders
  /\ Inhabited(Types, [u \in Types |-> [Values[u] -> [Streams -> Results]]])
<1> DEFINE C == [Streams -> Results]
           V == [u \in Types |-> [Values[u] -> C]]
<1>0. PICK c : c \in C
  BY ResultsInhabited
<1> HIDE DEF C
<1>1. CppReaders = Dependent(Types, V)
  BY DEF CppReaders, C
<1>2. \A f \in CppReaders : \A u \in Types : f[u] \in [Values[u] -> C]
  BY <1>1 DEF Dependent
<1>3. \A f \in CppReaders : \A t \in Types : CppReadsBelow(f, t)
  BY <1>2 DEF CppReadsBelow, C
<1>4. ASSUME NEW f, f = [u \in Types |-> f[u]],
             \A u \in Types : f[u] \in [Values[u] -> C]
      PROVE  f \in CppReaders
  <2>1. \A u \in Types : f[u] \in V[u]
    BY <1>4
  <2>2. f \in [Types -> UNION {V[u] : u \in Types}]
    BY <1>4, <2>1
  <2> QED BY <1>1, <2>1, <2>2 DEF Dependent
<1>5. ASSUME NEW u \in Types PROVE V[u] # {}
  <2>1. [x \in Values[u] |-> c] \in [Values[u] -> C]
    BY <1>0
  <2> QED BY <2>1
<1>6. Inhabited(Types, V)
  BY <1>5 DEF Inhabited
<1> QED BY <1>2, <1>3, <1>4, <1>6 DEF C

\* An element that resize makes is a value of its type.
LEMMA FreshElementType ==
  ASSUME NEW t \in Types, NEW i \in DOMAIN Members[t]
  PROVE  CppFreshElement(CppFresh, Members[t][i]) \in OneValue(Members[t][i])
<1>1. Members[t][i].kind = "message" => CppFresh[Members[t][i].sub] \in Values[Members[t][i].sub]
  BY MemberTypes, FreshAssumption
<1>2. <<>> \in Seq(Int)
  BY EmptySeq
<1>3. CASE Members[t][i].kind = "string"
  BY <1>2, <1>3 DEF CppFreshElement, OneValue
<1>4. CASE Members[t][i].kind = "message"
  BY <1>1, <1>4 DEF CppFreshElement, OneValue
<1>5. CASE Members[t][i].kind \notin {"string", "message"}
  BY <1>5 DEF CppFreshElement, OneValue
<1> QED BY <1>3, <1>4, <1>5

\* Text behind text is text.
LEMMA AppendedType ==
  ASSUME NEW old \in Seq(Int), NEW r \in Runs
  PROVE  [r EXCEPT !.val = old \o @] \in Runs
<1>1. old \in Seq(Universe)
  BY UniverseHas
<1>2. old \o r.val \in Seq(Universe)
  BY <1>1 DEF Runs
<1> QED BY <1>2 DEF Runs

\* What the C++ deserializer leaves after one element.
LEMMA CppReadSingleType ==
  ASSUME NEW t \in Types, NEW f, CppReadsBelow(f, t),
         NEW i \in DOMAIN Members[t], NEW old \in OneValue(Members[t][i]), NEW in \in Streams
  PROVE  CppDeserializeSingle(f, Members[t][i], old, in) \in Results
<1> DEFINE m == Members[t][i]
<1>1. CASE IsScalar(m)
  <2>1. CppDeserializeSingle(f, m, old, in) = Read(Width[m.kind], in)
    BY <1>1 DEF CppDeserializeSingle, IsScalar, ScalarKinds
  <2>2. Width[m.kind] \in Nat
    BY <1>1, ScalarWidths DEF IsScalar
  <2> QED BY <2>1, <2>2, ReadTypes
<1>2. CASE m.kind = "string"
  <2>1. CppDeserializeSingle(f, m, old, in) =
          [ReadCounted(Characters, in) EXCEPT !.val = old \o @]
    BY <1>2 DEF CppDeserializeSingle, CppDeserializeString, Characters, IsScalar, ScalarKinds
  <2>2. old \in Seq(Int)
    BY <1>2 DEF OneValue
  <2> HIDE DEF m
  <2> QED BY <2>1, <2>2, CharactersType, AppendedType, RunsAreResults DEF m
<1>3. CASE m.kind = "message"
  <2>1. CppDeserializeSingle(f, m, old, in) = f[m.sub][old][in]
    BY <1>3 DEF CppDeserializeSingle, IsScalar, ScalarKinds
  <2>2. f[m.sub] \in [Values[m.sub] -> [Streams -> Results]]
    BY <1>3, MemberTypes DEF CppReadsBelow
  <2>3. old \in Values[m.sub]
    BY <1>3 DEF OneValue
  <2> QED BY <2>1, <2>2, <2>3
<1>4. CASE m.kind = "wide"
  <2>1. CppDeserializeSingle(f, m, old, in) = NothingRead
    BY <1>4 DEF CppDeserializeSingle, IsScalar, ScalarKinds
  <2> QED BY <2>1, ReadTypes
<1> QED BY <1>1, <1>2, <1>3, <1>4, MemberTypes DEF IsScalar

\* The element that the k-th one is read into.
Held(m, olds, k) ==
  IF k \in DOMAIN olds THEN olds[k] ELSE CppFreshElement(CppFresh, m)

\* The elements of a target, and those that resize adds, are of one type.
LEMMA HeldType ==
  ASSUME NEW t \in Types, NEW i \in DOMAIN Members[t],
         NEW olds \in Seq(OneValue(Members[t][i])), NEW k
  PROVE  Held(Members[t][i], olds, k) \in OneValue(Members[t][i])
<1>1. k \in DOMAIN olds => olds[k] \in OneValue(Members[t][i])
  OBVIOUS
<1> QED BY <1>1, FreshElementType DEF Held

\* What it leaves after a member.
LEMMA CppReadMemberType ==
  ASSUME NEW t \in Types, NEW f, CppReadsBelow(f, t),
         NEW i \in DOMAIN Members[t], NEW was \in Values[t], NEW in \in Streams
  PROVE  CppDeserializeMember(f, Members[t][i], was[i], in) \in Results
<1> DEFINE m == Members[t][i]
           old == was[i]
<1>1. CASE IsDynamic(m) /\ m.kind = "bool"
  <2>1. CppDeserializeMember(f, m, old, in) =
          [ReadCounted(Characters, in) EXCEPT !.val = old \o @]
    BY <1>1 DEF CppDeserializeMember, CppDeserializeBools, Characters, IsDynamic, IsStatic
  <2>2. old \in Seq(Int)
    BY <1>1, ValueTypes DEF IsScalar, ScalarKinds
  <2> HIDE DEF m, old
  <2> QED BY <2>1, <2>2, CharactersType, AppendedType, RunsAreResults DEF m, old
<1>2. CASE IsDynamic(m) /\ m.kind # "bool"
  <2> DEFINE reader == [k \in Nat |-> [rest \in Streams |->
                          CppDeserializeSingle(f, m, Held(m, old, k), rest)]]
  <2>1. CppDeserializeMember(f, m, old, in) = ReadCounted(reader, in)
    BY <1>2 DEF CppDeserializeMember, CppDeserializeDynamicArray, Held, IsDynamic, IsStatic
  <2>2. old \in Seq(OneValue(m))
    BY <1>2, ValueTypes
  <2>3. \A k \in Nat, rest \in Streams :
          CppDeserializeSingle(f, m, Held(m, old, k), rest) \in Results
    <3> HIDE DEF old
    <3> QED BY <2>2, HeldType, CppReadSingleType
  <2>4. \A n \in Nat : Readers(n, reader)
    BY <2>3 DEF Readers
  <2> HIDE DEF reader
  <2> QED BY <2>1, <2>4, ReadCountedType, RunsAreResults
<1>3. CASE IsStatic(m)
  <2> DEFINE reader == [k \in 1 .. m.count |-> [rest \in Streams |->
                          CppDeserializeSingle(f, m, old[k], rest)]]
  <2>1. CppDeserializeMember(f, m, old, in) = ReadSeq(reader, m.count, in)
    BY <1>3 DEF CppDeserializeMember, CppDeserializeArray, IsDynamic, IsStatic
  <2>2. old \in [1 .. m.count -> OneValue(m)]
    BY <1>3, ValueTypes
  <2>3. \A k \in 1 .. m.count, rest \in Streams :
          CppDeserializeSingle(f, m, old[k], rest) \in Results
    <3> HIDE DEF old
    <3> QED BY <2>2, CppReadSingleType
  <2>4. Readers(m.count, reader)
    BY <2>3 DEF Readers
  <2>5. m.count \in Nat
    BY MemberTypes
  <2> HIDE DEF reader
  <2> QED BY <2>1, <2>4, <2>5, ReadSeqType, RunsAreResults
<1>4. CASE ~IsDynamic(m) /\ ~IsStatic(m)
  <2>1. old \in OneValue(m)
    BY <1>4, ValueTypes
  <2>2. CppDeserializeMember(f, m, old, in) = CppDeserializeSingle(f, m, old, in)
    BY <1>4 DEF CppDeserializeMember
  <2> HIDE DEF old
  <2> QED BY <2>1, <2>2, CppReadSingleType DEF old
<1> QED BY <1>1, <1>2, <1>3, <1>4

\* What it leaves after a message.
LEMMA CppReadMembersType ==
  ASSUME NEW t \in Types, NEW f, CppReadsBelow(f, t), NEW was \in Values[t], NEW in \in Streams
  PROVE  CppDeserializeMembers(f, t, was, in) \in Results
<1> DEFINE n == Len(Members[t])
           reader == [i \in DOMAIN Members[t] |->
                        [rest \in Streams |->
                           CppDeserializeMember(f, Members[t][i], was[i], rest)]]
<1>1. n \in Nat /\ DOMAIN Members[t] = 1 .. n
  BY MemberCount
<1>2. Readers(n, reader)
  BY <1>1, CppReadMemberType DEF Readers
<1>3. CppDeserializeMembers(f, t, was, in) = ReadSeq(reader, n, in)
  BY DEF CppDeserializeMembers
<1> HIDE DEF reader, n
<1> QED BY <1>1, <1>2, <1>3, ReadSeqType, RunsAreResults

-----------------------------------------------------------------------------
(* The C++ deserializer reads like the C one.                              *)

\* What is read of a message depends on the readers of the messages in it.
LEMMA SameCppReading ==
  ASSUME NEW t \in Types, NEW f, NEW g, SameBelow(Types, Depth, f, g, t), NEW was, NEW in
  PROVE  CppDeserializeMembers(f, t, was, in) = CppDeserializeMembers(g, t, was, in)
<1>1. ASSUME NEW i \in DOMAIN Members[t], NEW x, NEW rest
      PROVE  CppDeserializeSingle(f, Members[t][i], x, rest) =
               CppDeserializeSingle(g, Members[t][i], x, rest)
  <2>1. Members[t][i].kind = "message" => f[Members[t][i].sub] = g[Members[t][i].sub]
    BY MemberTypes DEF SameBelow
  <2> QED BY <2>1 DEF CppDeserializeSingle
<1>2. ASSUME NEW i \in DOMAIN Members[t], NEW x, NEW rest
      PROVE  CppDeserializeMember(f, Members[t][i], x, rest) =
               CppDeserializeMember(g, Members[t][i], x, rest)
  <2> DEFINE m == Members[t][i]
             fresh(k) == IF k \in DOMAIN x THEN x[k] ELSE CppFreshElement(CppFresh, m)
  <2>1. [k \in Nat |-> [r \in Streams |-> CppDeserializeSingle(f, m, fresh(k), r)]] =
          [k \in Nat |-> [r \in Streams |-> CppDeserializeSingle(g, m, fresh(k), r)]]
    <3> HIDE DEF fresh
    <3> QED BY <1>1
  <2>2. [k \in 1 .. m.count |-> [r \in Streams |-> CppDeserializeSingle(f, m, x[k], r)]] =
          [k \in 1 .. m.count |-> [r \in Streams |-> CppDeserializeSingle(g, m, x[k], r)]]
    BY <1>1
  <2>3. CppDeserializeSingle(f, m, x, rest) = CppDeserializeSingle(g, m, x, rest)
    BY <1>1
  <2> HIDE DEF m
  <2>4. CppDeserializeMember(f, m, x, rest) = CppDeserializeMember(g, m, x, rest)
    BY <2>1, <2>2, <2>3 DEF CppDeserializeMember, CppDeserializeArray,
                            CppDeserializeDynamicArray
  <2> QED BY <2>4 DEF m
<1>3. [i \in DOMAIN Members[t] |->
         [rest \in Streams |-> CppDeserializeMember(f, Members[t][i], was[i], rest)]] =
        [i \in DOMAIN Members[t] |->
           [rest \in Streams |-> CppDeserializeMember(g, Members[t][i], was[i], rest)]]
  BY <1>2
<1> QED BY <1>3 DEF CppDeserializeMembers

\* message is the C++ deserializer, one type at a time.
CppReads(fast, message) ==
  /\ message \in CppReaders
  /\ \A t \in Types : \A was \in Values[t], in \in Streams :
       /\ message[t][was][in] = IF t \in fast THEN ReadImage("cpp", t, in)
                                ELSE CppDeserializeMembers(message, t, was, in)
       /\ CppDeserializeMessage(fast, t, was, in) = message[t][was][in]

\* CppDeserializeMessage is what its definition says, one type at a time.
LEMMA CppReadEquation ==
  ASSUME NEW fast
  PROVE  \E message : CppReads(fast, message)
<1> DEFINE C(t) == [Values[t] -> [Streams -> Results]]
           One(f, t, was, in) == IF t \in fast THEN ReadImage("cpp", t, in)
                                 ELSE CppDeserializeMembers(f, t, was, in)
           Body(f, t) == [was \in Values[t] |-> [rest \in Streams |-> One(f, t, was, rest)]]
           D == CppReaders
           G == [f \in D |-> [t \in Types |-> Body(f, t)]]
           Is(f) == f = [t \in Types |-> Body(f, t)]
           message == CHOOSE f : Is(f)
<1>0. \A t \in Types : \A in \in Streams : ReadImage("cpp", t, in) \in Results
  <2>1. PICK image : ReadImages("cpp", image)
    BY ReadImageEquation DEF Langs
  <2> QED BY <2>1 DEF ReadImages, TypeReaders
<1>1. ASSUME NEW f, NEW t \in Types, CppReadsBelow(f, t) PROVE Body(f, t) \in C(t)
  <2>1. \A was \in Values[t], in \in Streams : One(f, t, was, in) \in Results
    BY <1>0, <1>1, CppReadMembersType
  <2> HIDE DEF One
  <2> QED BY <2>1
<1>2. ASSUME NEW f, NEW g, NEW t \in Types, SameBelow(Types, Depth, f, g, t)
      PROVE  Body(f, t) = Body(g, t)
  <2>1. \A was \in Values[t], in \in Streams : One(f, t, was, in) = One(g, t, was, in)
    BY <1>2, SameCppReading
  <2> HIDE DEF One
  <2> QED BY <2>1
<1>3. \A t \in Types : \A was \in Values[t], in \in Streams :
        CppDeserializeMessage(fast, t, was, in) = message[t][was][in]
  BY DEF CppDeserializeMessage
<1>4. \A f : Is(f) => \A t \in Types : \A was \in Values[t], in \in Streams :
        f[t][was][in] = One(f, t, was, in)
  <2> SUFFICES ASSUME NEW f, Is(f), NEW t \in Types, NEW was \in Values[t], NEW in \in Streams
               PROVE  f[t][was][in] = One(f, t, was, in)
    OBVIOUS
  <2> HIDE DEF One
  <2>1. f[t] = Body(f, t)
    <3> HIDE DEF Body
    <3> QED OBVIOUS
  <2>2. f[t][was] = [rest \in Streams |-> One(f, t, was, rest)]
    BY <2>1
  <2> QED BY <2>2
<1> HIDE DEF Body
<1>5. Maps(D, G)
  <2>1. ASSUME NEW f \in D PROVE G[f] \in D
    <3>1. \A t \in Types : G[f][t] \in C(t)
      BY <1>1, CppReaderTypes
    <3>2. G[f] = [t \in Types |-> G[f][t]]
      OBVIOUS
    <3> HIDE DEF G
    <3> QED BY <3>1, <3>2, CppReaderTypes
  <2> QED BY <2>1 DEF Maps
<1>6. Contracts(Types, Depth, D, G)
  BY <1>2 DEF Contracts
<1>7. Solved(D, G)
  <2>1. Ranked(Types, Depth)
    BY TypesAssumption DEF Ranked
  <2> HIDE DEF G
  <2> QED BY <2>1, <1>5, <1>6, Recursion, CppReaderTypes DEF CppReaders
<1>8. Is(message)
  <2>1. \E f : Is(f)
    BY <1>7 DEF Solved
  <2> HIDE DEF Is
  <2> QED BY <2>1
<1> HIDE DEF message
<1>9. message \in CppReaders
  <2> DEFINE T == {t \in Types : message[t] \in C(t)}
  <2>1. ASSUME NEW t \in Types, \A u \in Types : Depth[u] < Depth[t] => u \in T
        PROVE  t \in T
    <3>1. CppReadsBelow(message, t)
      BY <2>1 DEF CppReadsBelow
    <3>2. message[t] = Body(message, t)
      BY <1>8
    <3> QED BY <3>1, <3>2, <1>1
  <2>2. Types \subseteq T
    <3> HIDE DEF T
    <3> QED BY <2>1, TypesInduction
  <2>3. message = [t \in Types |-> message[t]]
    BY <1>8
  <2> QED BY <2>2, <2>3, CppReaderTypes
<1> QED BY <1>3, <1>4, <1>8, <1>9 DEF CppReads

-----------------------------------------------------------------------------
\* A type is appended to when it has a string or a vector<bool>, or nests a
\* type that has.
LEMMA AppendsEquation ==
  \A t \in Types :
    Appends[t] <=>
      \E i \in DOMAIN Members[t] :
        LET m == Members[t][i]
        IN  \/ m.kind = "string"
            \/ m.kind = "bool" /\ IsDynamic(m)
            \/ m.kind = "message" /\ Appends[m.sub]
<1> DEFINE Body(f, t) ==
             \E i \in DOMAIN Members[t] :
               LET m == Members[t][i]
               IN  \/ m.kind = "string"
                   \/ m.kind = "bool" /\ IsDynamic(m)
                   \/ m.kind = "message" /\ f[m.sub]
           D == [Types -> BOOLEAN]
           G == [f \in D |-> [t \in Types |-> Body(f, t)]]
<1>1. G \in [D -> D]
  OBVIOUS
<1>2. ASSUME NEW f \in [Types -> BOOLEAN], NEW g \in [Types -> BOOLEAN],
             NEW t \in Types, SameBelow(Types, Depth, f, g, t)
      PROVE  G[f][t] = G[g][t]
  <2>1. ASSUME NEW i \in DOMAIN Members[t], Members[t][i].kind = "message"
        PROVE  f[Members[t][i].sub] = g[Members[t][i].sub]
    BY <1>2, <2>1, TypesAssumption DEF SameBelow
  <2>2. Body(f, t) <=> Body(g, t)
    BY <2>1
  <2> QED BY <2>2
<1>3. Solved(D, G)
  <2>1. BOOLEAN # {} /\ Ranked(Types, Depth)
    BY TypesAssumption DEF Ranked
  <2>2. Maps(D, G) /\ Contracts(Types, Depth, D, G)
    BY <1>1, <1>2 DEF Contracts, Maps
  <2> HIDE DEF G
  <2> QED BY <2>1, <2>2, RecursionInto
<1>4. PICK f \in D : f = [t \in Types |-> Body(f, t)]
  BY <1>3 DEF Solved
<1>5. Appends = [t \in Types |-> Body(Appends, t)]
  BY <1>4 DEF Appends
<1> QED BY <1>5

\* Nothing of what x holds stays in front of what is read into it.
Replaced(m, x) ==
  /\ m.kind = "string" => x = <<>>
  /\ m.kind = "message" /\ Appends[m.sub] => x = CppFresh[m.sub]

\* For the types that nest less deep, the C++ deserializer reads as the C
\* one does.
CppReadsAlike(f, plain, t) ==
  \A u \in Types : Depth[u] < Depth[t] =>
    \A x \in Values[u] : (Appends[u] => x = CppFresh[u]) => f[u][x] = plain[u]

\* Both languages read one element alike.
LEMMA SingleReadAlike ==
  ASSUME NEW t \in Types, NEW f, NEW plain, CppReadsAlike(f, plain, t),
         NEW i \in DOMAIN Members[t], NEW x \in OneValue(Members[t][i]),
         Replaced(Members[t][i], x), NEW in \in Streams
  PROVE  CppDeserializeSingle(f, Members[t][i], x, in) =
           CDeserializeSingle(plain, Members[t][i], in)
<1> DEFINE m == Members[t][i]
<1>1. CASE m.kind = "string"
  <2>1. CppDeserializeSingle(f, m, x, in) =
          [ReadCounted(Characters, in) EXCEPT !.val = <<>> \o @]
    BY <1>1 DEF CppDeserializeSingle, CppDeserializeString, Characters, Replaced,
                IsScalar, ScalarKinds
  <2>2. CDeserializeSingle(plain, m, in) = ReadCounted(Characters, in)
    BY <1>1 DEF CDeserializeSingle, CDeserializeString, Characters, IsScalar, ScalarKinds
  <2>3. ASSUME NEW r \in Runs PROVE [r EXCEPT !.val = <<>> \o @] = r
    <3>1. <<>> \o r.val = r.val
      BY DEF Runs
    <3> QED BY <3>1 DEF Runs
  <2> HIDE DEF m
  <2> QED BY <2>1, <2>2, <2>3, CharactersType DEF m
<1>2. CASE m.kind = "message"
  <2>1. x \in Values[m.sub] /\ m.sub \in Types /\ Depth[m.sub] < Depth[t]
    BY <1>2, MemberTypes DEF OneValue
  <2>2. f[m.sub][x] = plain[m.sub]
    BY <1>2, <2>1 DEF CppReadsAlike, Replaced
  <2> QED BY <1>2, <2>2 DEF CppDeserializeSingle, CDeserializeSingle, IsScalar, ScalarKinds
<1>3. CASE m.kind \notin {"string", "message"}
  BY <1>3 DEF CppDeserializeSingle, CDeserializeSingle
<1> QED BY <1>1, <1>2, <1>3

\* Both read a member alike, over what a fresh message holds or where nothing
\* is appended.
LEMMA MemberReadAlike ==
  ASSUME NEW t \in Types, NEW f, NEW plain, CppReadsAlike(f, plain, t),
         NEW was \in Values[t], Appends[t] => was = CppFresh[t],
         NEW i \in DOMAIN Members[t], NEW in \in Streams
  PROVE  CppDeserializeMember(f, Members[t][i], was[i], in) =
           CDeserializeMember(plain, Members[t][i], in)
<1> DEFINE m == Members[t][i]
           old == was[i]
<1>1. Appends[t] => old = CppFreshMember(CppFresh, m)
  <2>1. CppFresh[t][i] = CppFreshMember(CppFresh, m)
    <3>1. CppFresh[t] = [j \in DOMAIN Members[t] |-> CppFreshMember(CppFresh, Members[t][j])]
      BY FreshEquation
    <3> QED BY <3>1
  <2> QED BY <2>1
<1>2. ASSUME NEW x, ~Appends[t] PROVE Replaced(m, x)
  BY <1>2, AppendsEquation DEF Replaced
<1>3. Replaced(m, CppFreshElement(CppFresh, m))
  BY DEF Replaced, CppFreshElement
<1>4. CASE IsDynamic(m) /\ m.kind = "bool"
  <2>1. Appends[t]
    BY <1>4, AppendsEquation
  <2>2. old = <<>>
    BY <1>1, <1>4, <2>1 DEF CppFreshMember, IsDynamic, IsStatic
  <2>3. CppDeserializeMember(f, m, old, in) =
          [ReadCounted(Characters, in) EXCEPT !.val = <<>> \o @]
    BY <1>4, <2>2 DEF CppDeserializeMember, CppDeserializeBools, Characters,
                      IsDynamic, IsStatic
  <2>4. CDeserializeMember(plain, m, in) = ReadCounted(Characters, in)
    <3>1. \A rest : CDeserializeSingle(plain, m, rest) = Read(1, rest)
      BY <1>4 DEF CDeserializeSingle, IsScalar, ScalarKinds, Width
    <3>2. [k \in Nat |-> [rest \in Streams |-> CDeserializeSingle(plain, m, rest)]] = Characters
      BY <3>1 DEF Characters
    <3>3. CDeserializeMember(plain, m, in) =
            ReadCounted([k \in Nat |-> [rest \in Streams |->
                           CDeserializeSingle(plain, m, rest)]], in)
      BY <1>4 DEF CDeserializeMember, CDeserializeDynamicArray, IsDynamic, IsStatic
    <3> QED BY <3>2, <3>3
  <2>5. ASSUME NEW r \in Runs PROVE [r EXCEPT !.val = <<>> \o @] = r
    <3>1. <<>> \o r.val = r.val
      BY DEF Runs
    <3> QED BY <3>1 DEF Runs
  <2> HIDE DEF m, old
  <2> QED BY <2>3, <2>4, <2>5, CharactersType DEF m, old
<1>5. CASE IsDynamic(m) /\ m.kind # "bool"
  <2>1. old \in Seq(OneValue(m))
    BY <1>5, ValueTypes
  <2>2. Appends[t] => old = <<>>
    BY <1>1, <1>5 DEF CppFreshMember, IsDynamic, IsStatic
  <2>3. \A k \in Nat : Replaced(m, Held(m, old, k))
    <3>1. CASE Appends[t]
      <4>1. \A k \in Nat : k \notin DOMAIN old
        BY <2>2, <3>1
      <4> HIDE DEF m, old
      <4> QED BY <1>3, <4>1 DEF Held
    <3>2. CASE ~Appends[t]
      BY <1>2, <3>2
    <3> QED BY <3>1, <3>2
  <2>4. \A k \in Nat, rest \in Streams :
          CppDeserializeSingle(f, m, Held(m, old, k), rest) = CDeserializeSingle(plain, m, rest)
    <3> SUFFICES ASSUME NEW k \in Nat, NEW rest \in Streams
                 PROVE  CppDeserializeSingle(f, m, Held(m, old, k), rest) =
                          CDeserializeSingle(plain, m, rest)
      OBVIOUS
    <3>1. Held(m, old, k) \in OneValue(m)
      <4> HIDE DEF old
      <4> QED BY <2>1, HeldType
    <3>2. Replaced(m, Held(m, old, k))
      BY <2>3
    <3> QED BY <3>1, <3>2, SingleReadAlike
  <2>5. [k \in Nat |-> [rest \in Streams |->
           CppDeserializeSingle(f, m, Held(m, old, k), rest)]] =
        [k \in Nat |-> [rest \in Streams |-> CDeserializeSingle(plain, m, rest)]]
    BY <2>4
  <2>6. CppDeserializeMember(f, m, old, in) =
          ReadCounted([k \in Nat |-> [rest \in Streams |->
                         CppDeserializeSingle(f, m, Held(m, old, k), rest)]], in)
    BY <1>5 DEF CppDeserializeMember, CppDeserializeDynamicArray, Held, IsDynamic, IsStatic
  <2>7. CDeserializeMember(plain, m, in) =
          ReadCounted([k \in Nat |-> [rest \in Streams |->
                         CDeserializeSingle(plain, m, rest)]], in)
    BY <1>5 DEF CDeserializeMember, CDeserializeDynamicArray, IsDynamic, IsStatic
  <2> QED BY <2>5, <2>6, <2>7
<1>6. CASE IsStatic(m)
  <2>1. old \in [1 .. m.count -> OneValue(m)]
    BY <1>6, ValueTypes
  <2>2. \A k \in 1 .. m.count : Replaced(m, old[k])
    <3>1. CASE Appends[t]
      <4>1. old = [k \in 1 .. m.count |-> CppFreshElement(CppFresh, m)]
        BY <1>1, <1>6, <3>1 DEF CppFreshMember, IsStatic, IsDynamic
      <4>2. \A k \in 1 .. m.count : old[k] = CppFreshElement(CppFresh, m)
        BY <4>1
      <4> QED BY <1>3, <4>2
    <3>2. CASE ~Appends[t]
      BY <1>2, <3>2
    <3> QED BY <3>1, <3>2
  <2>3. \A k \in 1 .. m.count, rest \in Streams :
          CppDeserializeSingle(f, m, old[k], rest) = CDeserializeSingle(plain, m, rest)
    <3> HIDE DEF old
    <3> QED BY <2>1, <2>2, SingleReadAlike
  <2>4. [k \in 1 .. m.count |-> [rest \in Streams |->
           CppDeserializeSingle(f, m, old[k], rest)]] =
        [k \in 1 .. m.count |-> [rest \in Streams |-> CDeserializeSingle(plain, m, rest)]]
    BY <2>3
  <2>5. CppDeserializeMember(f, m, old, in) =
          ReadSeq([k \in 1 .. m.count |-> [rest \in Streams |->
                     CppDeserializeSingle(f, m, old[k], rest)]], m.count, in)
    BY <1>6 DEF CppDeserializeMember, CppDeserializeArray, IsDynamic, IsStatic
  <2>6. CDeserializeMember(plain, m, in) =
          ReadSeq([k \in 1 .. m.count |-> [rest \in Streams |->
                     CDeserializeSingle(plain, m, rest)]], m.count, in)
    BY <1>6 DEF CDeserializeMember, CDeserializeArray, IsDynamic, IsStatic
  <2> QED BY <2>4, <2>5, <2>6
<1>7. CASE ~IsDynamic(m) /\ ~IsStatic(m)
  <2>1. old \in OneValue(m)
    BY <1>7, ValueTypes
  <2>2. Replaced(m, old)
    <3>1. CASE Appends[t]
      BY <1>1, <1>3, <1>7, <3>1 DEF CppFreshMember
    <3>2. CASE ~Appends[t]
      BY <1>2, <3>2
    <3> QED BY <3>1, <3>2
  <2>3. CppDeserializeSingle(f, m, old, in) = CDeserializeSingle(plain, m, in)
    <3> HIDE DEF old
    <3> QED BY <2>1, <2>2, SingleReadAlike
  <2> QED BY <1>7, <2>3 DEF CppDeserializeMember, CDeserializeMember
<1> QED BY <1>4, <1>5, <1>6, <1>7

\* A C++ deserializer that copies solid types only reads as the C one does,
\* into a message that has nothing to append to.
THEOREM CppReadForm ==
  ASSUME NEW fast, \A t \in fast : Solid("cpp", fast, t), NEW plain, CReads({}, plain)
  PROVE  \A t \in Types : \A was \in Values[t], in \in Streams :
           (Appends[t] => was = CppFresh[t])
             => CppDeserializeMessage(fast, t, was, in) = plain[t][in]
<1>1. PICK image : ReadImages("cpp", image)
  BY ReadImageEquation DEF Langs
<1>2. PICK message : CppReads(fast, message)
  BY CppReadEquation
<1>3. \A t \in Types : t \in fast => image[t] = plain[t]
  BY <1>1, CReadsAlike DEF Langs
<1> DEFINE T == {t \in Types : \A was \in Values[t] :
                   (Appends[t] => was = CppFresh[t]) => message[t][was] = plain[t]}
<1>4. ASSUME NEW t \in Types, \A u \in Types : Depth[u] < Depth[t] => u \in T
      PROVE  t \in T
  <2> SUFFICES ASSUME NEW was \in Values[t], Appends[t] => was = CppFresh[t]
               PROVE  message[t][was] = plain[t]
    OBVIOUS
  <2>0. CppReadsAlike(message, plain, t)
    BY <1>4 DEF CppReadsAlike
  <2> HIDE DEF T
  <2>1. ASSUME NEW in \in Streams PROVE message[t][was][in] = plain[t][in]
    <3>1. CASE t \in fast
      BY <1>1, <1>2, <1>3, <3>1 DEF CppReads, ReadImages
    <3>2. CASE t \notin fast
      <4>1. message[t][was][in] = CppDeserializeMembers(message, t, was, in)
        BY <1>2, <3>2 DEF CppReads
      <4>2. plain[t][in] = CDeserializeMembers(plain, t, in)
        BY DEF CReads
      <4>3. [i \in DOMAIN Members[t] |->
               [rest \in Streams |-> CppDeserializeMember(message, Members[t][i], was[i], rest)]] =
              [i \in DOMAIN Members[t] |->
                 [rest \in Streams |-> CDeserializeMember(plain, Members[t][i], rest)]]
        BY <2>0, MemberReadAlike
      <4>4. CppDeserializeMembers(message, t, was, in) = CDeserializeMembers(plain, t, in)
        BY <4>3 DEF CppDeserializeMembers, CDeserializeMembers
      <4> QED BY <4>1, <4>2, <4>4
    <3> QED BY <3>1, <3>2
  <2>2. message[t][was] \in [Streams -> Results] /\ plain[t] \in [Streams -> Results]
    <3>1. message[t] \in [Values[t] -> [Streams -> Results]]
      BY <1>2, CppReaderTypes DEF CppReads
    <3> QED BY <3>1 DEF CReads, TypeReaders
  <2> QED BY <2>1, <2>2
<1>5. Types \subseteq T
  <2> HIDE DEF T
  <2> QED BY <1>4, TypesInduction
<1> QED BY <1>2, <1>5 DEF CppReads

-----------------------------------------------------------------------------
(* What was written is read back.                                          *)

\* Joining streams is associative.
LEMMA Concat ==
  /\ \A a, b \in Streams : a \o b \in Streams
  /\ \A a, b, c \in Streams : (a \o b) \o c = a \o (b \o c)
  /\ \A a \in Streams : <<>> \o a = a
<1>1. Streams = Seq(Cells)
  BY CellTypes
<1> HIDE DEF Cells
<1>2. \A a, b \in Streams : a \o b \in Streams
  BY <1>1
<1>3. \A a, b, c \in Streams : (a \o b) \o c = a \o (b \o c)
  BY <1>1, ConcatAssociative
<1>4. \A a \in Streams : <<>> \o a = a
  BY <1>1
<1> QED BY <1>2, <1>3, <1>4

\* A cell that was written is read back, and nothing behind it.
LEMMA ReadOne ==
  ASSUME NEW rest \in Streams
  PROVE  /\ \A w \in Nat, x \in Int :
              Read(w, <<Cell(w, "data", x)>> \o rest) = [val |-> x, rest |-> rest]
         /\ \A n \in Nat : ReadSize(ArraySize(n) \o rest) = [val |-> n, rest |-> rest]
<1>1. ASSUME NEW c \in Cells
      PROVE  /\ <<c>> \o rest # <<>>
             /\ Head(<<c>> \o rest) = c
             /\ Tail(<<c>> \o rest) = rest
  <2>1. rest \in Seq(Cells)
    BY CellTypes
  <2> HIDE DEF Cells
  <2> QED BY <2>1
<1>2. ASSUME NEW w \in Nat, NEW x \in Int
      PROVE  Read(w, <<Cell(w, "data", x)>> \o rest) = [val |-> x, rest |-> rest]
  <2> DEFINE c == Cell(w, "data", x)
  <2>1. c \in Cells /\ c.width = w /\ c.tag = "data" /\ c.x = x
    BY CellTypes DEF Cell
  <2> HIDE DEF c
  <2>2. Read(w, <<c>> \o rest) = [val |-> x, rest |-> rest]
    BY <1>1, <2>1 DEF Read
  <2> QED BY <2>2 DEF c
<1>3. ASSUME NEW n \in Nat
      PROVE  ReadSize(ArraySize(n) \o rest) = [val |-> n, rest |-> rest]
  <2> DEFINE c == Cell(8, "size", n)
  <2>1. c \in Cells /\ c.tag = "size" /\ c.x = n
    BY DEF Cell, Cells
  <2> HIDE DEF c
  <2>2. ReadSize(<<c>> \o rest) = [val |-> n, rest |-> rest]
    BY <1>1, <2>1 DEF ReadSize
  <2> QED BY <2>2 DEF c, ArraySize
<1> QED BY <1>2, <1>3

\* A sequence grows by its next element.
LEMMA AppendNext ==
  ASSUME NEW i \in Nat, NEW vals, NEW S, \A j \in 1 .. i + 1 : vals[j] \in S
  PROVE  Append([j \in 1 .. i |-> vals[j]], vals[i + 1]) = [j \in 1 .. i + 1 |-> vals[j]]
<1> DEFINE s == [j \in 1 .. i |-> vals[j]]
<1>1. s \in Seq(S) /\ Len(s) = i
  OBVIOUS
<1>2. \A j \in 1 .. i : s[j] = vals[j]
  OBVIOUS
<1> HIDE DEF s
<1>3. \A j \in 1 .. i + 1 : Append(s, vals[i + 1])[j] = vals[j]
  BY <1>1, <1>2
<1>4. Append(s, vals[i + 1]) = [j \in 1 .. i + 1 |-> Append(s, vals[i + 1])[j]]
  BY <1>1
<1>5. Append(s, vals[i + 1]) = [j \in 1 .. i + 1 |-> vals[j]]
  BY <1>3, <1>4
<1> QED BY <1>5 DEF s

\* Each reader reads its part, whatever comes behind it.
Parts(n, reader, parts, vals) ==
  /\ Readers(n, reader)
  /\ parts \in [1 .. n -> Streams]
  /\ \A i \in 1 .. n : \A rest \in Streams :
       reader[i][parts[i] \o rest] = [val |-> vals[i], rest |-> rest]

\* What a sequence of writers wrote is what the sequence of their readers reads.
LEMMA ReadParts ==
  ASSUME NEW n \in Nat, NEW reader, NEW parts, NEW vals, Parts(n, reader, parts, vals),
         NEW rest \in Streams
  PROVE  ReadSeq(reader, n, FlattenSeq(parts) \o rest) =
           [val |-> [i \in 1 .. n |-> vals[i]], rest |-> rest]
<1> DEFINE in == FlattenSeq(parts) \o rest
<1>1. parts \in [1 .. n -> Streams] /\ Readers(n, reader)
  BY DEF Parts
<1>2. parts \in Seq(Seq(Cells)) /\ Len(parts) = n
  <2> HIDE DEF Cells
  <2> QED BY <1>1, CellTypes
<1>3. PICK flat \in [0 .. n -> Streams] : Flattens(parts, flat)
  BY <1>2, Flatten, CellTypes
<1>4. /\ flat[0] = <<>>
      /\ \A i \in 1 .. n : flat[i] = flat[i - 1] \o parts[i]
      /\ FlattenSeq(parts) = flat[n]
  BY <1>2, <1>3 DEF Flattens
<1>5. in \in Streams
  BY <1>3, <1>4, Concat
<1>6. PICK done : Reading(n, reader, in, done)
  <2> HIDE DEF in
  <2> QED BY <1>1, <1>5, ReadSeqRun
<1>7. \A i \in 1 .. n : vals[i] \in Universe
  <2> SUFFICES ASSUME NEW i \in 1 .. n PROVE vals[i] \in Universe
    OBVIOUS
  <2>1. parts[i] \o rest \in Streams
    BY <1>1, Concat
  <2>2. reader[i][parts[i] \o rest] \in Results
    BY <1>1, <2>1 DEF Readers
  <2>3. reader[i][parts[i] \o rest] = [val |-> vals[i], rest |-> rest]
    BY DEF Parts
  <2> QED BY <2>2, <2>3 DEF Results
<1> DEFINE T == {i \in Nat : i <= n =>
                   \A tail \in Streams : flat[i] \o tail = in =>
                     done[i] = [val |-> [j \in 1 .. i |-> vals[j]], rest |-> tail]}
<1>8. 0 \in T
  <2>1. done[0] = [val |-> <<>>, rest |-> in]
    BY <1>6 DEF Reading
  <2>2. \A tail \in Streams : flat[0] \o tail = tail
    BY <1>4, Concat
  <2>3. [j \in 1 .. 0 |-> vals[j]] = <<>>
    OBVIOUS
  <2> HIDE DEF in
  <2> QED BY <2>1, <2>2, <2>3
<1>9. ASSUME NEW i \in Nat, i \in T PROVE i + 1 \in T
  <2> HIDE DEF in
  <2> SUFFICES ASSUME i + 1 <= n, NEW tail \in Streams, flat[i + 1] \o tail = in
               PROVE  done[i + 1] = [val |-> [j \in 1 .. i + 1 |-> vals[j]], rest |-> tail]
    OBVIOUS
  <2>1. i \in 0 .. n /\ i + 1 \in 1 .. n /\ (i + 1) - 1 = i /\ i <= n
    OBVIOUS
  <2>2. parts[i + 1] \in Streams /\ flat[i] \in Streams
    BY <1>1, <1>3, <2>1
  <2>3. flat[i + 1] = flat[i] \o parts[i + 1]
    BY <1>4, <2>1
  <2>4. parts[i + 1] \o tail \in Streams /\ flat[i] \o (parts[i + 1] \o tail) = in
    <3>1. (flat[i] \o parts[i + 1]) \o tail = flat[i] \o (parts[i + 1] \o tail)
      BY <2>2, Concat
    <3>2. parts[i + 1] \o tail \in Streams
      BY <2>2, Concat
    <3> QED BY <2>3, <3>1, <3>2
  <2>5. done[i] = [val |-> [j \in 1 .. i |-> vals[j]], rest |-> parts[i + 1] \o tail]
    BY <1>9, <2>1, <2>4
  <2>6. done[i + 1] = Further(reader, i + 1, done[i])
    BY <1>6, <2>1 DEF Reading
  <2>7. reader[i + 1][parts[i + 1] \o tail] = [val |-> vals[i + 1], rest |-> tail]
    BY <2>1 DEF Parts
  <2>8. Append([j \in 1 .. i |-> vals[j]], vals[i + 1]) = [j \in 1 .. i + 1 |-> vals[j]]
    <3>1. \A j \in 1 .. i + 1 : vals[j] \in Universe
      BY <1>7, <2>1
    <3> QED BY <3>1, AppendNext
  <2>9. /\ done[i].val = [j \in 1 .. i |-> vals[j]]
        /\ done[i].rest = parts[i + 1] \o tail
    BY <2>5
  <2>10. done[i + 1] = [val  |-> Append(done[i].val, reader[i + 1][done[i].rest].val),
                        rest |-> reader[i + 1][done[i].rest].rest]
    BY <2>6 DEF Further
  <2>11. /\ reader[i + 1][done[i].rest].val = vals[i + 1]
         /\ reader[i + 1][done[i].rest].rest = tail
    BY <2>7, <2>9
  <2>12. Append(done[i].val, reader[i + 1][done[i].rest].val) = [j \in 1 .. i + 1 |-> vals[j]]
    BY <2>8, <2>9, <2>11
  <2> HIDE DEF T
  <2> QED BY <2>10, <2>11, <2>12
<1>10. n \in T
  <2>1. Nat \subseteq T
    <3> HIDE DEF T
    <3> QED BY <1>8, <1>9, Induction
  <2> HIDE DEF T
  <2> QED BY <2>1
<1>11. done[n] = [val |-> [i \in 1 .. n |-> vals[i]], rest |-> rest]
  BY <1>4, <1>10
<1> HIDE DEF in, T
<1> QED BY <1>6, <1>11 DEF Reading, in

\* Cells joined one by one are the sequence of them.
LEMMA FlattenCells ==
  ASSUME NEW n \in Nat, NEW c \in [1 .. n -> Cells]
  PROVE  /\ [k \in 1 .. n |-> <<c[k]>>] \in [1 .. n -> Streams]
         /\ FlattenSeq([k \in 1 .. n |-> <<c[k]>>]) = c
<1> DEFINE parts == [k \in 1 .. n |-> <<c[k]>>]
<1> HIDE DEF Cells
<1>1. parts \in Seq(Seq(Cells)) /\ Len(parts) = n /\ parts \in [1 .. n -> Streams]
  <2>1. \A k \in 1 .. n : <<c[k]>> \in Seq(Cells)
    OBVIOUS
  <2>2. parts \in [1 .. n -> Seq(Cells)]
    BY <2>1
  <2> HIDE DEF parts
  <2>3. parts \in Seq(Seq(Cells)) /\ Len(parts) = n
    BY <2>2
  <2> QED BY <2>2, <2>3, CellTypes
<1>2. PICK flat \in [0 .. n -> Seq(Cells)] : Flattens(parts, flat)
  BY <1>1, Flatten
<1>3. /\ flat[0] = <<>>
      /\ \A i \in 1 .. n : flat[i] = flat[i - 1] \o <<c[i]>>
      /\ FlattenSeq(parts) = flat[n]
  <2>1. \A i \in 1 .. n : parts[i] = <<c[i]>>
    OBVIOUS
  <2> HIDE DEF parts
  <2> QED BY <1>1, <1>2, <2>1 DEF Flattens
<1> DEFINE T == {i \in Nat : i <= n => flat[i] = [k \in 1 .. i |-> c[k]]}
<1>4. 0 \in T
  BY <1>3
<1>5. ASSUME NEW i \in Nat, i \in T PROVE i + 1 \in T
  <2> SUFFICES ASSUME i + 1 <= n PROVE flat[i + 1] = [k \in 1 .. i + 1 |-> c[k]]
    OBVIOUS
  <2>1. i + 1 \in 1 .. n /\ (i + 1) - 1 = i /\ i <= n /\ i \in 0 .. n
    OBVIOUS
  <2>2. flat[i + 1] = flat[i] \o <<c[i + 1]>> /\ flat[i] = [k \in 1 .. i |-> c[k]]
    BY <1>3, <1>5, <2>1
  <2>3. \A j \in 1 .. i + 1 : c[j] \in Cells
    BY <2>1
  <2>4. Append([k \in 1 .. i |-> c[k]], c[i + 1]) = [k \in 1 .. i + 1 |-> c[k]]
    BY <2>3, AppendNext
  <2>5. flat[i] \in Seq(Cells) /\ c[i + 1] \in Cells
    BY <2>1
  <2>6. flat[i] \o <<c[i + 1]>> = Append(flat[i], c[i + 1])
    BY <2>5
  <2> QED BY <2>2, <2>4, <2>6
<1>6. n \in T
  <2>1. Nat \subseteq T
    <3> HIDE DEF T
    <3> QED BY <1>4, <1>5, Induction
  <2> HIDE DEF T
  <2> QED BY <2>1
<1>7. flat[n] = c
  BY <1>6
<1> QED BY <1>1, <1>3, <1>7

\* A string that was written is read back.
LEMMA CharactersBack ==
  ASSUME NEW s \in Seq(Int), NEW rest \in Streams
  PROVE  ReadCounted(Characters, CppSerializeString(s) \o rest) = [val |-> s, rest |-> rest]
<1> DEFINE n == Len(s)
           c == [k \in DOMAIN s |-> Cell(Width.char, "data", s[k])]
           parts == [k \in 1 .. n |-> <<c[k]>>]
<1>0. n \in Nat /\ DOMAIN s = 1 .. n /\ s = [i \in 1 .. n |-> s[i]]
  OBVIOUS
<1>1. Width.char = 1
  BY DEF Width
<1>2. c \in [1 .. n -> Cells]
  <2>1. \A k \in 1 .. n : Cell(Width.char, "data", s[k]) \in Cells
    <3> SUFFICES ASSUME NEW k \in 1 .. n PROVE Cell(1, "data", s[k]) \in Cells
      BY <1>1
    <3>1. s[k] \in Int /\ 1 \in Nat
      BY <1>0
    <3> QED BY <3>1, CellTypes
  <2> HIDE DEF Cells
  <2> QED BY <1>0, <2>1
<1>3. \A k \in 1 .. n : parts[k] = <<Cell(1, "data", s[k])>>
  BY <1>0, <1>1
<1>4. CppSerializeString(s) = ArraySize(n) \o c
  BY DEF CppSerializeString
<1>5. c \in Streams /\ ArraySize(n) \in Streams
  BY <1>0, CellTypes
<1> HIDE DEF c, n
<1>6. parts \in [1 .. n -> Streams] /\ FlattenSeq(parts) = c
  BY <1>0, <1>2, FlattenCells
<1> HIDE DEF parts
<1>7. Parts(n, Characters, parts, s)
  <2>1. Readers(n, Characters)
    <3>1. \A k \in Nat : Characters[k] \in [Streams -> Results]
      BY ReadTypes DEF Characters
    <3>2. \A k \in 1 .. n : k \in Nat
      BY <1>0
    <3> QED BY <3>1, <3>2 DEF Readers
  <2>2. ASSUME NEW i \in 1 .. n, NEW r \in Streams
        PROVE  Characters[i][parts[i] \o r] = [val |-> s[i], rest |-> r]
    <3>1. parts[i] \o r \in Streams
      BY <1>6, Concat
    <3>2. s[i] \in Int
      BY <1>0
    <3>3. Read(1, <<Cell(1, "data", s[i])>> \o r) = [val |-> s[i], rest |-> r]
      <4>1. 1 \in Nat
        OBVIOUS
      <4> QED BY <3>2, <4>1, ReadOne
    <3>4. Read(1, parts[i] \o r) = [val |-> s[i], rest |-> r]
      BY <1>3, <3>3
    <3> QED BY <3>1, <3>4, <1>0 DEF Characters
  <2> QED BY <1>6, <2>1, <2>2 DEF Parts
<1>8. ReadSeq(Characters, n, c \o rest) = [val |-> s, rest |-> rest]
  BY <1>0, <1>6, <1>7, ReadParts
<1>9. CppSerializeString(s) \o rest = ArraySize(n) \o (c \o rest) /\ c \o rest \in Streams
  BY <1>4, <1>5, Concat
<1>10. ReadSize(ArraySize(n) \o (c \o rest)) = [val |-> n, rest |-> c \o rest]
  BY <1>0, <1>9, ReadOne
<1>11. ReadCounted(Characters, ArraySize(n) \o (c \o rest)) = ReadSeq(Characters, n, c \o rest)
  BY <1>0, <1>10 DEF ReadCounted
<1> QED BY <1>8, <1>9, <1>11

\* No wide string in a message of type t.
Narrow(t, v) == v \notin WideMessages[t]

\* One element of member i is not one, or a message without one.
NarrowElement(t, i, x) ==
  /\ Members[t][i].kind # "wide"
  /\ Members[t][i].kind = "message" => Narrow(Members[t][i].sub, x)

\* A message without wide strings has none in any element.
LEMMA NarrowElements ==
  ASSUME NEW t \in Types, NEW v \in Values[t], Narrow(t, v), NEW i \in DOMAIN Members[t]
  PROVE  \A x \in ElementsIn(Members[t][i], v[i]) : NarrowElement(t, i, x)
<1>1. ~MeetsWide(t, v)
  BY WideMessagesEquation DEF Narrow
<1> QED BY <1>1 DEF MeetsWide, NarrowElement, Narrow

\* What wire writes of a message is what plain reads of it, for the types
\* that nest less deep than t.
BackBelow(wire, plain, t) ==
  \A u \in Types : Depth[u] < Depth[t] =>
    \A x \in Values[u], rest \in Streams :
      Narrow(u, x) => plain[u][wire[u][x] \o rest] = [val |-> x, rest |-> rest]

\* One element that was written is read back.
LEMMA SingleBack ==
  ASSUME NEW t \in Types, NEW wire \in Writers, NEW plain,
         BackBelow(wire, plain, t),
         NEW i \in DOMAIN Members[t], NEW x \in OneValue(Members[t][i]),
         NarrowElement(t, i, x), NEW rest \in Streams
  PROVE  CDeserializeSingle(plain, Members[t][i],
                            CppSerializeSingle(wire, Members[t][i], x) \o rest) =
           [val |-> x, rest |-> rest]
<1> DEFINE m == Members[t][i]
<1>0. m.kind # "wide" /\ (m.kind = "message" => Narrow(m.sub, x))
  BY DEF NarrowElement
<1>1. CASE IsScalar(m)
  <2>1. x \in Int
    BY <1>1 DEF OneValue, IsScalar, ScalarKinds
  <2>2. CppSerializeSingle(wire, m, x) = <<Cell(Width[m.kind], "data", x)>>
    BY <1>1 DEF CppSerializeSingle, Scalar, IsScalar, ScalarKinds
  <2>3. \A in : CDeserializeSingle(plain, m, in) = Read(Width[m.kind], in)
    BY <1>1 DEF CDeserializeSingle, IsScalar, ScalarKinds
  <2>4. Width[m.kind] \in Nat
    BY <1>1, ScalarWidths DEF IsScalar
  <2>5. Read(Width[m.kind], <<Cell(Width[m.kind], "data", x)>> \o rest) =
          [val |-> x, rest |-> rest]
    BY <2>1, <2>4, ReadOne
  <2> QED BY <2>2, <2>3, <2>5
<1>2. CASE m.kind = "string"
  <2>1. x \in Seq(Int)
    BY <1>2 DEF OneValue
  <2>2. CppSerializeSingle(wire, m, x) = CppSerializeString(x)
    BY <1>2 DEF CppSerializeSingle, IsScalar, ScalarKinds
  <2>3. \A in : CDeserializeSingle(plain, m, in) = ReadCounted(Characters, in)
    BY <1>2 DEF CDeserializeSingle, CDeserializeString, Characters, IsScalar, ScalarKinds
  <2> QED BY <2>1, <2>2, <2>3, CharactersBack
<1>3. CASE m.kind = "message"
  <2>1. x \in Values[m.sub] /\ m.sub \in Types /\ Depth[m.sub] < Depth[t]
    BY <1>3, MemberTypes DEF OneValue
  <2>2. CppSerializeSingle(wire, m, x) = wire[m.sub][x]
    BY <1>3 DEF CppSerializeSingle, IsScalar, ScalarKinds
  <2>3. \A in : CDeserializeSingle(plain, m, in) = plain[m.sub][in]
    BY <1>3 DEF CDeserializeSingle, IsScalar, ScalarKinds
  <2>4. plain[m.sub][wire[m.sub][x] \o rest] = [val |-> x, rest |-> rest]
    BY <1>0, <1>3, <2>1 DEF BackBelow
  <2> QED BY <2>2, <2>3, <2>4
<1> QED BY <1>0, <1>1, <1>2, <1>3, MemberTypes DEF IsScalar

\* Each of the first n readers reads a value of the kind of m.
SingleReaders(reader, plain, m, n) ==
  \A k \in 1 .. n : reader[k] = [rest \in Streams |-> CDeserializeSingle(plain, m, rest)]

\* xs are n elements of a member.
Elements(xs, n, m) == xs \in [1 .. n -> OneValue(m)]

\* None of the elements of member i is or has a wide string.
AllNarrow(t, i, xs, n) == \A k \in 1 .. n : NarrowElement(t, i, xs[k])

\* The elements of an array that were written are read back.
LEMMA ArrayBack ==
  ASSUME NEW t \in Types, NEW wire \in Writers, NEW plain \in TypeReaders,
         BackBelow(wire, plain, t), NEW i \in DOMAIN Members[t],
         NEW n \in Nat, NEW xs, Elements(xs, n, Members[t][i]),
         AllNarrow(t, i, xs, n),
         NEW reader, SingleReaders(reader, plain, Members[t][i], n), NEW rest \in Streams
  PROVE  /\ CppSerializeArray(wire, Members[t][i], xs) \in Streams
         /\ ReadSeq(reader, n, CppSerializeArray(wire, Members[t][i], xs) \o rest) =
              [val |-> xs, rest |-> rest]
<1> USE DEF Elements, AllNarrow
<1> DEFINE m == Members[t][i]
           parts == [k \in DOMAIN xs |-> CppSerializeSingle(wire, m, xs[k])]
<1>1. CppSerializeArray(wire, m, xs) = FlattenSeq(parts)
  BY DEF CppSerializeArray
<1>2. parts \in [1 .. n -> Streams]
  <2>1. WritesBelow(wire, t)
    BY WriterTypes
  <2> QED BY <2>1, SerializeSingleType
<1>3. Readers(n, reader)
  <2>1. ReadsBelow(plain, t)
    BY DEF ReadsBelow, TypeReaders
  <2>2. \A r \in Streams : CDeserializeSingle(plain, m, r) \in Results
    BY <2>1, CReadSingleType
  <2>3. [r \in Streams |-> CDeserializeSingle(plain, m, r)] \in [Streams -> Results]
    BY <2>2
  <2> QED BY <2>3 DEF Readers, SingleReaders
<1>4. ASSUME NEW k \in 1 .. n, NEW r \in Streams
      PROVE  reader[k][parts[k] \o r] = [val |-> xs[k], rest |-> r]
  <2>1. parts[k] = CppSerializeSingle(wire, m, xs[k])
    OBVIOUS
  <2>2. parts[k] \o r \in Streams
    <3>1. parts[k] \in Streams
      BY <1>2
    <3> HIDE DEF parts
    <3> QED BY <3>1, Concat
  <2>3. CDeserializeSingle(plain, m, parts[k] \o r) = [val |-> xs[k], rest |-> r]
    <3> HIDE DEF parts
    <3> QED BY <2>1, SingleBack
  <2>4. reader[k] = [z \in Streams |-> CDeserializeSingle(plain, m, z)]
    BY DEF SingleReaders
  <2> QED BY <2>2, <2>3, <2>4
<1>5. Parts(n, reader, parts, xs)
  <2> HIDE DEF parts
  <2> QED BY <1>2, <1>3, <1>4 DEF Parts
<1>6. xs = [k \in 1 .. n |-> xs[k]]
  OBVIOUS
<1> HIDE DEF parts
<1>7. ReadSeq(reader, n, FlattenSeq(parts) \o rest) = [val |-> xs, rest |-> rest]
  BY <1>5, <1>6, ReadParts
<1>8. FlattenSeq(parts) \in Streams
  BY <1>2, JoinType
<1> QED BY <1>1, <1>7, <1>8

\* A member that was written is read back.
LEMMA MemberBack ==
  ASSUME NEW t \in Types, NEW wire \in Writers, NEW plain \in TypeReaders,
         BackBelow(wire, plain, t), NEW v \in Values[t], Narrow(t, v),
         NEW i \in DOMAIN Members[t], NEW rest \in Streams
  PROVE  CDeserializeMember(plain, Members[t][i],
                            CppSerializeMember(wire, Members[t][i], v[i]) \o rest) =
           [val |-> v[i], rest |-> rest]
<1> DEFINE m == Members[t][i]
           xs == v[i]
<1>0. \A x \in ElementsIn(m, xs) : NarrowElement(t, i, x)
  BY NarrowElements
<1>1. CASE IsDynamic(m)
  <2> DEFINE reader == [k \in Nat |-> [z \in Streams |-> CDeserializeSingle(plain, m, z)]]
             n == Len(xs)
             body == CppSerializeArray(wire, m, xs)
  <2>1. xs \in Seq(OneValue(m))
    BY <1>1, ValueTypes
  <2>2. n \in Nat /\ Elements(xs, n, m)
    BY <2>1 DEF Elements
  <2>11. AllNarrow(t, i, xs, n)
    <3>1. DOMAIN xs = 1 .. n
      BY <2>1
    <3> HIDE DEF xs, n
    <3> QED BY <1>0, <1>1, <3>1 DEF ElementsIn, AllNarrow
  <2>3. SingleReaders(reader, plain, m, n)
    BY <2>2 DEF SingleReaders
  <2>4. CppSerializeMember(wire, m, xs) = ArraySize(n) \o body
    BY <1>1 DEF CppSerializeMember, CppSerializeDynamicArray, IsDynamic, IsStatic
  <2>5. \A in : CDeserializeMember(plain, m, in) = ReadCounted(reader, in)
    BY <1>1 DEF CDeserializeMember, CDeserializeDynamicArray, IsDynamic, IsStatic
  <2> HIDE DEF reader, n, xs
  <2>6. body \in Streams /\ ReadSeq(reader, n, body \o rest) = [val |-> xs, rest |-> rest]
    <3>1. n \in Nat /\ Elements(xs, n, Members[t][i])
      BY <2>2
    <3>2. SingleReaders(reader, plain, Members[t][i], n)
      BY <2>3
    <3>3. CppSerializeArray(wire, Members[t][i], xs) \in Streams
      BY <2>11, <3>1, <3>2, ArrayBack
    <3>4. ReadSeq(reader, n, CppSerializeArray(wire, Members[t][i], xs) \o rest) =
            [val |-> xs, rest |-> rest]
      BY <2>11, <3>1, <3>2, ArrayBack
    <3> QED BY <3>3, <3>4
  <2> HIDE DEF body
  <2>7. ArraySize(n) \in Streams
    BY <2>2, CellTypes
  <2>8. (ArraySize(n) \o body) \o rest = ArraySize(n) \o (body \o rest) /\ body \o rest \in Streams
    BY <2>6, <2>7, Concat
  <2>9. ReadSize(ArraySize(n) \o (body \o rest)) = [val |-> n, rest |-> body \o rest]
    BY <2>2, <2>8, ReadOne
  <2>10. ReadCounted(reader, ArraySize(n) \o (body \o rest)) = ReadSeq(reader, n, body \o rest)
    BY <2>2, <2>9 DEF ReadCounted
  <2> QED BY <2>4, <2>5, <2>6, <2>8, <2>10 DEF xs
<1>2. CASE IsStatic(m)
  <2> DEFINE reader == [k \in 1 .. m.count |->
                          [z \in Streams |-> CDeserializeSingle(plain, m, z)]]
  <2>1. m.count \in Nat /\ Elements(xs, m.count, m)
    BY <1>2, ValueTypes, MemberTypes DEF Elements
  <2>6. AllNarrow(t, i, xs, m.count)
    <3>1. DOMAIN xs = 1 .. m.count
      BY <2>1 DEF Elements
    <3> HIDE DEF xs
    <3> QED BY <1>0, <1>2, <3>1 DEF ElementsIn, AllNarrow
  <2>2. SingleReaders(reader, plain, m, m.count)
    BY DEF SingleReaders
  <2>3. CppSerializeMember(wire, m, xs) = CppSerializeArray(wire, m, xs)
    BY <1>2 DEF CppSerializeMember, IsDynamic, IsStatic
  <2>4. \A in : CDeserializeMember(plain, m, in) = ReadSeq(reader, m.count, in)
    BY <1>2 DEF CDeserializeMember, CDeserializeArray, IsDynamic, IsStatic
  <2> HIDE DEF reader, xs
  <2>5. ReadSeq(reader, m.count, CppSerializeArray(wire, m, xs) \o rest) =
          [val |-> xs, rest |-> rest]
    <3> DEFINE n == m.count
    <3>0. AllNarrow(t, i, xs, n)
      BY <2>6
    <3>1. n \in Nat /\ Elements(xs, n, Members[t][i])
      BY <2>1
    <3>2. SingleReaders(reader, plain, Members[t][i], n)
      BY <2>2
    <3> HIDE DEF n
    <3>3. ReadSeq(reader, n, CppSerializeArray(wire, Members[t][i], xs) \o rest) =
            [val |-> xs, rest |-> rest]
      BY <3>0, <3>1, <3>2, ArrayBack
    <3> QED BY <3>3 DEF n
  <2> QED BY <2>3, <2>4, <2>5 DEF xs
<1>3. CASE ~IsDynamic(m) /\ ~IsStatic(m)
  <2>1. xs \in OneValue(m)
    BY <1>3, ValueTypes
  <2>2. CppSerializeMember(wire, m, xs) = CppSerializeSingle(wire, m, xs)
    BY <1>3 DEF CppSerializeMember
  <2>3. \A in : CDeserializeMember(plain, m, in) = CDeserializeSingle(plain, m, in)
    BY <1>3 DEF CDeserializeMember
  <2>4. NarrowElement(t, i, xs)
    BY <1>0, <1>3 DEF ElementsIn
  <2> HIDE DEF xs
  <2> QED BY <2>1, <2>2, <2>3, <2>4, SingleBack DEF xs
<1> QED BY <1>1, <1>2, <1>3

\* What wire writes of a message is what plain reads of it.
ReadsBack(wire, plain) ==
  \A t \in Types : \A v \in Values[t], rest \in Streams :
    Narrow(t, v) => plain[t][wire[t][v] \o rest] = [val |-> v, rest |-> rest]

\* A message without wide strings that was written is read back, whatever
\* follows it in the stream.
THEOREM RoundTrip ==
  ASSUME NEW wire, Messages("cpp", {}, wire), NEW plain, CReads({}, plain)
  PROVE  ReadsBack(wire, plain)
<1>1. wire \in Writers /\ plain \in TypeReaders
  BY DEF Messages, CReads
<1> DEFINE T == {t \in Types :
                   \A v \in Values[t], rest \in Streams :
                     Narrow(t, v) =>
                       plain[t][wire[t][v] \o rest] = [val |-> v, rest |-> rest]}
<1>2. ASSUME NEW t \in Types, \A u \in Types : Depth[u] < Depth[t] => u \in T
      PROVE  t \in T
  <2> SUFFICES ASSUME NEW v \in Values[t], Narrow(t, v), NEW rest \in Streams
               PROVE  plain[t][wire[t][v] \o rest] = [val |-> v, rest |-> rest]
    OBVIOUS
  <2>1. BackBelow(wire, plain, t)
    BY <1>2 DEF BackBelow
  <2> HIDE DEF T
  <2> DEFINE n == Len(Members[t])
             parts == [i \in DOMAIN Members[t] |->
                         CppSerializeMember(wire, Members[t][i], v[i])]
             reader == [i \in DOMAIN Members[t] |->
                          [z \in Streams |-> CDeserializeMember(plain, Members[t][i], z)]]
  <2>2. n \in Nat /\ DOMAIN Members[t] = 1 .. n
    BY MemberCount
  <2>3. wire[t][v] = FlattenSeq(parts)
    BY DEF Messages, CppSerializeMembers
  <2>4. parts \in [1 .. n -> Streams]
    <3>1. WritesBelow(wire, t)
      BY <1>1, WriterTypes
    <3> QED BY <2>2, <3>1, SerializeMemberType
  <2>5. Readers(n, reader)
    <3>1. ReadsBelow(plain, t)
      BY <1>1 DEF ReadsBelow, TypeReaders
    <3> QED BY <2>2, <3>1, CReadMemberType DEF Readers
  <2>6. ASSUME NEW i \in 1 .. n, NEW r \in Streams
        PROVE  reader[i][parts[i] \o r] = [val |-> v[i], rest |-> r]
    <3>1. i \in DOMAIN Members[t]
      BY <2>2
    <3>2. parts[i] = CppSerializeMember(wire, Members[t][i], v[i])
      BY <3>1
    <3>3. parts[i] \in Streams
      BY <2>4
    <3>4. reader[i] = [z \in Streams |-> CDeserializeMember(plain, Members[t][i], z)]
      BY <3>1
    <3> HIDE DEF parts, reader
    <3>5. parts[i] \o r \in Streams
      BY <3>3, Concat
    <3>6. CDeserializeMember(plain, Members[t][i], parts[i] \o r) = [val |-> v[i], rest |-> r]
      BY <1>1, <2>1, <3>1, <3>2, MemberBack
    <3> QED BY <3>4, <3>5, <3>6
  <2>7. plain[t][FlattenSeq(parts) \o rest] = ReadSeq(reader, n, FlattenSeq(parts) \o rest)
    <3>1. FlattenSeq(parts) \o rest \in Streams
      <4> HIDE DEF parts, n
      <4>1. FlattenSeq(parts) \in Streams
        BY <2>2, <2>4, JoinType
      <4> QED BY <4>1, Concat
    <3> HIDE DEF parts
    <3> QED BY <3>1 DEF CReads, CDeserializeMembers
  <2>8. v = [i \in 1 .. n |-> v[i]]
    BY <2>2, ValuesAssumption
  <2> HIDE DEF parts, reader, n
  <2>9. Parts(n, reader, parts, v)
    BY <2>4, <2>5, <2>6 DEF Parts
  <2>10. ReadSeq(reader, n, FlattenSeq(parts) \o rest) = [val |-> v, rest |-> rest]
    BY <2>2, <2>8, <2>9, ReadParts
  <2> QED BY <2>3, <2>7, <2>10
<1>3. Types \subseteq T
  <2> HIDE DEF T
  <2> QED BY <1>2, TypesInduction
<1> QED BY <1>3 DEF ReadsBack

-----------------------------------------------------------------------------
(* The processes: what is taken is what was sent.                          *)

\* The message on its way is in the one wire form, and the last take of it
\* put the message sent into the application's.
Exact ==
  got # Nothing =>
    /\ net # Nothing
    /\ got.type = net.type
    /\ HostLang[got.by] = "c" \/ (Appends[got.type] => got.old = CppFresh[got.type])
         => got.value = net.sent

\* Whether every process copies solid types only.
AllSolid == \A h \in Hosts : SolidSets(h, statics[h])

\* The invariant the theorems about messages rest on.
ExactInv == WireInv /\ AllSolid /\ OneWireForm /\ Exact

\* Every process sends the one wire form.
LEMMA SentForm ==
  ASSUME WireInv, NEW h \in Hosts, NEW sets, SolidSets(h, sets),
         NEW t \in Types, NEW v \in Values[t]
  PROVE  Serialized(h, sets, t, v) = CppSerializeMessage({}, t, v)
<1> DEFINE lang == HostLang[h]
           fast == Fast(sets, "serializer")
<1>1. lang \in Langs
  BY HostsAssumption
<1>2. build.look["serializer"] \in Units
  BY BuildUnits DEF WireInv, Units
<1>3. \A u \in fast : Solid(lang, fast, u)
  BY <1>2 DEF SolidSets, Sound, Fast
<1>4. Serialized(h, sets, t, v) = SerializeMessage(lang, fast, t, v)
  BY DEF Serialized, SerializeMessage
<1> HIDE DEF lang, fast
<1> QED BY <1>1, <1>3, <1>4, WireForm

\* Every process takes out of it what was sent.
LEMMA ReceivedForm ==
  ASSUME WireInv, net # Nothing, OneWireForm, NEW h \in Hosts, NEW sets, SolidSets(h, sets),
         NEW old \in Values[net.type],
         HostLang[h] = "c" \/ (Appends[net.type] => old = CppFresh[net.type])
  PROVE  Deserialized(h, sets, net.type, old, net.stream) = net.sent
<1> DEFINE t == net.type
           v == net.sent
           in == net.stream
           fast == Fast(sets, "deserializer")
<1>1. t \in Types /\ v \in Values[t] /\ Narrow(t, v)
  BY DEF WireInv, Narrow
<1>2. PICK wire : Messages("cpp", {}, wire)
  BY MessageEquation DEF Langs
<1>3. PICK plain : CReads({}, plain)
  BY CReadEquation
<1>4. in = wire[t][v]
  <2>1. in = CppSerializeMessage({}, t, v)
    BY DEF OneWireForm
  <2>2. SerializeMessage("cpp", {}, t, v) = wire[t][v]
    BY <1>1, <1>2 DEF Messages
  <2> QED BY <2>1, <2>2 DEF SerializeMessage
<1> HIDE DEF t, v, in
<1>5. in \in Streams /\ in \o <<>> = in
  <2>1. in \in Streams
    BY <1>1, <1>2, <1>4, WriterTypes DEF Messages
  <2>2. in \in Seq(Cells)
    BY <2>1, CellTypes
  <2> HIDE DEF Cells
  <2> QED BY <2>1, <2>2
<1>6. plain[t][in].val = v
  <2>1. <<>> \in Streams
    BY CellTypes
  <2>2. plain[t][wire[t][v] \o <<>>] = [val |-> v, rest |-> <<>>]
    <3>1. \A rest \in Streams : plain[t][wire[t][v] \o rest] = [val |-> v, rest |-> rest]
      <4>1. ReadsBack(wire, plain)
        BY <1>2, <1>3, RoundTrip
      <4> QED BY <1>1, <4>1 DEF ReadsBack
    <3> QED BY <2>1, <3>1
  <2> QED BY <1>4, <1>5, <2>2
<1>7. build.look["deserializer"] \in Units
  BY BuildUnits DEF WireInv, Units
<1>8. \A u \in fast : Solid(HostLang[h], fast, u)
  BY <1>7 DEF SolidSets, Sound, Fast
<1>9. HostLang[h] \in Langs
  BY HostsAssumption
<1>10. Deserialized(h, sets, t, old, in) =
         IF HostLang[h] = "cpp" THEN CppDeserializeMessage(fast, t, old, in).val
         ELSE CDeserializeMessage(fast, t, in).val
  BY DEF Deserialized
<1> HIDE DEF fast
<1>11. CASE HostLang[h] = "cpp"
  <2>1. Appends[t] => old = CppFresh[t]
    BY <1>11 DEF t
  <2>2. old \in Values[t]
    BY DEF t
  <2>3. CppDeserializeMessage(fast, t, old, in) = plain[t][in]
    BY <1>1, <1>3, <1>5, <1>8, <1>11, <2>1, <2>2, CppReadForm
  <2> QED BY <1>6, <1>10, <1>11, <2>3 DEF t, v, in
<1>12. CASE HostLang[h] # "cpp"
  <2>1. HostLang[h] = "c"
    BY <1>9, <1>12 DEF Langs
  <2>2. CDeserializeMessage(fast, t, in) = plain[t][in]
    BY <1>1, <1>3, <1>5, <1>8, <2>1, CReadForm
  <2> QED BY <1>6, <1>10, <1>12, <2>2 DEF t, v, in
<1> QED BY <1>11, <1>12

\* Before the first message all of it holds.
LEMMA ExactInit ==
  ASSUME Init
  PROVE  ExactInv
<1>1. WireInv
  BY WireInvInit
<1>2. AllSolid
  BY DEF Init, AllSolid, SolidSets, Sound, NothingAnalyzed
<1>3. OneWireForm /\ Exact
  BY DEF Init, OneWireForm, Exact
<1> QED BY <1>1, <1>2, <1>3 DEF ExactInv

\* Sending keeps it.
LEMMA SendExact ==
  ASSUME ExactInv, NEW h \in Hosts, NEW sets, SolidSets(h, sets),
         NEW t \in Types, NEW v \in Samples[t], Send(h, sets, t, v)
  PROVE  OneWireForm' /\ Exact'
<1>1. CASE v \in WideMessages[t]
  BY <1>1 DEF Send, ExactInv, OneWireForm, Exact
<1>2. CASE v \notin WideMessages[t]
  <2>1. net' = [type |-> t, sent |-> v, stream |-> Serialized(h, sets, t, v)] /\ got' = Nothing
    BY <1>2 DEF Send
  <2>2. v \in Values[t]
    BY HostsAssumption
  <2>3. Serialized(h, sets, t, v) = CppSerializeMessage({}, t, v)
    BY <2>2, SentForm DEF ExactInv
  <2> QED BY <2>1, <2>3 DEF OneWireForm, Exact
<1> QED BY <1>1, <1>2

\* Taking keeps it.
LEMMA ReceiveExact ==
  ASSUME ExactInv, net # Nothing, NEW h \in Hosts, NEW sets, SolidSets(h, sets),
         NEW old \in Values[net.type], Receive(h, sets, old), UNCHANGED net
  PROVE  OneWireForm' /\ Exact'
<1>1. got' = [type |-> net.type, by |-> h, old |-> old,
              value |-> Deserialized(h, sets, net.type, old, net.stream)]
  BY DEF Receive
<1>2. HostLang[h] = "c" \/ (Appends[net.type] => old = CppFresh[net.type])
        => Deserialized(h, sets, net.type, old, net.stream) = net.sent
  BY ReceivedForm DEF ExactInv
<1>3. Exact'
  BY <1>1, <1>2 DEF Exact
<1> QED BY <1>3 DEF ExactInv, OneWireForm

\* Every call keeps it.
LEMMA ExactNext ==
  ASSUME CharsAreNotPadded, ExactInv, [Next]_vars
  PROVE  ExactInv'
<1>0. WireInv' /\ WireInv /\ build \in Builds
  BY WireInvNext DEF ExactInv, WireInv
<1> SUFFICES AllSolid' /\ OneWireForm' /\ Exact'
  BY <1>0 DEF ExactInv
<1>1. CASE UNCHANGED vars
  BY <1>1 DEF vars, ExactInv, AllSolid, OneWireForm, Exact
\* One call of AnalyzeType keeps what is copied whole solid.
<1>2. ASSUME NEW h \in Hosts, NEW unit \in Units, NEW t \in Types
      PROVE  SolidSets(h, Analyzed(h, statics[h], unit, t))
  BY <1>0, AnalyzedSets DEF WireInv, ExactInv, AllSolid
<1>3. ASSUME NEW h \in Hosts, NEW sets, SolidSets(h, sets), statics' = [statics EXCEPT ![h] = sets]
      PROVE  AllSolid'
  BY <1>0, <1>3 DEF WireInv, ExactInv, AllSolid, SolidSets
<1>4. ASSUME NEW h \in Hosts, NEW t \in Types, CreateTypeSupport(h, t)
      PROVE  AllSolid' /\ OneWireForm' /\ Exact'
  <2> DEFINE first == Analyzed(h, statics[h], "serializer", t)
             both == IF Threw(first) THEN first ELSE Analyzed(h, first, "deserializer", t)
  <2>1. statics' = [statics EXCEPT ![h] = Settled(both)] /\ UNCHANGED <<build, net, got>>
    BY <1>4 DEF CreateTypeSupport
  <2>2. /\ first \in [Units -> Statics]
        /\ \A u \in Units : Sighted(first[u])
    BY <1>0, AnalyzedSets DEF WireInv, Units
  <2>3. SolidSets(h, first)
    BY <1>2 DEF Units
  <2> HIDE DEF first
  <2>4. /\ both \in [Units -> Statics]
        /\ \A u \in Units : Sighted(both[u])
        /\ SolidSets(h, both)
    <3>1. CASE Threw(first)
      BY <2>2, <2>3, <3>1
    <3>2. CASE ~Threw(first)
      <4>1. Clean(first)
        BY <2>2, <3>2, CleanSettles
      <4>2. both = Analyzed(h, first, "deserializer", t)
        BY <3>2
      <4>3. "deserializer" \in Units
        BY DEF Units
      <4> QED BY <1>0, <2>3, <4>1, <4>2, <4>3, AnalyzedSets
    <3> QED BY <3>1, <3>2
  <2> HIDE DEF both
  <2>5. SolidSets(h, Settled(both))
    BY <2>4, SettledSets
  <2>6. AllSolid'
    BY <1>3, <2>1, <2>5
  <2> QED BY <2>1, <2>6 DEF ExactInv, OneWireForm, Exact
<1>5. ASSUME NEW h \in Hosts, NEW t \in Types, NEW v \in Samples[t], Publish(h, t, v)
      PROVE  AllSolid' /\ OneWireForm' /\ Exact'
  <2>1. AllSolid' /\ SolidSets(h, statics[h])
    BY <1>5 DEF Publish, ExactInv, AllSolid
  <2> QED BY <1>5, <2>1, SendExact DEF Publish
<1>6. ASSUME NEW h \in Hosts, NEW t \in Types, NEW v \in Samples[t], SerializeOnce(h, t, v)
      PROVE  AllSolid' /\ OneWireForm' /\ Exact'
  <2> DEFINE sets == Analyzed(h, statics[h], "serializer", t)
  <2>1. Send(h, sets, t, v) /\ statics' = [statics EXCEPT ![h] = sets]
    BY <1>6 DEF SerializeOnce
  <2>2. SolidSets(h, sets)
    BY <1>2 DEF Units
  <2> HIDE DEF sets
  <2> QED BY <1>3, <2>1, <2>2, SendExact
<1>7. ASSUME NEW h \in Hosts, NEW old, Take(h, old)
      PROVE  AllSolid' /\ OneWireForm' /\ Exact'
  <2>1. AllSolid' /\ SolidSets(h, statics[h])
    BY <1>7 DEF Take, ExactInv, AllSolid
  <2>2. net # Nothing /\ Receive(h, statics[h], old) /\ UNCHANGED net
    BY <1>7 DEF Take
  <2>3. old \in Values[net.type]
    <3>1. net.type \in Types
      BY <1>0, <2>2 DEF WireInv
    <3>2. CppFresh[net.type] \in Values[net.type]
      BY <3>1, FreshAssumption
    <3>3. Samples[net.type] \subseteq Values[net.type]
      BY <3>1, HostsAssumption
    <3> QED BY <1>7, <3>2, <3>3 DEF Take
  <2> QED BY <2>1, <2>2, <2>3, ReceiveExact
<1>8. ASSUME NEW h \in Hosts, DeserializeOnce(h)
      PROVE  AllSolid' /\ OneWireForm' /\ Exact'
  <2> DEFINE new == Analyzed(h, statics[h], "deserializer", net.type)
             sets == Settled(new)
  <2>1. /\ net # Nothing
        /\ Receive(h, sets, CppFresh[net.type])
        /\ statics' = [statics EXCEPT ![h] = sets]
        /\ UNCHANGED net
    BY <1>8 DEF DeserializeOnce
  <2>2. net.type \in Types
    BY <1>0, <2>1 DEF WireInv
  <2>3. /\ new \in [Units -> Statics]
        /\ \A u \in Units : Sighted(new[u])
    BY <1>0, <2>2, AnalyzedSets DEF WireInv, Units
  <2>4. SolidSets(h, new)
    BY <1>2, <2>2 DEF Units
  <2> HIDE DEF new
  <2>5. SolidSets(h, sets)
    BY <2>3, <2>4, SettledSets
  <2> HIDE DEF sets
  <2>6. CppFresh[net.type] \in Values[net.type]
    BY <2>2, FreshAssumption
  <2> QED BY <1>3, <2>1, <2>5, <2>6, ReceiveExact
<1> QED BY <1>1, <1>4, <1>5, <1>6, <1>7, <1>8 DEF Next

\* So it always holds.
LEMMA ExactHolds ==
  ASSUME CharsAreNotPadded
  PROVE  Spec => []ExactInv
BY ExactInit, ExactNext, PTL DEF Spec

\* What a process has marked memcopyable has neither padding nor members that
\* own memory, in the types it nests as well (type_info.hpp:161), unless a C
\* process knows a type with a char in front of padding.
THEOREM CopiedWholeIsSolid ==
  ASSUME CharsAreNotPadded
  PROVE  Spec => []CopiedWholeAreSolid
<1>1. ExactInv => CopiedWholeAreSolid
  BY DEF ExactInv, AllSolid, SolidSets, Sound, CopiedWholeAreSolid
<1> QED BY <1>1, ExactHolds, PTL

\* A message has one wire form: that of a C++ process that copies nothing
\* whole, whatever the sender's language, and whatever it has analysed before.
THEOREM WireFormIsOne ==
  ASSUME CharsAreNotPadded
  PROVE  Spec => []OneWireForm
<1>1. ExactInv => OneWireForm
  BY DEF ExactInv
<1> QED BY <1>1, ExactHolds, PTL

\* A message taken into one just made is the one that was sent, between any
\* two processes.
THEOREM FreshTakesAreExact ==
  ASSUME CharsAreNotPadded
  PROVE  Spec => []FreshTakeIsExact
<1>1. ExactInv => FreshTakeIsExact
  BY DEF ExactInv, Exact, FreshTakeIsExact
<1> QED BY <1>1, ExactHolds, PTL

\* So is a message taken into one that was taken into before, unless it holds
\* text or bools that a C++ receiver appends.
THEOREM ReusedTakesAreExact ==
  ASSUME CharsAreNotPadded
  PROVE  Spec => []ReusedTakeIsExact
<1>1. ExactInv => ReusedTakeIsExact
  BY DEF ExactInv, Exact, ReusedTakeIsExact
<1> QED BY <1>1, ExactHolds, PTL
==============================================================================
