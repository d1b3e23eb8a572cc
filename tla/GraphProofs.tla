----------------------------- MODULE GraphProofs -----------------------------
(***************************************************************************)
(* Proofs about names, profiles and the queries of Graph, for any nodes,   *)
(* endpoints and names.                                                    *)
(***************************************************************************)
EXTENDS Graph, SequenceTheorems, TLAPS

(***************************************************************************)
(* Profiles                                                                *)
(***************************************************************************)

\* qos.hpp:145-212: an endpoint reports of itself what was asked for, where
\* something was, and otherwise what eCAL uses; made anew from its own report,
\* it has the same settings.
THEOREM ReportIsWhatIsUsed ==
  ASSUME NEW p \in Profile
  PROVE  /\ IsPolicySpecified(p.history) => ActualQOS(p).history = p.history
         /\ IsPolicySpecified(p.reliability) => ActualQOS(p).reliability = p.reliability
         /\ ToECalHistory(ActualQOS(p).history) = EcalQOS(p).history
         /\ ToECalReliability(ActualQOS(p).reliability) = EcalQOS(p).reliability
         /\ EcalQOS(ActualQOS(p)) = EcalQOS(p)
<1>1. /\ p.history \in {"keep_last", "keep_all"} \cup Unspecified
      /\ p.reliability \in {"best_effort", "reliable"} \cup Unspecified
  BY DEF Profile
<1>2. /\ IsPolicySpecified(p.history) => ActualQOS(p).history = p.history
      /\ ToECalHistory(ActualQOS(p).history) = EcalQOS(p).history
      /\ IsPolicySpecified(ActualQOS(p).history)
  BY <1>1, QoSAssumption
  DEF IsPolicySpecified, ActualQOS, EcalQOS, ToRosHistory, ToECalHistory, Unspecified
<1>3. /\ IsPolicySpecified(p.reliability) => ActualQOS(p).reliability = p.reliability
      /\ ToECalReliability(ActualQOS(p).reliability) = EcalQOS(p).reliability
      /\ IsPolicySpecified(ActualQOS(p).reliability)
  BY <1>1, QoSAssumption
  DEF IsPolicySpecified, ActualQOS, EcalQOS, ToRosReliability, ToECalReliability, Unspecified
<1>4. ActualQOS(p).depth = p.depth
  BY DEF ActualQOS
<1>5. EcalQOS(ActualQOS(p)) =
        [history     |-> ToECalHistory(ActualQOS(p).history),
         reliability |-> ToECalReliability(ActualQOS(p).reliability),
         depth       |-> ActualQOS(p).depth]
  BY <1>2, <1>3 DEF EcalQOS
<1>6. EcalQOS(p) = [history     |-> EcalQOS(p).history,
                    reliability |-> EcalQOS(p).reliability,
                    depth       |-> p.depth]
  BY DEF EcalQOS
<1> QED BY <1>2, <1>3, <1>4, <1>5, <1>6

\* graph.hpp:314-318, get_topic_endpoint_info.cpp:57-70: what the graph reports
\* of an endpoint is never what the endpoint reports of itself.
THEOREM ReliabilityIsInverted ==
  ASSUME NEW p \in Profile
  PROVE  /\ EndpointQOS(p).reliability # ActualQOS(p).reliability
         /\ EndpointQOS(p).durability # ActualQOS(p).durability
         /\ EndpointQOS(p).depth = ActualQOS(p).depth
BY QoSAssumption DEF EndpointQOS, ActualQOS, EcalQOS, ToRosReliability, ToECalReliability

(***************************************************************************)
(* Names                                                                   *)
(***************************************************************************)

LEMMA OneSegment ==
  ASSUME NEW a \in Segments
  PROVE  <<a>> \in Seq(Segments) /\ Len(<<a>>) = 1 /\ <<a>>[1] = a
OBVIOUS

LEMMA TwoSegments ==
  ASSUME NEW a \in Segments, NEW b \in Segments
  PROVE  <<a, b>> \in Seq(Segments) /\ Len(<<a, b>>) = 2 /\ <<a, b>>[1] = a /\ <<a, b>>[2] = b
OBVIOUS

LEMMA Literals == Blank \in Segments /\ "rt" \in Segments /\ "rs" \in Segments /\ "_node" \in Segments
BY SegmentsAssumption

LEMMA BlankIsNoPrefix == Blank # "rt" /\ Blank # "rs"
BY Zenon DEF Blank

LEMMA RootFacts ==
  /\ Root \in Seq(Segments) /\ Root # <<>> /\ Len(Root) = 2
  /\ Root[1] = Blank /\ Root[2] = Blank
BY Literals, TwoSegments DEF Root

LEMMA PrefixedFacts ==
  ASSUME NEW prefix \in Segments, NEW name \in Seq(Segments), name # <<>>
  PROVE  /\ Prefixed(prefix, name) \in Seq(Segments)
         /\ Len(Prefixed(prefix, name)) = Len(name)
         /\ Prefixed(prefix, name)[1] = prefix
         /\ \A i \in 2..Len(name) : Prefixed(prefix, name)[i] = name[i]
<1>1. /\ Tail(name) \in Seq(Segments)
      /\ Len(Tail(name)) = Len(name) - 1
      /\ \A i \in 1..Len(Tail(name)) : Tail(name)[i] = name[i + 1]
  BY HeadTailProperties
<1>2. <<prefix>> \in Seq(Segments) /\ Len(<<prefix>>) = 1 /\ <<prefix>>[1] = prefix
  BY OneSegment
<1>3. Len(name) \in Nat /\ Len(name) > 0
  BY EmptySeq
<1> DEFINE s == <<prefix>> \o Tail(name)
<1>4. /\ s \in Seq(Segments)
      /\ Len(s) = 1 + (Len(name) - 1)
      /\ \A i \in 1..1 + (Len(name) - 1) :
           s[i] = IF i <= 1 THEN <<prefix>>[i] ELSE Tail(name)[i - 1]
  BY <1>1, <1>2, ConcatProperties
<1>7. s = Prefixed(prefix, name)
  BY DEF Prefixed
<1> HIDE DEF s
<1>5. s[1] = prefix
  BY <1>2, <1>3, <1>4
<1>6. \A i \in 2..Len(name) : s[i] = name[i]
  BY <1>1, <1>3, <1>4
<1> QED BY <1>3, <1>4, <1>5, <1>6, <1>7

\* The name of a query server, segment by segment.
ServerNameOf(s, ns, name) ==
  /\ s \in Seq(Segments)
  /\ Len(s) = IF ns = Root THEN 3 ELSE Len(ns) + 2
  /\ s[1] = "rs" /\ s[2] = "_node" /\ s[Len(s)] = name
  /\ ns # Root => \A i \in 2..Len(ns) : s[i + 1] = ns[i]

LEMMA BuildFacts ==
  ASSUME NEW ns \in Seq(Segments), ns # <<>>, NEW name \in Segments
  PROVE  ServerNameOf(BuildQueryServiceName(ns, name), ns, name)
<1> DEFINE middle == IF ns = Root THEN <<>> ELSE Tail(ns)
           front == <<"rs", "_node">> \o middle
           s == front \o <<name>>
<1>1. Len(ns) \in Nat /\ Len(ns) > 0
  BY EmptySeq
<1>2. /\ middle \in Seq(Segments)
      /\ Len(middle) = IF ns = Root THEN 0 ELSE Len(ns) - 1
      /\ ns # Root => \A i \in 1..Len(ns) - 1 : middle[i] = ns[i + 1]
  BY HeadTailProperties, EmptySeq
<1>3. /\ <<"rs", "_node">> \in Seq(Segments) /\ Len(<<"rs", "_node">>) = 2
      /\ <<"rs", "_node">>[1] = "rs" /\ <<"rs", "_node">>[2] = "_node"
      /\ <<name>> \in Seq(Segments) /\ Len(<<name>>) = 1 /\ <<name>>[1] = name
  BY Literals, OneSegment, TwoSegments
<1> HIDE DEF middle
<1>4. Len(middle) \in Nat
  BY <1>2, LenProperties
<1>5. /\ front \in Seq(Segments)
      /\ Len(front) = 2 + Len(middle)
      /\ \A i \in 1..2 + Len(middle) :
           front[i] = IF i <= 2 THEN <<"rs", "_node">>[i] ELSE middle[i - 2]
  BY <1>2, <1>3, ConcatProperties
<1> HIDE DEF front
<1>6. /\ s \in Seq(Segments)
      /\ Len(s) = Len(front) + 1
      /\ \A i \in 1..Len(front) + 1 :
           s[i] = IF i <= Len(front) THEN front[i] ELSE <<name>>[i - Len(front)]
  BY <1>3, <1>5, ConcatProperties
<1> HIDE DEF s
<1>7. Len(s) = IF ns = Root THEN 3 ELSE Len(ns) + 2
  BY <1>1, <1>2, <1>4, <1>5, <1>6
<1>8. s[1] = "rs" /\ s[2] = "_node"
  BY <1>3, <1>4, <1>5, <1>6
<1>9. s[Len(s)] = name
  <2>1. s[Len(front) + 1] = <<name>>[(Len(front) + 1) - Len(front)]
    BY <1>4, <1>5, <1>6
  <2> QED BY <2>1, <1>3, <1>4, <1>5, <1>6
<1>10. ASSUME ns # Root, NEW i \in 2..Len(ns) PROVE s[i + 1] = ns[i]
  <2>1. i + 1 \in 1..2 + Len(middle) /\ i + 1 > 2
    BY <1>1, <1>2, <1>10
  <2>2. s[i + 1] = front[i + 1]
    BY <2>1, <1>4, <1>5, <1>6
  <2>3. front[i + 1] = middle[(i + 1) - 2]
    BY <2>1, <1>5
  <2>4. (i + 1) - 2 = i - 1 /\ i - 1 \in 1..Len(ns) - 1 /\ (i - 1) + 1 = i
    BY <1>1
  <2>5. middle[i - 1] = ns[i]
    BY <2>4, <1>2, <1>10
  <2> QED BY <2>2, <2>3, <2>4, <2>5
<1>11. s = BuildQueryServiceName(ns, name)
  BY DEF s, front, middle, BuildQueryServiceName
<1>12. ServerNameOf(s, ns, name)
  BY <1>6, <1>7, <1>8, <1>9, <1>10 DEF ServerNameOf
<1> QED BY <1>11, <1>12

LEMMA InnerLength ==
  ASSUME NEW n \in Nat, n > 2
  PROVE  (IF 3 <= n - 1 THEN (n - 1) - 3 + 1 ELSE 0) = n - 3
OBVIOUS

\* What GetNodes reads off a name that begins like a query server's.
LEMMA ListedFacts ==
  ASSUME NEW s \in Seq(Segments), IsQueryServiceName(s)
  PROVE  LET p == ListedNode(s) IN
         /\ p.name \in Segments /\ p.name = s[Len(s)]
         /\ p.ns \in Seq(Segments)
         /\ Len(p.ns) = IF Len(s) = 2 THEN 1 ELSE Len(s) - 1
         /\ p.ns[1] = AfterPrefix[s[2]]
         /\ Len(s) > 2 => /\ p.ns[Len(p.ns)] = Blank
                          /\ \A i \in 3..Len(s) - 1 : p.ns[i - 1] = s[i]
<1> DEFINE rest == AfterPrefix[s[2]]
           inner == SubSeq(s, 3, Len(s) - 1)
           front == <<rest>> \o inner
           long == front \o <<Blank>>
           ns == IF Len(s) = 2 THEN <<rest>> ELSE long
<1>1. /\ Len(s) \in Nat /\ Len(s) > 1
      /\ rest \in Segments
  BY PrefixAssumption, LenProperties DEF IsQueryServiceName
<1>2. s[Len(s)] \in Segments
  BY <1>1, ElementOfSeq
<1>3. ListedNode(s) = [name |-> s[Len(s)], ns |-> ns]
  BY DEF ListedNode
<1>4. <<rest>> \in Seq(Segments) /\ Len(<<rest>>) = 1 /\ <<rest>>[1] = rest
  BY <1>1, OneSegment
<1>5. <<Blank>> \in Seq(Segments) /\ Len(<<Blank>>) = 1 /\ <<Blank>>[1] = Blank
  BY Literals, OneSegment
<1>6. /\ inner \in Seq(Segments)
      /\ Len(inner) = IF 3 <= Len(s) - 1 THEN (Len(s) - 1) - 3 + 1 ELSE 0
      /\ \A i \in 1..(Len(s) - 1) - 3 + 1 : inner[i] = s[3 + i - 1]
  <2>1. \A i \in 3..Len(s) - 1 : s[i] \in Segments
    BY <1>1, ElementOfSeq
  <2>2. 3 \in Int /\ Len(s) - 1 \in Int
    BY <1>1
  <2> QED BY <2>1, <2>2, SubSeqProperties
<1> HIDE DEF rest, inner
<1>7. Len(inner) \in Nat
  BY <1>6, LenProperties
<1>8. /\ front \in Seq(Segments)
      /\ Len(front) = 1 + Len(inner)
      /\ \A i \in 1..1 + Len(inner) :
           front[i] = IF i <= 1 THEN <<rest>>[i] ELSE inner[i - 1]
  BY <1>4, <1>6, ConcatProperties
<1> HIDE DEF front
<1>9. /\ long \in Seq(Segments)
      /\ Len(long) = Len(front) + 1
      /\ \A i \in 1..Len(front) + 1 :
           long[i] = IF i <= Len(front) THEN front[i] ELSE <<Blank>>[i - Len(front)]
  BY <1>5, <1>8, ConcatProperties
<1> HIDE DEF long
<1>10. ASSUME Len(s) # 2
       PROVE  /\ Len(long) = Len(s) - 1
              /\ long[1] = rest
              /\ long[Len(long)] = Blank
              /\ \A i \in 3..Len(s) - 1 : long[i - 1] = s[i]
  <2>1. Len(s) > 2 /\ Len(inner) = Len(s) - 3 /\ Len(front) = Len(s) - 2
    <3>1. Len(inner) = IF 3 <= Len(s) - 1 THEN (Len(s) - 1) - 3 + 1 ELSE 0
      BY <1>6
    <3>2. Len(front) = 1 + Len(inner)
      BY <1>8
    <3>3. Len(s) \in Nat /\ Len(s) > 2
      BY <1>1, <1>10
    <3>4. Len(inner) = Len(s) - 3
      BY <3>1, <3>3, InnerLength
    <3> QED BY <3>2, <3>3, <3>4
  <2>2. Len(long) = Len(s) - 1
    BY <2>1, <1>1, <1>9
  <2>3. long[1] = rest
    <3>1. long[1] = front[1]
      BY <2>1, <1>1, <1>9
    <3>2. front[1] = <<rest>>[1]
      BY <1>7, <1>8
    <3> QED BY <3>1, <3>2, <1>4
  <2>4. long[Len(long)] = Blank
    <3>1. long[Len(front) + 1] = <<Blank>>[(Len(front) + 1) - Len(front)]
      BY <2>1, <1>1, <1>9
    <3> QED BY <3>1, <2>1, <1>1, <1>5, <1>9
  <2>5. ASSUME NEW i \in 3..Len(s) - 1 PROVE long[i - 1] = s[i]
    <3>1. i - 1 \in 1..Len(front) /\ i - 1 > 1 /\ (i - 1) - 1 = i - 2
      BY <2>1, <1>1
    <3>2. long[i - 1] = front[i - 1]
      BY <3>1, <2>1, <1>1, <1>9
    <3>3. front[i - 1] = inner[i - 2]
      <4>1. i - 1 \in 1..1 + Len(inner)
        BY <3>1, <1>8
      <4>2. front[i - 1] = IF i - 1 <= 1 THEN <<rest>>[i - 1] ELSE inner[(i - 1) - 1]
        BY <4>1, <1>8
      <4> QED BY <4>2, <3>1
    <3>4. i - 2 \in 1..(Len(s) - 1) - 3 + 1 /\ 3 + (i - 2) - 1 = i
      BY <1>1
    <3>5. inner[i - 2] = s[i]
      BY <3>4, <1>6
    <3> QED BY <3>2, <3>3, <3>5
  <2> QED BY <2>2, <2>3, <2>4, <2>5
<1>11. /\ ns \in Seq(Segments)
       /\ Len(ns) = IF Len(s) = 2 THEN 1 ELSE Len(s) - 1
       /\ ns[1] = rest
       /\ Len(s) > 2 => /\ ns[Len(ns)] = Blank
                        /\ \A i \in 3..Len(s) - 1 : ns[i - 1] = s[i]
  <2>1. CASE Len(s) = 2
    BY <2>1, <1>4
  <2>2. CASE Len(s) # 2
    BY <2>2, <1>9, <1>10
  <2> QED BY <2>1, <2>2
<1> HIDE DEF ns
<1> QED BY <1>2, <1>3, <1>11 DEF rest

LEMMA NamespaceFacts ==
  ASSUME NEW ns, ValidNamespace(ns)
  PROVE  /\ ns \in Seq(Segments) /\ ns # <<>> /\ Len(ns) \in Nat /\ Len(ns) > 1
         /\ ns[1] = Blank
         /\ ns # Root => \A i \in 2..Len(ns) : ns[i] # Blank
<1>1. CASE ns = Root
  BY <1>1, RootFacts, EmptySeq
<1>2. CASE ns # Root
  BY <1>2, LenProperties, EmptySeq DEF ValidNamespace
<1> QED BY <1>1, <1>2

\* qos.hpp:55-65: two nodes have one query server's name only if they have one
\* namespace and name; and a namespace that ends with a slash is nobody's but
\* the root's.
THEOREM QueryNamesDiffer ==
  ASSUME NEW ns, ValidNamespace(ns), NEW name \in Segments,
         NEW other \in Seq(Segments), Len(other) > 1, ValidNamespace(other) \/ other[Len(other)] = Blank,
         NEW name2 \in Segments,
         BuildQueryServiceName(ns, name) = BuildQueryServiceName(other, name2)
  PROVE  ns = other /\ name = name2
<1> DEFINE s == BuildQueryServiceName(ns, name)
           t == BuildQueryServiceName(other, name2)
<1>1. /\ ns \in Seq(Segments) /\ ns # <<>> /\ Len(ns) \in Nat /\ Len(ns) > 1
      /\ ns[1] = Blank
      /\ ns # Root => \A i \in 2..Len(ns) : ns[i] # Blank
  BY NamespaceFacts
<1>2. other # <<>> /\ Len(other) \in Nat
  BY LenProperties, EmptySeq
<1>10. ServerNameOf(s, ns, name)
  BY <1>1, BuildFacts
<1>11. ServerNameOf(t, other, name2)
  BY <1>2, BuildFacts
<1>5. s = t
  OBVIOUS
<1> HIDE DEF s, t
<1>3. /\ Len(s) = IF ns = Root THEN 3 ELSE Len(ns) + 2
      /\ s[Len(s)] = name
      /\ ns # Root => \A i \in 2..Len(ns) : s[i + 1] = ns[i]
  BY <1>10 DEF ServerNameOf
<1>4. /\ Len(t) = IF other = Root THEN 3 ELSE Len(other) + 2
      /\ t[Len(t)] = name2
      /\ other # Root => \A i \in 2..Len(other) : t[i + 1] = other[i]
  BY <1>11 DEF ServerNameOf
<1>6. name = name2
  BY <1>3, <1>4, <1>5
<1>7. ns = Root <=> other = Root
  <2>1. Len(s) = IF ns = Root THEN 3 ELSE Len(ns) + 2
    BY <1>3
  <2>2. Len(s) = IF other = Root THEN 3 ELSE Len(other) + 2
    BY <1>4, <1>5
  <2>3. Len(ns) \in Nat /\ Len(other) \in Nat /\ Len(ns) > 1 /\ Len(other) > 1
    BY <1>1, <1>2
  <2>4. Len(ns) + 2 # 3 /\ Len(other) + 2 # 3
    BY <2>3
  <2> QED BY <2>1, <2>2, <2>4
<1>8. CASE ns # Root
  <2>1. Len(ns) = Len(other)
    <3>1. Len(s) = Len(ns) + 2 /\ Len(s) = Len(other) + 2
      BY <1>3, <1>4, <1>5, <1>7, <1>8
    <3> QED BY <3>1, <1>1, <1>2
  <2>2. \A i \in 2..Len(ns) : ns[i] = other[i]
    BY <2>1, <1>3, <1>4, <1>5, <1>7, <1>8
  <2>3. other[Len(other)] # Blank
    BY <2>1, <2>2, <1>1, <1>8
  <2>4. other[1] = Blank
    BY <2>3, NamespaceFacts
  <2>5. \A i \in 1..Len(ns) : ns[i] = other[i]
    BY <2>2, <2>4, <1>1
  <2>6. ns = other
    BY <2>1, <2>5, <1>1, SeqEqual
  <2> QED BY <2>6, <1>6
<1> QED BY <1>6, <1>7, <1>8

\* qos.hpp:36-53: demangling undoes the prefix of a name that begins with a
\* slash, and leaves such a name alone.
THEOREM DemangleUndoes ==
  ASSUME NEW name \in Seq(Segments), Len(name) > 1, name[1] = Blank,
         NEW prefix \in {"rt", "rs"}
  PROVE  /\ Demangled(prefix, Prefixed(prefix, name)) = name
         /\ Demangled(prefix, name) = name
<1>1. name # <<>> /\ Len(name) \in Nat /\ prefix \in Segments /\ Blank \in Segments
  BY EmptySeq, LenProperties, Literals
<1> DEFINE p == Prefixed(prefix, name)
           q == Prefixed(Blank, p)
<1>2. /\ p \in Seq(Segments) /\ Len(p) = Len(name) /\ p[1] = prefix
      /\ \A i \in 2..Len(name) : p[i] = name[i]
  BY <1>1, PrefixedFacts
<1> HIDE DEF p
<1>3. p # <<>>
  BY <1>2, EmptySeq
<1>4. /\ q \in Seq(Segments) /\ Len(q) = Len(p) /\ q[1] = Blank
      /\ \A i \in 2..Len(p) : q[i] = p[i]
  BY <1>1, <1>2, <1>3, PrefixedFacts
<1>5. Demangled(prefix, p) = q
  BY <1>2, <1>3 DEF Demangled
<1> HIDE DEF q
<1>6. \A i \in 1..Len(name) : q[i] = name[i]
  BY <1>1, <1>2, <1>4
<1>7. q = name
  BY <1>2, <1>4, <1>6, SeqEqual
<1>8. Demangled(prefix, name) = name
  <2>1. Head(name) = Blank
    OBVIOUS
  <2> QED BY <2>1, BlankIsNoPrefix DEF Demangled
<1> QED BY <1>5, <1>7, <1>8 DEF p

LEMMA AppendedFacts ==
  ASSUME NEW s \in Seq(Segments), NEW x \in Segments
  PROVE  /\ s \o <<x>> \in Seq(Segments)
         /\ Len(s \o <<x>>) = Len(s) + 1
         /\ \A i \in 1..Len(s) : (s \o <<x>>)[i] = s[i]
         /\ (s \o <<x>>)[Len(s) + 1] = x
<1>1. <<x>> \in Seq(Segments) /\ Len(<<x>>) = 1 /\ <<x>>[1] = x
  BY OneSegment
<1> DEFINE t == s \o <<x>>
<1>2. /\ t \in Seq(Segments)
      /\ Len(t) = Len(s) + 1
      /\ \A i \in 1..Len(s) + 1 : t[i] = IF i <= Len(s) THEN s[i] ELSE <<x>>[i - Len(s)]
  BY <1>1, ConcatProperties
<1>3. Len(s) \in Nat
  BY LenProperties
<1> HIDE DEF t
<1>4. \A i \in 1..Len(s) : t[i] = s[i]
  BY <1>2, <1>3
<1>5. t[Len(s) + 1] = x
  <2>1. t[Len(s) + 1] = <<x>>[(Len(s) + 1) - Len(s)]
    BY <1>2, <1>3
  <2>2. (Len(s) + 1) - Len(s) = 1
    BY <1>3
  <2> QED BY <2>1, <2>2, <1>1
<1> QED BY <1>2, <1>4, <1>5 DEF t

(***************************************************************************)
(* What one process makes of the others                                    *)
(***************************************************************************)

\* Every namespace listed is one segment, or ends with a slash.
ListedShape ==
  \A p \in listing :
    /\ p.name \in Segments
    /\ p.ns \in Seq(Segments)
    /\ Len(p.ns) = 1 \/ (Len(p.ns) > 1 /\ p.ns[Len(p.ns)] = Blank)

\* A node asked about was listed or is somebody's.
AskedShape ==
  call # None =>
    /\ call.node.name \in Segments
    /\ call.node.ns \in Seq(Segments)
    /\ \/ ValidNamespace(call.node.ns)
       \/ Len(call.node.ns) = 1
       \/ Len(call.node.ns) > 1 /\ call.node.ns[Len(call.node.ns)] = Blank

NamedLikeQueries(p) ==
  \E e \in Entities : e.kind = "service" /\ EcalName(e) = BuildQueryServiceName(p.ns, p.name)

\* What is listed of the root namespace comes from a node that was there, or
\* from a service named like one's query server.
ListedOrigin ==
  \A p \in listing :
    p.ns = Root =>
      (\E n \in (seen \cup gone) \cap Nodes : NodeNamed(n, p)) \/ NamedLikeQueries(p)

\* The inductive invariant.
IInv ==
  /\ TypeOK
  /\ ListedShape
  /\ AskedShape
  /\ ListedOrigin
  /\ FaultNeedsLoss
  /\ AnswerFromNodeAsked

LEMMA NodeFacts ==
  ASSUME NEW n \in Nodes
  PROVE  n.name \in Segments /\ ValidNamespace(n.ns)
BY GraphAssumption DEF NodesAssumption

LEMMA EntityFacts ==
  ASSUME NEW e \in Entities
  PROVE  /\ e.kind \in Kinds /\ e.owner \in Nodes /\ e.simple \in Segments
         /\ e.name \in Seq(Segments) /\ e.name # <<>>
         /\ ~Avoids(e) => e.name[1] = Blank /\ Len(e.name) > 1
<1>1. /\ e.kind \in Kinds /\ e.owner \in Nodes /\ e.simple \in Segments
      /\ e.name \in Seq(Segments) /\ e.name # <<>>
      /\ ~Avoids(e) => Head(e.name) = Blank /\ Len(e.name) > 1
  BY GraphAssumption DEF EntitiesAssumption, Avoids
<1>2. Head(e.name) = e.name[1]
  BY <1>1
<1> QED BY <1>1, <1>2

LEMMA ServerNames ==
  /\ \A n \in Nodes : ServiceName(n) \in Seq(Segments)
  /\ \A e \in Entities : EcalName(e) \in Seq(Segments)
<1>1. ASSUME NEW n \in Nodes PROVE ServiceName(n) \in Seq(Segments)
  <2>1. n.name \in Segments /\ ValidNamespace(n.ns)
    BY NodeFacts
  <2>2. n.ns \in Seq(Segments) /\ n.ns # <<>>
    BY <2>1, NamespaceFacts
  <2>3. ServerNameOf(BuildQueryServiceName(n.ns, n.name), n.ns, n.name)
    BY <2>1, <2>2, BuildFacts
  <2> QED BY <2>3 DEF ServiceName, ServerNameOf
<1>2. ASSUME NEW e \in Entities PROVE EcalName(e) \in Seq(Segments)
  <2>1. e.name \in Seq(Segments) /\ e.name # <<>>
    BY EntityFacts
  <2>2. "rt" \in Segments /\ "rs" \in Segments
    BY Literals
  <2>3. Prefixed("rt", e.name) \in Seq(Segments) /\ Prefixed("rs", e.name) \in Seq(Segments)
    BY <2>1, <2>2, PrefixedFacts
  <2> QED BY <2>1, <2>3 DEF EcalName
<1> QED BY <1>1, <1>2

\* Of what GetNodes returns.
LEMMA GetNodesShape ==
  ASSUME TypeOK, NEW p \in GetNodes
  PROVE  /\ p.name \in Segments
         /\ p.ns \in Seq(Segments)
         /\ Len(p.ns) = 1 \/ (Len(p.ns) > 1 /\ p.ns[Len(p.ns)] = Blank)
<1>1. PICK s \in SeenServers : IsQueryServiceName(s) /\ p = ListedNode(s)
  BY DEF GetNodes
<1>2. s \in Seq(Segments)
  BY ServerNames DEF SeenServers, SeenNodes, SeenOf
<1>3. /\ p.name \in Segments /\ p.ns \in Seq(Segments)
      /\ Len(p.ns) = IF Len(s) = 2 THEN 1 ELSE Len(s) - 1
      /\ Len(s) > 2 => p.ns[Len(p.ns)] = Blank
  BY <1>1, <1>2, ListedFacts
<1>4. Len(s) \in Nat /\ Len(s) > 1
  BY <1>1, <1>2, LenProperties DEF IsQueryServiceName
<1>5. CASE Len(s) = 2
  BY <1>3, <1>5
<1>6. CASE Len(s) # 2
  <2>1. Len(p.ns) = Len(s) - 1
    BY <1>3, <1>6
  <2>2. Len(s) > 2
    BY <1>4, <1>6
  <2>3. Len(s) - 1 > 1
    BY <2>2, <1>4
  <2>4. p.ns[Len(p.ns)] = Blank
    BY <2>2, <1>3
  <2> QED BY <2>1, <2>3, <2>4, <1>3
<1> QED BY <1>5, <1>6

LEMMA GetNodesOrigin ==
  ASSUME TypeOK, NEW p \in GetNodes, p.ns = Root
  PROVE  (\E n \in seen \cap Nodes : NodeNamed(n, p)) \/ NamedLikeQueries(p)
<1>1. PICK s \in SeenServers : IsQueryServiceName(s) /\ p = ListedNode(s)
  BY DEF GetNodes
<1>2. s \in Seq(Segments)
  BY ServerNames DEF SeenServers, SeenNodes, SeenOf
<1>3. /\ p.name = s[Len(s)] /\ p.name \in Segments
      /\ Len(p.ns) = IF Len(s) = 2 THEN 1 ELSE Len(s) - 1
      /\ p.ns[1] = AfterPrefix[s[2]]
  BY <1>1, <1>2, ListedFacts
<1>4. Len(s) \in Nat /\ Len(s) > 1
  BY <1>1, <1>2, LenProperties DEF IsQueryServiceName
<1>5. Len(s) = 3
  <2>1. Len(p.ns) = 2
    BY RootFacts
  <2>2. CASE Len(s) = 2
    BY <1>3, <2>1, <2>2
  <2>3. CASE Len(s) # 2
    <3>1. Len(s) - 1 = 2
      BY <1>3, <2>1, <2>3
    <3> QED BY <3>1, <1>4
  <2> QED BY <2>2, <2>3
<1>6. CASE \E n \in seen \cap Nodes : s = ServiceName(n)
  <2>1. PICK n \in seen \cap Nodes : s = ServiceName(n)
    BY <1>6
  <2>2. n.name \in Segments /\ ValidNamespace(n.ns)
    BY NodeFacts
  <2>3. n.ns \in Seq(Segments) /\ n.ns # <<>> /\ Len(n.ns) \in Nat /\ Len(n.ns) > 1
    BY <2>2, NamespaceFacts
  <2>8. ServerNameOf(BuildQueryServiceName(n.ns, n.name), n.ns, n.name)
    BY <2>2, <2>3, BuildFacts
  <2>9. ServerNameOf(s, n.ns, n.name)
    BY <2>1, <2>8 DEF ServiceName
  <2>4. Len(s) = (IF n.ns = Root THEN 3 ELSE Len(n.ns) + 2) /\ s[Len(s)] = n.name
    BY <2>9 DEF ServerNameOf
  <2>5. Len(n.ns) + 2 # 3
    BY <2>3
  <2>6. n.ns = Root
    BY <2>4, <2>5, <1>5
  <2>7. NodeNamed(n, p)
    BY <2>4, <2>6, <1>3 DEF NodeNamed
  <2> QED BY <2>7
<1>7. CASE \E e \in SeenOf("service") : s = EcalName(e)
  <2>1. PICK e \in SeenOf("service") : s = EcalName(e)
    BY <1>7
  <2>2. s[1] = "rs" /\ s[2] \in DOMAIN AfterPrefix
    BY <1>1 DEF IsQueryServiceName
  <2>3. s[2] = "_node"
    BY <2>2, <1>3, RootFacts, PrefixAssumption
  <2> DEFINE t == BuildQueryServiceName(Root, p.name)
  <2>4. /\ t \in Seq(Segments) /\ Len(t) = 3
        /\ t[1] = "rs" /\ t[2] = "_node" /\ t[Len(t)] = p.name
    <3>1. ServerNameOf(t, Root, p.name)
      BY RootFacts, <1>3, BuildFacts
    <3> QED BY <3>1 DEF ServerNameOf
  <2> HIDE DEF t
  <2>5. \A i \in 1..Len(s) : s[i] = t[i]
    BY <2>2, <2>3, <2>4, <1>3, <1>5
  <2>6. s = t
    BY <2>4, <2>5, <1>2, <1>5, SeqEqual
  <2>7. e \in Entities /\ e.kind = "service"
    BY DEF SeenOf
  <2> QED BY <2>1, <2>6, <2>7 DEF NamedLikeQueries, t
<1> QED BY <1>1, <1>6, <1>7 DEF SeenServers, SeenNodes

\* A service called and a node called differ: only a node's own server answers.
LEMMA CalleeIsAsked ==
  ASSUME AskedShape, call # None, Len(call.node.ns) > 1, NEW n \in Callees \cap Nodes
  PROVE  NodeNamed(n, call.node)
<1>1. ServiceName(n) = CallService
  BY GraphAssumption DEF Callees, SeenNodes, SeenOf
<1>2. n.name \in Segments /\ ValidNamespace(n.ns)
  BY NodeFacts
<1>3. /\ call.node.name \in Segments /\ call.node.ns \in Seq(Segments)
      /\ ValidNamespace(call.node.ns) \/ call.node.ns[Len(call.node.ns)] = Blank
  BY DEF AskedShape
<1>4. BuildQueryServiceName(n.ns, n.name) = BuildQueryServiceName(call.node.ns, call.node.name)
  BY <1>1 DEF ServiceName, CallService
<1>5. n.ns = call.node.ns /\ n.name = call.node.name
  BY <1>2, <1>3, <1>4, QueryNamesDiffer
<1> QED BY <1>5 DEF NodeNamed

\* What a caller reads is the name the entity was made with.
LEMMA AnsweredName ==
  ASSUME NEW e \in Entities, ~Avoids(e)
  PROVE  NameInAnswer(e, FALSE) =
           e.name \o (IF e.kind \in TopicKinds THEN <<>> ELSE <<e.simple>>)
<1>1. /\ e.kind \in Kinds /\ e.simple \in Segments
      /\ e.name \in Seq(Segments) /\ e.name # <<>>
      /\ e.name[1] = Blank /\ Len(e.name) > 1
  BY EntityFacts
<1>2. "rt" \in {"rt", "rs"} /\ "rs" \in {"rt", "rs"}
  OBVIOUS
<1>3. CASE e.kind \in TopicKinds
  <2>1. e.kind \notin ServiceKinds
    BY <1>3 DEF TopicKinds, ServiceKinds
  <2>2. NameInAnswer(e, FALSE) = Demangled("rt", Prefixed("rt", e.name))
    <3>1. EcalName(e) = Prefixed("rt", e.name)
      BY <1>3 DEF EcalName
    <3>2. GetName(e) = EcalName(e)
      BY <1>3 DEF GetName
    <3>3. NameInAnswer(e, FALSE) = DemangleTopicName(GetName(e))
      BY <2>1 DEF NameInAnswer
    <3> QED BY <3>1, <3>2, <3>3 DEF DemangleTopicName
  <2>3. Demangled("rt", Prefixed("rt", e.name)) = e.name
    BY <1>1, <1>2, DemangleUndoes
  <2>4. e.name \o <<>> = e.name
    BY <1>1, ConcatEmptySeq
  <2> QED BY <1>3, <2>2, <2>3, <2>4
<1>4. CASE e.kind \notin TopicKinds
  <2>1. e.kind \in ServiceKinds
    BY <1>1, <1>4 DEF Kinds
  <2> DEFINE longer == e.name \o <<e.simple>>
  <2>2. NameInAnswer(e, FALSE) = Demangled("rs", longer)
    <3>1. GetName(e) = longer
      BY <1>4 DEF GetName
    <3>2. NameInAnswer(e, FALSE) = DemangleServiceName(GetName(e))
      BY <2>1 DEF NameInAnswer
    <3> QED BY <3>1, <3>2 DEF DemangleServiceName
  <2>3. /\ longer \in Seq(Segments) /\ Len(longer) = Len(e.name) + 1
        /\ \A i \in 1..Len(e.name) : longer[i] = e.name[i]
    BY <1>1, AppendedFacts
  <2> HIDE DEF longer
  <2>4. Len(e.name) \in Nat
    BY <1>1, LenProperties
  <2>5. Len(longer) > 1 /\ longer[1] = Blank
    BY <1>1, <2>3, <2>4
  <2>6. Demangled("rs", longer) = longer
    BY <1>2, <2>3, <2>5, DemangleUndoes
  <2> QED BY <1>4, <2>2, <2>6 DEF longer
<1> QED BY <1>3, <1>4

\* A step of another process, or of eCAL, that loses sight of nothing but what
\* is gone.
LEMMA WorldSteps ==
  ASSUME IInv, UNCHANGED queryVars,
         live' \subseteq Things, gone \subseteq gone', gone' \subseteq Things \ live',
         seen' \subseteq live' \cup gone', seen \subseteq seen' \cup gone'
  PROVE  IInv'
<1>1. TypeOK'
  BY DEF IInv, TypeOK, queryVars
<1>2. ListedShape' /\ AskedShape' /\ AnswerFromNodeAsked'
  BY DEF IInv, ListedShape, AskedShape, AnswerFromNodeAsked, queryVars
<1>3. ListedOrigin'
  BY DEF IInv, ListedOrigin, NamedLikeQueries, queryVars
<1>4. FaultNeedsLoss'
  BY DEF IInv, FaultNeedsLoss, CallService, queryVars
<1> QED BY <1>1, <1>2, <1>3, <1>4 DEF IInv

LEMMA Initially == ASSUME Init PROVE IInv
BY DEF Init, IInv, TypeOK, ListedShape, AskedShape, ListedOrigin, FaultNeedsLoss, AnswerFromNodeAsked

LEMMA Inductive == ASSUME IInv, [Next]_vars PROVE IInv'
<1>1. ASSUME NEW n \in Nodes, CreateNode(n) PROVE IInv'
  BY <1>1, WorldSteps DEF CreateNode, IInv, TypeOK, Things
<1>2. ASSUME NEW n \in Nodes, DestroyNode(n) PROVE IInv'
  BY <1>2, WorldSteps DEF DestroyNode, IInv, TypeOK
<1>3. ASSUME NEW n \in Nodes, ProcessExit(n) PROVE IInv'
  BY <1>3, WorldSteps DEF ProcessExit, IInv, TypeOK
<1>4. ASSUME NEW e \in Entities, CreateEntity(e) PROVE IInv'
  BY <1>4, WorldSteps DEF CreateEntity, IInv, TypeOK, Things
<1>5. ASSUME NEW e \in Entities, DestroyEntity(e) PROVE IInv'
  BY <1>5, WorldSteps DEF DestroyEntity, IInv, TypeOK
<1>6. ASSUME NEW x \in Things, Register(x) PROVE IInv'
  BY <1>6, WorldSteps DEF Register, IInv, TypeOK
<1>7. ASSUME NEW x \in Things, Unregister(x) PROVE IInv'
  BY <1>7, WorldSteps DEF Unregister, IInv, TypeOK
<1>8. ASSUME GetNodeNames PROVE IInv'
  <2>1. TypeOK' /\ ListedShape'
    BY <1>8, GetNodesShape DEF GetNodeNames, IInv, TypeOK, ListedShape
  <2>2. ListedOrigin'
    <3>1. \A p \in GetNodes : p.ns = Root =>
            (\E n \in (seen \cup gone) \cap Nodes : NodeNamed(n, p)) \/ NamedLikeQueries(p)
      BY GetNodesOrigin DEF IInv
    <3> QED BY <1>8, <3>1 DEF GetNodeNames, ListedOrigin, NamedLikeQueries
  <2>3. AskedShape' /\ FaultNeedsLoss' /\ AnswerFromNodeAsked'
    BY <1>8 DEF GetNodeNames, AskedShape, FaultNeedsLoss, AnswerFromNodeAsked
  <2> QED BY <2>1, <2>2, <2>3 DEF IInv
<1>9. ASSUME NEW node \in listing \cup {[name |-> n.name, ns |-> n.ns] : n \in Nodes},
             NEW kind \in Asked, Query(node, kind)
      PROVE  IInv'
  <2>1. call' = [node |-> node, kind |-> kind] /\ call'.node = node /\ call'.kind = kind
    BY <1>9 DEF Query
  <2>2. kind \in Kinds
    BY GraphAssumption
  <2>3. TypeOK'
    BY <1>9, <2>1, <2>2 DEF Query, IInv, TypeOK
  <2>4. AskedShape'
    <3>1. CASE node \in listing
      BY <2>1, <3>1 DEF IInv, ListedShape, AskedShape
    <3>2. CASE \E n \in Nodes : node = [name |-> n.name, ns |-> n.ns]
      <4>1. PICK n \in Nodes : node = [name |-> n.name, ns |-> n.ns]
        BY <3>2
      <4>2. n.name \in Segments /\ ValidNamespace(n.ns) /\ n.ns \in Seq(Segments)
        BY NodeFacts, NamespaceFacts
      <4> QED BY <2>1, <4>1, <4>2 DEF AskedShape
    <3> QED BY <3>1, <3>2
  <2>5. ListedShape' /\ ListedOrigin' /\ FaultNeedsLoss' /\ AnswerFromNodeAsked'
    BY <1>9 DEF Query, IInv, ListedShape, ListedOrigin, NamedLikeQueries, FaultNeedsLoss,
                AnswerFromNodeAsked
  <2> QED BY <2>3, <2>4, <2>5 DEF IInv
<1>10. ASSUME NEW n \in Nodes, Answered(n) PROVE IInv'
  <2> DEFINE names == {NameInAnswer(e, FALSE) :
                         e \in {x \in live \cap Entities : x.owner = n /\ x.kind = call.kind}}
  <2>1. /\ answer' = [to |-> call, of |-> n, names |-> names]
        /\ call' = None
        /\ UNCHANGED <<live, gone, seen, listing, fault>>
        /\ ~fault /\ call # None /\ n \in Callees \cap Nodes
    BY <1>10 DEF Answered, Returned
  <2> HIDE DEF names
  <2>2. answer'.to = call /\ answer'.of = n /\ answer'.names = names
    BY <2>1
  <2>3. TypeOK'
    BY <2>1, <2>2 DEF IInv, TypeOK
  <2>4. ListedShape' /\ AskedShape' /\ ListedOrigin' /\ FaultNeedsLoss'
    BY <2>1 DEF IInv, ListedShape, AskedShape, ListedOrigin, NamedLikeQueries, FaultNeedsLoss
  <2>5. Len(call.node.ns) > 1 => NodeNamed(n, call.node)
    BY <2>1, CalleeIsAsked DEF IInv
  <2>6. ASSUME NEW m \in names
        PROVE  \E e \in Entities :
                 /\ e.owner = n
                 /\ e.kind = call.kind
                 /\ ~Avoids(e) => m = e.name \o (IF e.kind \in TopicKinds THEN <<>> ELSE <<e.simple>>)
    <3>1. PICK e \in live \cap Entities :
            e.owner = n /\ e.kind = call.kind /\ m = NameInAnswer(e, FALSE)
      BY <2>6 DEF names
    <3> QED BY <3>1, AnsweredName
  <2>7. AnswerFromNodeAsked'
    BY <2>2, <2>5, <2>6 DEF AnswerFromNodeAsked, NodeNamed
  <2> QED BY <2>3, <2>4, <2>7 DEF IInv
<1>11. ASSUME CallFails PROVE IInv'
  <2>1. answer' = [to |-> call, of |-> None, names |-> {}] /\ answer'.of = None
    BY <1>11 DEF CallFails, Returned
  <2> QED BY <1>11, <2>1
      DEF CallFails, Returned, IInv, TypeOK, ListedShape, AskedShape, ListedOrigin,
          NamedLikeQueries, FaultNeedsLoss, AnswerFromNodeAsked
<1>12. ASSUME NoResponse PROVE IInv'
  <2>1. TypeOK' /\ ListedShape' /\ AskedShape' /\ ListedOrigin' /\ AnswerFromNodeAsked'
    BY <1>12 DEF NoResponse, IInv, TypeOK, ListedShape, AskedShape, ListedOrigin,
                 NamedLikeQueries, AnswerFromNodeAsked
  <2>2. ASSUME call.node \in listing, call.node.ns = Root
        PROVE  \/ \E n \in gone \cap Nodes : NodeNamed(n, call.node)
               \/ NamedLikeQueries(call.node)
    <3>1. CASE NamedLikeQueries(call.node)
      BY <3>1
    <3>2. CASE \E n \in (seen \cup gone) \cap Nodes : NodeNamed(n, call.node)
      <4>1. PICK n \in (seen \cup gone) \cap Nodes : NodeNamed(n, call.node)
        BY <3>2
      <4>2. CASE n \in seen
        <5>1. ServiceName(n) = CallService
          BY <4>1 DEF NodeNamed, ServiceName, CallService
        <5>2. n \in Callees
          BY <4>1, <4>2, <5>1 DEF Callees, SeenNodes
        <5>3. n \notin live
          BY <1>12, <4>1, <5>2 DEF NoResponse
        <5>4. n \in gone
          BY <4>2, <5>3 DEF IInv, TypeOK
        <5> QED BY <4>1, <5>4
      <4> QED BY <4>1, <4>2
    <3> QED BY <2>2, <3>1, <3>2 DEF IInv, ListedOrigin
  <2>3. FaultNeedsLoss'
    BY <1>12, <2>2 DEF NoResponse, FaultNeedsLoss, NamedLikeQueries, CallService
  <2> QED BY <2>1, <2>3 DEF IInv
<1>13. ASSUME UNCHANGED vars PROVE IInv'
  BY <1>13, WorldSteps DEF vars, queryVars, IInv, TypeOK
<1> QED BY <1>1, <1>2, <1>3, <1>4, <1>5, <1>6, <1>7, <1>8, <1>9, <1>10, <1>11, <1>12, <1>13
        DEF Next, NodeStep, EntityStep, Registration

THEOREM Invariance == Spec => []IInv
<1>1. Init => IInv
  BY Initially
<1>2. IInv /\ [Next]_vars => IInv'
  BY Inductive
<1> QED BY <1>1, <1>2, PTL DEF Spec

\* The types of what is listed, asked and answered (graph.hpp:142-330).
THEOREM TypeCorrect == Spec => []TypeOK
<1>1. IInv => TypeOK
  BY DEF IInv
<1> QED BY <1>1, Invariance, PTL

\* graph.hpp:247: asked about a listed node of the root namespace, an answer
\* is missing only when such a node has gone or a service has its server's name.
THEOREM FaultsNeedLoss == Spec => []FaultNeedsLoss
<1>1. IInv => FaultNeedsLoss
  BY DEF IInv
<1> QED BY <1>1, Invariance, PTL

\* graph.hpp:163-168, qos.hpp:36-65: an answer is the asked node's own, under
\* the names its entities were made with.
THEOREM AnswersAreFromNodeAsked == Spec => []AnswerFromNodeAsked
<1>1. IInv => AnswerFromNodeAsked
  BY DEF IInv
<1> QED BY <1>1, Invariance, PTL

\* graph.hpp:165-167: what is listed of a node outside the root namespace is
\* never the name it is asked by.
THEOREM NamespacedAreNeverReached == Spec => []NamespacedAreNotReached
<1>1. ASSUME IInv, NEW p \in listing, NEW n \in Nodes, NodeNamed(n, p) PROVE p.ns = Root
  <2>1. p.ns = n.ns /\ ValidNamespace(p.ns)
    BY <1>1, NodeFacts DEF NodeNamed
  <2>2. /\ Len(p.ns) \in Nat /\ Len(p.ns) > 1
        /\ p.ns # Root => \A i \in 2..Len(p.ns) : p.ns[i] # Blank
    BY <2>1, NamespaceFacts
  <2>3. p.ns[Len(p.ns)] = Blank
    BY <1>1, <2>2 DEF IInv, ListedShape
  <2>4. Len(p.ns) \in 2..Len(p.ns)
    BY <2>2
  <2> QED BY <2>2, <2>3, <2>4
<1>2. IInv => NamespacedAreNotReached
  BY <1>1 DEF NamespacedAreNotReached
<1> QED BY <1>2, Invariance, PTL
=============================================================================
