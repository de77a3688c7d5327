----------------------------- MODULE RouterProofs -----------------------------
(***************************************************************************)
(* Theorems about the routing table and the router on it.                  *)
(*                                                                         *)
(* About the table: for any routes, in any order, some of them rejected    *)
(* half way, and for paths of any length.  FindPath is a recursive         *)
(* function over the segments of a path; what it returns is proved by      *)
(* induction on their number, from the fact that a nonempty set of         *)
(* naturals has a least element.                                           *)
(*                                                                         *)
(* About the router: for any controllers, routes, requests and finite      *)
(* number of threads, first the lifetime of the controllers, where only    *)
(* matters that the table has a handler for what a lookup finds, then the  *)
(* handlers that answer.                                                   *)
(***************************************************************************)
EXTENDS Router, Integers, SequenceTheorems, FiniteSetTheorems, WellFoundedInduction, TLAPS

LEMMA LeastNatural ==
    ASSUME NEW S \in SUBSET Nat, S # {}
    PROVE  \E n \in S : \A m \in S : n <= m
<1> DEFINE R == OpToRel(<, Nat)
<1>1. IsWellFoundedOn(R, Nat)
  BY NatLessThanWellFounded
<1>2. \A m, n \in Nat : <<m, n>> \in R <=> m < n
  BY DEF OpToRel
<1> HIDE DEF R
<1>3. PICK n \in S : \A m \in S : ~(<<m, n>> \in R)
  BY <1>1, WFMin
<1>4. ASSUME NEW m \in S
      PROVE  n <= m
  <2>1. ~(<<m, n>> \in R) /\ m \in Nat /\ n \in Nat
    BY <1>3
  <2>2. ~(m < n)
    BY <1>2, <2>1
  <2> QED BY <2>1, <2>2
<1> QED BY <1>4

-----------------------------------------------------------------------------
(* Prefixes and nodes. *)

LEMMA PrefixFacts ==
    ASSUME NEW T, NEW s \in Seq(T), NEW k \in 0..Len(s)
    PROVE  /\ Prefix(s, k) \in Seq(T)
           /\ Len(Prefix(s, k)) = k
           /\ \A i \in 1..k : Prefix(s, k)[i] = s[i]
BY DEF Prefix

LEMMA PrefixEnds ==
    ASSUME NEW T, NEW s \in Seq(T)
    PROVE  /\ Prefix(s, 0) = << >>
           /\ Prefix(s, Len(s)) = s
           /\ \A k \in 1..Len(s) : Prefix(s, k) = Append(Prefix(s, k - 1), s[k])
           /\ \A k \in 0..Len(s) : \A j \in 0..k : Prefix(Prefix(s, k), j) = Prefix(s, j)
<1>1. Prefix(s, 0) = << >>
  <2>1. Prefix(s, 0) \in Seq(T) /\ Len(Prefix(s, 0)) = 0
    BY PrefixFacts
  <2> QED BY <2>1
<1>2. Prefix(s, Len(s)) = s
  BY PrefixFacts, SeqEqual
<1>3. ASSUME NEW k \in 1..Len(s)
      PROVE  Prefix(s, k) = Append(Prefix(s, k - 1), s[k])
  <2> DEFINE p == Prefix(s, k)
             q == Prefix(s, k - 1)
  <2>1. p \in Seq(T) /\ Len(p) = k /\ \A i \in 1..k : p[i] = s[i]
    BY PrefixFacts
  <2>2. q \in Seq(T) /\ Len(q) = k - 1 /\ \A i \in 1..(k - 1) : q[i] = s[i]
    <3>1. k - 1 \in 0..Len(s)
      OBVIOUS
    <3> QED BY <3>1, PrefixFacts
  <2> HIDE DEF p, q
  <2>3. s[k] \in T
    OBVIOUS
  <2>4. /\ Append(q, s[k]) \in Seq(T) /\ Len(Append(q, s[k])) = k
        /\ \A i \in 1..(k - 1) : Append(q, s[k])[i] = s[i]
        /\ Append(q, s[k])[k] = s[k]
    BY <2>2, <2>3, AppendProperties
  <2>5. \A i \in 1..k : p[i] = Append(q, s[k])[i]
    BY <2>1, <2>4
  <2>6. p = Append(q, s[k])
    BY <2>1, <2>4, <2>5, SeqEqual
  <2> QED BY <2>6 DEF p, q
<1>4. ASSUME NEW k \in 0..Len(s), NEW j \in 0..k
      PROVE  Prefix(Prefix(s, k), j) = Prefix(s, j)
  <2> DEFINE p == Prefix(s, k)
             q == Prefix(p, j)
             r == Prefix(s, j)
  <2>1. p \in Seq(T) /\ Len(p) = k /\ \A i \in 1..k : p[i] = s[i]
    BY PrefixFacts
  <2> HIDE DEF p
  <2>2. q \in Seq(T) /\ Len(q) = j /\ \A i \in 1..j : q[i] = p[i]
    BY <2>1, PrefixFacts
  <2>3. r \in Seq(T) /\ Len(r) = j /\ \A i \in 1..j : r[i] = s[i]
    <3>1. j \in 0..Len(s)
      OBVIOUS
    <3> QED BY <3>1, PrefixFacts
  <2> HIDE DEF q, r
  <2>4. q = r
    BY <2>1, <2>2, <2>3, SeqEqual
  <2> QED BY <2>4 DEF p, q, r
<1> QED BY <1>1, <1>2, <1>3, <1>4

\* An edge below a node is the last of the child, and the node what is before it.
LEMMA AppendInverse ==
    ASSUME NEW T, NEW n \in Seq(T), NEW e \in T
    PROVE  /\ Append(n, e) \in Seq(T)
           /\ Len(Append(n, e)) = Len(n) + 1
           /\ Append(n, e)[Len(n) + 1] = e
           /\ \A i \in 1..Len(n) : Append(n, e)[i] = n[i]
           /\ Prefix(Append(n, e), Len(n)) = n
<1> DEFINE a == Append(n, e)
<1>1. /\ a \in Seq(T) /\ Len(a) = Len(n) + 1 /\ a[Len(n) + 1] = e
      /\ \A i \in 1..Len(n) : a[i] = n[i]
  BY AppendProperties
<1> HIDE DEF a
<1>2. /\ Prefix(a, Len(n)) \in Seq(T) /\ Len(Prefix(a, Len(n))) = Len(n)
      /\ \A i \in 1..Len(n) : Prefix(a, Len(n))[i] = a[i]
  <2>1. Len(n) \in 0..Len(a)
    BY <1>1
  <2> QED BY <1>1, <2>1, PrefixFacts
<1>3. Prefix(a, Len(n)) = n
  BY <1>1, <1>2, SeqEqual
<1> QED BY <1>1, <1>3 DEF a

LEMMA AppendEqual ==
    ASSUME NEW T, NEW m \in Seq(T), NEW n \in Seq(T), NEW d \in T, NEW e \in T,
           Append(m, d) = Append(n, e)
    PROVE  m = n /\ d = e
<1>1. Len(m) = Len(n)
  BY AppendInverse
<1> QED BY <1>1, AppendInverse

LEMMA EdgeFacts ==
    /\ Edges \subseteq Segments
    /\ \A e \in Segments : \/ e.kind = "static"
                           \/ e.kind = "param" /\ (e.type \in Types => e \in ParamEdges)
    /\ \A e \in ParamEdges : e.kind = "param" /\ e.type \in Types
    /\ \A e \in StaticEdges : e.kind = "static" /\ e.word \in Words /\ e = Static(e.word)
    /\ \A e \in Segments : e.kind = "static" => e \in StaticEdges
BY DEF Edges, Segments, StaticEdges, ParamEdges, Static, Param, Types

\* A sequence of segments that are all edges leads to a possible node.
LEMMA SegmentsOfEdges ==
    ASSUME NEW s \in Seq(Segments), \A i \in 1..Len(s) : s[i] \in Edges
    PROVE  s \in Seq(Edges)
<1>1. s \in [1..Len(s) -> Edges] /\ Len(s) \in Nat
  OBVIOUS
<1> QED BY <1>1

-----------------------------------------------------------------------------
(* The inductive invariant. *)

NodesAreEdges == nodes \subseteq Seq(Edges)

\* There is a root, and a way from it to every node.
NodesAreRooted ==
    /\ << >> \in nodes
    /\ \A n \in nodes : \A k \in 0..Len(n) : Prefix(n, k) \in nodes

HandlersAtNodes == handlers \subseteq nodes \X Methods

\* Parameters of one type below one node.
Rivals(m, n) ==
    /\ m # << >> /\ n # << >>
    /\ Prefix(m, Len(m) - 1) = Prefix(n, Len(n) - 1)
    /\ m[Len(m)].kind = "param" /\ n[Len(n)].kind = "param"
    /\ m[Len(m)].type = n[Len(n)].type

SiblingsDiffer == \A m, n \in nodes : Rivals(m, n) => m = n

\* As long as no call was rejected, the trie is that of its routes.
RoutesMakeNodes ==
    ~rejected
        => nodes = {<< >>}
              \cup UNION {{Prefix(r[1], k) : k \in 0..Len(r[1])} : r \in handlers}

HistoryIsTrue ==
    /\ tried \subseteq Patterns \X Methods
    /\ ~rejected => tried = handlers

\* A node was made for a call, be it one that was rejected.
NodesAreTried ==
    \A n \in nodes : n = << >> \/ \E r \in tried : Len(n) \in 0..Len(r[1])
                                                 /\ n = Prefix(r[1], Len(n))

Conflict == \E a, b \in tried : Unknown(a[1]) \/ Clash(a[1], b[1])

RejectionHasReason == rejected => Conflict

TrieInv ==
    /\ NodesAreEdges
    /\ NodesAreRooted
    /\ HandlersAtNodes
    /\ SiblingsDiffer
    /\ RoutesMakeNodes
    /\ HistoryIsTrue
    /\ NodesAreTried
    /\ RejectionHasReason

LEMMA TrieInitInv == TrieInit => TrieInv
<1> SUFFICES ASSUME TrieInit PROVE TrieInv
  OBVIOUS
<1>1. << >> \in Seq(Edges)
  OBVIOUS
<1>2. nodes = {<< >>} /\ handlers = {}
  BY DEF TrieInit
<1>3. NodesAreEdges /\ HandlersAtNodes /\ SiblingsDiffer
  BY <1>1, <1>2 DEF NodesAreEdges, HandlersAtNodes, SiblingsDiffer
<1>5. NodesAreRooted
  <2>1. Prefix(<< >>, 0) = << >> /\ Len(<< >>) = 0
    BY <1>1, PrefixEnds
  <2> QED BY <1>2, <2>1 DEF NodesAreRooted
<1>4. UNION {{Prefix(r[1], k) : k \in 0..Len(r[1])} : r \in handlers} = {}
  BY <1>2
<1>6. RoutesMakeNodes /\ NodesAreTried
  BY <1>2, <1>4 DEF RoutesMakeNodes, NodesAreTried
<1>7. HistoryIsTrue /\ RejectionHasReason
  BY DEF TrieInit, HistoryIsTrue, RejectionHasReason
<1> QED BY <1>3, <1>5, <1>6, <1>7 DEF TrieInv

\* What AddPath makes: the prefixes of the pattern up to one length, whose last
\* edges are new to their parents or were there.
LEMMA PathFacts ==
    ASSUME NEW pattern \in Patterns, NodesAreEdges, NodesAreRooted
    PROVE  /\ Path(pattern) \subseteq Seq(Edges)
           /\ << >> \in Path(pattern)
           /\ \A n \in Path(pattern) : /\ n = Prefix(pattern, Len(n))
                                       /\ Len(n) \in 0..Len(pattern)
                                       /\ \A k \in 1..Len(n) : ~Throws(pattern, k)
           /\ \A n \in Path(pattern) : \A k \in 0..Len(n) : Prefix(n, k) \in Path(pattern)
           /\ Accepted(pattern) => /\ pattern \in Path(pattern)
                                   /\ Path(pattern) = {Prefix(pattern, k) : k \in 0..Len(pattern)}
<1>1. pattern \in Seq(Segments) /\ Len(pattern) \in Nat
  BY PatternsAssumption
<1>2. ASSUME NEW k \in 1..Len(pattern), ~Throws(pattern, k)
      PROVE  pattern[k] \in Edges
  <2>1. pattern[k] \in Segments
    BY <1>1
  <2>2. CASE pattern[k].kind = "static"
    BY <2>1, <2>2, EdgeFacts DEF Edges
  <2>3. CASE pattern[k].kind = "param"
    <3>1. pattern[k].type \in Types
      BY <1>2, <2>3 DEF Throws
    <3> QED BY <2>1, <2>3, <3>1, EdgeFacts DEF Edges
  <2> QED BY <2>1, <2>2, <2>3, EdgeFacts
<1>3. ASSUME NEW n \in Path(pattern)
      PROVE  /\ n = Prefix(pattern, Len(n))
             /\ Len(n) \in 0..Len(pattern)
             /\ \A k \in 1..Len(n) : ~Throws(pattern, k)
  <2>1. PICK k \in 0..Len(pattern) : /\ n = Prefix(pattern, k)
                                     /\ \A j \in 1..k : ~Throws(pattern, j)
    BY DEF Path
  <2>2. Len(n) = k
    BY <1>1, <2>1, PrefixFacts
  <2> QED BY <2>1, <2>2
<1>4. ASSUME NEW n \in Path(pattern)
      PROVE  n \in Seq(Edges)
  <2> DEFINE k == Len(n)
  <2>1. /\ n = Prefix(pattern, k) /\ k \in 0..Len(pattern)
        /\ \A j \in 1..k : ~Throws(pattern, j)
    BY <1>3
  <2>2. n \in Seq(Segments) /\ \A i \in 1..k : n[i] = pattern[i]
    BY <1>1, <2>1, PrefixFacts
  <2>3. \A i \in 1..k : n[i] \in Edges
    BY <1>1, <1>2, <2>1, <2>2
  <2> QED BY <2>2, <2>3, SegmentsOfEdges
<1>5. ASSUME NEW k \in 0..Len(pattern), \A j \in 1..k : ~Throws(pattern, j)
      PROVE  Prefix(pattern, k) \in Path(pattern)
  BY <1>5 DEF Path
<1>6. << >> \in Path(pattern)
  <2>1. Prefix(pattern, 0) = << >>
    BY <1>1, PrefixEnds
  <2>2. 0 \in 0..Len(pattern) /\ 1..0 = {}
    BY <1>1
  <2> QED BY <1>5, <2>1, <2>2
<1>7. ASSUME NEW n \in Path(pattern), NEW k \in 0..Len(n)
      PROVE  Prefix(n, k) \in Path(pattern)
  <2> DEFINE m == Len(n)
  <2>1. /\ n = Prefix(pattern, m) /\ m \in 0..Len(pattern)
        /\ \A j \in 1..m : ~Throws(pattern, j)
    BY <1>3
  <2>2. k \in 0..m
    OBVIOUS
  <2> HIDE DEF m
  <2>3. k \in 0..Len(pattern) /\ 1..k \subseteq 1..m
    BY <1>1, <2>1, <2>2
  <2>4. Prefix(n, k) = Prefix(pattern, k)
    BY <1>1, <2>1, <2>2, PrefixEnds
  <2>5. Prefix(pattern, k) \in Path(pattern)
    BY <1>5, <2>1, <2>3
  <2> QED BY <2>4, <2>5
<1>8. ASSUME Accepted(pattern)
      PROVE  /\ pattern \in Path(pattern)
             /\ Path(pattern) = {Prefix(pattern, k) : k \in 0..Len(pattern)}
  <2>1. \A j \in 1..Len(pattern) : ~Throws(pattern, j)
    BY <1>1, <1>8 DEF Accepted
  <2>2. \A k \in 0..Len(pattern) : Prefix(pattern, k) \in Path(pattern)
    BY <1>1, <1>5, <2>1
  <2>3. Prefix(pattern, Len(pattern)) = pattern
    BY <1>1, PrefixEnds
  <2>4. \A n \in Path(pattern) : \E k \in 0..Len(pattern) : n = Prefix(pattern, k)
    BY <1>3
  <2>5. Len(pattern) \in 0..Len(pattern)
    BY <1>1
  <2> QED BY <2>2, <2>3, <2>4, <2>5
<1> QED BY <1>3, <1>4, <1>6, <1>7, <1>8

\* An edge below a node of a route, which may not be the route's own, comes from a
\* call whose route is the same up to there.
LEMMA EdgeWasTried ==
    ASSUME HistoryIsTrue, NodesAreTried,
           NEW p \in Seq(Segments), NEW k \in 1..Len(p), NEW e \in Segments,
           Append(Prefix(p, k - 1), e) \in nodes
    PROVE  \E r \in tried : /\ r[1] \in Seq(Segments) /\ k \in DOMAIN r[1]
                            /\ Prefix(r[1], k - 1) = Prefix(p, k - 1) /\ r[1][k] = e
<1> DEFINE parent == Prefix(p, k - 1)
           n == Append(parent, e)
<1>1. k \in Nat \ {0} /\ k - 1 \in 0..Len(p) /\ k - 1 \in 0..k /\ (k - 1) + 1 = k
  OBVIOUS
<1>2. parent \in Seq(Segments) /\ Len(parent) = k - 1
  BY <1>1, PrefixFacts
<1> HIDE DEF parent
<1>3. Len(n) = k /\ n[k] = e /\ Prefix(n, k - 1) = parent
  BY <1>1, <1>2, AppendInverse
<1> HIDE DEF n
<1>4. n \in nodes /\ n # << >>
  BY <1>1, <1>3 DEF n, parent
<1>5. PICK r \in tried : Len(n) \in 0..Len(r[1]) /\ n = Prefix(r[1], Len(n))
  BY <1>4 DEF NodesAreTried
<1>6. PICK q \in Seq(Segments) : q = r[1]
  BY PatternsAssumption DEF HistoryIsTrue
<1>7. n = Prefix(q, k) /\ k \in 0..Len(q)
  BY <1>3, <1>5, <1>6
<1>8. k \in 1..Len(q)
  BY <1>1, <1>7
<1>9. q[k] = e
  BY <1>1, <1>3, <1>7, PrefixFacts
<1>10. Prefix(q, k - 1) = parent
  <2>1. Prefix(Prefix(q, k), k - 1) = Prefix(q, k - 1)
    BY <1>1, <1>7, PrefixEnds
  <2> QED BY <1>3, <1>7, <2>1
<1> QED BY <1>6, <1>8, <1>9, <1>10 DEF parent

LEMMA ParamEqual ==
    \A d, e \in ParamEdges : d.name = e.name /\ d.type = e.type => d = e
<1>1. \A e \in ParamEdges : e = Param(e.name, e.type)
  BY DEF ParamEdges, Param
<1> QED BY <1>1

\* A call that is rejected has an unknown type, or clashes with one before it.
LEMMA RejectionExplained ==
    ASSUME HistoryIsTrue, NodesAreTried, NEW pattern \in Patterns, ~Accepted(pattern)
    PROVE  Unknown(pattern) \/ \E r \in tried : Clash(pattern, r[1])
<1>1. pattern \in Seq(Segments) /\ DOMAIN pattern = 1..Len(pattern)
  BY PatternsAssumption
<1>2. PICK k \in DOMAIN pattern : Throws(pattern, k)
  BY DEF Accepted
<1> DEFINE d == pattern[k]
<1>3. d \in Segments /\ d.kind = "param" /\ k \in 1..Len(pattern)
  BY <1>1, <1>2 DEF Throws
<1>4. CASE d.type \notin Types
  BY <1>3, <1>4 DEF Unknown
<1>5. CASE d.type \in Types
  <2>1. PICK e \in ParamEdges :
            /\ e.type = d.type /\ Append(Prefix(pattern, k - 1), e) \in nodes
            /\ Prefix(pattern, k) \notin nodes
    BY <1>2, <1>5 DEF Throws
  <2>2. d \in ParamEdges /\ e \in Segments /\ e.kind = "param"
    BY <1>3, <1>5, EdgeFacts DEF Edges
  <2>3. Prefix(pattern, k) = Append(Prefix(pattern, k - 1), d)
    BY <1>1, <1>3, PrefixEnds
  <2>4. e.name # d.name
    BY <2>1, <2>2, <2>3, ParamEqual
  <2>5. PICK r \in tried : /\ k \in DOMAIN r[1] /\ r[1][k] = e
                           /\ Prefix(r[1], k - 1) = Prefix(pattern, k - 1)
    BY <1>1, <1>3, <2>1, <2>2, EdgeWasTried
  <2>6. Clash(pattern, r[1])
    BY <1>2, <1>3, <2>1, <2>2, <2>4, <2>5 DEF Clash
  <2> QED BY <2>6
<1> QED BY <1>4, <1>5

LEMMA AddRouteKeepsInv ==
    ASSUME TrieInv, NEW method \in Methods, NEW pattern \in Patterns, AddRoute(method, pattern)
    PROVE  TrieInv'
<1>1. /\ NodesAreEdges /\ NodesAreRooted /\ HandlersAtNodes /\ SiblingsDiffer
      /\ RoutesMakeNodes /\ HistoryIsTrue /\ NodesAreTried /\ RejectionHasReason
  BY DEF TrieInv
<1>2. /\ nodes' = nodes \cup Path(pattern) /\ tried' = tried \cup {<<pattern, method>>}
      /\ IF Accepted(pattern)
         THEN handlers' = handlers \cup {<<pattern, method>>} /\ rejected' = rejected
         ELSE rejected' = TRUE /\ handlers' = handlers
  BY DEF AddRoute
<1> DEFINE P == Path(pattern)
<1>3. /\ P \subseteq Seq(Edges) /\ << >> \in P
      /\ \A n \in P : /\ n = Prefix(pattern, Len(n))
                      /\ Len(n) \in 0..Len(pattern)
                      /\ \A k \in 1..Len(n) : ~Throws(pattern, k)
      /\ \A n \in P : \A k \in 0..Len(n) : Prefix(n, k) \in P
      /\ Accepted(pattern) => /\ pattern \in P
                              /\ P = {Prefix(pattern, k) : k \in 0..Len(pattern)}
  BY <1>1, PathFacts
<1>4. pattern \in Seq(Segments) /\ Len(pattern) \in Nat
  BY PatternsAssumption
<1> HIDE DEF P
<1>5. nodes' = nodes \cup P
  BY <1>2 DEF P
<1>6. NodesAreEdges'
  BY <1>1, <1>3, <1>5 DEF NodesAreEdges
<1>7. NodesAreRooted'
  BY <1>1, <1>3, <1>5 DEF NodesAreRooted
<1>8. HandlersAtNodes'
  BY <1>1, <1>2, <1>3, <1>5 DEF HandlersAtNodes
<1>9. ASSUME NEW m \in nodes, NEW n \in P, n \notin nodes, Rivals(m, n)
      PROVE  FALSE
  <2> DEFINE k == Len(n)
             e == m[Len(m)]
             parent == Prefix(pattern, k - 1)
  <2>1. /\ m \in Seq(Edges) /\ Len(m) \in 1..Len(m) /\ e \in Edges
        /\ n \in Seq(Edges) /\ k \in Nat \ {0}
    BY <1>1, <1>3, <1>9 DEF NodesAreEdges, Rivals
  <2>2. n = Prefix(pattern, k) /\ k \in 1..Len(pattern) /\ ~Throws(pattern, k)
    BY <1>3, <1>4, <2>1
  <2>3. n[k] = pattern[k]
    BY <1>4, <2>1, <2>2, PrefixFacts
  <2>4. Prefix(n, k - 1) = parent
    <3>1. k \in 0..Len(pattern) /\ k - 1 \in 0..k
      BY <1>4, <2>1, <2>2
    <3> QED BY <1>4, <2>2, <3>1, PrefixEnds
  <2>5. m = Append(parent, e)
    <3>1. m = Append(Prefix(m, Len(m) - 1), e)
      <4>1. Prefix(m, Len(m)) = m
        BY <2>1, PrefixEnds
      <4>2. Prefix(m, Len(m)) = Append(Prefix(m, Len(m) - 1), m[Len(m)])
        BY <2>1, PrefixEnds
      <4> QED BY <4>1, <4>2
    <3> QED BY <1>9, <2>4, <3>1 DEF Rivals
  <2>6. e \in ParamEdges
    BY <1>9, <2>1, EdgeFacts DEF Edges, Rivals
  <2>7. /\ pattern[k].kind = "param" /\ Prefix(pattern, k) \notin nodes
        /\ e.type = pattern[k].type /\ Append(parent, e) \in nodes
    BY <1>9, <2>2, <2>3, <2>5 DEF Rivals
  <2> QED BY <2>2, <2>6, <2>7 DEF Throws
<1>10. SiblingsDiffer'
  <2> SUFFICES ASSUME NEW m \in nodes', NEW n \in nodes', Rivals(m, n)
               PROVE  m = n
    BY DEF SiblingsDiffer
  <2>0. Rivals(n, m)
    BY DEF Rivals
  <2>1. CASE m \in nodes /\ n \in nodes
    BY <1>1, <2>1 DEF SiblingsDiffer
  <2>2. CASE m \in nodes /\ n \notin nodes
    BY <1>5, <1>9, <2>2
  <2>3. CASE m \notin nodes /\ n \in nodes
    BY <1>5, <1>9, <2>0, <2>3
  <2>4. CASE m \notin nodes /\ n \notin nodes
    <3>1. m \in P /\ n \in P /\ m \in Seq(Edges) /\ n \in Seq(Edges)
      BY <1>3, <1>5, <2>4
    <3>2. Len(m) = Len(n)
      <4>1. /\ Len(m) \in Nat \ {0} /\ Len(n) \in Nat \ {0}
            /\ Len(m) - 1 \in 0..Len(m) /\ Len(n) - 1 \in 0..Len(n)
        BY <3>1 DEF Rivals
      <4>2. Len(Prefix(m, Len(m) - 1)) = Len(m) - 1 /\ Len(Prefix(n, Len(n) - 1)) = Len(n) - 1
        BY <3>1, <4>1, PrefixFacts
      <4> QED BY <4>1, <4>2 DEF Rivals
    <3> QED BY <1>3, <3>1, <3>2
  <2> QED BY <2>1, <2>2, <2>3, <2>4
<1>11. RoutesMakeNodes'
  <2> SUFFICES ASSUME ~rejected'
               PROVE  nodes' = {<< >>}
                        \cup UNION {{Prefix(r[1], k) : k \in 0..Len(r[1])} : r \in handlers'}
    BY DEF RoutesMakeNodes
  <2>1. /\ Accepted(pattern) /\ ~rejected
        /\ handlers' = handlers \cup {<<pattern, method>>}
    BY <1>2
  <2>2. P = {Prefix(pattern, k) : k \in 0..Len(pattern)}
    BY <1>3, <2>1
  <2> DEFINE prefixes(H) == UNION {{Prefix(r[1], k) : k \in 0..Len(r[1])} : r \in H}
  <2>3. nodes = {<< >>} \cup prefixes(handlers)
    BY <1>1, <2>1 DEF RoutesMakeNodes
  <2>4. prefixes(handlers \cup {<<pattern, method>>}) = prefixes(handlers) \cup P
    <3> DEFINE r == <<pattern, method>>
    <3>1. r[1] = pattern
      OBVIOUS
    <3>2. P = {Prefix(r[1], k) : k \in 0..Len(r[1])}
      BY <2>2, <3>1
    <3> HIDE DEF r, P
    <3>3. prefixes(handlers \cup {r}) = prefixes(handlers) \cup P
      BY <3>2
    <3> QED BY <3>3 DEF r
  <2> QED BY <1>5, <2>1, <2>3, <2>4
<1>12. HistoryIsTrue'
  BY <1>1, <1>2 DEF HistoryIsTrue
<1>13. NodesAreTried'
  <2> DEFINE r == <<pattern, method>>
  <2>1. r[1] = pattern /\ r \in tried'
    BY <1>2
  <2> HIDE DEF r
  <2>2. \A n \in P : Len(n) \in 0..Len(r[1]) /\ n = Prefix(r[1], Len(n))
    BY <1>3, <2>1
  <2>3. tried \subseteq tried'
    BY <1>2
  <2> QED BY <1>1, <1>5, <2>1, <2>2, <2>3 DEF NodesAreTried
<1>14. RejectionHasReason'
  <2>1. CASE rejected
    <3>1. tried \subseteq tried'
      BY <1>2
    <3> QED BY <1>1, <2>1, <3>1 DEF RejectionHasReason, Conflict
  <2>2. CASE ~Accepted(pattern)
    <3> DEFINE a == <<pattern, method>>
    <3>1. a[1] = pattern /\ a \in tried' /\ tried \subseteq tried'
      BY <1>2
    <3>2. Unknown(a[1]) \/ \E b \in tried : Clash(a[1], b[1])
      BY <1>1, <2>2, <3>1, RejectionExplained
    <3> HIDE DEF a
    <3> QED BY <3>1, <3>2 DEF RejectionHasReason, Conflict
  <2>3. CASE ~rejected /\ Accepted(pattern)
    BY <1>2, <2>3 DEF RejectionHasReason
  <2> QED BY <2>1, <2>2, <2>3
<1> QED BY <1>6, <1>7, <1>8, <1>10, <1>11, <1>12, <1>13, <1>14 DEF TrieInv

LEMMA TrieInvStutter ==
    ASSUME TrieInv, UNCHANGED trieVars
    PROVE  TrieInv'
BY DEF TrieInv, trieVars, NodesAreEdges, NodesAreRooted, HandlersAtNodes, SiblingsDiffer,
       RoutesMakeNodes, HistoryIsTrue, NodesAreTried, RejectionHasReason, Conflict

LEMMA InvImpliesUnambiguous ==
    ASSUME TrieInv
    PROVE  NoAmbiguousSiblings
<1> SUFFICES ASSUME NEW node \in nodes, NEW e \in Children(node, ParamEdges),
                    NEW f \in Children(node, ParamEdges), e.type = f.type
             PROVE  e = f
  BY DEF NoAmbiguousSiblings
<1> DEFINE m == Append(node, e)
           n == Append(node, f)
<1>1. /\ e \in ParamEdges /\ f \in ParamEdges /\ m \in nodes /\ n \in nodes
  BY DEF Children
<1>2. node \in Seq(Edges) /\ e \in Edges /\ f \in Edges /\ Len(node) \in Nat
  BY <1>1 DEF TrieInv, NodesAreEdges, Edges
<1>3. /\ Len(m) = Len(node) + 1 /\ m[Len(node) + 1] = e /\ Prefix(m, Len(node)) = node
      /\ Len(n) = Len(node) + 1 /\ n[Len(node) + 1] = f /\ Prefix(n, Len(node)) = node
      /\ m \in Seq(Edges) /\ n \in Seq(Edges)
  BY <1>2, AppendInverse
<1> HIDE DEF m, n
<1>4. e.kind = "param" /\ f.kind = "param"
  BY <1>1, EdgeFacts
<1>5. Len(m) - 1 = Len(node) /\ Len(n) - 1 = Len(node) /\ m # << >> /\ n # << >>
  BY <1>2, <1>3
<1>6. m = n
  BY <1>1, <1>3, <1>4, <1>5 DEF TrieInv, SiblingsDiffer, Rivals
<1> QED BY <1>2, <1>3, <1>6

\* The nodes, the handlers and the siblings of a table, whatever was added and
\* rejected (RouteTrie.cpp:75-137).
THEOREM TrieInvariant == TrieSpec => []TrieInv
<1>1. ASSUME TrieInv, [TrieNext]_trieVars
      PROVE  TrieInv'
  BY <1>1, AddRouteKeepsInv, TrieInvStutter DEF TrieNext
<1> QED BY <1>1, TrieInitInv, PTL DEF TrieSpec

\* However routes are added, and whichever of them are rejected half way, no node
\* ever has two parameter children of one type (RouteTrie.cpp:98-108).
THEOREM SiblingsUnambiguous == TrieSpec => []NoAmbiguousSiblings
BY TrieInvariant, InvImpliesUnambiguous, PTL

-----------------------------------------------------------------------------
(* FindPath: it takes the best fitting edge below every node it comes to. *)

Fitting(node, word) == {e \in Children(node, Edges) : Fits(e, word)}

Best(node, word) ==
    {e \in Fitting(node, word) : \A f \in Fitting(node, word) : Rank(f) <= Rank(e)}

\* Every edge on the way to the node is the best one for its segment.
Chosen(node, path) ==
    \A k \in 1..Len(node) : node[k] \in Best(Prefix(node, k - 1), path[k])

Reached(path, k) == {node \in nodes : Len(node) = k /\ Chosen(node, path)}

LEMMA RankFacts ==
    /\ \A e \in Edges : Rank(e) \in Nat
    /\ \A e \in StaticEdges : Rank(e) = 5
    /\ \A e \in ParamEdges : Rank(e) = Priority(e.type) /\ Rank(e) < 5
    /\ \A e, f \in ParamEdges : Rank(e) = Rank(f) => e.type = f.type
<1>1. \A e \in StaticEdges : Rank(e) = 5
  BY EdgeFacts DEF Rank
<1>2. \A e \in ParamEdges : Rank(e) = Priority(e.type)
  BY EdgeFacts DEF Rank
<1>3. /\ Priority("int") = 4 /\ Priority("float") = 2 /\ Priority("string") = 0
  BY DEF Priority
<1>4. \A e \in ParamEdges : e.type \in {"string", "float", "int"}
  BY EdgeFacts DEF Types
<1> QED BY <1>1, <1>2, <1>3, <1>4 DEF Edges

LEMMA DescendIsBest ==
    ASSUME NEW node, NEW word \in Words
    PROVE  Descend(node, word) = {Append(node, e) : e \in Best(node, word)}
<1> DEFINE static == Children(node, {Static(word)})
           matching == {e \in Children(node, ParamEdges) : Matcher(e.type, word)}
           best == {e \in matching :
                       \A f \in matching : Priority(f.type) <= Priority(e.type)}
           taken == IF static # {} THEN static ELSE best
           fitting == Fitting(node, word)
<1>1. Descend(node, word) = {Append(node, e) : e \in taken}
  BY DEF Descend
<1>2. fitting = static \cup matching
  <2>1. Static(word) \in StaticEdges /\ Static(word).word = word
    BY DEF StaticEdges, Static
  <2>2. ASSUME NEW e \in StaticEdges
        PROVE  Fits(e, word) <=> e = Static(word)
    BY <2>1, EdgeFacts DEF Fits
  <2>3. ASSUME NEW e \in ParamEdges
        PROVE  Fits(e, word) <=> Matcher(e.type, word)
    BY EdgeFacts DEF Fits
  <2> QED BY <2>1, <2>2, <2>3 DEF Fitting, Children, Edges
<1>3. static \subseteq {Static(word)} /\ Static(word) \in StaticEdges
  BY DEF Children, StaticEdges
<1>4. matching \subseteq ParamEdges
  BY DEF Children
<1>5. CASE static # {}
  <2>1. static = {Static(word)}
    BY <1>3, <1>5
  <2> HIDE DEF static, matching, fitting
  <2>2. Rank(Static(word)) = 5 /\ \A f \in matching : Rank(f) < 5 /\ Rank(f) \in Nat
    BY <1>3, <1>4, RankFacts DEF Edges
  <2>3. {e \in fitting : \A f \in fitting : Rank(f) <= Rank(e)} = static
    BY <1>2, <2>1, <2>2
  <2> QED BY <1>1, <1>5, <2>3 DEF Best, fitting
<1>6. CASE static = {}
  <2> HIDE DEF static, matching, fitting
  <2>1. \A f \in matching : Rank(f) = Priority(f.type)
    BY <1>4, RankFacts
  <2>2. {e \in fitting : \A f \in fitting : Rank(f) <= Rank(e)} = best
    BY <1>2, <1>6, <2>1
  <2> QED BY <1>1, <1>6, <2>2 DEF Best, fitting
<1> QED BY <1>5, <1>6

LEMMA BestFacts ==
    ASSUME NEW node, NEW word
    PROVE  \A e \in Best(node, word) : /\ e \in Edges
                                       /\ Append(node, e) \in nodes
                                       /\ Fits(e, word)
BY DEF Best, Fitting, Children

\* The parent of a chosen node is chosen, and what is best below it is too.
LEMMA ChosenStep ==
    ASSUME NEW node \in Seq(Edges), NEW e \in Edges, NEW path
    PROVE  Chosen(Append(node, e), path)
             <=> Chosen(node, path) /\ e \in Best(node, path[Len(node) + 1])
<1> DEFINE a == Append(node, e)
           n == Len(node)
<1>1. /\ a \in Seq(Edges) /\ Len(a) = n + 1 /\ a[n + 1] = e /\ Prefix(a, n) = node
      /\ \A i \in 1..n : a[i] = node[i]
  BY AppendInverse
<1>2. n \in Nat
  OBVIOUS
<1> HIDE DEF a, n
<1>3. ASSUME NEW k \in 1..n
      PROVE  Prefix(a, k - 1) = Prefix(node, k - 1)
  <2>1. n \in 0..Len(a) /\ k - 1 \in 0..n
    BY <1>1, <1>2
  <2>2. Prefix(Prefix(a, n), k - 1) = Prefix(a, k - 1)
    BY <1>1, <2>1, PrefixEnds
  <2> QED BY <1>1, <2>2
<1>4. (n + 1) - 1 = n /\ 1..Len(a) = 1..n \cup {n + 1}
  BY <1>1, <1>2
<1>5. a[n + 1] \in Best(Prefix(a, (n + 1) - 1), path[n + 1]) <=> e \in Best(node, path[n + 1])
  BY <1>1, <1>4
<1>6. \A k \in 1..n : a[k] \in Best(Prefix(a, k - 1), path[k])
                         <=> node[k] \in Best(Prefix(node, k - 1), path[k])
  BY <1>1, <1>3
<1>7. Chosen(a, path) <=> /\ \A k \in 1..n : a[k] \in Best(Prefix(a, k - 1), path[k])
                          /\ a[n + 1] \in Best(Prefix(a, (n + 1) - 1), path[n + 1])
  BY <1>4 DEF Chosen
<1>8. Chosen(node, path) <=> \A k \in 1..n : node[k] \in Best(Prefix(node, k - 1), path[k])
  BY DEF Chosen, n
<1> QED BY <1>5, <1>6, <1>7, <1>8 DEF a, n

LEMMA ReachedStart ==
    ASSUME TrieInv, NEW path
    PROVE  Reached(path, 0) = {<< >>}
<1>1. << >> \in nodes /\ \A n \in nodes : n \in Seq(Edges)
  BY DEF TrieInv, NodesAreRooted, NodesAreEdges
<1>2. Chosen(<< >>, path)
  BY DEF Chosen
<1>3. \A n \in nodes : Len(n) = 0 => n = << >>
  BY <1>1
<1> QED BY <1>1, <1>2, <1>3 DEF Reached

LEMMA ReachedStep ==
    ASSUME TrieInv, NEW path \in Seq(Words), NEW k \in 1..Len(path)
    PROVE  Reached(path, k) = UNION {Descend(node, path[k]) : node \in Reached(path, k - 1)}
<1> DEFINE below == UNION {Descend(node, path[k]) : node \in Reached(path, k - 1)}
<1>1. nodes \subseteq Seq(Edges) /\ path[k] \in Words /\ k \in Nat \ {0}
  BY DEF TrieInv, NodesAreEdges
<1>2. ASSUME NEW node \in Reached(path, k)
      PROVE  node \in below
  <2> DEFINE parent == Prefix(node, k - 1)
             e == node[k]
  <2>1. node \in nodes /\ node \in Seq(Edges) /\ Len(node) = k /\ Chosen(node, path)
    BY <1>1 DEF Reached
  <2>2. k \in 1..Len(node) /\ k - 1 \in 0..Len(node) /\ (k - 1) + 1 = k
    BY <1>1, <2>1
  <2>3. node = Append(parent, e)
    BY <2>1, <2>2, PrefixEnds
  <2>4. parent \in Seq(Edges) /\ Len(parent) = k - 1 /\ e \in Edges
    BY <2>1, <2>2, PrefixFacts
  <2>5. parent \in nodes
    BY <2>1, <2>2 DEF TrieInv, NodesAreRooted
  <2> HIDE DEF parent, e
  <2>6. Chosen(parent, path) /\ e \in Best(parent, path[k])
    BY <2>1, <2>2, <2>3, <2>4, ChosenStep
  <2>7. parent \in Reached(path, k - 1)
    BY <2>4, <2>5, <2>6 DEF Reached
  <2>8. node \in Descend(parent, path[k])
    BY <1>1, <2>3, <2>6, DescendIsBest
  <2> QED BY <2>7, <2>8
<1>3. ASSUME NEW child \in below
      PROVE  child \in Reached(path, k)
  <2>1. PICK node \in Reached(path, k - 1) : child \in Descend(node, path[k])
    OBVIOUS
  <2>2. PICK e \in Best(node, path[k]) : child = Append(node, e)
    BY <1>1, <2>1, DescendIsBest
  <2>3. e \in Edges /\ child \in nodes
    BY <2>2, BestFacts
  <2>4. node \in Seq(Edges) /\ Len(node) = k - 1 /\ Chosen(node, path)
    BY <1>1 DEF Reached
  <2>5. Len(node) + 1 = k
    BY <1>1, <2>4
  <2>6. Len(child) = k
    BY <2>2, <2>3, <2>4, <2>5, AppendInverse
  <2>7. Chosen(child, path)
    BY <2>2, <2>3, <2>4, <2>5, ChosenStep
  <2> QED BY <2>3, <2>6, <2>7 DEF Reached
<1> QED BY <1>2, <1>3

\* The recursion of FindPath has one solution, and this is it.
LEMMA FindPathIsReached ==
    ASSUME TrieInv, NEW path \in Seq(Words)
    PROVE  FindPath(path) = Reached(path, Len(path))
<1> DEFINE N == Len(path)
           Turn(f, k) == IF k = 0 THEN {<< >>}
                         ELSE UNION {Descend(node, path[k]) : node \in f[k - 1]}
           Solves(f) == f = [k \in 0..N |-> Turn(f, k)]
           found == CHOOSE f : Solves(f)
           sets == [k \in 0..N |-> Reached(path, k)]
<1>1. FindPath(path) = found[N]
  BY DEF FindPath
<1>2. N \in Nat
  OBVIOUS
<1>3. Solves(sets)
  <2>1. ASSUME NEW k \in 0..N
        PROVE  sets[k] = Turn(sets, k)
    <3>1. CASE k = 0
      BY <3>1, ReachedStart
    <3>2. CASE k # 0
      <4>1. k \in 1..Len(path) /\ k - 1 \in 0..N
        BY <1>2, <3>2
      <4>2. sets[k - 1] = Reached(path, k - 1)
        BY <4>1
      <4> QED BY <3>2, <4>1, <4>2, ReachedStep
    <3> QED BY <3>1, <3>2
  <2> QED BY <2>1
<1>4. Solves(found)
  BY <1>3
<1> HIDE DEF found
<1>5. /\ \A k \in 0..N : found[k] = Turn(found, k)
      /\ \A k \in 0..N : sets[k] = Turn(sets, k)
  BY <1>3, <1>4
<1> DEFINE wrong == {k \in 0..N : found[k] # sets[k]}
<1>6. wrong = {}
  <2> SUFFICES ASSUME wrong # {}
               PROVE  FALSE
    OBVIOUS
  <2>1. wrong \in SUBSET Nat
    BY <1>2
  <2>2. PICK k \in wrong : \A j \in wrong : k <= j
    BY <2>1, LeastNatural
  <2>3. k \in 0..N /\ found[k] # sets[k]
    OBVIOUS
  <2>4. k # 0
    BY <1>5, <2>3
  <2>5. k - 1 \in 0..N /\ ~(k <= k - 1)
    BY <1>2, <2>3, <2>4
  <2>6. found[k - 1] = sets[k - 1]
    BY <2>2, <2>5
  <2>7. Turn(found, k) = Turn(sets, k)
    BY <2>4, <2>6
  <2> QED BY <1>5, <2>3, <2>7
<1>7. N \in 0..N
  BY <1>2
<1> QED BY <1>1, <1>6, <1>7

-----------------------------------------------------------------------------
(* What a lookup finds. *)

\* A chosen node is one that matches and that nothing shadows.
LEMMA ChosenMeansExact ==
    ASSUME TrieInv, NEW node \in nodes, NEW path \in Seq(Words)
    PROVE  Len(node) = Len(path) /\ Chosen(node, path)
             <=> Matches(node, path) /\ ~Shadowed(node, path)
<1>1. node \in Seq(Edges) /\ Len(node) \in Nat
  BY DEF TrieInv, NodesAreEdges
<1> SUFFICES ASSUME Len(node) = Len(path)
             PROVE  Chosen(node, path) <=> Matches(node, path) /\ ~Shadowed(node, path)
  BY DEF Matches
<1> DEFINE D == DOMAIN path
           parent(k) == Prefix(node, k - 1)
<1>2. D = 1..Len(node)
  OBVIOUS
<1>3. ASSUME NEW k \in D
      PROVE  /\ node[k] \in Edges
             /\ node[k] \in Children(parent(k), Edges)
             /\ Rank(node[k]) \in Nat
  <2>1. k \in 1..Len(node) /\ k \in 0..Len(node)
    BY <1>1, <1>2
  <2>2. Prefix(node, k) = Append(parent(k), node[k])
    BY <1>1, <2>1, PrefixEnds
  <2>3. Prefix(node, k) \in nodes
    BY <2>1 DEF TrieInv, NodesAreRooted
  <2>4. node[k] \in Edges
    BY <1>1, <2>1
  <2> QED BY <2>2, <2>3, <2>4, RankFacts DEF Children
<1>4. \A k \in D : \A e \in Children(parent(k), Edges) : Rank(e) \in Nat
  BY RankFacts DEF Children
<1>5. Matches(node, path) <=> \A k \in D : Fits(node[k], path[k])
  BY DEF Matches, Fits
<1>6. Shadowed(node, path)
        <=> \E k \in D : \E e \in Children(parent(k), Edges) :
                Rank(e) > Rank(node[k]) /\ Fits(e, path[k])
  BY DEF Shadowed, Fits
<1>7. Chosen(node, path) <=> \A k \in D : node[k] \in Best(parent(k), path[k])
  BY <1>2 DEF Chosen
<1>8. ASSUME NEW k \in D
      PROVE  node[k] \in Best(parent(k), path[k])
               <=> /\ Fits(node[k], path[k])
                   /\ ~\E e \in Children(parent(k), Edges) :
                        Rank(e) > Rank(node[k]) /\ Fits(e, path[k])
  <2> DEFINE c == Children(parent(k), Edges)
             w == path[k]
  <2>1. \A e \in c : Rank(e) \in Nat
    BY <1>4
  <2>2. node[k] \in c /\ Rank(node[k]) \in Nat
    BY <1>3
  <2>3. Best(parent(k), w) = {e \in {d \in c : Fits(d, w)} :
                                \A f \in {d \in c : Fits(d, w)} : Rank(f) <= Rank(e)}
    BY DEF Best, Fitting
  <2> HIDE DEF c, w
  <2>4. \A f \in c : Rank(f) <= Rank(node[k]) <=> ~(Rank(f) > Rank(node[k]))
    BY <2>1, <2>2
  <2>5. node[k] \in Best(parent(k), w)
          <=> Fits(node[k], w) /\ \A f \in c : Fits(f, w) => Rank(f) <= Rank(node[k])
    BY <2>2, <2>3
  <2> QED BY <2>4, <2>5 DEF c, w
<1> HIDE DEF D, parent
<1> QED BY <1>5, <1>6, <1>7, <1>8

LEMMA InvImpliesExact ==
    ASSUME TrieInv
    PROVE  LookupIsExact
<1> SUFFICES ASSUME NEW path \in Paths, NEW method \in Methods
             PROVE  FindRoute(method, path)
                      = {route[1] : route \in {r \in handlers : /\ r[2] = method
                                                                /\ Matches(r[1], path)
                                                                /\ ~Shadowed(r[1], path)}}
  BY DEF LookupIsExact
<1>1. path \in Seq(Words)
  BY PathsAssumption
<1>2. handlers \subseteq nodes \X Methods
  BY DEF TrieInv, HandlersAtNodes
<1> DEFINE exact == {r \in handlers : /\ r[2] = method
                                      /\ Matches(r[1], path) /\ ~Shadowed(r[1], path)}
<1>3. FindRoute(method, path) = {n \in Reached(path, Len(path)) : <<n, method>> \in handlers}
  BY <1>1, FindPathIsReached DEF FindRoute
<1>4. ASSUME NEW n \in nodes
      PROVE  n \in Reached(path, Len(path)) <=> Matches(n, path) /\ ~Shadowed(n, path)
  BY <1>1, ChosenMeansExact DEF Reached
<1>5. ASSUME NEW n \in FindRoute(method, path)
      PROVE  n \in {route[1] : route \in exact}
  <2>1. n \in nodes /\ <<n, method>> \in handlers /\ n \in Reached(path, Len(path))
    BY <1>3 DEF Reached
  <2>2. <<n, method>> \in exact
    BY <1>4, <2>1
  <2> QED BY <2>2
<1>6. ASSUME NEW r \in exact
      PROVE  r[1] \in FindRoute(method, path)
  <2>1. /\ r[1] \in nodes /\ r \in handlers /\ r = <<r[1], method>>
        /\ Matches(r[1], path) /\ ~Shadowed(r[1], path)
    BY <1>2
  <2>2. r[1] \in Reached(path, Len(path))
    BY <1>4, <2>1
  <2> QED BY <1>3, <2>1, <2>2
<1> QED BY <1>5, <1>6

\* FindPath returns a set only because Descend does: there is at most one node in it.
LEMMA OneBestEdge ==
    ASSUME TrieInv, NEW node \in Seq(Edges), NEW word,
           NEW e \in Best(node, word), NEW f \in Best(node, word)
    PROVE  e = f
<1>1. /\ e \in Edges /\ Append(node, e) \in nodes /\ Fits(e, word)
      /\ f \in Edges /\ Append(node, f) \in nodes /\ Fits(f, word)
  BY BestFacts
<1>2. Rank(e) \in Nat /\ Rank(f) \in Nat
  BY <1>1, RankFacts
<1>3. Rank(e) <= Rank(f) /\ Rank(f) <= Rank(e)
  BY DEF Best
<1>4. Rank(e) = Rank(f)
  BY <1>2, <1>3
<1>5. CASE e \in StaticEdges /\ f \in StaticEdges
  BY <1>1, <1>5, EdgeFacts DEF Fits
<1>6. CASE e \in ParamEdges /\ f \in ParamEdges
  <2> DEFINE m == Append(node, e)
             n == Append(node, f)
  <2>1. e.type = f.type /\ e.kind = "param" /\ f.kind = "param"
    BY <1>4, <1>6, RankFacts, EdgeFacts
  <2>2. /\ m \in Seq(Edges) /\ Len(m) = Len(node) + 1 /\ m[Len(node) + 1] = e
        /\ Prefix(m, Len(node)) = node
        /\ n \in Seq(Edges) /\ Len(n) = Len(node) + 1 /\ n[Len(node) + 1] = f
        /\ Prefix(n, Len(node)) = node
    BY <1>1, AppendInverse
  <2>3. m \in nodes /\ n \in nodes
    BY <1>1
  <2> HIDE DEF m, n
  <2>4. Len(m) - 1 = Len(node) /\ Len(n) - 1 = Len(node) /\ m # << >> /\ n # << >>
    BY <2>2
  <2>5. Rivals(m, n)
    BY <2>1, <2>2, <2>4 DEF Rivals
  <2>6. m = n
    BY <2>3, <2>5 DEF TrieInv, SiblingsDiffer
  <2> QED BY <2>2, <2>6
<1>7. CASE ~(e \in StaticEdges /\ f \in StaticEdges) /\ ~(e \in ParamEdges /\ f \in ParamEdges)
  BY <1>1, <1>4, <1>7, RankFacts DEF Edges
<1> QED BY <1>5, <1>6, <1>7

\* A path leads to one node at most: the children of a node never leave a choice
\* (RouteTrie.cpp:145-170).
LookupFindsOne == \A path \in Paths : \A m, n \in FindPath(path) : m = n

LEMMA InvImpliesOne ==
    ASSUME TrieInv
    PROVE  LookupFindsOne
<1> SUFFICES ASSUME NEW path \in Paths, NEW m \in FindPath(path), NEW n \in FindPath(path), m # n
             PROVE  FALSE
  BY DEF LookupFindsOne
<1> DEFINE N == Len(path)
<1>1. path \in Seq(Words) /\ N \in Nat
  BY PathsAssumption
<1>2. m \in Reached(path, N) /\ n \in Reached(path, N)
  BY <1>1, FindPathIsReached
<1>3. /\ m \in Seq(Edges) /\ Len(m) = N /\ Chosen(m, path)
      /\ n \in Seq(Edges) /\ Len(n) = N /\ Chosen(n, path)
  BY <1>2 DEF Reached, TrieInv, NodesAreEdges
<1> DEFINE differ == {k \in 1..N : m[k] # n[k]}
<1> HIDE DEF N
<1>4. differ # {} /\ differ \in SUBSET Nat
  <2>1. \E k \in 1..N : m[k] # n[k]
    BY <1>1, <1>3, SeqEqual
  <2> QED BY <1>1, <2>1
<1>5. PICK k \in differ : \A j \in differ : k <= j
  BY <1>4, LeastNatural
<1> HIDE DEF differ
<1>6. k \in 1..N /\ m[k] # n[k] /\ \A j \in 1..(k - 1) : m[j] = n[j]
  BY <1>1, <1>5 DEF differ
<1>7. Prefix(m, k - 1) = Prefix(n, k - 1)
  <2>1. k - 1 \in 0..N /\ k - 1 \in Nat
    BY <1>1, <1>6
  <2>2. /\ Prefix(m, k - 1) \in Seq(Edges) /\ Len(Prefix(m, k - 1)) = k - 1
        /\ Prefix(n, k - 1) \in Seq(Edges) /\ Len(Prefix(n, k - 1)) = k - 1
        /\ \A i \in 1..(k - 1) : Prefix(m, k - 1)[i] = m[i]
        /\ \A i \in 1..(k - 1) : Prefix(n, k - 1)[i] = n[i]
    BY <1>3, <2>1, PrefixFacts
  <2>3. \A i \in 1..(k - 1) : Prefix(m, k - 1)[i] = Prefix(n, k - 1)[i]
    BY <1>6, <2>2
  <2> QED BY <2>2, <2>3, SeqEqual
<1>8. Prefix(m, k - 1) \in Seq(Edges)
  <2>1. k - 1 \in 0..Len(m)
    BY <1>1, <1>3, <1>6
  <2> QED BY <1>3, <2>1, PrefixFacts
<1>9. /\ m[k] \in Best(Prefix(m, k - 1), path[k])
      /\ n[k] \in Best(Prefix(m, k - 1), path[k])
  BY <1>3, <1>6, <1>7 DEF Chosen
<1> QED BY <1>6, <1>8, <1>9, OneBestEdge

\* A lookup finds a route exactly if the route matches the path and no more
\* specific branch takes the path away from it, for tables of any size and paths of
\* any length (RouteTrie.cpp:139-191).
THEOREM LookupExact == TrieSpec => []LookupIsExact
BY TrieInvariant, InvImpliesExact, PTL

\* A table that nothing was rejected from holds no two routes that clash.
LEMMA NoConflict ==
    ASSUME TrieInv, ~rejected
    PROVE  ~Conflict
<1> SUFFICES ASSUME NEW a \in tried, NEW b \in tried, Unknown(a[1]) \/ Clash(a[1], b[1])
             PROVE  FALSE
  BY DEF Conflict
<1>1. tried \subseteq nodes \X Methods /\ nodes \subseteq Seq(Edges)
  BY DEF TrieInv, HistoryIsTrue, HandlersAtNodes, NodesAreEdges
<1>2. PICK p \in nodes, q \in nodes :
          /\ p = a[1] /\ q = b[1] /\ p \in Seq(Edges) /\ q \in Seq(Edges)
  BY <1>1
<1>3. ~Unknown(p)
  BY <1>2, EdgeFacts DEF Unknown, Edges
<1>4. PICK k \in DOMAIN p \cap DOMAIN q :
          /\ Prefix(p, k - 1) = Prefix(q, k - 1)
          /\ p[k].kind = "param" /\ q[k].kind = "param"
          /\ p[k].type = q[k].type /\ p[k].name # q[k].name
  BY <1>2, <1>3 DEF Clash
<1> DEFINE m == Prefix(p, k)
           n == Prefix(q, k)
<1>5. k \in Nat \ {0} /\ k \in 1..Len(p) /\ k \in 1..Len(q) /\ k - 1 \in 0..k
  BY <1>2
<1>6. k \in 0..Len(p) /\ k \in 0..Len(q) /\ k \in 1..k
  BY <1>5
<1>7. m \in nodes /\ n \in nodes
  BY <1>6 DEF TrieInv, NodesAreRooted
<1>8. Len(m) = k /\ m[k] = p[k] /\ Prefix(m, k - 1) = Prefix(p, k - 1)
  BY <1>2, <1>5, <1>6, PrefixFacts, PrefixEnds
<1>9. Len(n) = k /\ n[k] = q[k] /\ Prefix(n, k - 1) = Prefix(q, k - 1)
  BY <1>2, <1>5, <1>6, PrefixFacts, PrefixEnds
<1> HIDE DEF m, n
<1>10. m # << >> /\ n # << >>
  BY <1>5, <1>8, <1>9
<1>11. Rivals(m, n)
  BY <1>4, <1>8, <1>9, <1>10 DEF Rivals
<1>12. m = n
  BY <1>7, <1>11 DEF TrieInv, SiblingsDiffer
<1> QED BY <1>4, <1>8, <1>9, <1>12

\* What shadows a route in the trie is a route that precedes it.
LEMMA ShadowIsRoute ==
    ASSUME TrieInv, ~rejected, NEW p \in nodes, NEW path, Matches(p, path)
    PROVE  Shadowed(p, path) <=> \E b \in tried : Precedes(b[1], p, path)
<1>1. /\ tried \subseteq nodes \X Methods /\ nodes \subseteq Seq(Edges)
      /\ HistoryIsTrue /\ NodesAreTried
  BY DEF TrieInv, HistoryIsTrue, HandlersAtNodes, NodesAreEdges
<1>2. p \in Seq(Edges) /\ p \in Seq(Segments)
  BY <1>1, EdgeFacts
<1>3. ASSUME Shadowed(p, path)
      PROVE  \E b \in tried : Precedes(b[1], p, path)
  <2>1. PICK k \in DOMAIN path : \E e \in Children(Prefix(p, k - 1), Edges) :
            Rank(e) > Rank(p[k]) /\ Fits(e, path[k])
    BY <1>3 DEF Shadowed
  <2>2. PICK e \in Children(Prefix(p, k - 1), Edges) : Rank(e) > Rank(p[k]) /\ Fits(e, path[k])
    BY <2>1
  <2>3. e \in Segments /\ Append(Prefix(p, k - 1), e) \in nodes
    BY <2>2, EdgeFacts DEF Children
  <2>4. k \in 1..Len(p)
    BY <1>2, <2>1 DEF Matches
  <2>5. PICK b \in tried : /\ k \in DOMAIN b[1] /\ b[1][k] = e
                           /\ Prefix(b[1], k - 1) = Prefix(p, k - 1)
    BY <1>1, <1>2, <2>3, <2>4, EdgeWasTried
  <2>6. Precedes(b[1], p, path)
    BY <2>1, <2>2, <2>5 DEF Precedes
  <2> QED BY <2>6
<1>4. ASSUME NEW b \in tried, Precedes(b[1], p, path)
      PROVE  Shadowed(p, path)
  <2>1. PICK q \in nodes : q = b[1] /\ q \in Seq(Edges)
    BY <1>1
  <2>2. PICK k \in DOMAIN path \cap DOMAIN q :
            /\ Prefix(q, k - 1) = Prefix(p, k - 1)
            /\ Rank(q[k]) > Rank(p[k]) /\ Fits(q[k], path[k])
    BY <1>4, <2>1 DEF Precedes
  <2>3. k \in 1..Len(q) /\ k \in 0..Len(q) /\ q[k] \in Edges
    BY <2>1
  <2>4. Prefix(q, k) \in nodes
    BY <2>3 DEF TrieInv, NodesAreRooted
  <2>5. Prefix(q, k) = Append(Prefix(q, k - 1), q[k])
    BY <2>1, <2>3, PrefixEnds
  <2>6. q[k] \in Children(Prefix(p, k - 1), Edges)
    BY <2>2, <2>3, <2>4, <2>5 DEF Children
  <2> QED BY <2>2, <2>6 DEF Shadowed
<1> QED BY <1>3, <1>4

LEMMA InvImpliesOrder ==
    ASSUME TrieInv
    PROVE  OrderDoesNotMatter
<1>1. rejected <=> Conflict
  BY NoConflict DEF TrieInv, RejectionHasReason
<1>2. ASSUME ~rejected, NEW path \in Paths, NEW method \in Methods
      PROVE  FindRoute(method, path)
                 = {a[1] : a \in {a \in tried :
                        /\ a[2] = method /\ Matches(a[1], path)
                        /\ ~\E b \in tried : Precedes(b[1], a[1], path)}}
  <2>1. FindRoute(method, path)
            = {a[1] : a \in {a \in handlers : /\ a[2] = method /\ Matches(a[1], path)
                                              /\ ~Shadowed(a[1], path)}}
    BY InvImpliesExact DEF LookupIsExact
  <2>2. tried = handlers /\ \A a \in tried : a[1] \in nodes
    BY <1>2 DEF TrieInv, HistoryIsTrue, HandlersAtNodes
  <2>3. ASSUME NEW a \in tried, Matches(a[1], path)
        PROVE  Shadowed(a[1], path) <=> \E b \in tried : Precedes(b[1], a[1], path)
    BY <1>2, <2>2, <2>3, ShadowIsRoute
  <2>4. {a \in handlers : /\ a[2] = method /\ Matches(a[1], path) /\ ~Shadowed(a[1], path)}
          = {a \in tried : /\ a[2] = method /\ Matches(a[1], path)
                           /\ ~\E b \in tried : Precedes(b[1], a[1], path)}
    BY <2>2, <2>3
  <2> QED BY <2>1, <2>4
<1> QED BY <1>1, <1>2 DEF OrderDoesNotMatter, Conflict

\* Whatever the routes, their order decides neither whether they can be registered
\* nor where a path leads (RouterTest.cpp:256, RouteTrie.cpp:88-126, 139-191).
THEOREM OrderLeavesNoTrace == TrieSpec => []OrderDoesNotMatter
BY TrieInvariant, InvImpliesOrder, PTL

\* FindPath finds one node at most, in a table of any size (RouteTrie.cpp:139-174).
THEOREM LookupUnique == TrieSpec => []LookupFindsOne
BY TrieInvariant, InvImpliesOne, PTL

-----------------------------------------------------------------------------
(* Adding a route. *)

\* Where a chosen node stays, only a new and better edge unseats it; and nothing
\* seats a node but itself.  Nodes are only added.
LEMMA ReachedChange ==
    ASSUME TrieInv, TrieInv', nodes \subseteq nodes',
           NEW path \in Seq(Words), NEW n \in nodes, Len(n) = Len(path),
           Chosen(n, path) # Chosen(n, path)'
    PROVE  \E node \in nodes' \ nodes : /\ Len(node) <= Len(path)
                                        /\ Matches(node, Prefix(path, Len(node)))
<1>1. /\ n \in Seq(Edges) /\ Len(n) \in Nat
      /\ \A node \in nodes : \A k \in 0..Len(node) : Prefix(node, k) \in nodes
  BY DEF TrieInv, NodesAreEdges, NodesAreRooted
<1> DEFINE parent(k) == Prefix(n, k - 1)
           N == Len(n)
           fitting(k) == Fitting(parent(k), path[k])
<1>2. \A k \in 1..N : fitting(k) \subseteq fitting(k)'
  BY DEF Fitting, Children
<1>3. ASSUME NEW k \in 1..N
      PROVE  n[k] \in Edges /\ Append(parent(k), n[k]) \in nodes
  <2>1. k \in 0..N /\ k \in 1..Len(n)
    BY <1>1
  <2>2. Prefix(n, k) = Append(parent(k), n[k])
    BY <1>1, <2>1, PrefixEnds
  <2>3. Prefix(n, k) \in nodes
    BY <1>1, <2>1
  <2>4. n[k] \in Edges
    BY <1>1, <2>1
  <2> QED BY <2>2, <2>3, <2>4
<1>4. ASSUME Chosen(n, path)'
      PROVE  Chosen(n, path)
  <2>1. \A k \in 1..N : n[k] \in Best(parent(k), path[k])'
    BY <1>4 DEF Chosen
  <2>2. ASSUME NEW k \in 1..N
        PROVE  n[k] \in Best(parent(k), path[k])
    <3>1. /\ n[k] \in fitting(k)'
          /\ \A f \in fitting(k)' : Rank(f) <= Rank(n[k])
      BY <2>1 DEF Best
    <3>2. Fits(n[k], path[k])
      BY <3>1 DEF Fitting
    <3>3. n[k] \in fitting(k)
      BY <1>3, <3>2 DEF Fitting, Children
    <3> QED BY <1>2, <3>1, <3>3 DEF Best
  <2> QED BY <2>2 DEF Chosen
<1>5. Chosen(n, path) /\ ~Chosen(n, path)'
  <2>1. Chosen(n, path) \in BOOLEAN /\ Chosen(n, path)' \in BOOLEAN
    BY DEF Chosen
  <2> QED BY <1>4, <2>1
<1>6. PICK k \in 1..N : n[k] \notin Best(parent(k), path[k])'
  BY <1>5 DEF Chosen
<1>7. n[k] \in Best(parent(k), path[k])
  BY <1>5 DEF Chosen
<1>8. n[k] \in fitting(k)' /\ \A f \in fitting(k) : Rank(f) <= Rank(n[k])
  BY <1>2, <1>7 DEF Best
<1>9. PICK e \in fitting(k)' : ~(Rank(e) <= Rank(n[k]))
  BY <1>6, <1>8 DEF Best
<1> DEFINE node == Append(parent(k), e)
<1>10. e \in Edges /\ node \in nodes' /\ Fits(e, path[k])
  BY DEF Fitting, Children
<1>11. node \notin nodes
  BY <1>8, <1>9, <1>10 DEF Fitting, Children
<1>12. /\ k \in Nat /\ k - 1 \in 0..Len(n) /\ (k - 1) + 1 = k /\ k \in 0..Len(path)
       /\ k <= Len(path)
  BY <1>1
<1>13. /\ parent(k) \in Seq(Edges) /\ Len(parent(k)) = k - 1
       /\ \A i \in 1..(k - 1) : parent(k)[i] = n[i]
  BY <1>1, <1>12, PrefixFacts
<1> HIDE DEF parent, fitting
<1>14. /\ Len(node) = k /\ node[k] = e
       /\ \A i \in 1..(k - 1) : node[i] = n[i]
  BY <1>10, <1>12, <1>13, AppendInverse
<1>15. ASSUME NEW i \in 1..k
       PROVE  Fits(node[i], path[i])
  <2>1. CASE i = k
    BY <1>10, <1>14, <2>1
  <2>2. CASE i # k
    <3>1. i \in 1..(k - 1) /\ i \in 1..N
      BY <1>12, <2>2
    <3>2. n[i] \in Best(parent(i), path[i])
      BY <1>5, <3>1 DEF Chosen, parent
    <3> QED BY <1>14, <3>1, <3>2, BestFacts
  <2> QED BY <2>1, <2>2
<1>16. /\ Prefix(path, k) \in Seq(Words) /\ Len(Prefix(path, k)) = k
       /\ \A i \in 1..k : Prefix(path, k)[i] = path[i]
  BY <1>12, PrefixFacts
<1> HIDE DEF node
<1>17. Matches(node, Prefix(path, k))
  <2>1. DOMAIN Prefix(path, k) = 1..k
    BY <1>16
  <2> QED BY <1>14, <1>15, <1>16, <2>1 DEF Matches, Fits
<1> QED BY <1>10, <1>11, <1>12, <1>14, <1>17 DEF node

LEMMA AddRouteConserves ==
    ASSUME TrieInv, TrieInv',
           \A path \in Seq(Words) : FindPath(path)' = Reached(path, Len(path))',
           nodes \subseteq nodes', handlers \subseteq handlers',
           NEW path \in Paths, NEW method \in Methods,
           FindRoute(method, path)' # FindRoute(method, path)
    PROVE  \/ \E node \in nodes' \ nodes :
                    /\ Len(node) <= Len(path)
                    /\ Matches(node, Prefix(path, Len(node)))
           \/ \E route \in handlers' \ handlers : Matches(route[1], path)
<1> DEFINE N == Len(path)
<1>1. path \in Seq(Words)
  BY PathsAssumption
<1>2. /\ FindRoute(method, path) = {n \in Reached(path, N) : <<n, method>> \in handlers}
      /\ FindRoute(method, path)' = {n \in Reached(path, N)' : <<n, method>> \in handlers'}
  BY <1>1, FindPathIsReached DEF FindRoute
<1>3. PICK n : (n \in FindRoute(method, path)') # (n \in FindRoute(method, path))
  <2>1. \E n : (n \in FindRoute(method, path)') # (n \in FindRoute(method, path))
    OBVIOUS
  <2> QED BY <2>1
<1>4. handlers \subseteq nodes \X Methods
  BY DEF TrieInv, HandlersAtNodes
<1>5. n \in nodes' /\ Len(n) = N /\ <<n, method>> \in handlers'
  BY <1>2, <1>3 DEF Reached
<1>6. CASE <<n, method>> \in handlers
  <2>1. n \in nodes
    BY <1>4, <1>6
  <2>2. /\ n \in FindRoute(method, path)' <=> Chosen(n, path)'
        /\ n \in FindRoute(method, path) <=> Chosen(n, path)
    BY <1>2, <1>5, <1>6, <2>1 DEF Reached
  <2>3. Chosen(n, path) # Chosen(n, path)'
    BY <1>3, <2>2
  <2> QED BY <1>1, <1>5, <2>1, <2>3, ReachedChange
<1>7. CASE <<n, method>> \notin handlers
  <2>1. n \in Reached(path, N)'
    BY <1>2, <1>3, <1>7
  <2>2. n \in Seq(Edges) /\ \A k \in 1..Len(n) : n[k] \in Best(Prefix(n, k - 1), path[k])'
    BY <1>5, <2>1 DEF Reached, Chosen, TrieInv, NodesAreEdges
  <2>3. \A k \in 1..Len(n) : Fits(n[k], path[k])
    BY <2>2 DEF Best, Fitting
  <2>4. Matches(n, path)
    BY <1>1, <1>5, <2>3 DEF Matches, Fits
  <2> DEFINE route == <<n, method>>
  <2>5. route \in handlers' \ handlers /\ Matches(route[1], path)
    BY <1>5, <1>7, <2>4
  <2> QED BY <2>5
<1> QED BY <1>6, <1>7

\* Adding a route disturbs no lookup but those its own segments match
\* (RouteTrie.cpp:88-126).
THEOREM AddConservative == TrieSpec => AddIsConservative
<1> DEFINE Disturbed ==
        \A path \in Paths, method \in Methods :
          FindRoute(method, path)' # FindRoute(method, path)
              => \/ \E node \in nodes' \ nodes :
                        /\ Len(node) <= Len(path)
                        /\ Matches(node, Prefix(path, Len(node)))
                 \/ \E route \in handlers' \ handlers : Matches(route[1], path)
           Solved == \A path \in Seq(Words) : FindPath(path) = Reached(path, Len(path))
<1>1. TrieInv => Solved
  BY FindPathIsReached
<1>2. TrieInv' => Solved'
  BY <1>1, PTL
<1>3. ASSUME TrieInv, TrieInv', [TrieNext]_trieVars
      PROVE  [Disturbed]_trieVars
  <2>1. CASE UNCHANGED trieVars
    BY <2>1
  <2>2. CASE TrieNext
    <3>1. nodes \subseteq nodes' /\ handlers \subseteq handlers'
      BY <2>2 DEF TrieNext, AddRoute
    <3>2. \A path \in Seq(Words) : FindPath(path)' = Reached(path, Len(path))'
      BY <1>2, <1>3
    <3> QED BY <1>3, <3>1, <3>2, AddRouteConserves
  <2> QED BY <1>3, <2>1, <2>2
<1>4. TrieSpec => [][Disturbed]_trieVars
  BY <1>3, TrieInvariant, PTL DEF TrieSpec
<1> QED BY <1>4 DEF AddIsConservative

-----------------------------------------------------------------------------
(* The lifetime of the controllers. *)

\* What a thread is doing, as far as the controllers are concerned.
WorkerOK(w, owners) ==
    /\ w.stage \in {"idle", "found", "running", "answered"}
    /\ w.stage \in {"found", "running"} => w.entry.controller \in Controllers
    /\ w.stage = "answered" /\ w.code = "controller_unavailable"
            => w.by.controller \in Controllers \ owners

\* The part of the type invariant that the lifetimes rest on.
LifetimeOK ==
    /\ bound \in [handlers -> Entries]
    /\ registering \in Seq(Registrations)
    /\ owned \subseteq Controllers
    /\ refs \in [Controllers -> Nat]
    /\ worker = [t \in Threads |-> worker[t]]
    /\ \A t \in Threads : WorkerOK(worker[t], owned)

LInv == LifetimeOK /\ RefsAreExact

-----------------------------------------------------------------------------
(* The table and what is registered in it. *)

\* The entries of the table name controllers.
LEMMA EntryFacts ==
    /\ \A e \in Entries : e.controller \in Controllers
    /\ \A r \in Registrations :
          r.controller \in Controllers /\ Entry(r.controller, r.route) \in Entries
BY DEF Entries, Registrations, Entry

\* RegisterRoutes goes through routes of its controller.
LEMMA RegisterRoutesType ==
    ASSUME NEW c \in Controllers
    PROVE  [i \in DOMAIN Routes[c] |-> [controller |-> c, route |-> Routes[c][i]]]
               \in Seq(Registrations)
<1>1. PICK n \in Nat : DOMAIN Routes[c] = 1..n
  <2>1. Routes[c] \in Seq([method : Methods, path : Patterns, handler : STRING])
    BY RoutesAssumption
  <2> QED BY <2>1
<1>2. \A i \in 1..n : [controller |-> c, route |-> Routes[c][i]] \in Registrations
  BY <1>1 DEF Registrations
<1> DEFINE all == [i \in 1..n |-> [controller |-> c, route |-> Routes[c][i]]]
<1>3. all \in [1..n -> Registrations]
  BY <1>2
<1>4. all \in Seq(Registrations)
  BY <1>3
<1> QED BY <1>1, <1>4

\* A turn of the loop keeps the table's entries well formed.
LEMMA AddNextRouteType ==
    ASSUME LifetimeOK, AddNextRoute
    PROVE  bound' \in [handlers' -> Entries] /\ registering' \in Seq(Registrations)
<1> DEFINE r == Head(registering)
           key == << r.route.path, r.route.method >>
<1>1. r \in Registrations /\ Tail(registering) \in Seq(Registrations)
  BY HeadTailProperties DEF LifetimeOK, AddNextRoute
<1>2. CASE Accepted(r.route.path)
  <2>1. handlers' = handlers \cup {key}
    BY <1>2 DEF AddNextRoute, AddRoute
  <2>2. bound' = [k \in handlers' |-> IF k = key THEN Entry(r.controller, r.route)
                                     ELSE bound[k]]
    BY <1>2 DEF AddNextRoute, Bind
  <2>3. registering' = Tail(registering)
    BY <1>2 DEF AddNextRoute
  <2> QED BY <1>1, <2>1, <2>2, <2>3, EntryFacts DEF LifetimeOK
<1>3. CASE ~Accepted(r.route.path)
  <2>1. handlers' = handlers /\ bound' = bound /\ registering' = << >>
    BY <1>3 DEF AddNextRoute, AddRoute
  <2> QED BY <2>1 DEF LifetimeOK
<1> QED BY <1>2, <1>3

-----------------------------------------------------------------------------
(* The threads that hold a controller. *)

LEMMA RunningFinite ==
    ASSUME NEW c
    PROVE  IsFiniteSet(Running(c)) /\ Cardinality(Running(c)) \in Nat
<1>1. Running(c) \subseteq Threads
  BY DEF Running
<1> QED BY <1>1, ThreadsAssumption, FS_Subset, FS_CardinalityType

\* A change of one thread's work, from w0 to w, changes the use of a controller
\* by that thread only.
LEMMA RunningOfOthers ==
    ASSUME LifetimeOK, NEW t \in Threads, NEW w, worker' = [worker EXCEPT ![t] = w],
           NEW c
    PROVE  /\ worker' = [u \in Threads |-> worker'[u]]
           /\ \A u \in Threads : worker'[u] = IF u = t THEN w ELSE worker[u]
           /\ Running(c)' = IF w.stage = "running" /\ w.entry.controller = c
                            THEN Running(c) \cup {t} ELSE Running(c) \ {t}
<1>1. /\ worker' = [u \in Threads |-> worker'[u]]
      /\ \A u \in Threads : worker'[u] = IF u = t THEN w ELSE worker[u]
  BY DEF LifetimeOK
<1> QED BY <1>1 DEF Running

\* The owners and the table do not change: the use counts change with the work
\* of one thread.
LEMMA CountStep ==
    ASSUME LInv, NEW t \in Threads, NEW w, worker' = [worker EXCEPT ![t] = w],
           UNCHANGED <<owned, registering>>, bound' \in [handlers' -> Entries],
           WorkerOK(w, owned'),
           \/ /\ worker[t].stage # "running" /\ w.stage # "running" /\ UNCHANGED refs
           \/ /\ worker[t].stage # "running" /\ w.stage = "running"
              /\ refs' = [refs EXCEPT ![w.entry.controller] = @ + 1]
           \/ /\ worker[t].stage = "running" /\ w.stage # "running"
              /\ refs' = [refs EXCEPT ![worker[t].entry.controller] = @ - 1]
    PROVE  LInv'
<1>1. /\ worker' = [u \in Threads |-> worker'[u]]
      /\ \A u \in Threads : worker'[u] = IF u = t THEN w ELSE worker[u]
      /\ \A c : Running(c)' = IF w.stage = "running" /\ w.entry.controller = c
                              THEN Running(c) \cup {t} ELSE Running(c) \ {t}
  BY RunningOfOthers DEF LInv
<1>2. \A u \in Threads : WorkerOK(worker'[u], owned')
  BY <1>1 DEF LInv, LifetimeOK, WorkerOK
<1>3. \A c \in Controllers :
          /\ refs'[c] = Cardinality(Running(c)') + (IF c \in owned THEN 1 ELSE 0)
          /\ refs'[c] \in Nat
  <2> SUFFICES ASSUME NEW c \in Controllers
               PROVE  refs'[c] = Cardinality(Running(c)') + (IF c \in owned THEN 1 ELSE 0)
                      /\ refs'[c] \in Nat
    OBVIOUS
  <2>1. /\ IsFiniteSet(Running(c)) /\ Cardinality(Running(c)) \in Nat
        /\ refs[c] = Cardinality(Running(c)) + (IF c \in owned THEN 1 ELSE 0)
    BY RunningFinite DEF LInv, RefsAreExact
  <2>2. Cardinality(Running(c) \cup {t})
           = IF t \in Running(c) THEN Cardinality(Running(c)) ELSE Cardinality(Running(c)) + 1
    BY <2>1, FS_AddElement
  <2>3. Cardinality(Running(c) \ {t})
           = IF t \in Running(c) THEN Cardinality(Running(c)) - 1 ELSE Cardinality(Running(c))
    BY <2>1, FS_RemoveElement
  <2>4. t \in Running(c) <=> worker[t].stage = "running" /\ worker[t].entry.controller = c
    BY DEF Running
  <2>5. Cardinality(Running(c) \ {t}) \in Nat
    BY <2>1, FS_RemoveElement, FS_CardinalityType
  <2>6. refs \in [Controllers -> Nat]
    BY DEF LInv, LifetimeOK
  <2>7. CASE worker[t].stage # "running" /\ w.stage # "running" /\ UNCHANGED refs
    BY <1>1, <2>1, <2>3, <2>4, <2>7
  <2>8. CASE /\ worker[t].stage # "running" /\ w.stage = "running"
             /\ refs' = [refs EXCEPT ![w.entry.controller] = @ + 1]
    <3>1. Running(c)' = IF w.entry.controller = c THEN Running(c) \cup {t} ELSE Running(c)
      BY <1>1, <2>4, <2>8
    <3>2. refs'[c] = IF w.entry.controller = c THEN refs[c] + 1 ELSE refs[c]
      BY <2>6, <2>8
    <3> QED BY <2>1, <2>2, <2>4, <2>8, <3>1, <3>2
  <2>9. CASE /\ worker[t].stage = "running" /\ w.stage # "running"
             /\ refs' = [refs EXCEPT ![worker[t].entry.controller] = @ - 1]
    <3>1. Running(c)' = Running(c) \ {t}
      BY <1>1, <2>9
    <3>2. refs'[c] = IF t \in Running(c) THEN refs[c] - 1 ELSE refs[c]
      BY <2>4, <2>6, <2>9
    <3> QED BY <2>1, <2>3, <2>5, <3>1, <3>2
  <2> QED BY <2>7, <2>8, <2>9
<1>4. refs' \in [Controllers -> Nat]
  <2>1. refs' = [c \in Controllers |-> refs'[c]]
    BY DEF LInv, LifetimeOK
  <2> QED BY <2>1, <1>3
<1>5. RefsAreExact'
  BY <1>3 DEF RefsAreExact
<1> QED BY <1>1, <1>2, <1>4, <1>5 DEF LInv, LifetimeOK

-----------------------------------------------------------------------------
(* The steps. *)

LEMMA ReceiveStep ==
    ASSUME LInv, NEW t \in Threads, NEW request \in Requests, Receive(t, request)
    PROVE  LInv'
<1>1. UNCHANGED <<refs, owned, registering, bound, handlers>> /\ worker[t].stage = "idle"
  BY DEF Receive, lifetimeVars, trieVars
<1>2. CASE \E code \in {"invalid_request_target", "route_not_found"} :
              worker' = [worker EXCEPT ![t] = Answer(request, code)]
  <2>1. PICK code \in {"invalid_request_target", "route_not_found"} :
            worker' = [worker EXCEPT ![t] = Answer(request, code)]
    BY <1>2
  <2>2. WorkerOK(Answer(request, code), owned') /\ Answer(request, code).stage # "running"
    BY DEF WorkerOK, Answer
  <2> QED BY <1>1, <2>1, <2>2, CountStep DEF LInv, LifetimeOK
<1>3. CASE \E node \in FindRoute(request.method, request.path) :
              worker' = [worker EXCEPT ![t] =
                  Handling("found", request, bound[<<node, request.method>>])]
  <2>1. PICK node \in FindRoute(request.method, request.path) :
            worker' = [worker EXCEPT ![t] =
                Handling("found", request, bound[<<node, request.method>>])]
    BY <1>3
  <2> DEFINE entry == bound[<<node, request.method>>]
             w == Handling("found", request, entry)
  <2>2. entry \in Entries
    BY DEF FindRoute, LInv, LifetimeOK
  <2>3. WorkerOK(w, owned') /\ w.stage # "running"
    BY <2>2, EntryFacts DEF WorkerOK, Handling
  <2> QED BY <1>1, <2>1, <2>3, CountStep DEF LInv, LifetimeOK
<1> QED BY <1>2, <1>3 DEF Receive

LEMMA LockStep ==
    ASSUME LInv, NEW t \in Threads, Lock(t)
    PROVE  LInv'
<1> DEFINE w0 == worker[t]
           c == w0.entry.controller
<1>1. /\ UNCHANGED <<owned, registering, bound, handlers>>
      /\ w0.stage = "found" /\ c \in Controllers
  BY DEF Lock, trieVars, LInv, LifetimeOK, WorkerOK
<1>2. CASE refs[c] > 0
  <2> DEFINE w == [w0 EXCEPT !.stage = "running"]
  <2>1. worker' = [worker EXCEPT ![t] = w] /\ refs' = [refs EXCEPT ![c] = @ + 1]
    BY <1>2 DEF Lock
  <2>2. w.stage = "running" /\ w.entry = w0.entry /\ WorkerOK(w, owned')
    BY <1>1 DEF WorkerOK
  <2> QED BY <1>1, <2>1, <2>2, CountStep DEF LInv, LifetimeOK
<1>3. CASE ~(refs[c] > 0)
  <2> DEFINE w == Answered(w0.request, "controller_unavailable", w0.entry)
  <2>1. worker' = [worker EXCEPT ![t] = w] /\ refs' = refs
    BY <1>3 DEF Lock
  <2>2. c \notin owned
    BY <1>1, <1>3, RunningFinite DEF LInv, RefsAreExact
  <2>3. w.stage = "answered" /\ WorkerOK(w, owned')
    BY <1>1, <2>2 DEF WorkerOK, Answered
  <2> QED BY <1>1, <2>1, <2>3, CountStep DEF LInv, LifetimeOK
<1> QED BY <1>2, <1>3

LEMMA ReplyStep ==
    ASSUME LInv, NEW t \in Threads, NEW code, code # "controller_unavailable",
           Reply(t, code)
    PROVE  LInv'
<1> DEFINE w == Answered(worker[t].request, code, worker[t].entry)
<1>1. /\ UNCHANGED <<owned, registering, bound, handlers>>
      /\ worker[t].stage = "running"
      /\ worker' = [worker EXCEPT ![t] = w]
      /\ refs' = [refs EXCEPT ![worker[t].entry.controller] = @ - 1]
  BY DEF Reply, trieVars
<1>2. w.stage = "answered" /\ WorkerOK(w, owned')
  BY DEF WorkerOK, Answered
<1> QED BY <1>1, <1>2, CountStep DEF LInv, LifetimeOK

LEMMA ReturnStep ==
    ASSUME LInv, NEW t \in Threads, Return(t)
    PROVE  LInv'
<1> DEFINE w == [stage |-> "idle"]
<1>1. /\ UNCHANGED <<refs, owned, registering, bound, handlers>>
      /\ worker[t].stage = "answered"
      /\ worker' = [worker EXCEPT ![t] = w]
  BY DEF Return, trieVars, lifetimeVars
<1>2. w.stage = "idle" /\ WorkerOK(w, owned')
  BY DEF WorkerOK
<1> QED BY <1>1, <1>2, CountStep DEF LInv, LifetimeOK

LEMMA ReleaseStep ==
    ASSUME LInv, NEW c \in Controllers, Release(c)
    PROVE  LInv'
<1>1. /\ UNCHANGED <<registering, bound, handlers, worker>>
      /\ c \in owned /\ owned' = owned \ {c}
      /\ refs' = [refs EXCEPT ![c] = @ - 1]
  BY DEF Release, trieVars
<1>2. \A d \in Controllers : Running(d)' = Running(d)
  BY <1>1 DEF Running
<1>3. \A d \in Controllers : Cardinality(Running(d)) \in Nat
  BY RunningFinite
<1>4. RefsAreExact' /\ refs' \in [Controllers -> Nat]
  BY <1>1, <1>2, <1>3 DEF LInv, LifetimeOK, RefsAreExact
<1>5. \A t \in Threads : WorkerOK(worker'[t], owned')
  BY <1>1 DEF LInv, LifetimeOK, WorkerOK
<1> QED BY <1>1, <1>4, <1>5 DEF LInv, LifetimeOK

\* The use counts and the threads are left alone.
LEMMA QuietStep ==
    ASSUME LInv, UNCHANGED <<lifetimeVars, worker>>,
           bound' \in [handlers' -> Entries], registering' \in Seq(Registrations)
    PROVE  LInv'
BY DEF LInv, LifetimeOK, lifetimeVars, WorkerOK, RefsAreExact, Running

LEMMA NextLInv == LInv /\ [RouterNext]_routerVars => LInv'
<1> SUFFICES ASSUME LInv, [RouterNext]_routerVars
             PROVE  LInv'
  OBVIOUS
<1>1. CASE AddNextRoute
  BY <1>1, AddNextRouteType, QuietStep DEF LInv, AddNextRoute
<1>2. CASE StartServing
  BY <1>2, QuietStep DEF LInv, LifetimeOK, StartServing, trieVars
<1>3. CASE \E c \in Controllers : RegisterRoutes(c)
  BY <1>3, RegisterRoutesType, QuietStep DEF LInv, LifetimeOK, RegisterRoutes, trieVars
<1>4. CASE \E c \in Controllers : Release(c)
  BY <1>4, ReleaseStep
<1>5. CASE \E t \in Threads : \E request \in Requests : Receive(t, request)
  BY <1>5, ReceiveStep
<1>6. CASE \E t \in Threads : Lock(t)
  BY <1>6, LockStep
<1>7. CASE \E t \in Threads : Handler(t)
  BY <1>7, ReplyStep DEF Handler, MapExceptionToHttpError, Exceptions
<1>8. CASE \E t \in Threads : Return(t)
  BY <1>8, ReturnStep
<1>9. CASE UNCHANGED routerVars
  BY <1>9, QuietStep DEF LInv, LifetimeOK, routerVars, trieVars
<1> QED BY <1>1, <1>2, <1>3, <1>4, <1>5, <1>6, <1>7, <1>8, <1>9 DEF RouterNext

LEMMA InitLInv == RouterInit => LInv
<1> SUFFICES ASSUME RouterInit PROVE LInv
  OBVIOUS
<1>1. \A c \in Controllers : Running(c) = {}
  BY DEF RouterInit, Running
<1>2. RefsAreExact
  BY <1>1, FS_EmptySet DEF RouterInit, RefsAreExact
<1> QED BY <1>2 DEF RouterInit, TrieInit, LInv, LifetimeOK, WorkerOK

\* LInv is an invariant of the router.
THEOREM RouterInvariant == RouterSpec => []LInv
<1> QED BY InitLInv, NextLInv, PTL DEF RouterSpec

-----------------------------------------------------------------------------
(* What follows. *)

\* The use count of a controller is the number of those that use it, its owner
\* included (Router.hpp:19-27).
THEOREM UseCountsAreExact == RouterSpec => []RefsAreExact
<1>1. LInv => RefsAreExact
  BY DEF LInv
<1> QED BY <1>1, RouterInvariant, PTL

\* 503 is the answer for a controller that its owner has released, and for no
\* other (Router.hpp:20-25).
THEOREM OnlyReleasedIsUnavailable == RouterSpec => []UnavailableMeansReleased
<1>1. LInv => UnavailableMeansReleased
  BY DEF LInv, LifetimeOK, WorkerOK, UnavailableMeansReleased
<1> QED BY <1>1, RouterInvariant, PTL

\* The work of one thread adds no other handler to those of a controller.
LEMMA NoNewHandler ==
    ASSUME LifetimeOK, NEW t \in Threads, NEW w, worker' = [worker EXCEPT ![t] = w],
           NEW c, w.stage # "running" \/ w.entry.controller # c
    PROVE  Running(c)' \subseteq Running(c)
<1>1. \A u \in Threads : worker'[u] = IF u = t THEN w ELSE worker[u]
  BY DEF LifetimeOK
<1>2. \A u \in Threads :
          worker'[u].stage = "running" /\ worker'[u].entry.controller = c
              => worker[u].stage = "running" /\ worker[u].entry.controller = c
  BY <1>1
<1> QED BY <1>2 DEF Running

\* The threads of a controller change with the work of one thread, which starts a
\* handler only by Lock.
LEMMA StartsByLock ==
    ASSUME LInv, [RouterNext]_routerVars, NEW c \in Controllers,
           ~\E t \in Threads : Lock(t)
    PROVE  Running(c)' \subseteq Running(c)
<1>1. LifetimeOK
  BY DEF LInv
<1>2. \A t \in Threads : \A w :
          worker' = [worker EXCEPT ![t] = w] /\ w.stage # "running"
              => Running(c)' \subseteq Running(c)
  BY <1>1, NoNewHandler
<1>3. CASE worker' = worker
  BY <1>3 DEF Running
<1>4. ASSUME NEW t \in Threads, NEW w, worker' = [worker EXCEPT ![t] = w],
             w.stage # "running"
      PROVE  Running(c)' \subseteq Running(c)
  BY <1>2, <1>4
<1>5. ASSUME NEW t \in Threads, NEW request \in Requests, Receive(t, request)
      PROVE  Running(c)' \subseteq Running(c)
  <2>1. \E w : worker' = [worker EXCEPT ![t] = w] /\ w.stage # "running"
    BY <1>5 DEF Receive, Answer, Handling
  <2> QED BY <1>4, <2>1
<1>6. ASSUME NEW t \in Threads, Handler(t)
      PROVE  Running(c)' \subseteq Running(c)
  <2>1. PICK code : Reply(t, code)
    BY <1>6 DEF Handler
  <2> DEFINE w == Answered(worker[t].request, code, worker[t].entry)
  <2>2. worker' = [worker EXCEPT ![t] = w]
    BY <2>1 DEF Reply
  <2>3. w.stage # "running"
    BY DEF Answered
  <2> HIDE DEF w
  <2> QED BY <1>4, <2>2, <2>3
<1>7. ASSUME NEW t \in Threads, Return(t)
      PROVE  Running(c)' \subseteq Running(c)
  <2> DEFINE w == [stage |-> "idle"]
  <2>1. worker' = [worker EXCEPT ![t] = w]
    BY <1>7 DEF Return
  <2>2. w.stage # "running"
    OBVIOUS
  <2> HIDE DEF w
  <2> QED BY <1>4, <2>1, <2>2
<1> QED
  BY <1>3, <1>5, <1>6, <1>7 DEF RouterNext, AddNextRoute, StartServing, RegisterRoutes, Release,
     routerVars

\* A controller that nobody holds is never used again, not even by a thread that
\* has found it already (Router.hpp:19-27).
THEOREM ReleasedForGood == RouterSpec => GoneForGood
<1> DEFINE Gone(c) == c \notin owned /\ Running(c) = {}
           StaysGone == \A c \in Controllers : Gone(c) => Running(c)' = {}
<1>1. ASSUME LInv, [RouterNext]_routerVars, NEW c \in Controllers, Gone(c)
      PROVE  Running(c)' = {}
  <2>1. refs[c] = 0
    BY <1>1, FS_EmptySet DEF LInv, RefsAreExact
  <2>2. LifetimeOK
    BY <1>1 DEF LInv
  <2>3. ASSUME NEW t \in Threads, NEW w, worker' = [worker EXCEPT ![t] = w],
               w.stage # "running" \/ w.entry.controller # c
        PROVE  Running(c)' = {}
    <3>1. Running(c)' \subseteq Running(c)
      BY <2>2, <2>3, NoNewHandler
    <3> QED BY <1>1, <3>1
  <2>4. ASSUME NEW t \in Threads, Lock(t)
        PROVE  Running(c)' = {}
    <3>1. \E w : /\ worker' = [worker EXCEPT ![t] = w]
                 /\ w.stage # "running" \/ w.entry.controller # c
      <4>1. CASE refs[worker[t].entry.controller] > 0
        <5>1. worker[t].entry.controller # c
          BY <2>1, <4>1
        <5> DEFINE w == [worker[t] EXCEPT !.stage = "running"]
        <5>2. worker' = [worker EXCEPT ![t] = w]
          BY <2>4, <4>1 DEF Lock
        <5>3. w.entry = worker[t].entry
          OBVIOUS
        <5> QED BY <5>1, <5>2, <5>3
      <4>2. CASE ~(refs[worker[t].entry.controller] > 0)
        BY <2>4, <4>2 DEF Lock, Answered
      <4> QED BY <4>1, <4>2
    <3> QED BY <2>3, <3>1
  <2>5. CASE ~\E t \in Threads : Lock(t)
    BY <1>1, <2>5, StartsByLock
  <2> QED BY <2>4, <2>5
<1>2. LInv /\ [RouterNext]_routerVars => [StaysGone]_routerVars
  BY <1>1
<1> QED BY <1>2, RouterInvariant, PTL DEF RouterSpec, GoneForGood

-----------------------------------------------------------------------------
(* The router is a user of the routing table. *)

LEMMA RegistrationFacts ==
    ASSUME NEW r \in Registrations
    PROVE  /\ r.controller \in Controllers
           /\ r.route.method \in Methods /\ r.route.path \in Patterns
           /\ \E i \in DOMAIN Routes[r.controller] : r.route = Routes[r.controller][i]
<1>1. PICK c \in Controllers : \E i \in DOMAIN Routes[c] :
          r = [controller |-> c, route |-> Routes[c][i]]
  BY DEF Registrations
<1>2. PICK i \in DOMAIN Routes[c] : r = [controller |-> c, route |-> Routes[c][i]]
  BY <1>1
<1> DEFINE R == [method : Methods, path : Patterns, handler : STRING]
           s == Routes[c]
<1>3. s \in Seq(R)
  BY RoutesAssumption
<1>4. Routes[c][i] \in R
  <2> HIDE DEF R, s
  <2>1. i \in DOMAIN s => s[i] \in R
    BY <1>3
  <2> QED BY <1>2, <2>1 DEF s
<1>5. r.controller = c /\ r.route = Routes[c][i]
  BY <1>2
<1> QED BY <1>4, <1>5

LEMMA StepIsTrieStep == LInv /\ [RouterNext]_routerVars => [TrieNext]_trieVars
<1> SUFFICES ASSUME LInv, [RouterNext]_routerVars
             PROVE  TrieNext \/ UNCHANGED trieVars
  OBVIOUS
<1>1. CASE AddNextRoute
  <2> DEFINE r == Head(registering)
  <2>1. r \in Registrations
    BY <1>1, HeadTailProperties DEF LInv, LifetimeOK, AddNextRoute
  <2>2. AddRoute(r.route.method, r.route.path)
    BY <1>1 DEF AddNextRoute
  <2> QED BY <2>1, <2>2, RegistrationFacts DEF TrieNext
<1>2. CASE RouterNext /\ ~AddNextRoute
  BY <1>2 DEF RouterNext, StartServing, RegisterRoutes, Release, Receive, Lock, Handler,
     Reply, Return
<1>3. CASE UNCHANGED routerVars
  BY <1>3 DEF routerVars
<1> QED BY <1>1, <1>2, <1>3

\* Whatever the controllers register, and whichever of them fail half way, the
\* table only ever sees calls of AddRoute: all that is proved of it holds in the
\* router (IController.hpp:20-30).
THEOREM RouterUsesTrie == RouterSpec => TrieSpec
<1>1. RouterInit => TrieInit
  BY DEF RouterInit
<1> QED BY <1>1, StepIsTrieStep, RouterInvariant, PTL DEF RouterSpec, TrieSpec

-----------------------------------------------------------------------------
(* The handlers that answer. *)

\* What the entry calls was registered for such a request.
Serves(entry, request) ==
    \E i \in DOMAIN Routes[entry.controller] :
        LET route == Routes[entry.controller][i]
        IN  /\ route.handler = entry.handler
            /\ route.method = request.method
            /\ Matches(route.path, request.path)

\* The last route bound to a key is a route of that key.
BoundToItsRoute ==
    \A key \in handlers : \E r \in Registrations :
        /\ bound[key] = Entry(r.controller, r.route)
        /\ key = <<r.route.path, r.route.method>>

ServesWell(w) ==
    /\ w.stage \in {"found", "running"} => Serves(w.entry, w.request)
    /\ w.stage = "answered" /\ w.code \notin {"invalid_request_target", "route_not_found"}
            => Serves(w.by, w.request)

RouteInv ==
    /\ BoundToItsRoute
    /\ \A t \in Threads : ServesWell(worker[t])

\* What a lookup finds has been registered for the request.
LEMMA FoundServes ==
    ASSUME TrieInv, BoundToItsRoute, NEW request \in Requests,
           NEW node \in FindRoute(request.method, request.path)
    PROVE  Serves(bound[<<node, request.method>>], request)
<1> DEFINE key == <<node, request.method>>
           path == request.path
<1>1. path \in Seq(Words)
  BY RequestsAssumption, PathsAssumption
<1>2. key \in handlers /\ node \in nodes /\ Len(node) = Len(path) /\ Chosen(node, path)
  BY <1>1, FindPathIsReached DEF FindRoute, Reached
<1>3. Matches(node, path)
  BY <1>1, <1>2, ChosenMeansExact
<1>4. PICK r \in Registrations : /\ bound[key] = Entry(r.controller, r.route)
                                 /\ key = <<r.route.path, r.route.method>>
  BY <1>2 DEF BoundToItsRoute
<1>5. node = r.route.path /\ request.method = r.route.method
  BY <1>4
<1>6. PICK i \in DOMAIN Routes[r.controller] : r.route = Routes[r.controller][i]
  BY RegistrationFacts
<1>7. bound[key].controller = r.controller /\ bound[key].handler = r.route.handler
  BY <1>4 DEF Entry
<1> HIDE DEF key, path
<1>8. Serves(bound[key], request)
  BY <1>3, <1>5, <1>6, <1>7 DEF Serves, path
<1> QED BY <1>8 DEF key

LEMMA AddNextRouteBinds ==
    ASSUME LifetimeOK, BoundToItsRoute, AddNextRoute
    PROVE  BoundToItsRoute'
<1> DEFINE r == Head(registering)
           new == <<r.route.path, r.route.method>>
<1>1. r \in Registrations
  BY HeadTailProperties DEF LifetimeOK, AddNextRoute
<1>2. CASE Accepted(r.route.path)
  <2>1. handlers' = handlers \cup {new}
    BY <1>2 DEF AddNextRoute, AddRoute
  <2>2. bound' = [k \in handlers' |-> IF k = new THEN Entry(r.controller, r.route)
                                     ELSE bound[k]]
    BY <1>2 DEF AddNextRoute, Bind
  <2> SUFFICES ASSUME NEW key \in handlers'
               PROVE  \E q \in Registrations : /\ bound'[key] = Entry(q.controller, q.route)
                                               /\ key = <<q.route.path, q.route.method>>
    BY DEF BoundToItsRoute
  <2>3. CASE key = new
    <3>1. bound'[key] = Entry(r.controller, r.route)
      BY <2>2, <2>3
    <3> QED BY <1>1, <2>3, <3>1
  <2>4. CASE key # new
    <3>1. key \in handlers /\ bound'[key] = bound[key]
      BY <2>1, <2>2, <2>4
    <3> QED BY <3>1 DEF BoundToItsRoute
  <2> QED BY <2>3, <2>4
<1>3. CASE ~Accepted(r.route.path)
  <2>1. handlers' = handlers /\ bound' = bound
    BY <1>3 DEF AddNextRoute, AddRoute
  <2> QED BY <2>1 DEF BoundToItsRoute
<1> QED BY <1>2, <1>3

\* One thread's work changes, and the table does not.
LEMMA OneWorkerServes ==
    ASSUME LifetimeOK, RouteInv, UNCHANGED <<handlers, bound>>,
           NEW t \in Threads, NEW w, worker' = [worker EXCEPT ![t] = w], ServesWell(w)
    PROVE  RouteInv'
<1>1. BoundToItsRoute'
  BY DEF RouteInv, BoundToItsRoute
<1>2. \A u \in Threads : worker'[u] = IF u = t THEN w ELSE worker[u]
  BY DEF LifetimeOK
<1>3. \A u \in Threads : ServesWell(worker'[u])
  BY <1>2 DEF RouteInv
<1> QED BY <1>1, <1>3 DEF RouteInv

LEMMA ReceiveServes ==
    ASSUME TrieInv, LifetimeOK, RouteInv, NEW t \in Threads, NEW request \in Requests,
           Receive(t, request)
    PROVE  RouteInv'
<1>1. UNCHANGED <<bound, handlers>>
  BY DEF Receive, trieVars
<1>2. CASE \E code \in {"invalid_request_target", "route_not_found"} :
              worker' = [worker EXCEPT ![t] = Answer(request, code)]
  <2>1. PICK code \in {"invalid_request_target", "route_not_found"} :
            worker' = [worker EXCEPT ![t] = Answer(request, code)]
    BY <1>2
  <2>2. ServesWell(Answer(request, code))
    BY DEF ServesWell, Answer
  <2> QED BY <1>1, <2>1, <2>2, OneWorkerServes
<1>3. CASE \E node \in FindRoute(request.method, request.path) :
              worker' = [worker EXCEPT ![t] =
                  Handling("found", request, bound[<<node, request.method>>])]
  <2>1. PICK node \in FindRoute(request.method, request.path) :
            worker' = [worker EXCEPT ![t] =
                Handling("found", request, bound[<<node, request.method>>])]
    BY <1>3
  <2> DEFINE entry == bound[<<node, request.method>>]
             w == Handling("found", request, entry)
  <2>2. Serves(entry, request)
    BY FoundServes DEF RouteInv
  <2> HIDE DEF entry
  <2>3. ServesWell(w)
    BY <2>2 DEF ServesWell, Handling
  <2>4. worker' = [worker EXCEPT ![t] = w]
    BY <2>1 DEF entry
  <2> HIDE DEF w
  <2> QED BY <1>1, <2>3, <2>4, OneWorkerServes
<1> QED BY <1>2, <1>3 DEF Receive

LEMMA NextRouteInv ==
    ASSUME TrieInv, LInv, RouteInv, [RouterNext]_routerVars
    PROVE  RouteInv'
<1>1. LifetimeOK /\ BoundToItsRoute
  BY DEF LInv, RouteInv
<1>2. CASE AddNextRoute
  <2>1. BoundToItsRoute' /\ worker' = worker
    BY <1>1, <1>2, AddNextRouteBinds DEF AddNextRoute
  <2> QED BY <2>1 DEF RouteInv, ServesWell
<1>3. CASE UNCHANGED <<handlers, bound, worker>>
  BY <1>3 DEF RouteInv, BoundToItsRoute, ServesWell
<1>4. ASSUME NEW t \in Threads, NEW request \in Requests, Receive(t, request)
      PROVE  RouteInv'
  BY <1>1, <1>4, ReceiveServes
<1>5. ASSUME NEW t \in Threads, Lock(t)
      PROVE  RouteInv'
  <2> DEFINE w0 == worker[t]
             w1 == [w0 EXCEPT !.stage = "running"]
             w2 == Answered(w0.request, "controller_unavailable", w0.entry)
  <2>1. w0.stage = "found" /\ Serves(w0.entry, w0.request)
    BY <1>5 DEF Lock, RouteInv, ServesWell
  <2>2. w1.entry = w0.entry /\ w1.request = w0.request /\ w1.stage = "running"
    BY <2>1
  <2>3. ServesWell(w1)
    BY <2>1, <2>2 DEF ServesWell
  <2>4. ServesWell(w2)
    BY <2>1 DEF ServesWell, Answered
  <2>5. /\ UNCHANGED <<handlers, bound>>
        /\ worker' = [worker EXCEPT ![t] = w1] \/ worker' = [worker EXCEPT ![t] = w2]
    BY <1>5 DEF Lock, trieVars
  <2> HIDE DEF w0, w1, w2
  <2> QED BY <1>1, <2>3, <2>4, <2>5, OneWorkerServes
<1>6. ASSUME NEW t \in Threads, NEW code, Reply(t, code)
      PROVE  RouteInv'
  <2> DEFINE w0 == worker[t]
             w == Answered(w0.request, code, w0.entry)
  <2>1. Serves(w0.entry, w0.request)
    BY <1>6 DEF Reply, RouteInv, ServesWell
  <2>2. ServesWell(w)
    BY <2>1 DEF ServesWell, Answered
  <2>3. UNCHANGED <<handlers, bound>> /\ worker' = [worker EXCEPT ![t] = w]
    BY <1>6 DEF Reply, trieVars
  <2> HIDE DEF w0, w
  <2> QED BY <1>1, <2>2, <2>3, OneWorkerServes
<1>7. ASSUME NEW t \in Threads, Return(t)
      PROVE  RouteInv'
  <2> DEFINE w == [stage |-> "idle"]
  <2>1. UNCHANGED <<handlers, bound>> /\ worker' = [worker EXCEPT ![t] = w] /\ ServesWell(w)
    BY <1>7 DEF Return, trieVars, ServesWell
  <2> HIDE DEF w
  <2> QED BY <1>1, <2>1, OneWorkerServes
<1>8. ASSUME NEW t \in Threads, Handler(t)
      PROVE  RouteInv'
  BY <1>6, <1>8 DEF Handler
<1>9. CASE StartServing \/ (\E c \in Controllers : RegisterRoutes(c) \/ Release(c))
  BY <1>3, <1>9 DEF StartServing, RegisterRoutes, Release, trieVars
<1>10. CASE UNCHANGED routerVars
  BY <1>3, <1>10 DEF routerVars, trieVars
<1> QED BY <1>2, <1>4, <1>5, <1>7, <1>8, <1>9, <1>10 DEF RouterNext

LEMMA InitRouteInv == RouterInit => RouteInv
BY DEF RouterInit, TrieInit, RouteInv, BoundToItsRoute, ServesWell

\* A request is answered by a handler that was registered for its method and for a
\* path that it matches in every segment, whatever was registered twice, replaced,
\* rejected or left half registered before (Router.cpp:25-34).
THEOREM AnsweredByOwnRoute == RouterSpec => []AnsweredByItsRoute
<1>1. RouterSpec => []RouteInv
  BY InitRouteInv, NextRouteInv, RouterInvariant, RouterUsesTrie, TrieInvariant, PTL
     DEF RouterSpec
<1>2. RouteInv => AnsweredByItsRoute
  BY DEF RouteInv, ServesWell, AnsweredByItsRoute, Serves
<1> QED BY <1>1, <1>2, PTL
=============================================================================
