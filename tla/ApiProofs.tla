------------------------------ MODULE ApiProofs ------------------------------
(***************************************************************************)
(* Theorems about the API of CreateOrdersService, for any widths of the    *)
(* integers, any threads and any requests.                                 *)
(***************************************************************************)
EXTENDS OrdersApi, ValueText, RouterProofs

-----------------------------------------------------------------------------
(* The routes of OrdersController. *)

OrdersEdge == Static(Text("orders"))
AllEdge == Static(Text("remove_all"))
IdEdge == Param("order_id", "int")
NameEdge == Static(Text("name"))
RestEdge == Param("random_string", "string")

\* WithBase puts the base in front of each path.
LEMMA BaseFirst ==
    ASSUME NEW base, NEW routes, NEW i \in DOMAIN routes, NEW method, NEW path, NEW handler,
           routes[i] = Route(method, path, handler)
    PROVE  WithBase(base, routes)[i] = Route(method, base \o path, handler)
<1> DEFINE all == base \o path
           r == [method |-> method, path |-> path, handler |-> handler]
<1>1. WithBase(base, routes)[i] = [routes[i] EXCEPT !.path = base \o @]
  BY DEF WithBase
<1>2. routes[i] = r
  BY DEF Route
<1>3. [r EXCEPT !.path = base \o @] = [r EXCEPT !.path = all]
  OBVIOUS
<1> HIDE DEF all
<1>4. [r EXCEPT !.path = all] = [method |-> method, path |-> all, handler |-> handler]
  OBVIOUS
<1> HIDE DEF r
<1>5. WithBase(base, routes)[i] = [r EXCEPT !.path = base \o @]
  BY <1>1, <1>2, Zenon
<1> QED BY <1>3, <1>4, <1>5, Zenon DEF Route, all

\* A sequence of one element in front of another.
LEMMA InFront ==
    ASSUME NEW S, NEW a \in S, NEW v \in Seq(S), NEW w \in Seq(S),
           Len(w) = Len(v) + 1, w[1] = a, \A i \in 1..Len(v) : w[1 + i] = v[i]
    PROVE  <<a>> \o v = w
<1> DEFINE u == <<a>>
           j == u \o v
<1>0. PICK n \in Nat : n = Len(v)
  OBVIOUS
<1>1. u \in Seq(S) /\ Len(u) = 1 /\ u[1] = a
  OBVIOUS
<1> HIDE DEF u
<1>2. /\ j \in Seq(S) /\ Len(j) = Len(u) + Len(v)
      /\ \A i \in 1..Len(u) + Len(v) : j[i] = IF i <= Len(u) THEN u[i] ELSE v[i - Len(u)]
  BY <1>1, ConcatProperties
<1> HIDE DEF j
<1>3. Len(j) = n + 1 /\ j[1] = a /\ \A i \in 1..n : j[1 + i] = v[i]
  BY <1>0, <1>1, <1>2
<1>4. ASSUME NEW i \in 1..(n + 1)
      PROVE  j[i] = w[i]
  <2>1. CASE i = 1
    BY <1>3, <2>1
  <2>2. CASE i # 1
    <3>1. i - 1 \in 1..n /\ i = 1 + (i - 1)
      BY <2>2
    <3> QED BY <1>0, <1>3, <3>1
  <2> QED BY <2>1, <2>2
<1>5. j = w
  BY <1>0, <1>2, <1>3, <1>4, SeqEqual
<1> QED BY <1>5 DEF u, j

\* The paths of the routes, which WithBase puts together.
LEMMA OrdersPaths ==
    /\ <<OrdersEdge>> \o <<AllEdge>> = <<OrdersEdge, AllEdge>>
    /\ <<OrdersEdge>> \o <<IdEdge>> = <<OrdersEdge, IdEdge>>
    /\ <<OrdersEdge>> \o <<IdEdge, NameEdge>> = <<OrdersEdge, IdEdge, NameEdge>>
    /\ <<OrdersEdge>> \o <<IdEdge, NameEdge, RestEdge>>
           = <<OrdersEdge, IdEdge, NameEdge, RestEdge>>
<1> DEFINE S == {OrdersEdge, AllEdge, IdEdge, NameEdge, RestEdge}
<1>0. OrdersEdge \in S
  OBVIOUS
<1>1. ASSUME NEW e \in S
      PROVE  <<OrdersEdge>> \o <<e>> = <<OrdersEdge, e>>
  <2> DEFINE v == <<e>>
             w == <<OrdersEdge, e>>
  <2>1. /\ v \in Seq(S)
        /\ w \in Seq(S) /\ Len(w) = Len(v) + 1
        /\ w[1] = OrdersEdge /\ \A i \in 1..Len(v) : w[1 + i] = v[i]
    OBVIOUS
  <2> HIDE DEF v, w, S
  <2>2. <<OrdersEdge>> \o v = w
    BY <1>0, <2>1, InFront
  <2> QED BY <2>2 DEF v, w
<1>2. <<OrdersEdge>> \o <<IdEdge, NameEdge>> = <<OrdersEdge, IdEdge, NameEdge>>
  <2> DEFINE v == <<IdEdge, NameEdge>>
             w == <<OrdersEdge, IdEdge, NameEdge>>
  <2>1. /\ v \in Seq(S)
        /\ w \in Seq(S) /\ Len(w) = Len(v) + 1
        /\ w[1] = OrdersEdge /\ \A i \in 1..Len(v) : w[1 + i] = v[i]
    OBVIOUS
  <2> HIDE DEF v, w, S
  <2>2. <<OrdersEdge>> \o v = w
    BY <1>0, <2>1, InFront
  <2> QED BY <2>2 DEF v, w
<1>3. <<OrdersEdge>> \o <<IdEdge, NameEdge, RestEdge>>
          = <<OrdersEdge, IdEdge, NameEdge, RestEdge>>
  <2> DEFINE v == <<IdEdge, NameEdge, RestEdge>>
             w == <<OrdersEdge, IdEdge, NameEdge, RestEdge>>
  <2>1. /\ v \in Seq(S)
        /\ w \in Seq(S) /\ Len(w) = Len(v) + 1
        /\ w[1] = OrdersEdge /\ \A i \in 1..Len(v) : w[1 + i] = v[i]
    OBVIOUS
  <2> HIDE DEF v, w, S
  <2>2. <<OrdersEdge>> \o v = w
    BY <1>0, <2>1, InFront
  <2> QED BY <2>2 DEF v, w
<1> QED BY <1>1, <1>2, <1>3

LEMMA RouteTable ==
    /\ DOMAIN OrdersRoutes = 1..8
    /\ OrdersRoutes[1] = Route("get", <<OrdersEdge>>, "List")
    /\ OrdersRoutes[2] = Route("post", <<OrdersEdge, AllEdge>>, "RemoveAll")
    /\ OrdersRoutes[3] = Route("get", <<OrdersEdge, IdEdge>>, "GetById")
    /\ OrdersRoutes[4] = Route("put", <<OrdersEdge, IdEdge>>, "Update")
    /\ OrdersRoutes[5] = Route("delete", <<OrdersEdge, IdEdge>>, "Delete")
    /\ OrdersRoutes[6] = Route("get", <<OrdersEdge, IdEdge, NameEdge>>, "GetOrderName")
    /\ OrdersRoutes[7] = Route("put", <<OrdersEdge, IdEdge, NameEdge>>, "UpdateOrderName")
    /\ OrdersRoutes[8] = Route("put", <<OrdersEdge, IdEdge, NameEdge, RestEdge>>, "TestMethod")
<1> DEFINE none == << >>
           base == <<OrdersEdge>>
           routes == << Route("get", none, "List"),
                        Route("post", <<AllEdge>>, "RemoveAll"),
                        Route("get", <<IdEdge>>, "GetById"),
                        Route("put", <<IdEdge>>, "Update"),
                        Route("delete", <<IdEdge>>, "Delete"),
                        Route("get", <<IdEdge, NameEdge>>, "GetOrderName"),
                        Route("put", <<IdEdge, NameEdge>>, "UpdateOrderName"),
                        Route("put", <<IdEdge, NameEdge, RestEdge>>, "TestMethod") >>
<1>1. OrdersRoutes = WithBase(base, routes)
  BY DEF OrdersRoutes, OrdersEdge, AllEdge, IdEdge, NameEdge, RestEdge
<1> HIDE DEF none
<1>2. /\ DOMAIN routes = 1..8
      /\ routes[1] = Route("get", none, "List")
      /\ routes[2] = Route("post", <<AllEdge>>, "RemoveAll")
      /\ routes[3] = Route("get", <<IdEdge>>, "GetById")
      /\ routes[4] = Route("put", <<IdEdge>>, "Update")
      /\ routes[5] = Route("delete", <<IdEdge>>, "Delete")
      /\ routes[6] = Route("get", <<IdEdge, NameEdge>>, "GetOrderName")
      /\ routes[7] = Route("put", <<IdEdge, NameEdge>>, "UpdateOrderName")
      /\ routes[8] = Route("put", <<IdEdge, NameEdge, RestEdge>>, "TestMethod")
  OBVIOUS
<1>3. DOMAIN WithBase(base, routes) = 1..8
  BY <1>2 DEF WithBase
<1> HIDE DEF routes
<1>4. \A i \in 1..8 : i \in DOMAIN routes
  BY <1>2
<1> HIDE DEF base
<1>5. ASSUME NEW i \in 1..8, NEW method, NEW path, NEW handler,
             routes[i] = Route(method, path, handler)
      PROVE  OrdersRoutes[i] = Route(method, base \o path, handler)
  <2>1. WithBase(base, routes)[i] = Route(method, base \o path, handler)
    BY <1>4, <1>5, BaseFirst
  <2> QED BY <1>1, <2>1
<1>11. OrdersRoutes[1] = Route("get", base \o none, "List")
  BY <1>2, <1>5
<1>12. OrdersRoutes[2] = Route("post", base \o <<AllEdge>>, "RemoveAll")
  BY <1>2, <1>5
<1>13. OrdersRoutes[3] = Route("get", base \o <<IdEdge>>, "GetById")
  BY <1>2, <1>5
<1>14. OrdersRoutes[4] = Route("put", base \o <<IdEdge>>, "Update")
  BY <1>2, <1>5
<1>15. OrdersRoutes[5] = Route("delete", base \o <<IdEdge>>, "Delete")
  BY <1>2, <1>5
<1>16. OrdersRoutes[6] = Route("get", base \o <<IdEdge, NameEdge>>, "GetOrderName")
  BY <1>2, <1>5
<1>17. OrdersRoutes[7] = Route("put", base \o <<IdEdge, NameEdge>>, "UpdateOrderName")
  BY <1>2, <1>5
<1>18. OrdersRoutes[8] = Route("put", base \o <<IdEdge, NameEdge, RestEdge>>, "TestMethod")
  BY <1>2, <1>5
<1>6. base \o none = <<OrdersEdge>>
  BY DEF base, none
<1>7. /\ base \o <<AllEdge>> = <<OrdersEdge, AllEdge>>
      /\ base \o <<IdEdge>> = <<OrdersEdge, IdEdge>>
      /\ base \o <<IdEdge, NameEdge>> = <<OrdersEdge, IdEdge, NameEdge>>
      /\ base \o <<IdEdge, NameEdge, RestEdge>> = <<OrdersEdge, IdEdge, NameEdge, RestEdge>>
  BY OrdersPaths DEF base
<1>9. DOMAIN OrdersRoutes = 1..8
  BY <1>1, <1>3
<1> QED BY <1>6, <1>7, <1>9, <1>11, <1>12, <1>13, <1>14, <1>15, <1>16, <1>17, <1>18

\* Where the segments of a path are.
LEMMA RouteShapes ==
    \A i \in 1..8 :
        LET path == OrdersRoutes[i].path
        IN  /\ path \in Seq({OrdersEdge, AllEdge, IdEdge, NameEdge, RestEdge})
            /\ Len(path) = IF i = 1 THEN 1
                           ELSE IF i <= 5 THEN 2 ELSE IF i <= 7 THEN 3 ELSE 4
            /\ path[1] = OrdersEdge
            /\ i \in 3..8 => path[2] = IdEdge
            /\ i = 2 => path[2] = AllEdge
            /\ i \in 6..8 => path[3] = NameEdge
            /\ i = 8 => path[4] = RestEdge
<1> DEFINE S == {OrdersEdge, AllEdge, IdEdge, NameEdge, RestEdge}
           p1 == <<OrdersEdge>>
           pa == <<OrdersEdge, AllEdge>>
           p2 == <<OrdersEdge, IdEdge>>
           p3 == <<OrdersEdge, IdEdge, NameEdge>>
           p4 == <<OrdersEdge, IdEdge, NameEdge, RestEdge>>
<1>1. p1 \in Seq(S) /\ Len(p1) = 1 /\ p1[1] = OrdersEdge
  OBVIOUS
<1>2. pa \in Seq(S) /\ Len(pa) = 2 /\ pa[1] = OrdersEdge /\ pa[2] = AllEdge
  OBVIOUS
<1>3. p2 \in Seq(S) /\ Len(p2) = 2 /\ p2[1] = OrdersEdge /\ p2[2] = IdEdge
  OBVIOUS
<1>4. /\ p3 \in Seq(S) /\ Len(p3) = 3
      /\ p3[1] = OrdersEdge /\ p3[2] = IdEdge /\ p3[3] = NameEdge
  OBVIOUS
<1>5. /\ p4 \in Seq(S) /\ Len(p4) = 4
      /\ p4[1] = OrdersEdge /\ p4[2] = IdEdge /\ p4[3] = NameEdge /\ p4[4] = RestEdge
  OBVIOUS
<1>6. /\ OrdersRoutes[1].path = p1 /\ OrdersRoutes[2].path = pa
      /\ OrdersRoutes[3].path = p2 /\ OrdersRoutes[4].path = p2 /\ OrdersRoutes[5].path = p2
      /\ OrdersRoutes[6].path = p3 /\ OrdersRoutes[7].path = p3 /\ OrdersRoutes[8].path = p4
  BY RouteTable DEF Route
<1> HIDE DEF S, p1, pa, p2, p3, p4
<1> SUFFICES ASSUME NEW i \in 1..8
             PROVE  LET path == OrdersRoutes[i].path
                    IN  /\ path \in Seq(S)
                        /\ Len(path) = IF i = 1 THEN 1
                                       ELSE IF i <= 5 THEN 2 ELSE IF i <= 7 THEN 3 ELSE 4
                        /\ path[1] = OrdersEdge
                        /\ i \in 3..8 => path[2] = IdEdge
                        /\ i = 2 => path[2] = AllEdge
                        /\ i \in 6..8 => path[3] = NameEdge
                        /\ i = 8 => path[4] = RestEdge
  BY DEF S
<1>7. CASE i = 1
  BY <1>1, <1>6, <1>7
<1>8. CASE i = 2
  BY <1>2, <1>6, <1>8
<1>9. CASE i \in 3..5
  <2>1. OrdersRoutes[i].path = p2
    BY <1>6, <1>9
  <2> QED BY <1>3, <1>9, <2>1
<1>10. CASE i \in 6..7
  <2>1. OrdersRoutes[i].path = p3
    BY <1>6, <1>10
  <2> QED BY <1>4, <1>10, <2>1
<1>11. CASE i = 8
  BY <1>5, <1>6, <1>11
<1> QED BY <1>7, <1>8, <1>9, <1>10, <1>11

LEMMA SegmentAt ==
    ASSUME NEW i \in 1..8, NEW k \in 1..Len(OrdersRoutes[i].path)
    PROVE  LET e == OrdersRoutes[i].path[k]
           IN  \/ k = 1 /\ e = OrdersEdge
               \/ k = 2 /\ e \in {AllEdge, IdEdge}
               \/ k = 3 /\ e = NameEdge
               \/ k = 4 /\ e = RestEdge
<1> DEFINE p == OrdersRoutes[i].path
<1>1. /\ Len(p) = IF i = 1 THEN 1
                  ELSE IF i <= 5 THEN 2 ELSE IF i <= 7 THEN 3 ELSE 4
      /\ p[1] = OrdersEdge
      /\ i \in 3..8 => p[2] = IdEdge
      /\ i = 2 => p[2] = AllEdge
      /\ i \in 6..8 => p[3] = NameEdge
      /\ i = 8 => p[4] = RestEdge
  BY RouteShapes
<1> HIDE DEF p
<1>2. k \in 1..Len(p)
  BY DEF p
<1>3. \/ k = 1
      \/ k = 2 /\ i \in 2..8
      \/ k = 3 /\ i \in 6..8
      \/ k = 4 /\ i = 8
  BY <1>1, <1>2
<1>4. CASE k = 2 /\ i \in 2..8
  <2>1. i = 2 \/ i \in 3..8
    BY <1>4
  <2> QED BY <1>1, <1>4, <2>1 DEF p
<1>5. k = 1 => p[k] = OrdersEdge
  BY <1>1
<1>6. k = 3 /\ i \in 6..8 => p[k] = NameEdge
  BY <1>1
<1>7. k = 4 /\ i = 8 => p[k] = RestEdge
  BY <1>1
<1> QED BY <1>3, <1>4, <1>5, <1>6, <1>7 DEF p

\* A route that a request may be for.
Routed(i, request) ==
    /\ request.method = OrdersRoutes[i].method
    /\ Matches(OrdersRoutes[i].path, request.path)

\* Routes of one method differ in length.
LEMMA RoutesDiffer ==
    ASSUME NEW i \in 1..8, NEW j \in 1..8,
           OrdersRoutes[i].method = OrdersRoutes[j].method,
           Len(OrdersRoutes[i].path) = Len(OrdersRoutes[j].path)
    PROVE  i = j
<1>1. /\ OrdersRoutes[1].method = "get" /\ OrdersRoutes[2].method = "post"
      /\ OrdersRoutes[3].method = "get" /\ OrdersRoutes[4].method = "put"
      /\ OrdersRoutes[5].method = "delete" /\ OrdersRoutes[6].method = "get"
      /\ OrdersRoutes[7].method = "put" /\ OrdersRoutes[8].method = "put"
  BY RouteTable DEF Route
<1> DEFINE L(k) == Len(OrdersRoutes[k].path)
<1>2. L(1) = 1 /\ L(3) = 2 /\ L(4) = 2 /\ L(6) = 3 /\ L(7) = 3 /\ L(8) = 4
  BY RouteShapes
<1>3. L(i) = L(j)
  OBVIOUS
<1> HIDE DEF L
<1>4. /\ i \in {1, 3, 6} /\ j \in {1, 3, 6} => i = j
      /\ i \in {4, 7, 8} /\ j \in {4, 7, 8} => i = j
  BY <1>2, <1>3
<1>5. \A k \in 1..8 : k \in {1, 3, 6} \/ k = 2 \/ k = 5 \/ k \in {4, 7, 8}
  OBVIOUS
<1> QED BY <1>1, <1>4, <1>5

LEMMA RoutedOnce ==
    ASSUME NEW request, NEW i \in 1..8, NEW j \in 1..8, Routed(i, request), Routed(j, request)
    PROVE  i = j
BY RoutesDiffer DEF Routed, Matches

-----------------------------------------------------------------------------
(* Words. *)

\* What the table takes for an integer is the text of an int64_t.
LEMMA IntWordIsNumber ==
    ASSUME NEW word \in IntWords
    PROVE  \E n \in Signed(Int64Bits) : word = Number(n)
<1>1. word \in Words /\ MatchInt(word)
  BY MatchersAssumption
<1>2. IsNumber(word) /\ word.number \in Signed(Int64Bits)
  BY <1>1 DEF MatchInt, TryParse
<1>3. word = Number(word.number)
  <2>1. CASE word \in [number : Int]
    BY <2>1 DEF Number
  <2>2. CASE word \in [text : STRING]
    BY <1>2, <2>2 DEF IsNumber
  <2> QED BY <1>1, <2>1, <2>2, SpellingAssumption
<1> QED BY <1>2, <1>3

LEMMA TextIsNoInt ==
    ASSUME NEW t
    PROVE  Text(t) \notin IntWords
<1>1. ~IsNumber(Text(t))
  BY DEF IsNumber, Text
<1>2. ~MatchInt(Text(t))
  BY <1>1 DEF MatchInt, TryParse
<1> QED BY <1>2, MatchersAssumption

\* An integer that is a word is one the table takes for an integer.
LEMMA NumberIsInt ==
    ASSUME NEW n \in Signed(Int64Bits), Number(n) \in Words
    PROVE  Number(n) \in IntWords
<1>1. IsNumber(Number(n)) /\ Number(n).number = n
  BY DEF IsNumber, Number
<1>2. MatchInt(Number(n))
  BY <1>1 DEF MatchInt, TryParse
<1> QED BY <1>2, MatchersAssumption

-----------------------------------------------------------------------------
(* Lookups in the table of the service. *)

Key(i) == <<OrdersRoutes[i].path, OrdersRoutes[i].method>>

\* All routes are in the table, and nothing else.
Complete == ~rejected /\ handlers = {Key(i) : i \in 1..8}

LEMMA KeysDiffer ==
    ASSUME NEW i \in 1..8, NEW j \in 1..8, Key(i) = Key(j)
    PROVE  i = j
BY RoutesDiffer DEF Key

LEMMA PathOfRoute ==
    ASSUME NEW i \in 1..8
    PROVE  /\ OrdersRoutes[i].path \in Seq({OrdersEdge, AllEdge, IdEdge, NameEdge, RestEdge})
           /\ Len(OrdersRoutes[i].path) \in 1..4
<1> DEFINE path == OrdersRoutes[i].path
           T == {OrdersEdge, AllEdge, IdEdge, NameEdge, RestEdge}
<1>1. path \in Seq(T) /\ Len(path) = IF i = 1 THEN 1
                                     ELSE IF i <= 5 THEN 2 ELSE IF i <= 7 THEN 3 ELSE 4
  BY RouteShapes
<1> HIDE DEF path, T
<1>2. Len(path) \in 1..4
  BY <1>1
<1> QED BY <1>1, <1>2 DEF path, T

\* A node of the table leads along a route.
LEMMA NodesOfRoutes ==
    ASSUME Complete, RoutesMakeNodes, NEW node \in nodes, node # << >>
    PROVE  \E j \in 1..8 : \E k \in 1..Len(OrdersRoutes[j].path) :
               node = Prefix(OrdersRoutes[j].path, k)
<1>1. nodes = {<< >>} \cup UNION {{Prefix(r[1], k) : k \in 0..Len(r[1])} : r \in handlers}
  BY DEF RoutesMakeNodes, Complete
<1>2. PICK r \in handlers : \E k \in 0..Len(r[1]) : node = Prefix(r[1], k)
  BY <1>1
<1>3. PICK k \in 0..Len(r[1]) : node = Prefix(r[1], k)
  BY <1>2
<1>4. PICK j \in 1..8 : r[1] = OrdersRoutes[j].path
  BY <1>2 DEF Complete, Key
<1>5. PICK L \in 1..4 : L = Len(OrdersRoutes[j].path)
  BY RouteShapes
<1>6. k # 0
  <2>1. r[1] \in Seq({OrdersEdge, AllEdge, IdEdge, NameEdge, RestEdge})
    BY <1>4, PathOfRoute
  <2>2. Prefix(r[1], 0) = << >>
    BY <2>1, PrefixEnds
  <2> QED BY <1>3, <2>2
<1> QED BY <1>3, <1>4, <1>5, <1>6

\* An edge that leaves a prefix of a route is an edge of some route at the same
\* place.
LEMMA EdgesOfRoutes ==
    ASSUME Complete, RoutesMakeNodes, NodesAreEdges, NEW i \in 1..8,
           NEW k \in 1..Len(OrdersRoutes[i].path),
           NEW e \in Children(Prefix(OrdersRoutes[i].path, k - 1), Edges)
    PROVE  \E j \in 1..8 : k <= Len(OrdersRoutes[j].path) /\ e = OrdersRoutes[j].path[k]
<1> DEFINE T == {OrdersEdge, AllEdge, IdEdge, NameEdge, RestEdge}
           U == T \cup Edges
           p == OrdersRoutes[i].path
           parent == Prefix(p, k - 1)
           child == Append(parent, e)
<1>1. p \in Seq(T) /\ Len(p) \in 1..4
  BY PathOfRoute
<1>2. parent \in Seq(T) /\ Len(parent) = k - 1
  BY <1>1, PrefixFacts
<1>3. parent \in Seq(U) /\ e \in U /\ child \in nodes
  BY <1>2 DEF Children
<1> HIDE DEF T, p, parent
<1>4. Len(child) = k /\ child[k] = e
  <2>1. k \in 1..Len(p)
    BY DEF p
  <2> HIDE DEF U
  <2> QED BY <1>1, <1>2, <1>3, <2>1, AppendInverse
<1> HIDE DEF child
<1>5. child # << >>
  BY <1>1, <1>4 DEF p
<1>6. PICK j \in 1..8 : \E m \in 1..Len(OrdersRoutes[j].path) :
          child = Prefix(OrdersRoutes[j].path, m)
  BY <1>3, <1>5, NodesOfRoutes
<1>7. PICK m \in 1..Len(OrdersRoutes[j].path) : child = Prefix(OrdersRoutes[j].path, m)
  BY <1>6
<1> DEFINE q == OrdersRoutes[j].path
<1>8. q \in Seq(T) /\ Len(q) \in Nat
  <2>1. q \in Seq({OrdersEdge, AllEdge, IdEdge, NameEdge, RestEdge})
    BY RouteShapes
  <2>2. q \in Seq(T)
    BY <2>1 DEF T
  <2> HIDE DEF q
  <2> QED BY <2>2
<1>9. m \in 0..Len(q) /\ m \in 1..Len(q)
  BY <1>7, <1>8
<1> HIDE DEF q
<1>10. Len(child) = m /\ child[m] = q[m]
  <2>1. Len(Prefix(q, m)) = m /\ \A x \in 1..m : Prefix(q, m)[x] = q[x]
    BY <1>8, <1>9, PrefixFacts
  <2> QED BY <1>7, <1>8, <1>9, <2>1 DEF q
<1> QED BY <1>4, <1>9, <1>10 DEF q

\* No route is shadowed on a path that it matches: beside an id there is only a
\* word that is no integer.
LEMMA NothingShadows ==
    ASSUME Complete, RoutesMakeNodes, NodesAreEdges, NEW i \in 1..8, NEW path \in Seq(Words),
           Matches(OrdersRoutes[i].path, path)
    PROVE  ~Shadowed(OrdersRoutes[i].path, path)
<1> DEFINE p == OrdersRoutes[i].path
<1>1. SUFFICES ASSUME NEW k \in DOMAIN path, NEW e \in Children(Prefix(p, k - 1), Edges),
                      Rank(e) > Rank(p[k]),
                      IF e.kind = "static" THEN e.word = path[k] ELSE Matcher(e.type, path[k])
               PROVE  FALSE
  BY DEF Shadowed, Fits
<1>2. Len(p) = Len(path) /\ k \in 1..Len(p)
  BY DEF Matches
<1>3. PICK j \in 1..8 : k <= Len(OrdersRoutes[j].path) /\ e = OrdersRoutes[j].path[k]
  BY <1>2, EdgesOfRoutes
<1>4. /\ OrdersEdge.kind = "static" /\ AllEdge.kind = "static" /\ NameEdge.kind = "static"
      /\ IdEdge.kind = "param" /\ IdEdge.type = "int"
      /\ AllEdge.word = Text("remove_all")
  BY DEF OrdersEdge, AllEdge, NameEdge, IdEdge, Static, Param
<1>5. /\ Rank(OrdersEdge) = 5 /\ Rank(AllEdge) = 5 /\ Rank(NameEdge) = 5 /\ Rank(IdEdge) = 4
  BY <1>4 DEF Rank, Priority
<1>6. k \in 1..Len(OrdersRoutes[j].path)
  BY <1>2, <1>3
<1>7. \/ k = 1 /\ p[k] = OrdersEdge /\ e = OrdersEdge
      \/ k = 2 /\ p[k] \in {AllEdge, IdEdge} /\ e \in {AllEdge, IdEdge}
      \/ k = 3 /\ p[k] = NameEdge /\ e = NameEdge
      \/ k = 4 /\ p[k] = RestEdge /\ e = RestEdge
  <2>1. LET f == OrdersRoutes[j].path[k]
        IN  \/ k = 1 /\ f = OrdersEdge
            \/ k = 2 /\ f \in {AllEdge, IdEdge}
            \/ k = 3 /\ f = NameEdge
            \/ k = 4 /\ f = RestEdge
    BY <1>6, SegmentAt
  <2>2. \/ k = 1 /\ p[k] = OrdersEdge
        \/ k = 2 /\ p[k] \in {AllEdge, IdEdge}
        \/ k = 3 /\ p[k] = NameEdge
        \/ k = 4 /\ p[k] = RestEdge
    BY <1>2, SegmentAt
  <2> QED BY <1>3, <2>1, <2>2
<1>8. CASE k = 2 /\ p[k] \in {AllEdge, IdEdge} /\ e \in {AllEdge, IdEdge}
  <2>1. p[k] = IdEdge /\ e = AllEdge
    BY <1>1, <1>5, <1>8
  <2>2. path[k] = Text("remove_all")
    BY <1>1, <1>4, <2>1
  <2>3. Matcher("int", path[k])
    BY <1>4, <2>1 DEF Matches, Fits
  <2>4. path[k] \in IntWords
    BY <2>3 DEF Matcher
  <2> QED BY <2>2, <2>4, TextIsNoInt
<1>9. Rank(RestEdge) = 0
  BY DEF Rank, Priority, RestEdge, Param
<1> QED BY <1>1, <1>5, <1>7, <1>8, <1>9

LEMMA ServiceFacts ==
    /\ \A c \in Controllers : Controllers = {c} /\ Routes[c] = OrdersRoutes
    /\ \E c \in Controllers : TRUE
BY ServiceAssumption

LEMMA RouteTypes ==
    ASSUME NEW i \in 1..8
    PROVE  OrdersRoutes[i].method \in Methods /\ OrdersRoutes[i].path \in Seq(Segments)
<1>1. PICK c \in Controllers : Routes[c] = OrdersRoutes
  BY ServiceFacts
<1>2. i \in DOMAIN Routes[c]
  BY <1>1, RouteTable
<1> DEFINE r == [controller |-> c, route |-> Routes[c][i]]
<1>3. r \in Registrations
  BY <1>2 DEF Registrations
<1>4. r.route = OrdersRoutes[i]
  BY <1>1
<1> HIDE DEF r
<1>5. r.route.method \in Methods /\ r.route.path \in Patterns
  BY <1>3, RegistrationFacts
<1> QED BY <1>4, <1>5, PatternsAssumption

\* A lookup in the complete table finds the route that matches, if there is one.
LEMMA LookupsAreRoutes ==
    ASSUME TrieInv, Complete, NEW request \in Requests
    PROVE  /\ \A i \in 1..8 : Routed(i, request) =>
                  FindRoute(request.method, request.path) = {OrdersRoutes[i].path}
           /\ \A node \in FindRoute(request.method, request.path) :
                  \E i \in 1..8 : Routed(i, request) /\ node = OrdersRoutes[i].path
<1> DEFINE found == FindRoute(request.method, request.path)
<1>1. request.path \in Paths /\ request.path \in Seq(Words)
  BY RequestsAssumption, PathsAssumption
<1>2. RoutesMakeNodes /\ NodesAreEdges /\ LookupIsExact
  BY InvImpliesExact DEF TrieInv
<1>3. request.method \in Methods =>
          found = {r[1] : r \in {q \in handlers : /\ q[2] = request.method
                                                  /\ Matches(q[1], request.path)
                                                  /\ ~Shadowed(q[1], request.path)}}
  BY <1>1, <1>2 DEF LookupIsExact
<1>4. ASSUME NEW node \in found
      PROVE  \E i \in 1..8 : Routed(i, request) /\ node = OrdersRoutes[i].path
  <2>1. <<node, request.method>> \in handlers
    BY DEF FindRoute
  <2>2. PICK j \in 1..8 : <<node, request.method>> = Key(j)
    BY <2>1 DEF Complete
  <2>3. node = OrdersRoutes[j].path /\ request.method = OrdersRoutes[j].method
    BY <2>2 DEF Key
  <2>4. request.method \in Methods
    BY <2>3, RouteTypes
  <2> HIDE DEF found
  <2>5. Matches(node, request.path)
    BY <1>3, <2>4
  <2> QED BY <2>3, <2>5 DEF Routed
<1>5. ASSUME NEW i \in 1..8, Routed(i, request)
      PROVE  OrdersRoutes[i].path \in found
  <2>1. request.method = OrdersRoutes[i].method /\ request.method \in Methods
    BY <1>5, RouteTypes DEF Routed
  <2>2. Matches(OrdersRoutes[i].path, request.path)
    BY <1>5 DEF Routed
  <2>3. ~Shadowed(OrdersRoutes[i].path, request.path)
    BY <1>1, <1>2, <2>2, NothingShadows
  <2>4. Key(i) \in handlers /\ Key(i)[1] = OrdersRoutes[i].path /\ Key(i)[2] = request.method
    BY <2>1 DEF Complete, Key
  <2> HIDE DEF found
  <2> QED BY <1>3, <2>1, <2>2, <2>3, <2>4
<1> HIDE DEF found
<1>6. ASSUME NEW i \in 1..8, Routed(i, request)
      PROVE  found = {OrdersRoutes[i].path}
  <2>1. \A node \in found : node = OrdersRoutes[i].path
    BY <1>4, <1>6, RoutedOnce
  <2> QED BY <1>5, <1>6, <2>1
<1> QED BY <1>4, <1>6 DEF found

-----------------------------------------------------------------------------
(* The parameters of a path. *)

LEMMA ParameterNames == "order_id" \in Names /\ "random_string" \in Names
<1>1. IdEdge \in Segments /\ RestEdge \in Segments
  <2> DEFINE p == OrdersRoutes[8].path
  <2>1. /\ p \in Seq(Segments) /\ Len(p) = 4 /\ p[2] = IdEdge /\ p[4] = RestEdge
    BY RouteShapes, RouteTypes
  <2> HIDE DEF p
  <2> QED BY <2>1
<1>2. \A e \in Segments : e.kind = "param" => e.name \in Names
  BY DEF Segments, Edges, StaticEdges, ParamEdges, Static, Param
<1>3. /\ IdEdge.kind = "param" /\ IdEdge.name = "order_id"
      /\ RestEdge.kind = "param" /\ RestEdge.name = "random_string"
  BY DEF IdEdge, RestEdge, Param
<1> QED BY <1>1, <1>2, <1>3

\* A name that is on the route once has the word at its place.
LEMMA OneParameter ==
    ASSUME NEW node, NEW path, NEW name \in Names, NEW k \in Nat,
           {j \in DOMAIN node : node[j].kind = "param" /\ node[j].name = name} = {k}
    PROVE  /\ name \in DOMAIN PathParams(node, path)
           /\ PathParams(node, path)[name] = path[k]
<1> DEFINE positions(n) == {j \in DOMAIN node : node[j].kind = "param" /\ node[j].name = n}
           last(n) == CHOOSE j \in positions(n) : \A i \in positions(n) : i <= j
<1>1. PathParams(node, path) = [n \in {n \in Names : positions(n) # {}} |-> path[last(n)]]
  BY DEF PathParams
<1>2. positions(name) = {k}
  OBVIOUS
<1> HIDE DEF positions
<1> QED BY <1>1, <1>2

LEMMA RouteParameters ==
    ASSUME NEW i \in 1..8, NEW path
    PROVE  LET params == PathParams(OrdersRoutes[i].path, path)
           IN  /\ i \in 3..8 => /\ "order_id" \in DOMAIN params
                                /\ params["order_id"] = path[2]
               /\ i = 8 => /\ "random_string" \in DOMAIN params
                           /\ params["random_string"] = path[4]
<1> DEFINE p == OrdersRoutes[i].path
           places(name) == {j \in DOMAIN p : p[j].kind = "param" /\ p[j].name = name}
<1>1. /\ OrdersEdge.kind = "static" /\ AllEdge.kind = "static" /\ NameEdge.kind = "static"
      /\ IdEdge.kind = "param" /\ IdEdge.name = "order_id"
      /\ RestEdge.kind = "param" /\ RestEdge.name = "random_string"
  BY DEF OrdersEdge, AllEdge, NameEdge, IdEdge, RestEdge, Static, Param
<1>2. DOMAIN p = 1..Len(p)
  BY RouteShapes
<1>3. \A j \in 1..Len(p) : \/ j = 1 /\ p[j] = OrdersEdge
                           \/ j = 2 /\ p[j] \in {AllEdge, IdEdge}
                           \/ j = 3 /\ p[j] = NameEdge
                           \/ j = 4 /\ p[j] = RestEdge
  BY SegmentAt
<1>4. ASSUME i \in 3..8
      PROVE  places("order_id") = {2}
  <2>1. /\ Len(p) = IF i = 1 THEN 1 ELSE IF i <= 5 THEN 2 ELSE IF i <= 7 THEN 3 ELSE 4
        /\ p[2] = IdEdge
    BY <1>4, RouteShapes
  <2> HIDE DEF p
  <2>2. 2 \in 1..Len(p)
    BY <1>4, <2>1
  <2> QED BY <1>1, <1>2, <1>3, <2>1, <2>2
<1>5. ASSUME i = 8
      PROVE  places("random_string") = {4}
  <2>1. 4 \in 1..Len(p) /\ p[4] = RestEdge
    BY <1>5, RouteShapes
  <2> HIDE DEF p
  <2> QED BY <1>1, <1>2, <1>3, <2>1
<1> QED BY <1>4, <1>5, OneParameter, ParameterNames

-----------------------------------------------------------------------------
(* What the handlers make of them. *)

\* What is refused, and what is returned otherwise.
Handled(i, request, code, body) ==
    LET handler == OrdersRoutes[i].handler
        params == PathParams(OrdersRoutes[i].path, request.path)
    IN  \/ Refused(handler, params) /\ code = "invalid_parameter" /\ body = << >>
        \/ ~Refused(handler, params) /\ code = "ok" /\ body = Body(handler, params, request)

\* An id is read as the number it is, or not at all.
LEMMA IdIsRead ==
    ASSUME NEW i \in 3..8, NEW path, NEW n, path[2] = Number(n)
    PROVE  TryGet(PathParams(OrdersRoutes[i].path, path), "order_id", "int")
               = IF n \in Ints THEN {n} ELSE {}
<1> DEFINE params == PathParams(OrdersRoutes[i].path, path)
<1>1. "order_id" \in DOMAIN params /\ params["order_id"] = Number(n)
  <2>1. i \in 1..8
    OBVIOUS
  <2> QED BY <2>1, RouteParameters
<1> HIDE DEF params
<1>2. TryGet(params, "order_id", "int") = TryParse("int", Number(n))
  BY <1>1 DEF TryGet
<1>3. IsNumber(Number(n)) /\ Number(n).number = n
  BY DEF IsNumber, Number
<1>4. TryParse("int", Number(n)) = IF n \in Signed(IntBits) THEN {n} ELSE {}
  BY <1>3 DEF TryParse
<1> QED BY <1>2, <1>4 DEF params, Ints

LEMMA HandlerNames ==
    /\ OrdersRoutes[1].handler = "List" /\ OrdersRoutes[2].handler = "RemoveAll"
    /\ OrdersRoutes[3].handler = "GetById" /\ OrdersRoutes[4].handler = "Update"
    /\ OrdersRoutes[5].handler = "Delete" /\ OrdersRoutes[6].handler = "GetOrderName"
    /\ OrdersRoutes[7].handler = "UpdateOrderName" /\ OrdersRoutes[8].handler = "TestMethod"
BY RouteTable DEF Route

LEMMA StringIsRead ==
    ASSUME NEW params, NEW name \in DOMAIN params
    PROVE  TryGet(params, name, "string") # {}
BY DEF TryGet, TryParse

LEMMA RefusedFor ==
    ASSUME NEW handler, NEW params, NEW a, NEW s, Required(handler) = {<<a, s>>}
    PROVE  Refused(handler, params) <=> TryGet(params, a, s) = {}
BY DEF Refused

LEMMA RefusedForTwo ==
    ASSUME NEW handler, NEW params, NEW a, NEW s, NEW b, NEW z,
           Required(handler) = {<<a, s>>, <<b, z>>}
    PROVE  Refused(handler, params) <=> TryGet(params, a, s) = {} \/ TryGet(params, b, z) = {}
BY DEF Refused

\* A request is refused for an id that is no int, and for nothing else.
LEMMA RefusedForItsId ==
    ASSUME NEW i \in 1..8, NEW path, NEW n, i \in 3..8 => path[2] = Number(n)
    PROVE  Refused(OrdersRoutes[i].handler, PathParams(OrdersRoutes[i].path, path))
               <=> i \in 4..8 /\ n \notin Ints
<1> DEFINE params == PathParams(OrdersRoutes[i].path, path)
<1>1. i \in 3..8 => /\ "order_id" \in DOMAIN params
                    /\ TryGet(params, "order_id", "int") = IF n \in Ints THEN {n} ELSE {}
  <2> SUFFICES ASSUME i \in 3..8
               PROVE  /\ "order_id" \in DOMAIN params
                      /\ TryGet(params, "order_id", "int") = IF n \in Ints THEN {n} ELSE {}
    OBVIOUS
  <2>1. path[2] = Number(n)
    OBVIOUS
  <2>2. TryGet(params, "order_id", "int") = IF n \in Ints THEN {n} ELSE {}
    BY <2>1, IdIsRead
  <2> QED BY <2>2, RouteParameters
<1>2. i = 8 => TryGet(params, "random_string", "string") # {}
  BY StringIsRead, RouteParameters
<1>3. i = 3 => TryGet(params, "order_id", "string") # {}
  BY <1>1, StringIsRead
<1> SUFFICES Refused(OrdersRoutes[i].handler, params) <=> i \in 4..8 /\ n \notin Ints
  OBVIOUS
<1> HIDE DEF params
<1>4. i \in 1..2 => Required(OrdersRoutes[i].handler) = {}
  BY HandlerNames DEF Required
<1>5. i = 3 => Required(OrdersRoutes[i].handler) = {<<"order_id", "string">>}
  BY HandlerNames DEF Required
<1>6. i \in 4..7 => Required(OrdersRoutes[i].handler) = {<<"order_id", "int">>}
  BY HandlerNames DEF Required
<1>7. i = 8 => Required(OrdersRoutes[i].handler)
                   = {<<"order_id", "int">>, <<"random_string", "string">>}
  BY HandlerNames DEF Required
<1>8. CASE i \in 1..2
  BY <1>4, <1>8 DEF Refused
<1>9. CASE i = 3
  <2>1. Refused(OrdersRoutes[i].handler, params) <=> TryGet(params, "order_id", "string") = {}
    BY <1>5, <1>9, RefusedFor
  <2> QED BY <1>3, <1>9, <2>1
<1>10. CASE i \in 4..7
  <2>1. Refused(OrdersRoutes[i].handler, params) <=> TryGet(params, "order_id", "int") = {}
    BY <1>6, <1>10, RefusedFor
  <2> QED BY <1>1, <1>10, <2>1
<1>11. CASE i = 8
  <2>1. Refused(OrdersRoutes[i].handler, params)
            <=> \/ TryGet(params, "order_id", "int") = {}
                \/ TryGet(params, "random_string", "string") = {}
    BY <1>7, <1>11, RefusedForTwo
  <2> QED BY <1>1, <1>2, <1>11, <2>1
<1>12. i \in 1..2 \/ i = 3 \/ i \in 4..7 \/ i = 8
  OBVIOUS
<1> QED BY <1>8, <1>9, <1>10, <1>11, <1>12

LEMMA ValueOfOne == \A v, default : ValueOr({v}, default) = v
BY DEF ValueOr

\* The bodies of the responses.
LEMMA Bodies1 ==
    ASSUME NEW params, NEW request
    PROVE  /\ DOMAIN Body("List", params, request) = {"limit", "offset"}
           /\ Body("List", params, request).limit
                  = Number(ValueOr(TryGet(request.query, "limit", "int"), 20))
           /\ Body("List", params, request).offset
                  = Number(ValueOr(TryGet(request.query, "offset", "int"), 0))
           /\ DOMAIN Body("RemoveAll", params, request) = {"removed"}
BY DEF Body

LEMMA Bodies2 ==
    ASSUME NEW params, NEW request, NEW handler \in {"Update", "Delete"}
    PROVE  Body(handler, params, request)
               = [order_id |-> Number(ValueOr(TryGet(params, "order_id", "int"), 0))]
BY DEF Body

LEMMA Bodies3 ==
    ASSUME NEW params, NEW request
    PROVE  /\ Body("GetById", params, request) = [order_id |-> params["order_id"]]
           /\ DOMAIN Body("GetOrderName", params, request) = {"order_id", "random"}
           /\ Body("GetOrderName", params, request).order_id
                  = Number(ValueOr(TryGet(params, "order_id", "int"), 0))
           /\ DOMAIN Body("TestMethod", params, request) = {"order_id", "random_string"}
           /\ Body("TestMethod", params, request).order_id
                  = Number(ValueOr(TryGet(params, "order_id", "int"), 0))
           /\ Body("TestMethod", params, request)["random_string"] = params["random_string"]
BY DEF Body

LEMMA Bodies4 ==
    ASSUME NEW params, NEW request
    PROVE  Body("UpdateOrderName", params, request)
               = IF request.body = "named"
                 THEN [order_id |-> Number(ValueOr(TryGet(params, "order_id", "int"), 0))]
                 ELSE [error |-> Text("invalid_request_body")]
BY DEF Body

\* The id in the path of a request for a route that has one.
HasId(i, path, n) == i \in 3..8 => path[2] = Number(n)

\* The id that is returned is the one in the path.
Returned(i, path, n, code, body) ==
    /\ "order_id" \in DOMAIN body => body["order_id"] = path[2]
    /\ code = "invalid_parameter" => i \in 4..8 /\ n \notin Ints
    /\ code \in {"ok", "invalid_parameter"}

LEMMA IdIsReturned ==
    ASSUME NEW i \in 1..8, NEW request, NEW n, HasId(i, request.path, n),
           NEW code, NEW body, Handled(i, request, code, body)
    PROVE  Returned(i, request.path, n, code, body)
<1> DEFINE params == PathParams(OrdersRoutes[i].path, request.path)
           handler == OrdersRoutes[i].handler
<1>1. Refused(handler, params) <=> i \in 4..8 /\ n \notin Ints
  BY RefusedForItsId DEF HasId
<1>2. i \in 3..8 => /\ params["order_id"] = request.path[2]
                    /\ TryGet(params, "order_id", "int") = IF n \in Ints THEN {n} ELSE {}
  <2> SUFFICES ASSUME i \in 3..8
               PROVE  /\ params["order_id"] = request.path[2]
                      /\ TryGet(params, "order_id", "int") = IF n \in Ints THEN {n} ELSE {}
    OBVIOUS
  <2>1. request.path[2] = Number(n)
    BY DEF HasId
  <2>2. TryGet(params, "order_id", "int") = IF n \in Ints THEN {n} ELSE {}
    BY <2>1, IdIsRead
  <2> QED BY <2>2, RouteParameters
<1>3. \/ Refused(handler, params) /\ code = "invalid_parameter" /\ body = << >>
      \/ ~Refused(handler, params) /\ code = "ok" /\ body = Body(handler, params, request)
  BY DEF Handled
<1> HIDE DEF params, handler
<1>4. CASE Refused(handler, params)
  BY <1>1, <1>3, <1>4 DEF Returned
<1>5. CASE ~Refused(handler, params)
  <2>1. body = Body(handler, params, request) /\ code = "ok"
    BY <1>3, <1>5
  <2>2. i \in 4..8 => Number(ValueOr(TryGet(params, "order_id", "int"), 0)) = request.path[2]
    <3> SUFFICES ASSUME i \in 4..8
                 PROVE  Number(ValueOr(TryGet(params, "order_id", "int"), 0)) = request.path[2]
      OBVIOUS
    <3>1. n \in Ints
      BY <1>1, <1>5
    <3>2. TryGet(params, "order_id", "int") = {n} /\ request.path[2] = Number(n)
      BY <1>2, <3>1 DEF HasId
    <3> QED BY <3>2, ValueOfOne
  <2>3. i \in 1..2 => "order_id" \notin DOMAIN Body(handler, params, request)
    BY HandlerNames, Bodies1 DEF handler
  <2>4. i = 3 => body = [order_id |-> params["order_id"]]
    BY <2>1, HandlerNames, Bodies3 DEF handler
  <2>5. i \in 4..5
            => body = [order_id |-> Number(ValueOr(TryGet(params, "order_id", "int"), 0))]
    BY <2>1, HandlerNames, Bodies2 DEF handler
  <2>6. i \in {6, 8}
            => body.order_id = Number(ValueOr(TryGet(params, "order_id", "int"), 0))
    BY <2>1, HandlerNames, Bodies3 DEF handler
  <2>7. i = 7
            => \/ body = [order_id |-> Number(ValueOr(TryGet(params, "order_id", "int"), 0))]
               \/ body = [error |-> Text("invalid_request_body")]
    BY <2>1, HandlerNames, Bodies4 DEF handler
  <2>8. "order_id" \in DOMAIN body => body["order_id"] = request.path[2]
    <3>1. CASE i \in 1..2
      BY <2>1, <2>3, <3>1
    <3>2. CASE i = 3
      BY <1>2, <2>4, <3>2
    <3>3. CASE i \in 4..5
      BY <2>2, <2>5, <3>3
    <3>4. CASE i \in {6, 8}
      BY <2>2, <2>6, <3>4
    <3>5. CASE i = 7
      BY <2>2, <2>7, <3>5
    <3> QED BY <3>1, <3>2, <3>3, <3>4, <3>5
  <2> QED BY <1>1, <1>5, <2>1, <2>8 DEF Returned
<1> QED BY <1>4, <1>5 DEF Returned

-----------------------------------------------------------------------------
(* The service is a user of the router. *)

LEMMA InitIsRouterInit == ApiInit => RouterInit
BY DEF ApiInit

LEMMA StepIsRouterStep == [ApiNext]_apiVars => [RouterNext]_routerVars
<1> SUFFICES ASSUME [ApiNext]_apiVars
             PROVE  RouterNext \/ UNCHANGED routerVars
  OBVIOUS
<1>1. CASE Register
  BY <1>1 DEF Register, RouterNext
<1>2. CASE AddNextRoute \/ Serve
  BY <1>2 DEF Serve, RouterNext
<1>3. ASSUME NEW t \in Threads, OrdersReply(t)
      PROVE  Handler(t)
  BY <1>3 DEF OrdersReply, Handler, Exceptions
<1>4. CASE \E t \in Threads : \/ \E request \in Requests : Receive(t, request)
                              \/ Lock(t) \/ OrdersReply(t) \/ Return(t)
  BY <1>3, <1>4 DEF RouterNext
<1>5. CASE UNCHANGED apiVars
  BY <1>5 DEF apiVars
<1> QED BY <1>1, <1>2, <1>4, <1>5 DEF ApiNext

-----------------------------------------------------------------------------
(* The inductive invariant. *)

\* The one controller of main().
Service == CHOOSE c \in Controllers : TRUE

LEMMA OneController == Controllers = {Service} /\ Routes[Service] = OrdersRoutes
BY ServiceFacts DEF Service

Turn(i) == [controller |-> Service, route |-> OrdersRoutes[i]]

\* How far the registration has come, unless the table has thrown.
Progress ==
    \/ rejected
    \/ calls = 0 /\ registering = << >> /\ handlers = {}
    \/ /\ Len(registering) + calls = 8
       /\ \A j \in 1..Len(registering) : registering[j] = Turn(calls + j)
       /\ handlers = {Key(i) : i \in 1..calls}
       /\ \A i \in 1..calls : bound[Key(i)] = Entry(Service, OrdersRoutes[i])

\* What a thread has found, and what it answers.
Works(w, body) ==
    /\ w.stage # "answered" => body = << >>
    /\ w.stage # "idle" => w.request \in Requests
    /\ w.stage \in {"found", "running"} =>
           \E i \in 1..8 : Routed(i, w.request) /\ w.entry = Entry(Service, OrdersRoutes[i])
    /\ w.stage = "answered" =>
           \/ body = << >> /\ w.code = "invalid_request_target" /\ ~w.request.valid
           \/ body = << >> /\ w.code = "route_not_found" /\ \A i \in 1..8 : ~Routed(i, w.request)
           \/ \E i \in 1..8 : /\ Routed(i, w.request)
                              /\ w.by = Entry(Service, OrdersRoutes[i])
                              /\ Handled(i, w.request, w.code, body)

ApiInv ==
    /\ owned = Controllers
    /\ calls \in Nat
    /\ Progress
    /\ serving => ~rejected /\ calls > 0 /\ registering = << >>
    /\ shown = [t \in Threads |-> shown[t]]
    /\ \A t \in Threads : /\ Works(worker[t], shown[t])
                          /\ worker[t].stage # "idle" => serving

LEMMA ServingIsComplete ==
    ASSUME ApiInv, serving
    PROVE  Complete /\ \A i \in 1..8 : bound[Key(i)] = Entry(Service, OrdersRoutes[i])
<1>1. ~rejected /\ calls > 0 /\ registering = << >> /\ calls \in Nat
  BY DEF ApiInv
<1>2. /\ Len(registering) + calls = 8
      /\ handlers = {Key(i) : i \in 1..calls}
      /\ \A i \in 1..calls : bound[Key(i)] = Entry(Service, OrdersRoutes[i])
  BY <1>1 DEF ApiInv, Progress
<1>3. calls = 8
  BY <1>1, <1>2
<1> QED BY <1>1, <1>2, <1>3 DEF Complete

LEMMA ApiInvInit == ApiInit => ApiInv
<1> SUFFICES ASSUME ApiInit PROVE ApiInv
  OBVIOUS
<1>1. Progress /\ calls = 0
  BY DEF ApiInit, RouterInit, TrieInit, Progress
<1> QED BY <1>1 DEF ApiInit, RouterInit, ApiInv, Works

\* The table and the owner stay as they are, and one thread goes on.
LEMMA OneThreadWorks ==
    ASSUME LInv, ApiInv, serving, UNCHANGED <<trieVars, bound, registering, serving, owned>>,
           NEW t \in Threads, NEW w, worker' = [worker EXCEPT ![t] = w],
           NEW body, shown' = [shown EXCEPT ![t] = body], Works(w, body)
    PROVE  ApiInv'
<1>1. worker = [u \in Threads |-> worker[u]] /\ shown = [u \in Threads |-> shown[u]]
  BY DEF LInv, LifetimeOK, ApiInv
<1>2. \A u \in Threads : /\ worker'[u] = IF u = t THEN w ELSE worker[u]
                         /\ shown'[u] = IF u = t THEN body ELSE shown[u]
  BY <1>1
<1>3. shown' = [u \in Threads |-> shown'[u]]
  BY <1>1
<1>4. \A u \in Threads : Works(worker'[u], shown'[u])
  BY <1>2 DEF ApiInv
<1>5. Progress' /\ calls' \in Nat /\ serving' /\ ~rejected' /\ calls' > 0 /\ registering' = << >>
  BY DEF ApiInv, Progress, trieVars
<1> QED BY <1>3, <1>4, <1>5 DEF ApiInv

\* The threads are not running yet.
LEMMA BeforeServing ==
    ASSUME ApiInv, UNCHANGED <<owned, worker, shown>>, Progress', calls' \in Nat,
           serving => serving', serving' => ~rejected' /\ calls' > 0 /\ registering' = << >>
    PROVE  ApiInv'
BY DEF ApiInv, Works

LEMMA RegisterStep ==
    ASSUME ApiInv, Register
    PROVE  ApiInv'
<1>1. PICK c \in Controllers : RegisterRoutes(c)
  BY DEF Register
<1>2. c = Service /\ Routes[c] = OrdersRoutes
  BY OneController
<1>3. registering' = [i \in 1..8 |-> Turn(i)]
  BY <1>1, <1>2, RouteTable DEF RegisterRoutes, Turn
<1>4. calls = 0 /\ calls' = 0 /\ handlers' = handlers /\ rejected' = rejected /\ ~serving
  BY <1>1 DEF Register, RegisterRoutes, trieVars
<1> DEFINE turns == [i \in 1..8 |-> Turn(i)]
<1>5. turns \in Seq({Turn(i) : i \in 1..8}) /\ Len(turns) = 8
  OBVIOUS
<1>6. \A j \in 1..8 : turns[j] = Turn(0 + j)
  OBVIOUS
<1> HIDE DEF turns
<1>7. rejected \/ handlers = {}
  BY <1>4 DEF ApiInv, Progress
<1>8. Progress'
  <2>1. Len(registering') = 8 /\ registering' = turns
    BY <1>3, <1>5 DEF turns
  <2> QED BY <1>4, <1>6, <1>7, <2>1 DEF Progress
<1>9. UNCHANGED <<owned, worker, shown, serving>>
  BY <1>1 DEF Register, RegisterRoutes, lifetimeVars
<1> QED BY <1>4, <1>8, <1>9, BeforeServing

LEMMA AddNextRouteStep ==
    ASSUME LInv, ApiInv, AddNextRoute, UNCHANGED shown
    PROVE  ApiInv'
<1> DEFINE r == Head(registering)
<1>1. /\ registering \in Seq(Registrations) /\ registering # << >>
      /\ calls \in Nat /\ calls' = calls + 1 /\ UNCHANGED <<owned, worker, shown, serving>>
      /\ ~serving
  BY DEF LInv, LifetimeOK, ApiInv, AddNextRoute, AddRoute, lifetimeVars
<1>2. CASE rejected'
  BY <1>1, <1>2, BeforeServing DEF Progress
<1>3. CASE ~rejected'
  <2>1. /\ Accepted(r.route.path) /\ ~rejected
        /\ handlers' = handlers \cup {<<r.route.path, r.route.method>>}
        /\ registering' = Tail(registering)
        /\ bound' = [k \in handlers' |-> IF k = <<r.route.path, r.route.method>>
                                         THEN Entry(r.controller, r.route) ELSE bound[k]]
    BY <1>3 DEF AddNextRoute, AddRoute, Bind
  <2>2. /\ Len(registering) + calls = 8
        /\ \A j \in 1..Len(registering) : registering[j] = Turn(calls + j)
        /\ handlers = {Key(i) : i \in 1..calls}
        /\ \A i \in 1..calls : bound[Key(i)] = Entry(Service, OrdersRoutes[i])
    BY <1>1, <2>1 DEF ApiInv, Progress
  <2>3. PICK L \in Nat : L = Len(registering)
    BY <1>1
  <2>4. L # 0
    BY <1>1, <2>3
  <2>5. /\ Len(Tail(registering)) = L - 1
        /\ \A j \in 1..(L - 1) : Tail(registering)[j] = registering[j + 1]
        /\ Head(registering) = registering[1]
    BY <1>1, <2>3, <2>4, HeadTailProperties
  <2>6. r = Turn(calls + 1)
    BY <2>2, <2>3, <2>4, <2>5
  <2> HIDE DEF r
  <2>7. r.controller = Service /\ r.route = OrdersRoutes[calls + 1]
    BY <2>6 DEF Turn
  <2>8. calls + 1 \in 1..8 /\ \A i \in 1..calls : i \in 1..8 /\ i # calls + 1
    BY <1>1, <2>2, <2>3, <2>4
  <2>9. <<r.route.path, r.route.method>> = Key(calls + 1)
    BY <2>7 DEF Key
  <2>10. handlers' = {Key(i) : i \in 1..(calls + 1)}
    BY <1>1, <2>1, <2>2, <2>9
  <2>11. ASSUME NEW i \in 1..(calls + 1)
         PROVE  bound'[Key(i)] = Entry(Service, OrdersRoutes[i])
    <3>1. CASE i = calls + 1
      BY <2>1, <2>7, <2>9, <2>10, <3>1
    <3>2. CASE i # calls + 1
      <4>1. i \in 1..calls
        BY <1>1, <3>2
      <4>2. Key(i) # Key(calls + 1)
        BY <2>8, <4>1, KeysDiffer
      <4> QED BY <2>1, <2>2, <2>9, <2>10, <4>1, <4>2
    <3> QED BY <3>1, <3>2
  <2>12. \A j \in 1..(L - 1) : registering'[j] = Turn((calls + 1) + j)
    <3> SUFFICES ASSUME NEW j \in 1..(L - 1)
                 PROVE  registering'[j] = Turn((calls + 1) + j)
      OBVIOUS
    <3>1. registering'[j] = registering[j + 1] /\ j + 1 \in 1..L
      BY <2>1, <2>5
    <3>2. calls + (j + 1) = (calls + 1) + j
      BY <1>1
    <3> QED BY <2>2, <2>3, <3>1, <3>2
  <2>13. Len(registering') + calls' = 8
    BY <1>1, <2>1, <2>2, <2>3, <2>5
  <2>14. Progress'
    BY <1>1, <2>1, <2>5, <2>10, <2>11, <2>12, <2>13 DEF Progress
  <2> QED BY <1>1, <2>14, BeforeServing
<1> QED BY <1>2, <1>3

LEMMA ServeStep ==
    ASSUME ApiInv, Serve
    PROVE  ApiInv'
BY BeforeServing DEF Serve, StartServing, ApiInv, Progress, trieVars, lifetimeVars

LEMMA ReceiveWorks ==
    ASSUME LInv, TrieInv, ApiInv, NEW t \in Threads, NEW request \in Requests,
           Receive(t, request), UNCHANGED shown
    PROVE  ApiInv'
<1>1. /\ UNCHANGED <<trieVars, bound, registering, serving, owned>>
      /\ serving /\ worker[t].stage = "idle"
  BY DEF Receive, lifetimeVars
<1>2. shown' = [shown EXCEPT ![t] = << >>]
  BY <1>1 DEF ApiInv, Works
<1>3. Complete /\ \A i \in 1..8 : bound[Key(i)] = Entry(Service, OrdersRoutes[i])
  BY <1>1, ServingIsComplete
<1> DEFINE found == FindRoute(request.method, request.path)
<1>4. /\ \A i \in 1..8 : Routed(i, request) => found = {OrdersRoutes[i].path}
      /\ \A node \in found : \E i \in 1..8 : Routed(i, request) /\ node = OrdersRoutes[i].path
  BY <1>3, LookupsAreRoutes
<1>5. \/ ~request.valid /\ worker' = [worker EXCEPT ![t] = Answer(request, "invalid_request_target")]
      \/ found = {} /\ worker' = [worker EXCEPT ![t] = Answer(request, "route_not_found")]
      \/ \E node \in found : worker' = [worker EXCEPT ![t] =
             Handling("found", request, bound[<<node, request.method>>])]
  BY DEF Receive
<1> HIDE DEF found
<1>6. CASE /\ ~request.valid
           /\ worker' = [worker EXCEPT ![t] = Answer(request, "invalid_request_target")]
  <2>1. Works(Answer(request, "invalid_request_target"), << >>)
    BY <1>6 DEF Works, Answer
  <2> QED BY <1>1, <1>2, <1>6, <2>1, OneThreadWorks
<1>7. CASE found = {} /\ worker' = [worker EXCEPT ![t] = Answer(request, "route_not_found")]
  <2>1. \A i \in 1..8 : ~Routed(i, request)
    BY <1>4, <1>7
  <2>2. Works(Answer(request, "route_not_found"), << >>)
    BY <2>1 DEF Works, Answer
  <2> QED BY <1>1, <1>2, <1>7, <2>2, OneThreadWorks
<1>8. ASSUME NEW node \in found,
             worker' = [worker EXCEPT ![t] =
                 Handling("found", request, bound[<<node, request.method>>])]
      PROVE  ApiInv'
  <2> DEFINE entry == bound[<<node, request.method>>]
             w == Handling("found", request, entry)
  <2>1. PICK i \in 1..8 : Routed(i, request) /\ node = OrdersRoutes[i].path
    BY <1>4
  <2>2. <<node, request.method>> = Key(i)
    BY <2>1 DEF Key, Routed
  <2>3. entry = Entry(Service, OrdersRoutes[i])
    BY <1>3, <2>2
  <2> HIDE DEF entry
  <2>4. w.stage = "found" /\ w.request = request /\ w.entry = entry
    BY DEF Handling
  <2>5. worker' = [worker EXCEPT ![t] = w]
    BY <1>8 DEF entry
  <2> HIDE DEF w
  <2>6. Works(w, << >>)
    BY <2>1, <2>3, <2>4 DEF Works
  <2> QED BY <1>1, <1>2, <2>5, <2>6, OneThreadWorks
<1> QED BY <1>5, <1>6, <1>7, <1>8

LEMMA LockWorks ==
    ASSUME LInv, ApiInv, NEW t \in Threads, Lock(t), UNCHANGED shown
    PROVE  ApiInv'
<1> DEFINE w0 == worker[t]
           w == [w0 EXCEPT !.stage = "running"]
           c == w0.entry.controller
<1>1. w0.stage = "found" /\ UNCHANGED <<trieVars, bound, registering, serving, owned>>
  BY DEF Lock
<1>2. Works(w0, << >>) /\ serving /\ shown[t] = << >>
  BY <1>1 DEF ApiInv, Works
<1>3. PICK i \in 1..8 : Routed(i, w0.request) /\ w0.entry = Entry(Service, OrdersRoutes[i])
  BY <1>1, <1>2 DEF Works
<1>4. c \in owned /\ c \in Controllers
  BY <1>3, OneController DEF Entry, ApiInv
<1>5. refs[c] > 0
  <2>1. Cardinality(Running(c)) \in Nat
    BY RunningFinite
  <2> QED BY <1>4, <2>1 DEF LInv, RefsAreExact
<1>6. worker' = [worker EXCEPT ![t] = w]
  BY <1>5 DEF Lock
<1>7. shown' = [shown EXCEPT ![t] = << >>]
  BY <1>2 DEF ApiInv
<1>8. w.stage = "running" /\ w.request = w0.request /\ w.entry = w0.entry
  BY <1>1
<1> HIDE DEF w0, w
<1>9. Works(w, << >>)
  BY <1>1, <1>2, <1>3, <1>8 DEF Works
<1> QED BY <1>1, <1>2, <1>6, <1>7, <1>9, OneThreadWorks

LEMMA OrdersReplyWorks ==
    ASSUME LInv, TrieInv, ApiInv, NEW t \in Threads, OrdersReply(t)
    PROVE  ApiInv'
<1> DEFINE w0 == worker[t]
           request == w0.request
           handler == w0.entry.handler
           node == CHOOSE n \in FindRoute(request.method, request.path) : TRUE
           params == PathParams(node, request.path)
<1>1. w0.stage = "running"
  BY DEF OrdersReply
<1>2. serving /\ Works(w0, shown[t])
  BY <1>1 DEF ApiInv
<1>3. PICK i \in 1..8 : Routed(i, request) /\ w0.entry = Entry(Service, OrdersRoutes[i])
  BY <1>1, <1>2 DEF Works
<1>4. Complete /\ request \in Requests
  BY <1>1, <1>2, ServingIsComplete DEF Works
<1>5. FindRoute(request.method, request.path) = {OrdersRoutes[i].path}
  BY <1>3, <1>4, LookupsAreRoutes
<1>6. node = OrdersRoutes[i].path /\ handler = OrdersRoutes[i].handler
  BY <1>3, <1>5 DEF Entry
<1>7. \/ /\ Refused(handler, params)
         /\ Reply(t, "invalid_parameter")
         /\ shown' = [shown EXCEPT ![t] = << >>]
      \/ /\ ~Refused(handler, params)
         /\ Reply(t, "ok")
         /\ shown' = [shown EXCEPT ![t] = Body(handler, params, request)]
  BY DEF OrdersReply, MapExceptionToHttpError
<1>8. params = PathParams(OrdersRoutes[i].path, request.path)
  BY <1>6
<1> HIDE DEF params, node, handler
<1>9. PICK code, body : /\ Reply(t, code) /\ shown' = [shown EXCEPT ![t] = body]
                        /\ Handled(i, request, code, body)
  BY <1>6, <1>7, <1>8 DEF Handled
<1> DEFINE w == Answered(request, code, w0.entry)
<1>10. /\ worker' = [worker EXCEPT ![t] = w]
       /\ UNCHANGED <<trieVars, bound, registering, serving, owned>>
  BY <1>9 DEF Reply
<1>11. w.stage = "answered" /\ w.request = request /\ w.by = w0.entry /\ w.code = code
  BY DEF Answered
<1> HIDE DEF w
<1>12. Works(w, body)
  BY <1>3, <1>4, <1>9, <1>11 DEF Works
<1> QED BY <1>2, <1>9, <1>10, <1>12, OneThreadWorks

LEMMA ReturnWorks ==
    ASSUME LInv, ApiInv, NEW t \in Threads, Return(t), shown' = [shown EXCEPT ![t] = << >>]
    PROVE  ApiInv'
<1> DEFINE w == [stage |-> "idle"]
<1>1. /\ UNCHANGED <<trieVars, bound, registering, serving, owned>>
      /\ worker[t].stage = "answered" /\ worker' = [worker EXCEPT ![t] = w]
  BY DEF Return, lifetimeVars
<1>2. Works(w, << >>)
  BY DEF Works
<1>3. serving
  BY <1>1 DEF ApiInv
<1> HIDE DEF w
<1> QED BY <1>1, <1>2, <1>3, OneThreadWorks

LEMMA ApiInvNext ==
    LInv /\ TrieInv /\ ApiInv /\ [ApiNext]_apiVars => ApiInv'
<1> SUFFICES ASSUME LInv, TrieInv, ApiInv, [ApiNext]_apiVars
             PROVE  ApiInv'
  OBVIOUS
<1>1. CASE Register
  BY <1>1, RegisterStep
<1>2. CASE AddNextRoute /\ UNCHANGED shown
  BY <1>2, AddNextRouteStep
<1>3. CASE Serve
  BY <1>3, ServeStep
<1>4. ASSUME NEW t \in Threads,
             (\E request \in Requests : Receive(t, request)) /\ UNCHANGED shown
      PROVE  ApiInv'
  BY <1>4, ReceiveWorks
<1>5. ASSUME NEW t \in Threads, Lock(t), UNCHANGED shown
      PROVE  ApiInv'
  BY <1>5, LockWorks
<1>6. ASSUME NEW t \in Threads, OrdersReply(t)
      PROVE  ApiInv'
  BY <1>6, OrdersReplyWorks
<1>7. ASSUME NEW t \in Threads, Return(t), shown' = [shown EXCEPT ![t] = << >>]
      PROVE  ApiInv'
  BY <1>7, ReturnWorks
<1>8. CASE UNCHANGED apiVars
  <2>1. UNCHANGED <<owned, worker, shown, serving, calls, rejected, registering, handlers, bound>>
    BY <1>8 DEF apiVars, routerVars, trieVars, lifetimeVars
  <2>2. Progress'
    BY <2>1 DEF ApiInv, Progress
  <2> QED BY <2>1, <2>2, BeforeServing DEF ApiInv
<1> QED BY <1>1, <1>2, <1>3, <1>4, <1>5, <1>6, <1>7, <1>8 DEF ApiNext

-----------------------------------------------------------------------------
(* What the invariant implies. *)

LEMMA InvImpliesNotHidden == ApiInv => NoRouteIsHidden
<1> SUFFICES ASSUME ApiInv, NEW t \in Threads, worker[t].stage = "answered",
                    worker[t].request.valid, NEW c \in Controllers, NEW i \in DOMAIN Routes[c],
                    worker[t].request.method = Routes[c][i].method,
                    Matches(Routes[c][i].path, worker[t].request.path)
             PROVE  /\ worker[t].code # "route_not_found"
                    /\ worker[t].by = Entry(c, Routes[c][i])
  BY DEF NoRouteIsHidden
<1> DEFINE w == worker[t]
<1>1. c = Service /\ Routes[c] = OrdersRoutes /\ i \in 1..8
  BY OneController, RouteTable
<1>2. Routed(i, w.request)
  BY <1>1 DEF Routed
<1>3. PICK j \in 1..8 : /\ Routed(j, w.request)
                        /\ w.by = Entry(Service, OrdersRoutes[j])
                        /\ Handled(j, w.request, w.code, shown[t])
  BY <1>1, <1>2 DEF ApiInv, Works
<1>4. j = i
  BY <1>1, <1>2, <1>3, RoutedOnce
<1>5. w.code \in {"ok", "invalid_parameter"}
  BY <1>3 DEF Handled
<1> QED BY <1>1, <1>3, <1>4, <1>5

\* On a path that a route with an id matches, there is a number at its place.
LEMMA RoutedId ==
    ASSUME NEW i \in 3..8, NEW request \in Requests, Routed(i, request)
    PROVE  \E n \in Signed(Int64Bits) : request.path[2] = Number(n)
<1> DEFINE p == OrdersRoutes[i].path
<1>1. p[2] = IdEdge /\ Len(p) = IF i = 1 THEN 1
                                ELSE IF i <= 5 THEN 2 ELSE IF i <= 7 THEN 3 ELSE 4
  <2>1. i \in 1..8
    OBVIOUS
  <2> QED BY <2>1, RouteShapes
<1>2. Matches(p, request.path) /\ request.path \in Seq(Words)
  BY RequestsAssumption, PathsAssumption DEF Routed
<1> HIDE DEF p
<1>3. 2 \in DOMAIN request.path
  BY <1>1, <1>2 DEF Matches
<1>4. IdEdge.kind = "param" /\ IdEdge.type = "int"
  BY DEF IdEdge, Param
<1>5. request.path[2] \in IntWords
  BY <1>1, <1>2, <1>3, <1>4 DEF Matches, Fits, Matcher
<1> QED BY <1>5, IntWordIsNumber

LEMMA InvImpliesIdsRead == ApiInv => IdsAreReadOrRefused
<1> SUFFICES ASSUME ApiInv, NEW t \in Threads, worker[t].stage = "answered"
             PROVE  LET path == worker[t].request.path
                    IN  /\ "order_id" \in DOMAIN shown[t] => shown[t]["order_id"] = path[2]
                        /\ worker[t].code = "invalid_parameter"
                             => \E id \in Signed(Int64Bits) \ Ints : path[2] = Number(id)
  BY DEF IdsAreReadOrRefused
<1> DEFINE w == worker[t]
           path == w.request.path
<1>1. \/ shown[t] = << >> /\ w.code # "invalid_parameter"
      \/ \E i \in 1..8 : Routed(i, w.request) /\ Handled(i, w.request, w.code, shown[t])
  BY DEF ApiInv, Works
<1>0. w.request \in Requests
  BY DEF ApiInv, Works
<1>2. ASSUME NEW i \in 1..8, Routed(i, w.request), Handled(i, w.request, w.code, shown[t])
      PROVE  /\ "order_id" \in DOMAIN shown[t] => shown[t]["order_id"] = path[2]
             /\ w.code = "invalid_parameter"
                    => \E id \in Signed(Int64Bits) \ Ints : path[2] = Number(id)
  <2>1. CASE i \in 3..8
    <3>1. PICK n \in Signed(Int64Bits) : path[2] = Number(n)
      BY <1>0, <1>2, <2>1, RoutedId
    <3>2. HasId(i, path, n)
      BY <3>1 DEF HasId
    <3>3. Returned(i, path, n, w.code, shown[t])
      BY <1>2, <3>2, IdIsReturned
    <3> QED BY <3>1, <3>3 DEF Returned
  <2>2. CASE i \in 1..2
    <3>1. HasId(i, path, 0)
      BY <2>2 DEF HasId
    <3>2. Returned(i, path, 0, w.code, shown[t])
      BY <1>2, <3>1, IdIsReturned
    <3> QED BY <2>2, <3>2 DEF Returned
  <2> QED BY <2>1, <2>2
<1> QED BY <1>1, <1>2

-----------------------------------------------------------------------------
(* The calls of OrdersClient. *)

\* What makes a path that of a route.
LEMMA RoutedBy ==
    ASSUME NEW i \in 1..8, NEW request, request.path \in Seq(Words),
           request.method = OrdersRoutes[i].method,
           Len(request.path) = Len(OrdersRoutes[i].path),
           request.path[1] = Text("orders"),
           i = 2 => request.path[2] = Text("remove_all"),
           i \in 3..8 => request.path[2] \in IntWords,
           i \in 6..8 => request.path[3] = Text("name")
    PROVE  Routed(i, request)
<1> DEFINE p == OrdersRoutes[i].path
           path == request.path
<1>1. /\ OrdersEdge.kind = "static" /\ AllEdge.kind = "static" /\ NameEdge.kind = "static"
      /\ IdEdge.kind = "param" /\ IdEdge.type = "int"
      /\ RestEdge.kind = "param" /\ RestEdge.type = "string"
      /\ AllEdge.word = Text("remove_all") /\ OrdersEdge.word = Text("orders")
      /\ NameEdge.word = Text("name")
  BY DEF OrdersEdge, AllEdge, NameEdge, IdEdge, RestEdge, Static, Param
<1>2. /\ Len(p) = IF i = 1 THEN 1
                  ELSE IF i <= 5 THEN 2 ELSE IF i <= 7 THEN 3 ELSE 4
      /\ p[1] = OrdersEdge
      /\ i \in 3..8 => p[2] = IdEdge
      /\ i = 2 => p[2] = AllEdge
      /\ i \in 6..8 => p[3] = NameEdge
      /\ i = 8 => p[4] = RestEdge
  BY RouteShapes
<1> HIDE DEF p
<1>3. Len(p) = Len(path)
  BY DEF p
<1> SUFFICES ASSUME NEW k \in DOMAIN path
             PROVE  IF p[k].kind = "static" THEN p[k].word = path[k]
                    ELSE Matcher(p[k].type, path[k])
  BY <1>3 DEF Routed, Matches, Fits, p
<1>4. k \in 1..Len(p)
  BY <1>3
<1>5. \/ k = 1
      \/ k = 2 /\ i = 2
      \/ k = 2 /\ i \in 3..8
      \/ k = 3 /\ i \in 6..8
      \/ k = 4 /\ i = 8
  BY <1>2, <1>4
<1>6. CASE k = 1
  BY <1>1, <1>2, <1>6
<1>7. CASE k = 2 /\ i = 2
  BY <1>1, <1>2, <1>7
<1>8. CASE k = 2 /\ i \in 3..8
  BY <1>1, <1>2, <1>8 DEF Matcher
<1>9. CASE k = 3 /\ i \in 6..8
  BY <1>1, <1>2, <1>9
<1>10. CASE k = 4 /\ i = 8
  BY <1>1, <1>2, <1>10 DEF Matcher
<1> QED BY <1>5, <1>6, <1>7, <1>8, <1>9, <1>10

\* What the client is told is what it asked for.
Understands(call, code, body) ==
    /\ code = "ok"
    /\ "error" \notin DOMAIN body
    /\ \A field \in DOMAIN body \cap {"order_id", "limit", "offset"} :
           body[field] = Number(call[field])
    /\ call.op = "TestMethod" => body["random_string"] = call.random_string[1]

Understood(call, i) ==
    LET request == ClientRequest(call)
    IN  /\ request.valid
        /\ Routed(i, request)
        /\ OrdersRoutes[i].handler = Meant(call.op)
        /\ \A code, body : Handled(i, request, code, body) => Understands(call, code, body)

LEMMA IntIsRead ==
    ASSUME NEW params, NEW name \in DOMAIN params, NEW n \in Ints, params[name] = Number(n)
    PROVE  TryGet(params, name, "int") = {n}
<1>1. IsNumber(Number(n)) /\ Number(n).number = n
  BY DEF IsNumber, Number
<1>2. TryParse("int", Number(n)) = {n}
  BY <1>1 DEF TryParse, Ints
<1> QED BY <1>2 DEF TryGet

LEMMA OrdersListed ==
    ASSUME NEW call \in ClientCalls, call.op = "GetOrders", ClientRequest(call) \in Requests
    PROVE  Understood(call, 1)
<1> DEFINE query == [limit |-> Number(call.limit), offset |-> Number(call.offset)]
           path == OrdersPath(<< >>)
           request == Request("get", path, query, "none")
<1>1. call.limit \in Ints /\ call.offset \in Ints
  BY DEF ClientCalls
<1>2. ClientRequest(call) = request
  BY DEF ClientRequest
<1>3. path \in Seq(Words)
  BY <1>2, RequestsAssumption, PathsAssumption DEF Request
<1>4. Len(path) = 1 /\ path[1] = Text("orders")
  BY DEF OrdersPath
<1> HIDE DEF path, query
<1>5. request.path = path /\ request.method = "get" /\ request.valid /\ request.query = query
  BY DEF Request
<1>6. OrdersRoutes[1].method = "get" /\ Len(OrdersRoutes[1].path) = 1
  BY RouteTable, RouteShapes DEF Route
<1> HIDE DEF request
<1>7. Routed(1, request)
  BY <1>3, <1>4, <1>5, <1>6, RoutedBy
<1>8. TryGet(query, "limit", "int") = {call.limit} /\ TryGet(query, "offset", "int") = {call.offset}
  <2>1. /\ "limit" \in DOMAIN query /\ "offset" \in DOMAIN query
        /\ query["limit"] = Number(call.limit) /\ query["offset"] = Number(call.offset)
    BY DEF query
  <2> QED BY <1>1, <2>1, IntIsRead
<1>9. ASSUME NEW code, NEW body, Handled(1, request, code, body)
      PROVE  Understands(call, code, body)
  <2> DEFINE params == PathParams(OrdersRoutes[1].path, path)
  <2>1. Required("List") = {} /\ OrdersRoutes[1].handler = "List"
    BY HandlerNames DEF Required
  <2>2. code = "ok" /\ body = Body("List", params, request)
    BY <1>5, <1>9, <2>1 DEF Handled, Refused
  <2>3. /\ DOMAIN body = {"limit", "offset"}
        /\ body.limit = Number(ValueOr(TryGet(request.query, "limit", "int"), 20))
        /\ body.offset = Number(ValueOr(TryGet(request.query, "offset", "int"), 0))
    BY <2>2, Bodies1
  <2>4. /\ TryGet(request.query, "limit", "int") = {call.limit}
        /\ TryGet(request.query, "offset", "int") = {call.offset}
    BY <1>5, <1>8
  <2>5. body.limit = Number(call.limit) /\ body.offset = Number(call.offset)
    BY <2>3, <2>4, ValueOfOne
  <2>6. \A field \in DOMAIN body \cap {"order_id", "limit", "offset"} :
            body[field] = Number(call[field])
    BY <2>3, <2>5
  <2> QED BY <2>2, <2>3, <2>6 DEF Understands
<1>10. OrdersRoutes[1].handler = Meant(call.op)
  BY HandlerNames DEF Meant
<1> QED BY <1>2, <1>5, <1>7, <1>9, <1>10 DEF Understood

LEMMA AllRemoved ==
    ASSUME NEW call \in ClientCalls, call.op = "RemoveAll", ClientRequest(call) \in Requests
    PROVE  Understood(call, 2)
<1> DEFINE path == OrdersPath(<< Text("remove_all") >>)
           request == Request("post", path, NoQuery, "none")
<1>2. ClientRequest(call) = request
  BY DEF ClientRequest
<1>3. path \in Seq(Words)
  BY <1>2, RequestsAssumption, PathsAssumption DEF Request
<1>4. Len(path) = 2 /\ path[1] = Text("orders") /\ path[2] = Text("remove_all")
  BY DEF OrdersPath
<1> HIDE DEF path
<1>5. request.path = path /\ request.method = "post" /\ request.valid
  BY DEF Request
<1>6. OrdersRoutes[2].method = "post" /\ Len(OrdersRoutes[2].path) = 2
  BY RouteTable, RouteShapes DEF Route
<1> HIDE DEF request
<1>7. Routed(2, request)
  BY <1>3, <1>4, <1>5, <1>6, RoutedBy
<1>9. ASSUME NEW code, NEW body, Handled(2, request, code, body)
      PROVE  Understands(call, code, body)
  <2> DEFINE params == PathParams(OrdersRoutes[2].path, path)
  <2>1. Required("RemoveAll") = {} /\ OrdersRoutes[2].handler = "RemoveAll"
    BY HandlerNames DEF Required
  <2>2. code = "ok" /\ body = Body("RemoveAll", params, request)
    BY <1>5, <1>9, <2>1 DEF Handled, Refused
  <2>3. DOMAIN body = {"removed"}
    BY <2>2, Bodies1
  <2> QED BY <2>2, <2>3 DEF Understands
<1>10. OrdersRoutes[2].handler = Meant(call.op)
  BY HandlerNames DEF Meant
<1> QED BY <1>2, <1>5, <1>7, <1>9, <1>10 DEF Understood

\* An id that is on the path of a request is a word.
LEMMA IdWord ==
    ASSUME NEW request \in Requests, NEW id \in Ints, Len(request.path) >= 2,
           request.path[2] = Number(id)
    PROVE  Number(id) \in IntWords
<1>1. request.path \in Seq(Words)
  BY RequestsAssumption, PathsAssumption
<1>2. 2 \in DOMAIN request.path
  BY <1>1
<1>3. Number(id) \in Words
  BY <1>1, <1>2
<1> QED BY <1>3, IntsAssumption, NumberIsInt

\* The fields of a response about one order.
LEMMA OneOrder ==
    ASSUME NEW i \in {3, 5, 7, 8}, NEW request, i = 7 => request.body = "named",
           NEW code, NEW body, Handled(i, request, code, body), code = "ok"
    PROVE  DOMAIN body \subseteq {"order_id", "random_string"}
<1> DEFINE handler == OrdersRoutes[i].handler
           params == PathParams(OrdersRoutes[i].path, request.path)
<1>1. body = Body(handler, params, request)
  BY DEF Handled
<1>2. CASE i = 3
  BY <1>1, <1>2, HandlerNames, Bodies3
<1>3. CASE i = 5
  BY <1>1, <1>3, HandlerNames, Bodies2
<1>4. CASE i = 7
  BY <1>1, <1>4, HandlerNames, Bodies4
<1>5. CASE i = 8
  BY <1>1, <1>5, HandlerNames, Bodies3
<1> QED BY <1>2, <1>3, <1>4, <1>5

LEMMA IdIsUnderstood ==
    ASSUME NEW call, call.order_id \in Ints, NEW i \in {3, 5, 7, 8}, NEW request,
           request.path[2] = Number(call.order_id), i = 7 => request.body = "named",
           call.op = "TestMethod" => i = 8 /\ request.path[4] = call.random_string[1],
           NEW code, NEW body, Handled(i, request, code, body)
    PROVE  Understands(call, code, body)
<1>1. i \in 1..8 /\ HasId(i, request.path, call.order_id)
  BY DEF HasId
<1>2. Returned(i, request.path, call.order_id, code, body)
  BY <1>1, IdIsReturned
<1>3. code = "ok"
  BY <1>2 DEF Returned
<1>4. DOMAIN body \subseteq {"order_id", "random_string"}
  BY <1>3, OneOrder
<1>5. "order_id" \in DOMAIN body => body["order_id"] = Number(call.order_id)
  BY <1>2 DEF Returned
<1>6. ASSUME call.op = "TestMethod"
      PROVE  body["random_string"] = call.random_string[1]
  <2> DEFINE params == PathParams(OrdersRoutes[i].path, request.path)
  <2>1. i = 8
    BY <1>6
  <2>2. body = Body("TestMethod", params, request)
    BY <1>3, <2>1, HandlerNames DEF Handled
  <2>3. params["random_string"] = request.path[4]
    BY <1>1, <2>1, RouteParameters
  <2> HIDE DEF params
  <2>4. body["random_string"] = params["random_string"]
    BY <2>2, Bodies3
  <2> QED BY <1>6, <2>3, <2>4
<1> QED BY <1>3, <1>4, <1>5, <1>6 DEF Understands

LEMMA OrderRead ==
    ASSUME NEW call \in ClientCalls, call.op = "GetOrderById", ClientRequest(call) \in Requests
    PROVE  Understood(call, 3)
<1> DEFINE path == OrdersPath(<< Number(call.order_id) >>)
           request == Request("get", path, NoQuery, "none")
<1>1. call.order_id \in Ints
  BY DEF ClientCalls
<1>2. ClientRequest(call) = request
  BY DEF ClientRequest
<1>3. path \in Seq(Words)
  BY <1>2, RequestsAssumption, PathsAssumption DEF Request
<1>4. /\ Len(path) = 2
      /\ path[1] = Text("orders") /\ path[2] = Number(call.order_id)
  BY DEF OrdersPath
<1> HIDE DEF path
<1>5. /\ request.path = path /\ request.method = "get" /\ request.valid
      /\ request.body = "none"
  BY DEF Request
<1>6. OrdersRoutes[3].method = "get" /\ Len(OrdersRoutes[3].path) = 2
  BY RouteTable, RouteShapes DEF Route
<1> HIDE DEF request
<1>7. Number(call.order_id) \in IntWords
  BY <1>1, <1>2, <1>4, <1>5, IdWord
<1>8. Routed(3, request)
  BY <1>3, <1>4, <1>5, <1>6, <1>7, RoutedBy
<1>9. ASSUME NEW code, NEW body, Handled(3, request, code, body)
      PROVE  Understands(call, code, body)
  BY <1>1, <1>4, <1>5, <1>9, IdIsUnderstood
<1>10. OrdersRoutes[3].handler = Meant(call.op)
  BY HandlerNames DEF Meant
<1> QED BY <1>2, <1>5, <1>8, <1>9, <1>10 DEF Understood

LEMMA OrderDeleted ==
    ASSUME NEW call \in ClientCalls, call.op = "DeleteOrder", ClientRequest(call) \in Requests
    PROVE  Understood(call, 5)
<1> DEFINE path == OrdersPath(<< Number(call.order_id) >>)
           request == Request("delete", path, NoQuery, "none")
<1>1. call.order_id \in Ints
  BY DEF ClientCalls
<1>2. ClientRequest(call) = request
  BY DEF ClientRequest
<1>3. path \in Seq(Words)
  BY <1>2, RequestsAssumption, PathsAssumption DEF Request
<1>4. /\ Len(path) = 2
      /\ path[1] = Text("orders") /\ path[2] = Number(call.order_id)
  BY DEF OrdersPath
<1> HIDE DEF path
<1>5. /\ request.path = path /\ request.method = "delete" /\ request.valid
      /\ request.body = "none"
  BY DEF Request
<1>6. OrdersRoutes[5].method = "delete" /\ Len(OrdersRoutes[5].path) = 2
  BY RouteTable, RouteShapes DEF Route
<1> HIDE DEF request
<1>7. Number(call.order_id) \in IntWords
  BY <1>1, <1>2, <1>4, <1>5, IdWord
<1>8. Routed(5, request)
  BY <1>3, <1>4, <1>5, <1>6, <1>7, RoutedBy
<1>9. ASSUME NEW code, NEW body, Handled(5, request, code, body)
      PROVE  Understands(call, code, body)
  BY <1>1, <1>4, <1>5, <1>9, IdIsUnderstood
<1>10. OrdersRoutes[5].handler = Meant(call.op)
  BY HandlerNames DEF Meant
<1> QED BY <1>2, <1>5, <1>8, <1>9, <1>10 DEF Understood

LEMMA NameUpdated ==
    ASSUME NEW call \in ClientCalls, call.op = "UpdateOrderName", ClientRequest(call) \in Requests
    PROVE  Understood(call, 7)
<1> DEFINE path == OrdersPath(<< Number(call.order_id), Text("name") >>)
           request == Request("put", path, NoQuery, "named")
<1>1. call.order_id \in Ints
  BY DEF ClientCalls
<1>2. ClientRequest(call) = request
  BY DEF ClientRequest
<1>3. path \in Seq(Words)
  BY <1>2, RequestsAssumption, PathsAssumption DEF Request
<1>4. /\ Len(path) = 3
      /\ path[1] = Text("orders") /\ path[2] = Number(call.order_id) /\ path[3] = Text("name")
  BY DEF OrdersPath
<1> HIDE DEF path
<1>5. /\ request.path = path /\ request.method = "put" /\ request.valid
      /\ request.body = "named"
  BY DEF Request
<1>6. OrdersRoutes[7].method = "put" /\ Len(OrdersRoutes[7].path) = 3
  BY RouteTable, RouteShapes DEF Route
<1> HIDE DEF request
<1>7. Number(call.order_id) \in IntWords
  BY <1>1, <1>2, <1>4, <1>5, IdWord
<1>8. Routed(7, request)
  BY <1>3, <1>4, <1>5, <1>6, <1>7, RoutedBy
<1>9. ASSUME NEW code, NEW body, Handled(7, request, code, body)
      PROVE  Understands(call, code, body)
  BY <1>1, <1>4, <1>5, <1>9, IdIsUnderstood
<1>10. OrdersRoutes[7].handler = Meant(call.op)
  BY HandlerNames DEF Meant
<1> QED BY <1>2, <1>5, <1>8, <1>9, <1>10 DEF Understood

LEMMA TextTested ==
    ASSUME NEW call \in ClientCalls, call.op = "TestMethod", OneSegment(call),
           ClientRequest(call) \in Requests
    PROVE  Understood(call, 8)
<1> DEFINE front == << Number(call.order_id), Text("name") >>
           rest == call.random_string
           tail == front \o rest
           path == OrdersPath(tail)
           request == Request("put", path, NoQuery, "none")
           S == Words \cup {Number(call.order_id), Text("name"), Text("orders")}
<1>1. call.order_id \in Ints /\ rest \in Seq(Words) /\ Len(rest) = 1
  BY TextsAssumption DEF ClientCalls, OneSegment
<1>2. ClientRequest(call) = request
  BY DEF ClientRequest
<1>3. path \in Seq(Words)
  BY <1>2, RequestsAssumption, PathsAssumption DEF Request
<1>4. /\ Len(path) = 4
      /\ path[1] = Text("orders") /\ path[2] = Number(call.order_id) /\ path[3] = Text("name")
      /\ path[4] = call.random_string[1]
  <2>1. /\ front \in Seq(S) /\ Len(front) = 2
        /\ front[1] = Number(call.order_id) /\ front[2] = Text("name")
    OBVIOUS
  <2>2. rest \in Seq(S) /\ Text("orders") \in S
    BY <1>1
  <2> HIDE DEF front, rest, S
  <2>3. /\ tail \in Seq(S) /\ Len(tail) = 3
        /\ \A j \in 1..3 : tail[j] = IF j <= 2 THEN front[j] ELSE rest[j - 2]
    <3>1. /\ tail \in Seq(S) /\ Len(tail) = Len(front) + Len(rest)
          /\ \A j \in 1..Len(front) + Len(rest) :
                 tail[j] = IF j <= Len(front) THEN front[j] ELSE rest[j - Len(front)]
      BY <2>1, <2>2, ConcatProperties
    <3> HIDE DEF tail
    <3> QED BY <1>1, <2>1, <3>1
  <2> HIDE DEF tail
  <2>4. /\ Len(path) = 4 /\ path[1] = Text("orders")
        /\ path[2] = tail[1] /\ path[3] = tail[2] /\ path[4] = tail[3]
    <3> DEFINE base == << Text("orders") >>
    <3>0. base \in Seq(S) /\ Len(base) = 1 /\ base[1] = Text("orders") /\ path = base \o tail
      BY <2>2 DEF OrdersPath
    <3> HIDE DEF base, path
    <3>1. /\ Len(path) = Len(base) + Len(tail)
          /\ \A j \in 1..Len(base) + Len(tail) :
                 path[j] = IF j <= Len(base) THEN base[j] ELSE tail[j - Len(base)]
      BY <2>3, <3>0, ConcatProperties
    <3> QED BY <2>3, <3>0, <3>1
  <2>5. tail[3] = rest[1]
    BY <2>3
  <2> QED BY <2>1, <2>3, <2>4, <2>5 DEF rest
<1> HIDE DEF path
<1>5. call.order_id \in Ints /\ Len(path) = 4 /\ path[2] = Number(call.order_id)
  BY <1>1, <1>4
<1>6. request.path = path /\ request.method = "put" /\ request.valid
  BY DEF Request
<1>7. OrdersRoutes[8].method = "put" /\ Len(OrdersRoutes[8].path) = 4
  BY RouteTable, RouteShapes DEF Route
<1> HIDE DEF request
<1>8. request \in Requests
  BY <1>2
<1>9. Number(call.order_id) \in IntWords
  BY <1>5, <1>6, <1>8, IdWord
<1>10. Routed(8, request)
  BY <1>3, <1>4, <1>6, <1>7, <1>9, RoutedBy
<1>11. ASSUME NEW code, NEW body, Handled(8, request, code, body)
      PROVE  Understands(call, code, body)
  BY <1>1, <1>4, <1>6, <1>11, IdIsUnderstood
<1>12. OrdersRoutes[8].handler = Meant(call.op)
  BY HandlerNames DEF Meant
<1> QED BY <1>2, <1>6, <1>10, <1>11, <1>12 DEF Understood

\* Every call of the client is understood by one of the routes.
LEMMA CallIsUnderstood ==
    ASSUME NEW call \in ClientCalls, OneSegment(call), ClientRequest(call) \in Requests
    PROVE  \E i \in 1..8 : Understood(call, i)
<1>1. call.op \in {"GetOrders", "GetOrderById", "DeleteOrder", "UpdateOrderName", "RemoveAll",
                   "TestMethod"}
  BY DEF ClientCalls
<1>2. CASE call.op = "GetOrders"
  BY <1>2, OrdersListed
<1>3. CASE call.op = "GetOrderById"
  BY <1>3, OrderRead
<1>4. CASE call.op = "DeleteOrder"
  BY <1>4, OrderDeleted
<1>5. CASE call.op = "UpdateOrderName"
  BY <1>5, NameUpdated
<1>6. CASE call.op = "RemoveAll"
  BY <1>6, AllRemoved
<1>7. CASE call.op = "TestMethod"
  BY <1>7, TextTested
<1> QED BY <1>1, <1>2, <1>3, <1>4, <1>5, <1>6, <1>7

LEMMA InvImpliesUnderstood == ApiInv => ClientIsUnderstood
<1> SUFFICES ASSUME ApiInv, NEW t \in Threads, NEW call \in ClientCalls,
                    worker[t].stage = "answered", worker[t].request = ClientRequest(call),
                    OneSegment(call)
             PROVE  /\ worker[t].code = "ok"
                    /\ worker[t].by.handler = Meant(call.op)
                    /\ "error" \notin DOMAIN shown[t]
                    /\ \A field \in DOMAIN shown[t] \cap {"order_id", "limit", "offset"} :
                         shown[t][field] = Number(call[field])
                    /\ call.op = "TestMethod"
                         => shown[t]["random_string"] = call.random_string[1]
  BY DEF ClientIsUnderstood
<1> DEFINE w == worker[t]
<1>1. Works(w, shown[t]) /\ w.stage = "answered"
  BY DEF ApiInv
<1>2. w.request \in Requests
  BY <1>1 DEF Works
<1>3. PICK i \in 1..8 : Understood(call, i)
  BY <1>2, CallIsUnderstood
<1>4. /\ w.request.valid
      /\ Routed(i, w.request)
      /\ OrdersRoutes[i].handler = Meant(call.op)
      /\ \A code, body : Handled(i, w.request, code, body) => Understands(call, code, body)
  BY <1>3 DEF Understood
<1>5. PICK j \in 1..8 : /\ Routed(j, w.request)
                        /\ w.by = Entry(Service, OrdersRoutes[j])
                        /\ Handled(j, w.request, w.code, shown[t])
  BY <1>1, <1>4 DEF Works
<1>6. j = i
  BY <1>4, <1>5, RoutedOnce
<1>7. Understands(call, w.code, shown[t])
  BY <1>4, <1>5, <1>6
<1>8. w.by.handler = Meant(call.op)
  BY <1>4, <1>5, <1>6 DEF Entry
<1> QED BY <1>7, <1>8 DEF Understands

-----------------------------------------------------------------------------
(* Texts, and what TryParse makes of them: first texts of one token. *)

\* What the fold over the digits of a number is defined to be.
NumFold(f, s) ==
    f = [t \in SUBSET (DOMAIN s) |->
            IF t = {} THEN 0 ELSE 10 * f[t \ {Max(t)}] + DigitOf(s[Max(t)])]

LEMMA MaxOne == Max({1}) = 1
<1>1. (CHOOSE x \in {1} : \A y \in {1} : x >= y) \in {1}
  OBVIOUS
<1> QED BY <1>1 DEF Max

LEMMA NumberOfOne ==
    ASSUME NEW t \in Digits
    PROVE  NumberOf(<<t>>) = DigitOf(t)
<1> DEFINE s == <<t>>
<1>1. Unsigned(s) = s /\ DOMAIN s = {1} /\ s[1] = t
  BY DEF Unsigned, Digits
<1> HIDE DEF s
<1>2. NumberOf(s) = (CHOOSE f : NumFold(f, s))[{1}]
  BY <1>1 DEF NumberOf, FoldLeft, MapThenFoldSet, NumFold
<1> DEFINE value == DigitOf(t)
           g == [x \in SUBSET {1} |-> IF x = {} THEN 0 ELSE value]
<1>3. value \in Nat
  BY DEF Digits, DigitOf
<1>4. \A x \in SUBSET {1} : x = {} \/ (x = {1} /\ x \ {Max(x)} = {} /\ Max(x) = 1)
  <2> SUFFICES ASSUME NEW x \in SUBSET {1}, x # {}
               PROVE  x = {1} /\ x \ {Max(x)} = {} /\ Max(x) = 1
    OBVIOUS
  <2>1. x = {1}
    OBVIOUS
  <2> QED BY <2>1, MaxOne
<1> HIDE DEF value
<1>5. g[{}] = 0 /\ g[{1}] = value
  OBVIOUS
<1>6. \A x \in SUBSET {1} :
          g[x] = IF x = {} THEN 0 ELSE 10 * g[x \ {Max(x)}] + DigitOf(s[Max(x)])
  BY <1>1, <1>3, <1>4, <1>5 DEF value
<1>7. NumFold(g, s)
  BY <1>1, <1>6 DEF NumFold
<1> HIDE DEF g
<1>8. PICK f : f = (CHOOSE h : NumFold(h, s)) /\ NumFold(f, s)
  BY <1>7, Zenon
<1>9. f[{}] = 0
  BY <1>1, <1>8 DEF NumFold
<1>10. f[{1}] = 10 * f[{}] + DigitOf(s[1])
  <2>1. {1} \in SUBSET DOMAIN s /\ {1} # {} /\ {1} \ {Max({1})} = {} /\ Max({1}) = 1
    BY <1>1, MaxOne
  <2>2. f[{1}] = 10 * f[{1} \ {Max({1})}] + DigitOf(s[Max({1})])
    BY <1>8, <2>1 DEF NumFold
  <2> QED BY <2>1, <2>2
<1>11. f[{1}] = 10 * 0 + value
  BY <1>1, <1>9, <1>10 DEF value
<1>12. f[{1}] = value
  BY <1>3, <1>11
<1> QED BY <1>2, <1>8, <1>12 DEF s, value

SizeOf(t) ==
    CASE t \in {"inf", "INF", "nan"} -> 3 [] t \in {"true", "True"} -> 4
      [] t \in {"inity", "false"} -> 5 [] OTHER -> 1

SizeFold(f, s) ==
    f = [t \in SUBSET (DOMAIN s) |->
            IF t = {} THEN 0 ELSE f[t \ {Max(t)}] + SizeOf(s[Max(t)])]

LEMMA SizeOfOne ==
    ASSUME NEW t
    PROVE  Size(<<t>>) \in {1, 3, 4, 5}
<1> DEFINE s == <<t>>
<1>1. DOMAIN s = {1} /\ s[1] = t
  OBVIOUS
<1> HIDE DEF s
<1>2. Size(s) = (CHOOSE f : SizeFold(f, s))[{1}]
  BY <1>1 DEF Size, FoldLeft, MapThenFoldSet, SizeFold, SizeOf
<1> DEFINE value == SizeOf(t)
           g == [x \in SUBSET {1} |-> IF x = {} THEN 0 ELSE value]
<1>3. value \in {1, 3, 4, 5}
  BY DEF SizeOf
<1>4. \A x \in SUBSET {1} : x = {} \/ (x = {1} /\ x \ {Max(x)} = {} /\ Max(x) = 1)
  <2> SUFFICES ASSUME NEW x \in SUBSET {1}, x # {}
               PROVE  x = {1} /\ x \ {Max(x)} = {} /\ Max(x) = 1
    OBVIOUS
  <2>1. x = {1}
    OBVIOUS
  <2> QED BY <2>1, MaxOne
<1> HIDE DEF value
<1>5. g[{}] = 0 /\ g[{1}] = value
  OBVIOUS
<1>6. \A x \in SUBSET {1} : g[x] = IF x = {} THEN 0 ELSE g[x \ {Max(x)}] + SizeOf(s[Max(x)])
  BY <1>1, <1>3, <1>4, <1>5 DEF value
<1>7. SizeFold(g, s)
  BY <1>1, <1>6 DEF SizeFold
<1> HIDE DEF g
<1>8. PICK f : f = (CHOOSE h : SizeFold(h, s)) /\ SizeFold(f, s)
  BY <1>7, Zenon
<1>9. f[{}] = 0
  BY <1>1, <1>8 DEF SizeFold
<1>10. f[{1}] = f[{}] + SizeOf(s[1])
  <2>1. {1} \in SUBSET DOMAIN s /\ {1} # {} /\ {1} \ {Max({1})} = {} /\ Max({1}) = 1
    BY <1>1, MaxOne
  <2>2. f[{1}] = f[{1} \ {Max({1})}] + SizeOf(s[Max({1})])
    BY <1>8, <2>1 DEF SizeFold
  <2> QED BY <2>1, <2>2
<1>11. f[{1}] = 0 + value
  BY <1>1, <1>9, <1>10 DEF value
<1>12. f[{1}] = value
  BY <1>3, <1>11
<1> QED BY <1>2, <1>3, <1>8, <1>12 DEF s

-----------------------------------------------------------------------------
(* What TryParse makes of a text. *)

Reads(type, s) == IF type = "double" THEN IsFloat(s) ELSE IsInteger(s)

LEMMA WholeText ==
    ASSUME NEW S, NEW s \in Seq(S), s # << >>
    PROVE  Len(s) \in 1..Len(s) /\ SubSeq(s, 1, Len(s)) = s
OBVIOUS

\* The whole text is a number in range, or nothing is read of it.
LEMMA WholeIsRead ==
    ASSUME NEW S, NEW s \in Seq(S), NEW type
    PROVE  {r.value : r \in {r \in FromChars(type, s) : r.ptr = Len(s)}}
               = IF s # << >> /\ Reads(type, s) /\ InRange(type, s) THEN {Value(s)} ELSE {}
<1> DEFINE reads(k) == Reads(type, SubSeq(s, 1, k))
           ends == {k \in 1..Len(s) : /\ reads(k) /\ \A j \in k + 1..Len(s) : ~reads(j)
                                      /\ InRange(type, SubSeq(s, 1, k))}
           read(k) == [ptr |-> k, value |-> Value(SubSeq(s, 1, k))]
<1>1. FromChars(type, s) = {read(k) : k \in ends}
  BY DEF FromChars, Reads
<1>2. \A k : read(k).ptr = k /\ read(k).value = Value(SubSeq(s, 1, k))
  OBVIOUS
<1> DEFINE whole == {r \in FromChars(type, s) : r.ptr = Len(s)}
<1>3. whole = IF Len(s) \in ends THEN {read(Len(s))} ELSE {}
  <2> HIDE DEF ends, read
  <2> QED BY <1>1, <1>2
<1>4. Len(s) \in ends <=> s # << >> /\ Reads(type, s) /\ InRange(type, s)
  <2>1. CASE s = << >>
    BY <2>1
  <2>2. CASE s # << >>
    <3>1. Len(s) \in 1..Len(s) /\ SubSeq(s, 1, Len(s)) = s /\ Len(s) + 1..Len(s) = {}
      BY <2>2, WholeText
    <3> QED BY <2>2, <3>1
  <2> QED BY <2>1, <2>2
<1>5. s # << >> => read(Len(s)).value = Value(s)
  BY <1>2, WholeText
<1> HIDE DEF ends, read, whole
<1>6. CASE Len(s) \in ends
  <2>1. whole = {read(Len(s))}
    BY <1>3, <1>6
  <2>2. {r.value : r \in whole} = {read(Len(s)).value}
    BY <2>1
  <2> QED BY <1>4, <1>5, <1>6, <2>2 DEF whole
<1>7. CASE Len(s) \notin ends
  <2>1. whole = {}
    BY <1>3, <1>7
  <2>2. {r.value : r \in whole} = {}
    BY <2>1
  <2> QED BY <1>4, <1>7, <2>2 DEF whole
<1> QED BY <1>6, <1>7

LEMMA IntegerText ==
    ASSUME NEW S, NEW s \in Seq(S), IsInteger(s)
    PROVE  /\ s # << >> /\ Value(s) = <<"whole", NumberOf(s)>>
           /\ Spells(s) = {NumberOf(s)}
<1>1. s # << >>
  BY DEF IsInteger, Unsigned
<1> QED BY <1>1 DEF Value, Spells

LEMMA NumberRead ==
    ASSUME NEW n
    PROVE  /\ \A type \in {"int", "int64"} :
                  TryParse(type, Number(n))
                      = IF n \in Signed(IF type = "int" THEN IntBits ELSE Int64Bits)
                        THEN {n} ELSE {}
           /\ TryParse("double", Number(n)) = IF n \in Doubles THEN {n} ELSE {}
           /\ TryParse("bool", Number(n)) = IF n = 1 THEN {TRUE} ELSE IF n = 0 THEN {FALSE} ELSE {}
<1>1. IsNumber(Number(n)) /\ Number(n).number = n
  BY DEF IsNumber, Number
<1>2. \A m : Number(n) = Number(m) <=> n = m
  BY DEF Number
<1>3. \A t : Number(n) # Text(t)
  <2>1. \A t : DOMAIN Number(n) # DOMAIN Text(t)
    BY DEF Number, Text
  <2> QED BY <2>1
<1> HIDE DEF Number, Text
<1> QED BY <1>1, <1>2, <1>3 DEF TryParse

\* An integer is read whole and in range, or not at all.
LEMMA IntsAreRead ==
    ASSUME NEW S, NEW s \in Seq(S), NEW type \in {"int", "int64"}
    PROVE  TryParseNumber(type, s)
               = {<<"whole", v>> : v \in UNION {TryParse(type, Number(n)) : n \in Spells(s)}}
<1>1. TryParseNumber(type, s)
        = IF s # << >> /\ IsInteger(s) /\ InRange(type, s) THEN {Value(s)} ELSE {}
  BY WholeIsRead DEF TryParseNumber, Reads
<1>2. CASE IsInteger(s)
  <2> DEFINE n == NumberOf(s)
             bits == IF type = "int" THEN IntBits ELSE Int64Bits
  <2>1. InRange(type, s) <=> n \in Signed(bits)
    BY DEF InRange, Signed
  <2>2. UNION {TryParse(type, Number(m)) : m \in Spells(s)} = TryParse(type, Number(n))
    BY <1>2, IntegerText
  <2> HIDE DEF n
  <2>3. TryParse(type, Number(n)) = IF n \in Signed(bits) THEN {n} ELSE {}
    BY NumberRead
  <2> QED BY <1>1, <1>2, <2>1, <2>2, <2>3, IntegerText DEF n
<1>3. CASE ~IsInteger(s)
  BY <1>1, <1>3 DEF Spells
<1> QED BY <1>2, <1>3

\* An integer is a double unless it is too large, and none of the literals that are
\* refused.
LEMMA IntsAreDoubles ==
    ASSUME NEW S, NEW s \in Seq(S), IsInteger(s)
    PROVE  TryParseNumber("double", s)
               = {<<"whole", v>> : v \in TryParse("double", Number(NumberOf(s)))}
<1> DEFINE u == Unsigned(s)
<1>1. u \in Seq(S) /\ u # << >> /\ ToSet(u) \subseteq Digits
  BY DEF IsInteger, Unsigned
<1>2. s # << >> /\ (s = u \/ Head(s) = "-")
  BY <1>1 DEF Unsigned
<1>3. IsFloat(s)
  <2>1. Len(u) \in 1..Len(u) /\ SubSeq(u, 1, Len(u)) = u
    BY <1>1, WholeText
  <2>2. IsDecimal(u)
    <3>1. 1 \in DOMAIN u
      BY <1>1
    <3> HIDE DEF u
    <3>2. u[1] \in ToSet(u) /\ \A i \in DOMAIN u : u[i] \in ToSet(u)
      BY <3>1 DEF ToSet
    <3>3. "." \notin Digits
      BY DEF Digits
    <3> QED BY <1>1, <3>2, <3>3 DEF IsDecimal
  <2> QED BY <2>1, <2>2 DEF IsFloat
<1>4. Lower(s) \notin {<<"inf">>, <<"nan">>}
  <2> SUFFICES ASSUME Lower(s) \in {<<"inf">>, <<"nan">>}
               PROVE  FALSE
    OBVIOUS
  <2>1. DOMAIN Lower(s) = {1} /\ Lower(s)[1] \in {"inf", "nan"}
    OBVIOUS
  <2>2. DOMAIN s = {1} /\ s[1] \in {"inf", "INF", "nan"}
    BY <2>1 DEF Lower
  <2>3. Len(s) = 1 /\ Head(s) = s[1]
    BY <2>2
  <2>4. s = u
    BY <1>2, <2>2, <2>3
  <2>5. s[1] \in Digits
    BY <1>1, <2>2, <2>4 DEF ToSet
  <2> QED BY <2>2, <2>5 DEF Digits
<1>5. TryParseNumber("double", s) = IF NumberOf(s) \in Doubles THEN {Value(s)} ELSE {}
  <2>1. TryParseNumber("double", s) = {r.value : r \in {r \in FromChars("double", s) : r.ptr = Len(s)}}
    BY <1>4 DEF TryParseNumber
  <2>2. Reads("double", s)
    BY <1>3 DEF Reads
  <2>3. InRange("double", s) <=> NumberOf(s) \in Doubles
    BY DEF InRange
  <2> QED BY <1>2, <2>1, <2>2, <2>3, WholeIsRead
<1>6. TryParse("double", Number(NumberOf(s)))
          = IF NumberOf(s) \in Doubles THEN {NumberOf(s)} ELSE {}
  BY NumberRead
<1> QED BY <1>5, <1>6, IntegerText

LowerToken(t) == CASE t = "INF" -> "inf" [] t = "True" -> "true" [] OTHER -> t

LEMMA TextRead ==
    ASSUME NEW t
    PROVE  TryParse("bool", Text(t))
               = IF t = "true" THEN {TRUE} ELSE IF t = "false" THEN {FALSE} ELSE {}
<1>1. \A u : Text(t) = Text(u) <=> t = u
  BY DEF Text
<1>2. \A n : Text(t) # Number(n)
  <2>1. \A n : DOMAIN Number(n) # DOMAIN Text(t)
    BY DEF Number, Text
  <2> QED BY <2>1
<1> HIDE DEF Number, Text
<1> QED BY <1>1, <1>2 DEF TryParse

\* A text of one token is an integer if that is a digit.
LEMMA SpellsOne ==
    ASSUME NEW t
    PROVE  Spells(<<t>>) = IF t \in Digits THEN {DigitOf(t)} ELSE {}
<1> DEFINE s == <<t>>
<1>1. s # << >> /\ Head(s) = t /\ Tail(s) = << >> /\ ToSet(s) = {t}
  BY DEF ToSet
<1> HIDE DEF s
<1>2. Unsigned(s) = IF t = "-" THEN << >> ELSE s
  BY <1>1 DEF Unsigned
<1>3. "-" \notin Digits
  BY DEF Digits
<1>4. IsInteger(s) <=> t \in Digits
  BY <1>1, <1>2, <1>3 DEF IsInteger
<1>5. t \in Digits => NumberOf(s) = DigitOf(t)
  BY NumberOfOne DEF s
<1> QED BY <1>4, <1>5 DEF Spells, s

\* A truth value is a text of one token.
LEMMA BoolsAreRead ==
    ASSUME NEW S, NEW s \in Seq(S)
    PROVE  TryParseBool(s) =
               IF Len(s) # 1 THEN {}
               ELSE UNION {TryParse("bool", word) :
                              word \in {Number(n) : n \in Spells(s)}
                                           \cup {Text(t) : t \in ToSet(Lower(s))}}
<1> DEFINE words == {Number(n) : n \in Spells(s)} \cup {Text(t) : t \in ToSet(Lower(s))}
<1>1. CASE Len(s) # 1
  <2>1. DOMAIN Lower(s) # {1}
    <3>1. PICK n \in Nat : n = Len(s) /\ DOMAIN s = 1..n
      OBVIOUS
    <3>2. 1..n # {1}
      BY <1>1, <3>1
    <3> QED BY <3>1, <3>2 DEF Lower
  <2>2. \A t : DOMAIN <<t>> = {1}
    OBVIOUS
  <2>3. \A t : Lower(s) # <<t>>
    BY <2>1, <2>2
  <2> QED BY <1>1, <2>3 DEF TryParseBool
<1>2. CASE Len(s) = 1
  <2>1. PICK t : s = <<t>>
    <3>1. s = <<s[1]>>
      BY <1>2
    <3> QED BY <3>1
  <2> DEFINE low == LowerToken(t)
  <2>2. Lower(s) = <<low>> /\ ToSet(Lower(s)) = {low}
    BY <2>1 DEF Lower, LowerToken, ToSet
  <2>3. Size(s) \in {1, 3, 4, 5}
    BY <2>1, SizeOfOne
  <2>4. s # << >> /\ ~(Size(s) > 5)
    <3>1. PICK n \in {1, 3, 4, 5} : n = Size(s)
      BY <2>3
    <3>2. ~(n > 5)
      OBVIOUS
    <3>3. ~(Size(s) > 5)
      BY <3>1, <3>2
    <3>4. s # << >>
      BY <1>2
    <3> QED BY <3>3, <3>4
  <2>5. \A u : <<low>> = <<u>> <=> low = u
    OBVIOUS
  <2>6. TryParseBool(s) = IF low \in {"true", "1"} THEN {TRUE}
                          ELSE IF low \in {"false", "0"} THEN {FALSE} ELSE {}
    BY <2>2, <2>4, <2>5 DEF TryParseBool
  <2>7. Spells(s) = IF t \in Digits THEN {DigitOf(t)} ELSE {}
    BY <2>1, SpellsOne
  <2>8. UNION {TryParse("bool", word) : word \in words}
          = (UNION {TryParse("bool", Number(n)) : n \in Spells(s)}) \cup TryParse("bool", Text(low))
    <3>1. words = {Number(n) : n \in Spells(s)} \cup {Text(low)}
      BY <2>2
    <3> DEFINE bool(w) == TryParse("bool", w)
               literal == Text(low)
               numbers == {Number(n) : n \in Spells(s)}
    <3>2. words = numbers \cup {literal}
      BY <3>1
    <3>3. UNION {bool(Number(n)) : n \in Spells(s)} = UNION {bool(w) : w \in numbers}
      <4> HIDE DEF bool
      <4> QED OBVIOUS
    <3> HIDE DEF low, words, bool, literal, numbers
    <3>4. UNION {bool(w) : w \in words} = (UNION {bool(w) : w \in numbers}) \cup bool(literal)
      BY <3>2
    <3> QED BY <3>3, <3>4 DEF bool, literal
  <2>9. TryParse("bool", Text(low))
          = IF low = "true" THEN {TRUE} ELSE IF low = "false" THEN {FALSE} ELSE {}
    BY TextRead
  <2>10. UNION {TryParse("bool", Number(n)) : n \in Spells(s)}
           = IF t = "1" THEN {TRUE} ELSE IF t = "0" THEN {FALSE} ELSE {}
    <3>1. CASE t \in Digits
      <4>1. DigitOf(t) = 1 <=> t = "1"
        BY <3>1 DEF Digits, DigitOf
      <4>2. DigitOf(t) = 0 <=> t = "0"
        BY <3>1 DEF Digits, DigitOf
      <4>3. UNION {TryParse("bool", Number(n)) : n \in Spells(s)}
              = TryParse("bool", Number(DigitOf(t)))
        BY <2>7, <3>1
      <4> QED BY <4>1, <4>2, <4>3, NumberRead
    <3>2. CASE t \notin Digits
      BY <2>7, <3>2 DEF Digits
    <3> QED BY <3>1, <3>2
  <2>11. (low = "1" <=> t = "1") /\ (low = "0" <=> t = "0")
    BY DEF LowerToken
  <2> HIDE DEF low, words
  <2>12. UNION {TryParse("bool", word) : word \in words}
           = IF low \in {"true", "1"} THEN {TRUE}
             ELSE IF low \in {"false", "0"} THEN {FALSE} ELSE {}
    <3>1. CASE low \in {"1", "0"}
      BY <2>8, <2>9, <2>10, <2>11, <3>1
    <3>2. CASE low \notin {"1", "0"}
      <4>1. UNION {TryParse("bool", Number(n)) : n \in Spells(s)} = {}
        BY <2>10, <2>11, <3>2
      <4> QED BY <2>8, <2>9, <3>2, <4>1
    <3> QED BY <3>1, <3>2
  <2> QED BY <1>2, <2>6, <2>12 DEF words
<1> QED BY <1>1, <1>2

TextTyped == text \in Seq(Tokens)

-----------------------------------------------------------------------------
(* What follows. *)

\* The service drives the router as any owner of controllers may, so that all that
\* is proved of the router holds in the service (main.cpp:68-72).
THEOREM ApiUsesRouter == ApiSpec => ImplementsRouter
BY InitIsRouterInit, StepIsRouterStep, PTL DEF ApiSpec, ImplementsRouter, RouterSpec

\* ApiInv is an invariant of the service.
THEOREM ApiInvariant == ApiSpec => []ApiInv
<1>1. ApiSpec => RouterSpec
  BY ApiUsesRouter DEF ImplementsRouter
<1>2. ApiSpec => [](LInv /\ TrieInv)
  BY <1>1, RouterInvariant, RouterUsesTrie, TrieInvariant, PTL
<1> QED BY <1>2, ApiInvInit, ApiInvNext, PTL DEF ApiSpec

\* Whatever the requests, each is answered by the one route it matches
\* (OrdersController.hpp:12-21, RouteTrie.cpp:145-170).
THEOREM RoutesDoNotHide == ApiSpec => []NoRouteIsHidden
BY ApiInvariant, InvImpliesNotHidden, PTL

\* However wide int and int64_t are, an id that only the latter can hold is refused,
\* and any other is the number in the path (PathParamType.hpp:17,
\* OrdersController.cpp:34, 41, 48, 60, 76).
THEOREM IdsAreRead == ApiSpec => []IdsAreReadOrRefused
BY ApiInvariant, InvImpliesIdsRead, PTL

\* For every int that a caller of OrdersClient may pass, its call reaches the method
\* of OrdersController it names with the argument it was given
\* (OrdersClient.cpp:18-47, OrdersController.cpp:8-83).
THEOREM CallsAreUnderstood == ApiSpec => []ClientIsUnderstood
BY ApiInvariant, InvImpliesUnderstood, PTL

\* Whatever is spelled, in words of any tokens, is read as the number or truth value
\* it spells: whole and in range, or not at all
\* (ValueParser.hpp:38-77, PathParamType.hpp:17-23).
THEOREM SpellingsAreRead == TextSpec => []ImplementsTypedParams
<1>1. TextInit => TextTyped
  BY DEF TextInit, TextTyped
<1>2. TextTyped /\ [TextNext]_text => TextTyped'
  <2> SUFFICES ASSUME text \in Seq(Tokens), [TextNext]_text
               PROVE  text' \in Seq(Tokens)
    BY DEF TextTyped
  <2>1. ASSUME NEW t \in Tokens, text' = Append(text, t)
        PROVE  text' \in Seq(Tokens)
    BY <2>1
  <2>2. CASE text' = << >>
    BY <2>2
  <2>3. CASE text' = text
    BY <2>3
  <2> QED BY <2>1, <2>2, <2>3 DEF TextNext
<1>3. TextTyped => ImplementsTypedParams
  <2> SUFFICES ASSUME text \in Seq(Tokens)
               PROVE  ImplementsTypedParams
    BY DEF TextTyped
  <2>1. \A type \in {"int", "int64"} :
            TryParseNumber(type, text)
                = {<<"whole", v>> : v \in UNION {TryParse(type, Number(n)) : n \in Spells(text)}}
    BY IntsAreRead
  <2>2. \A n \in Spells(text) :
            TryParseNumber("double", text) = {<<"whole", v>> : v \in TryParse("double", Number(n))}
    <3> SUFFICES ASSUME NEW n \in Spells(text)
                 PROVE  TryParseNumber("double", text)
                            = {<<"whole", v>> : v \in TryParse("double", Number(n))}
      OBVIOUS
    <3>1. IsInteger(text) /\ n = NumberOf(text)
      BY DEF Spells
    <3> QED BY <3>1, IntsAreDoubles
  <2> QED BY <2>1, <2>2, BoolsAreRead DEF ImplementsTypedParams
<1> QED BY <1>1, <1>2, <1>3, PTL DEF TextSpec
=============================================================================
