------------------------------ MODULE RouteTrie ------------------------------
(***************************************************************************)
(* The routing table of common/http (RouteTrie.cpp, PathParamType.hpp): a  *)
(* trie of path segments, filled by AddRoute while the controllers         *)
(* register and then read by FindRoute for every request.                  *)
(*                                                                         *)
(* A node is identified by the edges that lead to it from the root: a      *)
(* TrieNode owns its children, so there is one node per sequence of edges. *)
(* Words stand for the literal segments of a path, already split.          *)
(***************************************************************************)
EXTENDS Naturals, Sequences

CONSTANTS
    Words,          \* the literal segments of paths
    IntWords,       \* those that MatchInt accepts
    FloatWords,     \* those that MatchFloat accepts
    Names,          \* the names of path parameters
    Methods,        \* http::verb
    Patterns,       \* the paths given to AddRoute
    Paths,          \* the paths given to FindRoute
    MaxCalls        \* bound: the calls of AddRoute

\* What parses as an int64_t parses as a double.
ASSUME WordsAssumption == IntWords \subseteq FloatWords /\ FloatWords \subseteq Words

VARIABLES
    nodes,          \* the nodes of the trie
    handlers,       \* the <<node, method>> pairs that have a handler
    calls,          \* AddRoute calls so far
    rejected,       \* one of them threw
    tried           \* history: the <<path, method>> pairs of all of them

trieVars == <<nodes, handlers, calls, rejected, tried>>

Types == {"string", "float", "int"}

\* "other": a type that PathParamRegistry does not know.
Static(word) == [kind |-> "static", word |-> word]
Param(name, type) == [kind |-> "param", name |-> name, type |-> type]

StaticEdges == {Static(word) : word \in Words}
ParamEdges == {Param(name, type) : name \in Names, type \in Types}
Edges == StaticEdges \cup ParamEdges
Segments == Edges \cup {Param(name, "other") : name \in Names}

ASSUME PatternsAssumption == Patterns \subseteq Seq(Segments)
ASSUME PathsAssumption == Paths \subseteq Seq(Words)
ASSUME MaxCallsAssumption == MaxCalls \in Nat

Prefix(s, k) == SubSeq(s, 1, k)

-----------------------------------------------------------------------------
(* PathParamType.hpp *)

Matcher(type, word) ==
    \/ type = "string"
    \/ type = "float" /\ word \in FloatWords
    \/ type = "int" /\ word \in IntWords

\* PathParamPriority
Priority(type) == CASE type = "int" -> 4 [] type = "float" -> 2 [] OTHER -> 0

-----------------------------------------------------------------------------
(* AddRoute *)

\* A sibling of the same type is not looked for.
SlipNeverAmbiguous(pattern, k) ==
    pattern[k].kind = "param" /\ pattern[k].type \notin Types

\* Only the first sibling in the order of ParamKey is compared with.
SlipComparesFirst(pattern, k) ==
    LET segment == pattern[k]
        siblings == {e \in ParamEdges : Append(Prefix(pattern, k - 1), e) \in nodes}
    IN  /\ segment.kind = "param"
        /\ \/ segment.type \notin Types
           \/ /\ Prefix(pattern, k) \notin nodes
              /\ \E e \in siblings : /\ e.type = segment.type
                                     /\ \A f \in siblings : Priority(f.type) <= Priority(e.type)

\* ParseParamSegment or AddPath throws at segment k of the pattern: the type is
\* unknown, or a sibling of another name has the same type.
Throws(pattern, k) ==
    LET segment == pattern[k]
        parent == Prefix(pattern, k - 1)
    IN  /\ segment.kind = "param"
        /\ \/ segment.type \notin Types
           \/ /\ Prefix(pattern, k) \notin nodes
              /\ \E e \in ParamEdges : /\ e.type = segment.type
                                       /\ Append(parent, e) \in nodes

Accepted(pattern) == \A k \in DOMAIN pattern : ~Throws(pattern, k)

\* The nodes AddPath finds or creates: those it made before it throws stay.
Path(pattern) ==
    {Prefix(pattern, k) :
        k \in {k \in 0..Len(pattern) : \A j \in 1..k : ~Throws(pattern, j)}}

\* A rejected call clears the table.
SlipRejectClears(method, pattern) ==
    /\ calls < MaxCalls
    /\ calls' = calls + 1
    /\ tried' = tried \cup {<<pattern, method>>}
    /\ IF Accepted(pattern)
       THEN /\ nodes' = nodes \cup Path(pattern)
            /\ handlers' = handlers \cup {<<pattern, method>>}
            /\ UNCHANGED rejected
       ELSE /\ nodes' = {<< >>}
            /\ handlers' = {}
            /\ rejected' = TRUE

AddRoute(method, pattern) ==
    /\ calls < MaxCalls
    /\ calls' = calls + 1
    /\ tried' = tried \cup {<<pattern, method>>}
    /\ nodes' = nodes \cup Path(pattern)
    /\ IF Accepted(pattern)
       THEN handlers' = handlers \cup {<<pattern, method>>} /\ UNCHANGED rejected
       ELSE rejected' = TRUE /\ UNCHANGED handlers

-----------------------------------------------------------------------------
(* FindRoute *)

Children(node, edges) == {e \in edges : Append(node, e) \in nodes}

\* The children are tried from the lowest priority up.
SlipDescendUpwards(node, word) ==
    LET static == Children(node, {Static(word)})
        matching == {e \in Children(node, ParamEdges) : Matcher(e.type, word)}
        best == {e \in matching :
                    \A f \in matching : Priority(f.type) >= Priority(e.type)}
    IN  {Append(node, e) : e \in IF static # {} THEN static ELSE best}

\* One step of FindPath: the static child, or else the first parameter child
\* that matches in the order of ParamKey, from the highest priority down.
Descend(node, word) ==
    LET static == Children(node, {Static(word)})
        matching == {e \in Children(node, ParamEdges) : Matcher(e.type, word)}
        best == {e \in matching :
                    \A f \in matching : Priority(f.type) <= Priority(e.type)}
    IN  {Append(node, e) : e \in IF static # {} THEN static ELSE best}

\* The node a path leads to, as a set of at most one: the search never goes
\* back on a choice.
FindPath(path) ==
    LET reached[k \in 0..Len(path)] ==
            IF k = 0 THEN {<< >>}
            ELSE UNION {Descend(node, path[k]) : node \in reached[k - 1]}
    IN  reached[Len(path)]

\* What FindPath collects on the way to a node: of two parameters of one name the
\* last one stays.
PathParams(node, path) ==
    LET positions(name) == {k \in DOMAIN node : node[k].kind = "param" /\ node[k].name = name}
        last(name) == CHOOSE k \in positions(name) : \A j \in positions(name) : j <= k
    IN  [name \in {n \in Names : positions(n) # {}} |-> path[last(name)]]

FindRoute(method, path) == {node \in FindPath(path) : <<node, method>> \in handlers}

-----------------------------------------------------------------------------

TrieInit ==
    /\ nodes = {<< >>}
    /\ handlers = {}
    /\ calls = 0
    /\ rejected = FALSE
    /\ tried = {}

TrieNext == \E method \in Methods, pattern \in Patterns : AddRoute(method, pattern)

TrieSpec == TrieInit /\ [][TrieNext]_trieVars

-----------------------------------------------------------------------------
(* What the routing table promises. *)

\* No node has two parameter children of one type, in whatever order routes are
\* added and whichever of them are rejected half way: so the order of a node's
\* children never decides which of them matches (RouteTrie.cpp:98-108, 155-163).
NoAmbiguousSiblings ==
    \A node \in nodes : \A e, f \in Children(node, ParamEdges) :
        e.type = f.type => e = f

Fits(e, word) == IF e.kind = "static" THEN e.word = word ELSE Matcher(e.type, word)

Matches(node, path) ==
    Len(node) = Len(path) /\ \A k \in DOMAIN path : Fits(node[k], path[k])

\* More specific edges are tried first: a word, then int, float, string.
Rank(e) == IF e.kind = "static" THEN 5 ELSE Priority(e.type)

\* Some node steals the path from the route at its k-th segment.
Shadowed(node, path) ==
    \E k \in DOMAIN path :
        \E e \in Children(Prefix(node, k - 1), Edges) :
            Rank(e) > Rank(node[k]) /\ Fits(e, path[k])

\* A lookup finds a registered route exactly if the route matches the path
\* segment by segment and no more specific branch of the trie takes the path away
\* from it; so it never finds two.  FindPath does not go back: that branch may well
\* have no handler for the method, or none at all (RouteTrie.cpp:139-191).
LookupIsExact ==
    \A path \in Paths, method \in Methods :
        FindRoute(method, path)
            = {route[1] : route \in {r \in handlers : /\ r[2] = method
                                                      /\ Matches(r[1], path)
                                                      /\ ~Shadowed(r[1], path)}}

\* Two routes that agree up to a segment where they name a parameter of one type
\* differently.
Clash(p, q) ==
    \E k \in DOMAIN p \cap DOMAIN q :
        /\ Prefix(p, k - 1) = Prefix(q, k - 1)
        /\ p[k].kind = "param" /\ q[k].kind = "param"
        /\ p[k].type = q[k].type /\ p[k].name # q[k].name

Unknown(p) == \E k \in DOMAIN p : p[k].kind = "param" /\ p[k].type \notin Types

\* Where the two routes part, the path goes on with q.
Precedes(q, p, path) ==
    \E k \in DOMAIN path \cap DOMAIN q :
        /\ Prefix(q, k - 1) = Prefix(p, k - 1)
        /\ Rank(q[k]) > Rank(p[k]) /\ Fits(q[k], path[k])

\* "Registration order does not break the search" (RouterTest.cpp:256).  Whether a
\* set of routes can be registered at all, and where every path then leads, follows
\* from the set: a call throws in any order or in none, and a table that nothing
\* was rejected from routes as if it looked at all routes at once.  What the set
\* does not tell is the handler of a route that was registered twice
\* (RouteTrie.cpp:88-126, 139-191).
OrderDoesNotMatter ==
    /\ rejected <=> \E a, b \in tried : Unknown(a[1]) \/ Clash(a[1], b[1])
    /\ ~rejected => \A path \in Paths, method \in Methods :
           FindRoute(method, path)
               = {a[1] : a \in {a \in tried : /\ a[2] = method /\ Matches(a[1], path)
                                              /\ ~\E b \in tried : Precedes(b[1], a[1], path)}}

\* Adding a route disturbs no lookup but those its own segments match, at least
\* from the node where it leaves the old trie (RouteTrie.cpp:88-126).
AddIsConservative ==
    [][\A path \in Paths, method \in Methods :
          FindRoute(method, path)' # FindRoute(method, path)
              => \/ \E node \in nodes' \ nodes :
                        /\ Len(node) <= Len(path)
                        /\ Matches(node, Prefix(path, Len(node)))
                 \/ \E route \in handlers' \ handlers : Matches(route[1], path)]_trieVars
=============================================================================
