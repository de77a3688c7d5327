----------------------------- MODULE MCRouteTrie -----------------------------
(***************************************************************************)
(* Routing tables built by a few AddRoute calls with texts, every path of  *)
(* up to MaxDepth segments looked up in them, and the listing of each of   *)
(* them.                                                                   *)
(***************************************************************************)
EXTENDS PathText

CONSTANTS
    get, put,       \* model values
    MaxDepth,       \* bound: the segments of a path
    MaxLength       \* bound: the tokens of the texts that are only split

\* "7" is an integer, "7.5" only a float, "orders" neither.
orders == <<"orders">>
seven == <<"7">>
half == <<"7.5">>

\* One edge of each kind, and a second name for one of the types.
MCSegments ==
    {orders,
     <<"{", "id", ":", "int", "}">>, <<"{", "id", ":", "float", "}">>,
     <<"{", "key", ":", "float", "}">>, <<"{", "key", ":", "string", "}">>}

Spelled(segments) == FlattenSeq([k \in DOMAIN segments |-> <<"/">> \o segments[k]])

\* An unknown type, the default type, a name and a type that are none, a second
\* colon, braces that hold nothing or are not closed, slashes that are missing or
\* too many, and a literal that is an integer as well.
OddTexts ==
    {<<"/", "orders", "/", "{", "id", ":", "other", "}">>,
     <<"/", "orders", "/", "{", "key", "}">>,
     <<"/", "orders", "/", "{", ":", "int", "}">>,
     <<"/", "orders", "/", "{", "id", ":", "}">>,
     <<"/", "{", "id", ":", "id", ":", "int", "}">>,
     <<"/", "orders", "/", "{", "}">>,
     <<"/", "{", "id">>,
     <<"orders", "/", "/", "{", "id", ":", "int", "}", "/">>,
     <<"/", "/", "orders", "/", "7">>}

Symmetry == Permutations(Methods)

MCTexts == {Spelled(s) : s \in UNION {[1..n -> MCSegments] : n \in 0..MaxDepth}} \cup OddTexts

MCPatterns == {PatternOf(text) : text \in MCTexts}

MCEdges == UNION {ToSet(pattern) : pattern \in MCPatterns}
MCWords == {e.word : e \in {e \in MCEdges : e.kind = "static"}} \cup {seven, half}
MCIntWords == {seven}
MCFloatWords == {seven, half}
MCNames == {e.name : e \in {e \in MCEdges : e.kind = "param"}}

MCPaths == UNION {[1..n -> {orders, seven, half}] : n \in 0..MaxDepth}

-----------------------------------------------------------------------------

\* The parts of a text between its slashes, those that are empty left out.
Runs(text) ==
    LET starts == {i \in DOMAIN text : text[i] # "/" /\ (i > 1 => text[i - 1] = "/")}
        run(i) == SubSeq(text, i, CHOOSE j \in i..Len(text) :
                      /\ \A k \in i..j : text[k] # "/"
                      /\ j < Len(text) => text[j + 1] = "/")
        order == SetToSortSeq(starts, <)
    IN  [k \in DOMAIN order |-> run(order[k])]

Spellings ==
    {[segments |-> SegmentsOf(text), runs |-> Runs(text)] :
        text \in UNION {[1..n -> {"/", "orders", "7"}] : n \in 0..MaxLength}}

\* Slashes do nothing but separate: a request leads to the node of the parts
\* between its slashes, whatever stands at the ends and however many slashes
\* there are in a row; and a route is split as a request is
\* (RouteTrie.cpp:11-60, 139-191).
SlashesOnlySeparate ==
    \A spelling \in Spellings : FindPath(spelling.segments) = FindPath(spelling.runs)
=============================================================================
