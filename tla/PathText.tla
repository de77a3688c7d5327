------------------------------ MODULE PathText ------------------------------
(***************************************************************************)
(* The texts of the routing table (RouteTrie.cpp): the path a controller   *)
(* registers, the path of a request and the listing of GetAllRoutes.       *)
(* RouteTrie takes paths that are already split and parsed; this module    *)
(* splits, parses and prints them.                                         *)
(*                                                                         *)
(* A text is a sequence of tokens: a slash, a brace, a colon, or a word    *)
(* that holds none of these.  A literal segment and the name of a          *)
(* parameter are sequences of tokens too.                                  *)
(***************************************************************************)
EXTENDS RouteTrie, SequencesExt

CONSTANT
    Texts           \* the paths given to AddRoute

ASSUME TextsAssumption == Texts \subseteq Seq(STRING)

-----------------------------------------------------------------------------
(* Splitting *)

\* At most one slash is taken off either end.
NormalizePath(text) ==
    LET unled == IF text # << >> /\ Head(text) = "/" THEN Tail(text) ELSE text
    IN  IF unled # << >> /\ Last(unled) = "/" THEN Front(unled) ELSE unled

\* What stands behind the last slash is forgotten.
SlipSplitDropsLast(text) ==
    LET push(split) ==
            IF split.segment = << >> THEN split.segments
            ELSE Append(split.segments, split.segment)
        split[k \in 0..Len(text)] ==
            IF k = 0 THEN [segments |-> << >>, segment |-> << >>]
            ELSE IF text[k] = "/" THEN [segments |-> push(split[k - 1]), segment |-> << >>]
            ELSE [split[k - 1] EXCEPT !.segment = Append(@, text[k])]
    IN  split[Len(text)].segments

\* The loop over the characters, and the push behind it.
SplitPath(text) ==
    LET push(split) ==
            IF split.segment = << >> THEN split.segments
            ELSE Append(split.segments, split.segment)
        split[k \in 0..Len(text)] ==
            IF k = 0 THEN [segments |-> << >>, segment |-> << >>]
            ELSE IF text[k] = "/" THEN [segments |-> push(split[k - 1]), segment |-> << >>]
            ELSE [split[k - 1] EXCEPT !.segment = Append(@, text[k])]
    IN  push(split[Len(text)])

\* The segments of a path, that of a route and that of a request alike.
SegmentsOf(text) == SplitPath(NormalizePath(text))

-----------------------------------------------------------------------------
(* Parsing *)

\* PathParamRegistry::FindByName
FindByName(spec) == IF spec \in {<<type>> : type \in Types} THEN spec[1] ELSE "other"

\* A parameter stands between braces that have something between them; the name
\* ends at the first colon, and without a colon the type is the default one.
ParseParamSegment(segment) ==
    LET content == SubSeq(segment, 2, Len(segment) - 1)
        colon == SelectInSeq(content, LAMBDA token : token = ":")
    IN  IF Len(segment) < 3 \/ Head(segment) # "{" \/ Last(segment) # "}"
        THEN Static(segment)
        ELSE IF colon = 0 THEN Param(content, "string")
        ELSE Param(Prefix(content, colon - 1),
                   FindByName(SubSeq(content, colon + 1, Len(content))))

PatternOf(text) ==
    LET segments == SegmentsOf(text)
    IN  [k \in DOMAIN segments |-> ParseParamSegment(segments[k])]

-----------------------------------------------------------------------------
(* The public functions, with texts. *)

ASSUME PatternsOfTexts == \A text \in Texts : PatternOf(text) \in Patterns

AddRouteText(method, text) == AddRoute(method, PatternOf(text))

FindRouteText(method, text) == FindRoute(method, SegmentsOf(text))

\* The type of a parameter is left out.
SlipListNameOnly(edge) ==
    IF edge.kind = "static" THEN edge.word ELSE <<"{">> \o edge.name \o <<"}">>

ListEdge(edge) ==
    IF edge.kind = "static" THEN edge.word
    ELSE <<"{">> \o edge.name \o <<":", edge.type, "}">>

\* The path of a line: the walk puts a slash between segments, the line one in front.
ListPath(node) ==
    LET path[k \in 0..Len(node)] ==
            IF k = 0 THEN << >>
            ELSE IF path[k - 1] = << >> THEN ListEdge(node[k])
            ELSE path[k - 1] \o <<"/">> \o ListEdge(node[k])
    IN  <<"/">> \o path[Len(node)]

\* The walk comes to every node once, so there is a line per handler.
GetAllRoutes == {[method |-> handler[2], text |-> ListPath(handler[1])] : handler \in handlers}

TextNext == \E method \in Methods, text \in Texts : AddRouteText(method, text)

TextSpec == TrieInit /\ [][TextNext]_trieVars

-----------------------------------------------------------------------------
(* What the texts promise. *)

\* The listing says how each handler was registered: its lines, given to
\* AddRoute, are the routes that are in the table, no two of them the same line
\* (RouteTrie.cpp:62-86, 193-214).
ListingIsReadable ==
    /\ {<<PatternOf(line.text), line.method>> : line \in GetAllRoutes} = handlers
    /\ Cardinality(GetAllRoutes) = Cardinality(handlers)
=============================================================================
