------------------------------- MODULE MCRouter -------------------------------
(***************************************************************************)
(* Two controllers that claim the same route, one of them half rejected,   *)
(* and two threads that route requests while the owners let go of them.    *)
(***************************************************************************)
EXTENDS Router, TLC

CONSTANTS users, admin, t1, t2, list, seven, id, key

\* "7" is an integer, "list" is not.
MCWords == {list, seven}
MCIntWords == {seven}

ById == << Param(id, "int") >>
ByKey == << Param(key, "string") >>
ByOtherId == << Param(key, "int") >>
Listing == << Static(list) >>

Route(method, path, handler) == [method |-> method, path |-> path, handler |-> handler]

\* Both claim GET list.  If users come first, admin replaces that handler, then
\* takes another name for the type of a sibling, which the table rejects, and so
\* never adds Search; if admin comes first, users register nothing.
MCRoutes ==
    users :> << Route("get", ById, "GetById"), Route("post", ById, "Create"),
                Route("get", Listing, "List") >>
 @@ admin :> << Route("get", Listing, "Overview"), Route("post", ByOtherId, "Promote"),
                Route("get", ByKey, "Search") >>

MCPatterns == {ById, ByKey, ByOtherId, Listing}

MCRequests ==
    [valid : {TRUE}, method : {"get", "post"}, path : {<< list >>, << seven >>}]
        \cup [valid : {FALSE}, method : {"get"}, path : {<< >>}]

MCPaths == {request.path : request \in MCRequests}

Symmetry == Permutations(Threads)
=============================================================================
