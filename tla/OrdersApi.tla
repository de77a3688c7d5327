------------------------------ MODULE OrdersApi ------------------------------
(***************************************************************************)
(* The HTTP API of CreateOrdersService from end to end: the routes and     *)
(* handlers of OrdersController on the router, and the calls of            *)
(* OrdersClient as the requests they send.                                 *)
(***************************************************************************)
EXTENDS Router, TypedParams

CONSTANT Texts      \* what TestMethod is called with, split at its slashes

VARIABLE shown      \* the fields of the JSON body of the response each thread returns

apiVars == <<routerVars, shown>>

ASSUME MatchersAssumption ==
    /\ IntWords = {w \in Words : MatchInt(w)}
    /\ FloatWords = {w \in Words : MatchFloat(w)}
ASSUME TextsAssumption == Texts \subseteq Seq(Words)
ASSUME SpellingAssumption == Words \subseteq [number : Int] \cup [text : STRING]

Ints == Signed(IntBits)

\* What is an int is an int64_t.
ASSUME IntsAssumption == Ints \subseteq Signed(Int64Bits)

\* One key may come several times in a query: Route keeps its first value.
Request(method, path, query, body) ==
    [valid |-> TRUE, method |-> method, path |-> path, query |-> query, body |-> body]

NoQuery == << >>

\* "named": a JSON object whose "name" is a string; "other": any other text.
Bodies == {"none", "named", "other"}

-----------------------------------------------------------------------------
(* OrdersController::Routes. *)

Route(method, path, handler) == [method |-> method, path |-> path, handler |-> handler]

WithBase(base, routes) == [i \in DOMAIN routes |-> [routes[i] EXCEPT !.path = base \o @]]

\* GetById takes its id as a string, and its route says so.
SlipOrdersRoutes ==
    LET order == Param("order_id", "int")
        name == Static(Text("name"))
    IN  WithBase(<< Static(Text("orders")) >>,
            << Route("get", << >>, "List"),
               Route("post", << Static(Text("remove_all")) >>, "RemoveAll"),
               Route("get", << Param("order_id", "string") >>, "GetById"),
               Route("put", << order >>, "Update"),
               Route("delete", << order >>, "Delete"),
               Route("get", << order, name >>, "GetOrderName"),
               Route("put", << order, name >>, "UpdateOrderName"),
               Route("put", << order, name, Param("random_string", "string") >>,
                     "TestMethod") >>)

OrdersRoutes ==
    LET order == Param("order_id", "int")
        name == Static(Text("name"))
    IN  WithBase(<< Static(Text("orders")) >>,
            << Route("get", << >>, "List"),
               Route("post", << Static(Text("remove_all")) >>, "RemoveAll"),
               Route("get", << order >>, "GetById"),
               Route("put", << order >>, "Update"),
               Route("delete", << order >>, "Delete"),
               Route("get", << order, name >>, "GetOrderName"),
               Route("put", << order, name >>, "UpdateOrderName"),
               Route("put", << order, name, Param("random_string", "string") >>,
                     "TestMethod") >>)

\* main() has one controller.
ASSUME ServiceAssumption ==
    \E orders \in Controllers : Controllers = {orders} /\ Routes[orders] = OrdersRoutes

-----------------------------------------------------------------------------
(* The handlers of OrdersController. *)

\* Delete asks for a parameter that its route does not have.
SlipRequiresOtherName(handler) ==
    CASE handler = "GetById" -> {<<"order_id", "string">>}
      [] handler \in {"Update", "GetOrderName", "UpdateOrderName"} ->
            {<<"order_id", "int">>}
      [] handler = "Delete" -> {<<"id", "int">>}
      [] handler = "TestMethod" -> {<<"order_id", "int">>, <<"random_string", "string">>}
      [] OTHER -> {}

\* The parameters a handler requires, with their types.
Required(handler) ==
    CASE handler = "GetById" -> {<<"order_id", "string">>}
      [] handler \in {"Update", "Delete", "GetOrderName", "UpdateOrderName"} ->
            {<<"order_id", "int">>}
      [] handler = "TestMethod" -> {<<"order_id", "int">>, <<"random_string", "string">>}
      [] OTHER -> {}

Refused(handler, params) ==
    \E r \in Required(handler) : TryGet(params, r[1], r[2]) = {}

ValueOr(optional, default) == IF optional = {} THEN default ELSE CHOOSE v \in optional : TRUE

TruthText(b) == Text(IF b THEN "true" ELSE "false")

\* The body of the response when nothing required is missing.
Body(handler, params, request) ==
    LET int(name) == Number(ValueOr(TryGet(params, name, "int"), 0))
        asked(name, default) == Number(ValueOr(TryGet(request.query, name, "int"), default))
    IN  CASE handler = "List" -> [limit |-> asked("limit", 20), offset |-> asked("offset", 0)]
          [] handler = "RemoveAll" -> [removed |-> TruthText(TRUE)]
          [] handler = "GetById" -> [order_id |-> params["order_id"]]
          [] handler \in {"Update", "Delete"} -> [order_id |-> int("order_id")]
          [] handler = "GetOrderName" ->
                [order_id |-> int("order_id"),
                 random |-> TruthText(ValueOr(TryGet(request.query, "random", "bool"), FALSE))]
          [] handler = "UpdateOrderName" ->
                IF request.body = "named" THEN [order_id |-> int("order_id")]
                ELSE [error |-> Text("invalid_request_body")]
          [] handler = "TestMethod" ->
                [order_id |-> int("order_id"), random_string |-> params["random_string"]]

\* The handler that t is running, from its first statement to its response.  The
\* parameters are those Receive found: the table has not changed since.
OrdersReply(t) ==
    /\ worker[t].stage = "running"
    /\ LET request == worker[t].request
           handler == worker[t].entry.handler
           node == CHOOSE n \in FindRoute(request.method, request.path) : TRUE
           params == PathParams(node, request.path)
       IN  \/ /\ Refused(handler, params)
              /\ Reply(t, MapExceptionToHttpError("InvalidParameterException"))
              /\ shown' = [shown EXCEPT ![t] = << >>]
           \/ /\ ~Refused(handler, params)
              /\ Reply(t, "ok")
              /\ shown' = [shown EXCEPT ![t] = Body(handler, params, request)]

-----------------------------------------------------------------------------
(* OrdersClient: the request that each of its calls sends. *)

ClientCalls ==
    [op : {"GetOrders"}, limit : Ints, offset : Ints]
        \cup [op : {"GetOrderById", "DeleteOrder", "UpdateOrderName"}, order_id : Ints]
        \cup [op : {"RemoveAll"}]
        \cup [op : {"TestMethod"}, order_id : Ints, random_string : Texts]

OrdersPath(tail) == << Text("orders") >> \o tail

ClientRequest(call) ==
    CASE call.op = "GetOrders" ->
            Request("get", OrdersPath(<< >>),
                    [limit |-> Number(call.limit), offset |-> Number(call.offset)], "none")
      [] call.op = "GetOrderById" ->
            Request("get", OrdersPath(<< Number(call.order_id) >>), NoQuery, "none")
      [] call.op = "UpdateOrderName" ->
            Request("put", OrdersPath(<< Number(call.order_id), Text("name") >>),
                    NoQuery, "named")
      [] call.op = "DeleteOrder" ->
            Request("delete", OrdersPath(<< Number(call.order_id) >>), NoQuery, "none")
      [] call.op = "RemoveAll" ->
            Request("post", OrdersPath(<< Text("remove_all") >>), NoQuery, "none")
      [] call.op = "TestMethod" ->
            Request("put",
                    OrdersPath(<< Number(call.order_id), Text("name") >> \o call.random_string),
                    NoQuery, "none")

-----------------------------------------------------------------------------
(* main(): an exception of RegisterRoutes ends the process before it serves, *)
(* and the controller outlives the io threads.                               *)

ApiInit ==
    /\ RouterInit
    /\ owned = Controllers
    /\ shown = [t \in Threads |-> << >>]

\* main() registers its one controller once.
Register ==
    /\ calls = 0
    /\ \E c \in Controllers : RegisterRoutes(c)
    /\ UNCHANGED shown

\* The threads run before all the routes are registered.
SlipServeFirst ==
    /\ ~serving
    /\ serving' = TRUE
    /\ UNCHANGED <<trieVars, bound, registering, lifetimeVars, worker, shown>>

Serve ==
    /\ calls > 0
    /\ ~rejected
    /\ StartServing
    /\ UNCHANGED shown

ApiNext ==
    \/ Register
    \/ AddNextRoute /\ UNCHANGED shown
    \/ Serve
    \/ \E t \in Threads :
        \/ (\E request \in Requests : Receive(t, request)) /\ UNCHANGED shown
        \/ Lock(t) /\ UNCHANGED shown
        \/ OrdersReply(t)
        \/ Return(t) /\ shown' = [shown EXCEPT ![t] = << >>]

ApiSpec == ApiInit /\ [][ApiNext]_apiVars

-----------------------------------------------------------------------------
(* What the API promises. *)

\* The service is the router with one controller, which is never gone, so that
\* what is said of the router holds in the service (main.cpp:68-72).
ImplementsRouter == RouterSpec

\* The method of OrdersController that each method of OrdersClient is about.
Meant(op) ==
    CASE op = "GetOrders" -> "List"
      [] op = "GetOrderById" -> "GetById"
      [] op = "DeleteOrder" -> "Delete"
      [] OTHER -> op

\* A string that is empty or has slashes makes another path of TestMethod's.
OneSegment(call) == call.op = "TestMethod" => Len(call.random_string) = 1

\* A call of OrdersClient is answered by the method of OrdersController it
\* names, which has understood every argument: what the client formats, the
\* table matches as a 64-bit integer, the handler parses as an int and prints is
\* the same number, and its string is the one that was sent
\* (OrdersClient.cpp:18-47, OrdersController.hpp:12-21, OrdersController.cpp:8-83).
ClientIsUnderstood ==
    \A t \in Threads : \A call \in ClientCalls :
        /\ worker[t].stage = "answered"
        /\ worker[t].request = ClientRequest(call)
        /\ OneSegment(call)
        => /\ worker[t].code = "ok"
           /\ worker[t].by.handler = Meant(call.op)
           /\ "error" \notin DOMAIN shown[t]
           /\ \A field \in DOMAIN shown[t] \cap {"order_id", "limit", "offset"} :
                shown[t][field] = Number(call[field])
           /\ call.op = "TestMethod" => shown[t]["random_string"] = call.random_string[1]

\* An order_id is never misread.  What the table has matched as an int64_t and
\* the handler reads as an int is the number in the path, or the request is
\* refused, and refused only if int64_t can hold that number and int cannot
\* (PathParamType.hpp:17, OrdersController.cpp:34, 41, 48, 60, 76).
IdsAreReadOrRefused ==
    \A t \in Threads : worker[t].stage = "answered"
        => LET path == worker[t].request.path
           IN  /\ "order_id" \in DOMAIN shown[t] => shown[t]["order_id"] = path[2]
               /\ worker[t].code = "invalid_parameter"
                    => \E id \in Signed(Int64Bits) \ Ints : path[2] = Number(id)

\* No route hides another one: a request is answered by the one route it
\* matches, and told that there is none only if there is none
\* (OrdersController.hpp:12-21, RouteTrie.cpp:145-170).
NoRouteIsHidden ==
    \A t \in Threads : worker[t].stage = "answered" /\ worker[t].request.valid
        => \A c \in Controllers : \A i \in DOMAIN Routes[c] :
              LET route == Routes[c][i]
                  request == worker[t].request
              IN  request.method = route.method /\ Matches(route.path, request.path)
                    => /\ worker[t].code # "route_not_found"
                       /\ worker[t].by = Entry(c, route)
=============================================================================
