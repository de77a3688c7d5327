-------------------------------- MODULE Router --------------------------------
(***************************************************************************)
(* The router of common/http (Router.cpp, Router.hpp, IController.hpp,     *)
(* HttpErrorMapping.hpp): controllers register their routes in the routing *)
(* table, then any number of threads route requests at once.  The table is *)
(* constant by then; what the threads share is the lifetime of the         *)
(* controllers, which the table refers to by weak_ptr.                     *)
(***************************************************************************)
EXTENDS RouteTrie, FiniteSets

CONSTANTS
    Controllers,    \* the controller objects
    Routes,         \* Derived::Routes() of each: a sequence of [method, path, handler]
    Threads,        \* the threads that call Route
    Requests        \* [valid, method, path]: valid if parse_origin_form accepts it

ASSUME RoutesAssumption ==
    Routes \in [Controllers -> Seq([method : Methods, path : Patterns, handler : STRING])]
ASSUME RequestsAssumption == \A request \in Requests : request.path \in Paths
ASSUME ThreadsAssumption == IsFiniteSet(Threads)

VARIABLES
    bound,          \* the function that a <<node, method>> pair's handler calls
    registering,    \* what is left of the RegisterRoutes call being made
    serving,        \* requests are being routed
    owned,          \* the controllers whose owner still holds its shared_ptr
    refs,           \* the use count of each controller's shared_ptr
    worker          \* what each thread is doing

lifetimeVars == <<owned, refs>>
routerVars == <<trieVars, bound, registering, serving, lifetimeVars, worker>>

\* What the lambda of Router::AddRoute captures.
Entry(c, route) == [controller |-> c, handler |-> route.handler]

\* The turns of RegisterRoutes' loop, for every controller.
Registrations ==
    UNION {{[controller |-> c, route |-> Routes[c][i]] : i \in DOMAIN Routes[c]} :
               c \in Controllers}

Entries == {Entry(r.controller, r.route) : r \in Registrations}

\* The codes of the responses: "ok" stands for whatever a handler returns,
\* "http_exception" for whatever error an HttpException carries.
ExceptionCodes ==
    {"http_exception", "invalid_parameter", "invalid_argument", "out_of_range",
     "internal_error"}
Codes ==
    {"ok", "invalid_request_target", "route_not_found", "controller_unavailable"}
        \cup ExceptionCodes

\* "other": any other std::exception; "unknown": anything else that is thrown.
Exceptions ==
    {"HttpException", "InvalidParameterException", "std::invalid_argument",
     "std::out_of_range", "other", "unknown"}

MapExceptionToHttpError(ex) ==
    CASE ex = "HttpException" -> "http_exception"
      [] ex = "InvalidParameterException" -> "invalid_parameter"
      [] ex = "std::invalid_argument" -> "invalid_argument"
      [] ex = "std::out_of_range" -> "out_of_range"
      [] OTHER -> "internal_error"

-----------------------------------------------------------------------------
(* RegisterRoutes. *)

\* An object that no shared_ptr owns, or none any more, throws at once and
\* registers nothing.
RegisterRoutes(c) ==
    /\ ~serving
    /\ registering = << >>
    /\ refs[c] > 0
    /\ calls + Len(Routes[c]) <= MaxCalls
    /\ registering' = [i \in DOMAIN Routes[c] |-> [controller |-> c, route |-> Routes[c][i]]]
    /\ UNCHANGED <<trieVars, bound, serving, lifetimeVars, worker>>

\* The node has one handler for all methods.
SlipBindsEveryMethod(key, entry) ==
    bound' = [k \in handlers' |-> IF k[1] = key[1] THEN entry ELSE bound[k]]

\* handlers[method] = handler: a route registered again is replaced.
Bind(key, entry) ==
    bound' = [k \in handlers' |-> IF k = key THEN entry ELSE bound[k]]

\* One turn of the loop.  An exception of the table ends it, and what it has
\* registered stays.
AddNextRoute ==
    /\ registering # << >>
    /\ LET c == Head(registering).controller
           route == Head(registering).route
       IN  /\ AddRoute(route.method, route.path)
           /\ IF Accepted(route.path)
              THEN /\ Bind(<<route.path, route.method>>, Entry(c, route))
                   /\ registering' = Tail(registering)
              ELSE registering' = << >> /\ UNCHANGED bound
    /\ UNCHANGED <<serving, lifetimeVars, worker>>

StartServing ==
    /\ ~serving
    /\ registering = << >>
    /\ serving' = TRUE
    /\ UNCHANGED <<trieVars, bound, registering, lifetimeVars, worker>>

-----------------------------------------------------------------------------
(* Route. *)

Answer(request, code) == [stage |-> "answered", request |-> request, code |-> code]

Answered(request, code, entry) ==
    [stage |-> "answered", request |-> request, code |-> code, by |-> entry]

Handling(stage, request, entry) == [stage |-> stage, request |-> request, entry |-> entry]

\* The target is parsed and looked up; the handler found is copied.
Receive(t, request) ==
    /\ serving
    /\ worker[t].stage = "idle"
    /\ \/ /\ ~request.valid
          /\ worker' = [worker EXCEPT ![t] = Answer(request, "invalid_request_target")]
       \/ /\ request.valid
          /\ FindRoute(request.method, request.path) = {}
          /\ worker' = [worker EXCEPT ![t] = Answer(request, "route_not_found")]
       \/ /\ request.valid
          /\ \E node \in FindRoute(request.method, request.path) :
                worker' = [worker EXCEPT ![t] =
                    Handling("found", request, bound[<<node, request.method>>])]
    /\ UNCHANGED <<trieVars, bound, registering, serving, lifetimeVars>>

\* The controller is used without a shared_ptr of its own.
SlipUseUnlocked(t) ==
    /\ worker[t].stage = "found"
    /\ LET c == worker[t].entry.controller
       IN  IF refs[c] > 0
           THEN worker' = [worker EXCEPT ![t].stage = "running"]
           ELSE worker' = [worker EXCEPT ![t] =
                    Answered(@.request, "controller_unavailable", @.entry)]
    /\ UNCHANGED <<trieVars, bound, registering, serving, lifetimeVars>>

\* The lambda captures the controller's address.
SlipRawPointer(t) ==
    /\ worker[t].stage = "found"
    /\ worker' = [worker EXCEPT ![t].stage = "running"]
    /\ UNCHANGED <<trieVars, bound, registering, serving, lifetimeVars>>

\* use_count() != 1 is taken to mean that the owner has let go.
SlipBusyIsUnavailable(t) ==
    /\ worker[t].stage = "found"
    /\ LET c == worker[t].entry.controller
       IN  IF refs[c] = 1
           THEN /\ refs' = [refs EXCEPT ![c] = @ + 1]
                /\ worker' = [worker EXCEPT ![t].stage = "running"]
           ELSE /\ worker' = [worker EXCEPT ![t] =
                    Answered(@.request, "controller_unavailable", @.entry)]
                /\ UNCHANGED refs
    /\ UNCHANGED <<trieVars, bound, registering, serving, owned>>

\* The lambda of Router::AddRoute: the weak_ptr is locked for the handler.
Lock(t) ==
    /\ worker[t].stage = "found"
    /\ LET c == worker[t].entry.controller
       IN  IF refs[c] > 0
           THEN /\ refs' = [refs EXCEPT ![c] = @ + 1]
                /\ worker' = [worker EXCEPT ![t].stage = "running"]
           ELSE /\ worker' = [worker EXCEPT ![t] =
                    Answered(@.request, "controller_unavailable", @.entry)]
                /\ UNCHANGED refs
    /\ UNCHANGED <<trieVars, bound, registering, serving, owned>>

\* The handler is over, the lock is given back, and an exception has become a
\* response.
Reply(t, code) ==
    /\ worker[t].stage = "running"
    /\ refs' = [refs EXCEPT ![worker[t].entry.controller] = @ - 1]
    /\ worker' = [worker EXCEPT ![t] = Answered(@.request, code, @.entry)]
    /\ UNCHANGED <<trieVars, bound, registering, serving, owned>>

Handler(t) ==
    \/ Reply(t, "ok")
    \/ \E ex \in Exceptions : Reply(t, MapExceptionToHttpError(ex))

\* Route returns the response to its caller.
Return(t) ==
    /\ worker[t].stage = "answered"
    /\ worker' = [worker EXCEPT ![t] = [stage |-> "idle"]]
    /\ UNCHANGED <<trieVars, bound, registering, serving, lifetimeVars>>

\* The owner lets go of its controller, at any time but while registering it.
Release(c) ==
    /\ registering = << >>
    /\ c \in owned
    /\ owned' = owned \ {c}
    /\ refs' = [refs EXCEPT ![c] = @ - 1]
    /\ UNCHANGED <<trieVars, bound, registering, serving, worker>>

-----------------------------------------------------------------------------

\* Some of the controllers are managed by a shared_ptr.
RouterInit ==
    /\ TrieInit
    /\ bound = << >>
    /\ registering = << >>
    /\ serving = FALSE
    /\ owned \in SUBSET Controllers
    /\ refs = [c \in Controllers |-> IF c \in owned THEN 1 ELSE 0]
    /\ worker = [t \in Threads |-> [stage |-> "idle"]]

RouterNext ==
    \/ AddNextRoute
    \/ StartServing
    \/ \E c \in Controllers : RegisterRoutes(c) \/ Release(c)
    \/ \E t \in Threads :
        \/ \E request \in Requests : Receive(t, request)
        \/ Lock(t)
        \/ Handler(t)
        \/ Return(t)

RouterSpec == RouterInit /\ [][RouterNext]_routerVars

-----------------------------------------------------------------------------
(* What the router promises. *)

Running(c) ==
    {t \in Threads : worker[t].stage = "running" /\ worker[t].entry.controller = c}

\* The use count of a controller is what holds it: its owner and the handlers
\* that run on it.  So it is destroyed when the last of them is through, neither
\* under a running handler nor never (Router.hpp:19-27).
RefsAreExact ==
    \A c \in Controllers :
        refs[c] = Cardinality(Running(c)) + (IF c \in owned THEN 1 ELSE 0)

\* A request is told that its controller is unavailable only if the owner of
\* that very controller has released it (Router.hpp:20-25).
UnavailableMeansReleased ==
    \A t \in Threads :
        worker[t].stage = "answered" /\ worker[t].code = "controller_unavailable"
            => worker[t].by.controller \notin owned

\* Once its owner has let go of a controller and the last handler on it is through,
\* it is destroyed, and no handler of it starts any more, however many requests
\* have found their way to it by then (Router.hpp:19-27).
GoneForGood ==
    [][\A c \in Controllers : c \notin owned /\ Running(c) = {} => Running(c)' = {}]_routerVars

\* A request is answered by a handler whose own route it matches, in method and
\* in every segment, whatever was registered twice, replaced, rejected or left
\* half registered before (Router.cpp:25-34, IController.hpp:27-29).
AnsweredByItsRoute ==
    \A t \in Threads :
        worker[t].stage = "answered"
          /\ worker[t].code \notin {"invalid_request_target", "route_not_found"}
            => LET by == worker[t].by
                   request == worker[t].request
               IN  \E i \in DOMAIN Routes[by.controller] :
                    LET route == Routes[by.controller][i]
                    IN  /\ route.handler = by.handler
                        /\ route.method = request.method
                        /\ Matches(route.path, request.path)
=============================================================================
